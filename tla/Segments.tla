------------------------------ MODULE Segments ------------------------------
(***************************************************************************)
(* Segments of src/runtime/heap_concurrent.c: how they go from the pool to *)
(* the allocators and back, the allocation of blocks, the snapshot of the  *)
(* allocation pointers, and the reclaiming of blocks and segments while    *)
(* other allocators go on.                                                 *)
(*                                                                         *)
(* There is one block size.  Tracing is what module ConcurrentMark says it *)
(* does: when it ends, the live objects of this collection have their      *)
(* collect bit set, and the others are neither seen nor kept.  The         *)
(* handshake is reduced as in that module.                                 *)
(***************************************************************************)
EXTENDS Phases, Bitmap, Sequences

CONSTANTS
    Worker,
    Segment,
    Pool,       \* the owner of segments that belong to no allocator
    N,          \* num_blocks of a segment
    MaxGC,      \* bound: number of collections
    MaxRoom     \* bound: extension_room

ASSUME PoolAssumption == Pool \notin Worker
\* A segment has more than one block, as Layouts says
ASSUME SizeAssumption == N \in Nat \ {0, 1} /\ WordBits \in Nat \ {0} /\ N % WordBits # 0
ASSUME BoundAssumption == MaxGC \in Nat /\ MaxRoom \in Nat \ {0}

Block == 0 .. N - 1

VARIABLES
    seg,        \* seg[s]: owner, list, bitmaps, snapshot and free_count
    ptr,        \* ptr[w]: index of the block the allocation pointer is at
    live,       \* live objects, as pairs of a segment and a block
    room,       \* extension_room
    pc,         \* where the thread is in find_segment and below
    act,        \* what the worker does for the collection
    want,       \* the gc_count that sml_wait_gc waits for
    users,      \* "run", "ended", "empty" (worker->users), "none" (no worker)
    phase,
    sig, unsent, owing, gc_count

signal == <<sig, unsent, owing, gc_count>>
vars == <<seg, ptr, live, room, pc, act, want, users, phase, signal>>

\* A segment that init_segment has prepared, or that was never used
Clean == [own |-> Pool, list |-> "freelist", bm0 |-> Level0(N, {}),
          bm1 |-> Level1New(N), col |-> {}, snap |-> 0, free_count |-> N]

\* The rest of an initial state
Idle ==
    /\ room = [w \in Worker |-> MaxRoom]
    /\ act = [w \in Worker |-> "none"]
    /\ pc = [w \in Worker |-> "run"]
    /\ want = [w \in Worker |-> 0]
    /\ phase = [w \in Worker |-> ASYNC]
    /\ sig = PREASYNC /\ unsent = {} /\ owing = {} /\ gc_count = 0

\* The program starts: sml_heap_init
Fresh ==
    /\ seg = [s \in Segment |-> Clean]
    /\ ptr = [w \in Worker |-> 0]
    /\ live = {}
    /\ users = [w \in Worker |-> "none"]

\* The program has run for some collections: workers that are gone have left
\* segments with a live object in the pool, and worker v has started with a new
\* segment, c, since.  Another worker u may be about to be killed.
Worn == \E v, u \in Worker, c, d \in Segment :
    /\ v # u => c # d
    /\ seg = [s \in Segment |->
                 CASE s = c -> [Clean EXCEPT !.own = v, !.list = "current", !.snap = N]
                   [] s = d /\ v # u -> [Clean EXCEPT !.own = u, !.list = "current", !.snap = N]
                   [] OTHER -> [Clean EXCEPT !.list = "partial", !.bm0 = Level0(N, {0}),
                                             !.bm1 = Level1(N, {0}), !.free_count = N - 1]]
    /\ ptr = [w \in Worker |-> IF w \in {u, v} THEN 1 ELSE 0]
    /\ live = {<<s, 0>> : s \in Segment}
    /\ users = [w \in Worker |-> CASE w = v -> "run" [] w = u /\ u # v -> "empty"
                                   [] OTHER -> "none"]

Init == Idle /\ (Fresh \/ Worn)

Goto(w, l) == pc' = [pc EXCEPT ![w] = l]
In(w, l) == {s \in Segment : seg[s].own = w /\ seg[s].list = l}
Current(w) == CHOOSE s \in Segment : seg[s].own = w /\ seg[s].list = "current"
HasCurrent(w) == In(w, "current") # {}
Collecting == sig # PREASYNC \/ owing # {} \/ \E w \in Worker : act[w] = "gasync"
BeforeSnapshot(p) == ASYNC <= p /\ p <= PRESYNC2

-----------------------------------------------------------------------------
(***************************************************************************)
(* What happens to a segment                                               *)
(***************************************************************************)

\* copy_collect_bitmap and clear_collect_bitmap
CopyBits(r) == [r EXCEPT !.bm0 = Level0(N, r.col), !.bm1 = Level1(N, r.col)]
ClearBits(r) == [r EXCEPT !.col = {}]

\* free_count of a segment whose collect bitmap has been copied
FreeCount(r) == N - Cardinality(r.col)

\* set_alloc_ptr
SetCurrent(r, w, p) ==
    [r EXCEPT !.own = w, !.list = "current",
              !.snap = IF BeforeSnapshot(p) THEN N ELSE @]

\* release_alloc_ptr
SetFilled(r, p) ==
    [r EXCEPT !.list = "filled", !.snap = IF BeforeSnapshot(p) THEN N ELSE @]

\* Mutant: the snapshot is left at the end of the segment
ResetNot(r) == r

\* allocptr_snapshot of a segment that is to be taken again
Reset(r) == [r EXCEPT !.snap = 0]

Put(r, l) == [r EXCEPT !.list = l]
Counted(r) == [CopyBits(r) EXCEPT !.free_count = FreeCount(r)]

\* reclaim_subheap: a segment of subheap->partial
ReclaimPartial(r) ==
    IF FreeCount(r) = N THEN Put(Counted(r), "freelist") ELSE ClearBits(Counted(r))

\* ... the current segment.  Its free_count is an estimation, of the words
\* after the one the pointer is in.
ReclaimCurrent(r, p) ==
    LET b == CopyBits(r)
    IN  [ClearBits(b) EXCEPT
            !.snap = N,
            !.free_count = Cardinality((((p \div WordBits) + 1) * WordBits
                                          .. BitsFor(N) - 1) \ b.bm0)]

\* Mutant: the snapshot of a filled segment is not looked at
NewObjectsIgnored(r) == FALSE

\* The segment holds objects that are not of this collection
HasNewObjects(r) == r.snap < N

\* ... and one of subheap->filled
ReclaimFilled(r) ==
    LET c == Counted(r)
    IN  IF HasNewObjects(r) \/ c.free_count = 0 THEN [ClearBits(c) EXCEPT !.snap = N]
        ELSE IF c.free_count = N THEN Reset(Put(c, "freelist"))
        ELSE Reset(ClearBits(Put(c, "partial")))

\* reclaim_subpool: a segment of partial_marked or filled
ReclaimPooled(r) ==
    LET c == Reset(Counted(r))
    IN  IF c.free_count = N THEN Put(c, "freelist")
        ELSE ClearBits(IF c.free_count = 0 /\ r.list = "filled" THEN c
                       ELSE Put(c, "partial"))

-----------------------------------------------------------------------------
(***************************************************************************)
(* Allocation                                                              *)
(***************************************************************************)

\* find_bitmap, or the fast path of sml_alloc, in the current segment
Found(w) ==
    IF HasCurrent(w)
    THEN find_bitmap(N, seg[Current(w)].bm0, seg[Current(w)].bm1, ptr[w])
    ELSE NotFound

\* Block i of segment s is given to the program
Give(w, s, i) ==
    /\ live' = live \cup {<<s, i>>}
    /\ ptr' = [ptr EXCEPT ![w] = i + 1]

sml_alloc(w) ==
    /\ pc[w] = "run" /\ users[w] = "run" /\ act[w] = "none"
    /\ Found(w) # NotFound
    /\ Give(w, Current(w), Found(w))
    /\ UNCHANGED <<seg, room, pc, act, want, users, phase, signal>>

\* The lists get_segment_from_pool takes a segment of in phase p
PoolLists(p) == {"partial"} \cup IF p \in {MARK, ASYNC, PREASYNC} THEN {"partial_marked"} ELSE {}

\* Mutant: a segment of partial_marked is used as it is
PreparedDirty(r, p) == r

\* A segment of partial_marked is prepared by a worker that has reclaimed
Prepared(r, p) ==
    IF r.list = "popped" /\ p = ASYNC THEN ClearBits(CopyBits(r)) ELSE r

\* The lists that try_find_segment looks at in phase p, in this order: the
\* allocator's own, and if it may extend, the pool's and new memory
Lists(w, p) ==
    LET more(segments) == IF room[w] > 0 THEN segments ELSE {}
    IN  <<In(w, "partial"), more(In(w, "freelist")), more(In(Pool, "partial")),
          IF "partial_marked" \in PoolLists(p) THEN more(In(Pool, "partial_marked")) ELSE {},
          more(In(Pool, "freelist"))>>

\* The first of them that is not empty
Sources(w, p) ==
    LET some == {i \in DOMAIN Lists(w, p) : Lists(w, p)[i] # {}}
    IN  IF some = {} THEN {} ELSE Lists(w, p)[Min(some)]

\* The segment that is current now is filled
Release(w, p) ==
    IF HasCurrent(w) THEN [seg EXCEPT ![Current(w)] = SetFilled(@, p)] ELSE seg

\* s becomes the current segment and its first free block is allocated
Take(w, s, p) ==
    LET new == SetCurrent(Prepared(seg[s], p), w, p)
    IN  /\ seg' = [Release(w, p) EXCEPT ![s] = new]
        /\ Give(w, s, find_bitmap(N, new.bm0, new.bm1, 0))

\* The thread has found no block in its current segment, and has waited for
\* the collections it waits for
Searching(w) ==
    /\ users[w] = "run" /\ act[w] = "none" /\ Found(w) = NotFound
    /\ \/ pc[w] = "run"
       \/ pc[w] \in {"wait1", "wait2"} /\ gc_count >= want[w]

Issue(w, p) ==
    /\ sig' = p
    /\ unsent' = {v \in Worker : users[v] # "none"}
    /\ owing' = unsent'
    /\ act' = [act EXCEPT ![w] = "send"]

\* sml_gc starts a collection
StartGC(w) ==
    /\ ~Collecting /\ gc_count < MaxGC
    /\ Issue(w, PRESYNC1)

\* A segment becomes the current one.  When the one that was current makes the
\* number of filled ones reach the threshold, a collection is started.
try_find_segment(w) ==
    \E s \in Sources(w, phase[w]) :
        /\ Searching(w)
        /\ room' = IF seg[s].own = w /\ seg[s].list = "partial"
                   THEN room ELSE [room EXCEPT ![w] = @ - 1]
        /\ (HasCurrent(w) /\ StartGC(w)) \/ UNCHANGED <<act, sig, unsent, owing>>
        /\ IF seg[s].list = "partial_marked"
           THEN /\ seg' = [Release(w, phase[w]) EXCEPT ![s].own = w, ![s].list = "popped"]
                /\ Goto(w, "popped")
                /\ UNCHANGED <<live, ptr>>
           ELSE /\ Take(w, s, phase[w])
                /\ Goto(w, "run")
        /\ UNCHANGED <<want, users, phase, gc_count>>

\* The rest of get_segment_from_pool for a segment of partial_marked: the
\* phase is loaded again
take_popped(w) ==
    \E s \in In(w, "popped") :
        /\ Take(w, s, phase[w])
        /\ Goto(w, "run")
        /\ UNCHANGED <<room, act, want, users, phase, signal>>

-----------------------------------------------------------------------------
(***************************************************************************)
(* Collections                                                             *)
(***************************************************************************)
\* sml_gc is also called when a signal arrives
sml_gc(w) ==
    /\ pc[w] = "run" /\ users[w] = "run" /\ act[w] = "none"
    /\ StartGC(w)
    /\ UNCHANGED <<seg, ptr, live, room, pc, want, users, phase, gc_count>>

\* find_segment: there is no segment, so sml_wait_gc is called, twice at most
sml_wait_gc(w) ==
    /\ Searching(w) /\ Sources(w, phase[w]) = {}
    /\ seg' = Release(w, phase[w])
    /\ Goto(w, CASE pc[w] = "run" -> "wait1" [] pc[w] = "wait1" -> "wait2"
                  [] pc[w] = "wait2" -> "fatal")
    /\ want' = [want EXCEPT ![w] = gc_count + 1]
    /\ IF Collecting \/ pc[w] = "wait2"
       THEN UNCHANGED <<act, sig, unsent, owing>> ELSE StartGC(w)
    /\ UNCHANGED <<ptr, live, room, users, phase, gc_count>>

\* sml_heap_worker_kill: everything goes to the list of filled segments, and
\* the freelist to the freelist
Killed(v) ==
    [s \in Segment |->
        IF seg[s].own # v THEN seg[s]
        ELSE [seg[s] EXCEPT !.own = Pool, !.list = IF @ = "freelist" THEN @ ELSE "filled"]]

\* One iteration of change_phase; a worker whose thread has ended and whose
\* users are gone is killed when SYNC1 is sent
change_phase(w) ==
    \E v \in unsent :
        /\ act[w] = "send"
        /\ unsent' = unsent \ {v}
        /\ act' = IF unsent = {v} THEN [act EXCEPT ![w] = "none"] ELSE act
        /\ IF sig = PRESYNC1 /\ users[v] = "empty"
           THEN /\ seg' = Killed(v)
                /\ users' = [users EXCEPT ![v] = "none"]
                /\ owing' = owing \ {v}
                /\ UNCHANGED phase
           ELSE phase' = [phase EXCEPT ![v] = sig] /\ UNCHANGED <<seg, users, owing>>
        /\ UNCHANGED <<ptr, live, room, pc, want, sig, gc_count>>

Accepts(w, p) ==
    /\ phase[w] = p /\ act[w] = "none" /\ users[w] # "none"
    /\ pc[w] \in {"run", "wait1", "wait2"}
    /\ phase' = [phase EXCEPT ![w] = Accept(@)]

Answer(w, p) ==
    IF owing = {w} THEN Issue(w, p)
    ELSE owing' = owing \ {w} /\ UNCHANGED <<sig, unsent, act>>

worker_sync1(w) ==
    /\ Accepts(w, PRESYNC1)
    /\ Answer(w, PRESYNC2)
    /\ UNCHANGED <<seg, ptr, live, room, pc, want, users, gc_count>>

\* What take_allocptr_snapshot saves
Snapshot(w) == ptr[w]

\* sml_heap_worker_sync2, and ended users are dropped from worker->users
worker_sync2(w) ==
    /\ Accepts(w, PRESYNC2)
    /\ seg' = IF HasCurrent(w) THEN [seg EXCEPT ![Current(w)].snap = Snapshot(w)] ELSE seg
    /\ users' = [users EXCEPT ![w] = IF @ = "ended" THEN "empty" ELSE @]
    /\ Answer(w, PREMARK)
    /\ UNCHANGED <<ptr, live, room, pc, want, gc_count>>

\* Objects of this collection: object_stack_slot
Target == {o \in live : o[2] \in seg[o[1]].bm0 \/ o[2] < seg[o[1]].snap}

\* Tracing has ended with the bits of the objects in kept set; the others of
\* this collection are dead.  sml_heap_global_before_async moves partial to
\* partial_marked.
worker_mark(w) ==
    \E kept \in SUBSET Target :
        /\ Accepts(w, PREMARK)
        /\ IF owing = {w}
           THEN /\ live' = (live \ Target) \cup kept
                /\ seg' = [s \in Segment |->
                      LET r == [seg[s] EXCEPT !.col = @ \cup {o[2] : o \in {x \in kept : x[1] = s}}]
                      IN  IF r.own = Pool /\ r.list = "partial" THEN Put(r, "partial_marked") ELSE r]
           ELSE kept = {} /\ UNCHANGED <<live, seg>>
        /\ Answer(w, PREASYNC)
        /\ UNCHANGED <<ptr, room, pc, want, users, gc_count>>

\* sml_heap_worker_async, reclaim_heap: what was in the freelist before goes to
\* the pool, and extension_room is computed anew, at least 1
worker_async(w) ==
    \E r \in 1 .. MaxRoom :
        /\ Accepts(w, PREASYNC)
        /\ seg' = [s \in Segment |->
              IF seg[s].own # w THEN seg[s]
              ELSE CASE seg[s].list = "freelist" -> [seg[s] EXCEPT !.own = Pool]
                     [] seg[s].list = "partial" -> ReclaimPartial(seg[s])
                     [] seg[s].list = "current" -> ReclaimCurrent(seg[s], ptr[w])
                     [] seg[s].list = "filled" -> ReclaimFilled(seg[s])]
        /\ room' = [room EXCEPT ![w] = r]
        /\ owing' = owing \ {w}
        /\ act' = IF owing = {w} THEN [act EXCEPT ![w] = "gasync"] ELSE act
        /\ UNCHANGED <<ptr, live, pc, want, users, sig, unsent, gc_count>>

\* sml_heap_global_async: the segments of partial_marked are taken one by one,
\* as the others may take them too; the list of filled ones is the pool's own
sml_heap_global_async(w) ==
    LET marked == In(Pool, "partial_marked")
        filled == In(Pool, "filled")
    IN  /\ act[w] = "gasync"
        /\ \/ \E s \in marked :
                 /\ seg' = [seg EXCEPT ![s] = ReclaimPooled(@)]
                 /\ UNCHANGED <<act, gc_count>>
           \/ /\ marked = {}
              /\ seg' = [s \in Segment |-> IF s \in filled THEN ReclaimPooled(seg[s]) ELSE seg[s]]
              /\ act' = [act EXCEPT ![w] = "none"]
              /\ gc_count' = gc_count + 1
        /\ UNCHANGED <<ptr, live, room, pc, want, users, phase, sig, unsent, owing>>

-----------------------------------------------------------------------------
(***************************************************************************)
(* Workers come and go                                                     *)
(***************************************************************************)

\* sml_heap_worker_init: the allocator is put in a segment taken with
\* DUMMY_PHASE
sml_heap_worker_init(w) ==
    LET lists == <<In(Pool, "partial"), In(Pool, "freelist")>>
        some == {i \in 1 .. 2 : lists[i] # {}}
    IN  /\ users[w] = "none" /\ pc[w] = "run"
        /\ some # {}
        /\ \E s \in lists[Min(some)] :
              /\ seg' = [seg EXCEPT ![s].own = w, ![s].list = "current"]
              /\ Give(w, s, find_bitmap(N, seg[s].bm0, seg[s].bm1, 0))
        /\ Goto(w, "register")
        /\ UNCHANGED <<room, act, want, users, phase, signal>>

\* Mutant: the snapshot is left as it was when the segment was taken
SnapshotOfPool(snap, p) == snap

\* allocptr_snapshot of the first segment after sml_heap_worker_register
RegisteredSnapshot(snap, p) == IF BeforeSnapshot(p) THEN N ELSE snap

\* register_worker and sml_heap_worker_register
sml_heap_worker_register(w) ==
    /\ pc[w] = "register"
    /\ phase' = [phase EXCEPT ![w] = Accept(sig)]
    /\ seg' = [seg EXCEPT ![Current(w)].snap = RegisteredSnapshot(@, Accept(sig))]
    /\ users' = [users EXCEPT ![w] = "run"]
    /\ room' = [room EXCEPT ![w] = MaxRoom]
    /\ Goto(w, "run")
    /\ UNCHANGED <<ptr, live, act, want, signal>>

\* The last user of w ends and its thread is cancelled
end(w) ==
    /\ users[w] = "run" /\ pc[w] = "run" /\ act[w] = "none"
    /\ users' = [users EXCEPT ![w] = "ended"]
    /\ UNCHANGED <<seg, ptr, live, room, pc, act, want, phase, signal>>

-----------------------------------------------------------------------------
Next == \E w \in Worker :
    \/ sml_alloc(w) \/ try_find_segment(w) \/ take_popped(w) \/ sml_wait_gc(w)
    \/ sml_gc(w) \/ change_phase(w) \/ worker_sync1(w) \/ worker_sync2(w)
    \/ worker_mark(w) \/ worker_async(w) \/ sml_heap_global_async(w)
    \/ sml_heap_worker_init(w) \/ sml_heap_worker_register(w) \/ end(w)

Spec == Init /\ [][Next]_vars

-----------------------------------------------------------------------------
SegmentType ==
    [own : Worker \cup {Pool},
     list : {"freelist", "partial", "partial_marked", "filled", "current", "popped"},
     bm0 : SUBSET (0 .. BitsFor(N)), bm1 : SUBSET (0 .. BitsFor(Words(N))),
     col : SUBSET Block, snap : 0 .. N, free_count : 0 .. N]

\* Types of all variables
TypeOK ==
    /\ seg \in [Segment -> SegmentType]
    /\ ptr \in [Worker -> 0 .. N]
    /\ live \subseteq Segment \X Block
    /\ room \in [Worker -> 0 .. MaxRoom]
    /\ pc \in [Worker -> {"run", "wait1", "wait2", "popped", "register", "fatal"}]
    /\ act \in [Worker -> {"none", "send", "gasync"}]
    /\ want \in [Worker -> 0 .. MaxGC + 1]
    /\ users \in [Worker -> {"run", "ended", "empty", "none"}]
    /\ phase \in [Worker -> Phase]
    /\ sig \in Phase /\ unsent \subseteq Worker /\ owing \subseteq Worker
    /\ gc_count \in 0 .. MaxGC

\* Blocks of segment s that an allocation may return before the segment is
\* reclaimed again
MayReturn(s) ==
    LET r == seg[s]
    IN  CASE r.list = "current" -> {i \in Block : i >= ptr[r.own] /\ i \notin r.bm0}
          [] r.list \in {"partial", "popped"} -> Block \ r.bm0
          [] r.list = "partial_marked" -> Block \ (r.bm0 \cap r.col)
          [] r.list = "freelist" -> Block
          [] r.list = "filled" -> {}

\* No allocation of any worker returns the block of a live object, in whatever
\* list the segment is and whichever phase the worker is in
LiveNotReturned == \A o \in live : o[2] \notin MayReturn(o[1])

\* What init_segment and set_alloc_ptr assert of the segments they get: a
\* segment of a freelist is as new, and one with free blocks has its snapshot
\* at its first block
ReadyToUse ==
    \A s \in Segment :
        /\ seg[s].list = "freelist" =>
               /\ seg[s].free_count = N /\ seg[s].snap = 0
               /\ seg[s].bm0 \cap Block = {} /\ seg[s].col = {}
        /\ seg[s].list \in {"partial", "partial_marked", "popped"} =>
               seg[s].snap = 0 /\ ~(Block \subseteq seg[s].bm0)

\* find_bitmap finds the first free block, for bitmaps of several words, copied
\* and new
FindsFirst ==
    \A n \in {m \in 1 .. 7 : m % WordBits # 0} :
        /\ \A used \in SUBSET (0 .. n - 1), k \in 0 .. n :
              find_bitmap(n, Level0(n, used), Level1(n, used), k) = FirstFree(n, used, k)
        /\ \A k \in 0 .. n :
              find_bitmap(n, Level0(n, {}), Level1New(n), k) = FirstFree(n, {}, k)

\* The layouts of segments of a 64-bit build
Real == INSTANCE Bitmap WITH WordBits <- 32

\* A segment has more than one block, for no block size is the number of blocks a
\* multiple of the number of bits of a word (then the last word would hold
\* sentinels only, which bitmap[1] of a new segment does not say), and the first
\* guess of compute_segment_layout loses no block
Layouts ==
    \A size \in Real!BlockSizes :
        LET n == Real!NumBlocks(size)
        IN  n > 1 /\ n % 32 # 0 /\ Real!BlockLimit(n + 1, size) > Real!SegmentSize

\* find_bitmap finds the first free block, or none when there is none: in the
\* segments, whatever has happened to their two bitmaps, and in all bitmaps of
\* up to 7 blocks; and the segments of the build are of the kind it is right for
FindBitmapFirst ==
    /\ FindsFirst /\ Layouts
    /\ \A s \in Segment, k \in 0 .. N :
          find_bitmap(N, seg[s].bm0, seg[s].bm1, k) = FirstFree(N, seg[s].bm0, k)

=============================================================================
