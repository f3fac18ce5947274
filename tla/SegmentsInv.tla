----------------------------- MODULE SegmentsInv -----------------------------
(***************************************************************************)
(* The inductive invariant of module Segments.  The life of a segment has  *)
(* two parts.  From the end of tracing until its owner, or the pool,       *)
(* reclaims it, its collect bits are those of the live objects of this     *)
(* collection.  The rest of the time they are clear, and bitmap[0], the    *)
(* allocation pointer and the snapshot together tell the live objects from *)
(* the free blocks.                                                        *)
(*                                                                         *)
(* There are two ways in which a segment misses that it is reclaimed.  A   *)
(* history variable, stale, has the segments that do, until they are       *)
(* reclaimed by the next collection.                                       *)
(***************************************************************************)
EXTENDS Segments

VARIABLE
    stale       \* segments with the collect bits of a collection that is over

\* A segment taken from partial_marked while its worker was in ASYNC, and not
\* looked at again before the next collection has reached the worker
TakenLate(s) ==
    /\ seg[s].list = "popped" /\ seg'[s].list = "current"
    /\ phase[seg[s].own] = PRESYNC1

\* A segment of a thread that has passed sml_heap_worker_init and has not come to
\* register_worker when tracing ends.  It registers in ASYNC.
HeldByNew(s) ==
    /\ sig = PREMARK /\ sig' = PREASYNC
    /\ seg[s].own # Pool /\ users[seg[s].own] = "none"

\* The segments of stale keep their bits, until they are reclaimed
Watch ==
    stale' = {s \in Segment : /\ s \in stale \/ TakenLate(s) \/ HeldByNew(s)
                              /\ seg'[s].col # {}}

\* Segments, with that history
watchedVars == <<vars, stale>>
WatchedSpec == Init /\ stale = {} /\ [][Next /\ Watch]_watchedVars

Registered(w) == users[w] # "none"

\* The phase of a worker that has not got signal p
Before(p) == IF p = PREASYNC THEN MARK ELSE p - 1

\* One signal at a time: who has not got it, who has not answered, and who has.
\* A worker that is not registered has been killed in ASYNC, or is new.
Signals ==
    /\ sig \in {PREASYNC, PRESYNC1, PRESYNC2, PREMARK}
    /\ unsent \subseteq owing
    /\ \A w \in Worker :
        /\ w \in owing => Registered(w)
        /\ w \in unsent => phase[w] = Before(sig)
        /\ w \in owing \ unsent => phase[w] = sig
        /\ w \notin owing => phase[w] = IF Registered(w) THEN sig + 1 ELSE ASYNC
        /\ act[w] = "send" => /\ w \in owing /\ unsent # {}
                              /\ users[w] = "run" \/ sig # PRESYNC1
        /\ act[w] = "gasync" => sig = PREASYNC /\ owing = {}
        /\ \A v \in Worker : act[w] = act[v] /\ act[w] # "none" => w = v
    /\ unsent # {} => \E w \in Worker : act[w] = "send"
    /\ Collecting => gc_count < MaxGC

\* Where a worker is while it has users, and while it has none
Workers ==
    \A w \in Worker :
        /\ pc[w] = "register" => ~Registered(w) /\ HasCurrent(w)
        /\ users[w] # "run" => pc[w] \in {"run", "register"}
        /\ pc[w] = "popped" =>
              \/ sig = PREASYNC
              \/ sig = PRESYNC1 /\ w \in owing

\* Live objects of segment s
Objects(s) == {i \in Block : <<s, i>> \in live}

\* The collect bits of segment s are those of the last trace
Unreclaimed(s) ==
    LET r == seg[s]
    IN  \/ r.list = "popped"
        \/ /\ sig = PREASYNC
           /\ \/ r.list = "partial_marked"
              \/ r.list = "filled" /\ r.own = Pool /\ Collecting
              \/ r.own # Pool /\ phase[r.own] \in {MARK, PREASYNC}

\* bitmap[1] says what bitmap[0] says
BitsOK(r) ==
    /\ r.bm0 = Level0(N, r.bm0 \cap Block)
    /\ r.bm1 = Level1(N, r.bm0 \cap Block)

\* The list a segment is in, and whose it is
ListOK(s) ==
    LET r == seg[s]
    IN  /\ r.own = Pool => r.list \notin {"current", "popped"}
        /\ r.own # Pool => /\ r.list # "partial_marked"
                           /\ ~Registered(r.own) => r.list = "current" /\ pc[r.own] = "register"
        /\ r.list = "popped" => pc[r.own] = "popped"
        /\ r.list \in {"current", "popped"} =>
              \A t \in Segment : seg[t].list = r.list /\ seg[t].own = r.own => t = s

\* Between the end of tracing and reclaiming, the pool has no partial segment
\* that is not marked
PoolOK(s) ==
    LET r == seg[s]
    IN  /\ r.list = "partial_marked" => sig = PREASYNC /\ Collecting
        /\ r.own = Pool /\ r.list = "partial" => sig # PREASYNC \/ owing = {}

\* Live objects and free blocks
BlocksOK(s) ==
    LET r == seg[s]
    IN  /\ r.list = "freelist" => /\ Objects(s) = {} /\ r.bm0 \cap Block = {}
                                  /\ r.snap = 0 /\ r.free_count = N
        /\ r.list \in {"partial", "partial_marked", "popped"} =>
              r.snap = 0 /\ Objects(s) \subseteq r.bm0 /\ ~(Block \subseteq r.bm0)
        /\ r.list = "current" => \A i \in Objects(s) : i \in r.bm0 \/ i < ptr[r.own]

\* Which of the objects are of this collection
SnapshotOK(s) ==
    LET r == seg[s]
        taken == ~BeforeSnapshot(phase[r.own])
    IN  IF r.own = Pool
        THEN r.list = "filled" => r.snap = N \/ Objects(s) \subseteq r.bm0
        ELSE IF ~Registered(r.own) THEN r.snap = 0
        ELSE /\ ~taken /\ r.list \in {"current", "filled"} => r.snap = N
             /\ taken /\ r.list = "current" => r.snap <= ptr[r.own]

\* Collect bits
CollectOK(s) ==
    LET r == seg[s]
    IN  /\ Unreclaimed(s) => \A i \in Objects(s) : i \in r.col \/ (i \notin r.bm0 /\ i >= r.snap)
        /\ s \notin stale => IF Unreclaimed(s) THEN r.col \subseteq Objects(s) ELSE r.col = {}
        /\ s \in stale => r.list \in {"current", "filled"}

SegmentOK(s) ==
    /\ BitsOK(seg[s]) /\ ListOK(s) /\ PoolOK(s)
    /\ BlocksOK(s) /\ SnapshotOK(s) /\ CollectOK(s)

IInv == TypeOK /\ Signals /\ Workers /\ \A s \in Segment : SegmentOK(s)

\* get_segment_from_pool relies on it: from its ASYNC action to its next SYNC1
\* action, all segments of a worker have their collect bits clear, though
\* segments of the pool, whose bits are cleared later, come to it at any time;
\* between two collections those of the pool are clear, too.  A stale bit makes
\* the next collection take an object for one that is traced already.  The only
\* segments that have any are those of stale, which a thread held in the middle
\* of taking them when they had to be cleared.
CollectBitsClear ==
    \A s \in Segment \ stale :
        LET w == seg[s].own
        IN  /\ seg[s].list # "popped"
            /\ IF w = Pool THEN ~Collecting
               ELSE users[w] # "none" /\ phase[w] \in {ASYNC, PRESYNC1}
            => seg[s].col = {}

=============================================================================
