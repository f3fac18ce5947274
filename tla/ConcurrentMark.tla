--------------------------- MODULE ConcurrentMark ---------------------------
(***************************************************************************)
(* Marking and reclaiming of src/runtime/heap_concurrent.c: the mutators'  *)
(* write barrier, the enumeration of their roots, tracing, the end of      *)
(* tracing, and the release of unmarked objects, while mutators go on.     *)
(*                                                                         *)
(* The handshake of control.c is reduced to what module Handshake shows of *)
(* it: one thread at a time sends a signal to the workers one by one, and  *)
(* the next signal is sent when all workers have ended their actions.      *)
(* Helpers execute the action of a worker whose thread is outside ML code, *)
(* so here an action is a step of the worker.                              *)
(*                                                                         *)
(* An object is a block with one pointer field; its owner is the allocator *)
(* whose segment it is in.  Objects of more than BLOCKSIZE_MAX bytes       *)
(* (struct malloc_segment) are marked and reclaimed in the same way.       *)
(***************************************************************************)
EXTENDS Phases, FiniteSets

CONSTANTS
    Worker,     \* the workers, each running one mutator
    Block,      \* the blocks objects are allocated in
    Null,
    MaxGC       \* bound: number of collections

ASSUME NullAssumption == Null \notin Block \cup Worker
ASSUME WorkerAssumption == IsFiniteSet(Worker) /\ Worker # {}
ASSUME BoundAssumption == MaxGC \in Nat

Value == Block \cup {Null}

\* The heap
VARIABLES
    used,       \* blocks that hold an object
    owner,      \* owner[o]: the worker whose allocator object o belongs to
    fld,        \* fld[o]: the pointer field of o
    global,     \* objects that global variables refer to
    target,     \* bitmap[0] is set, or the block is below allocptr_snapshot
    mark        \* bits of the collect bitmaps

\* The mutators and allocators
VARIABLES
    root,       \* root[w]: objects that the stack frames of w refer to
    root_set,   \* alloc->root_set
    remembered, \* alloc->remembered_set
    stack,      \* stack_top of trace
    pc,
    arg         \* arguments and local variables of sml_write and sml_cmpswap

\* The handshake
VARIABLES
    phase,      \* phase[w]: worker->state
    sig,        \* the signal of the current handshake
    unsent,     \* workers that change_phase has not signalled yet
    owing,      \* workers that have not answered the signal
    genum,      \* the worker with GLOBALENUM_FLAG, or Null
    toSee,      \* allocators sml_heap_mark_finish has not looked at yet ...
    round,      \* ... for the first or second time
    gc_count

heap == <<used, owner, fld, target, global>>
allocator == <<root_set, remembered, stack>>
signal == <<sig, unsent, owing, genum, gc_count>>
finish == <<toSee, round>>
vars == <<heap, mark, root, allocator, pc, arg, phase, signal, finish>>

NoArg == [obj |-> Null, new |-> Null, old |-> Null, cas |-> FALSE]

Goto(w, l) == pc' = [pc EXCEPT ![w] = l]

\* Between two collections the heap is any heap in which every object is
\* reachable from the roots of the mutators, and all collect bits are clear
Init ==
    /\ used \in SUBSET Block
    /\ owner \in [Block -> Worker \cup {Null}]
    /\ \A o \in Block : o \in used <=> owner[o] # Null
    /\ fld \in [Block -> used \cup {Null}]
    /\ \A o \in Block \ used : fld[o] = Null
    /\ root \in [Worker -> SUBSET used]
    /\ global \in SUBSET used
    /\ \A o \in used : \/ \E w \in Worker : o \in root[w]
                       \/ o \in global
                       \/ \E p \in used \ {o} : fld[p] = o
    /\ target = used
    /\ mark = {}
    /\ root_set = [w \in Worker |-> {}]
    /\ remembered = [w \in Worker |-> {}]
    /\ stack = [w \in Worker |-> {}]
    /\ pc = [w \in Worker |-> "run"]
    /\ arg = [w \in Worker |-> NoArg]
    /\ phase = [w \in Worker |-> ASYNC]
    /\ sig = PREASYNC
    /\ unsent = {}
    /\ owing = {}
    /\ genum = Null
    /\ toSee = {}
    /\ round = 0
    /\ gc_count = 0

-----------------------------------------------------------------------------
(***************************************************************************)
(* visit and remember.  A mutator runs the barrier while others trace, so  *)
(* setting the bit and linking the object are two steps.                   *)
(***************************************************************************)

\* visit returns a slot: o is an object of this collection and its collect bit,
\* which visit then sets, is clear
Markable(o) == o \in target /\ o \notin mark

\* visit(o) followed by control at l1 if it returned a slot, otherwise at l2
Visit(w, o, l1, l2) ==
    IF Markable(o)
    THEN mark' = mark \cup {o} /\ Goto(w, l1)
    ELSE mark' = mark /\ Goto(w, l2)

Push(w, o) == remembered' = [remembered EXCEPT ![w] = @ \cup {o}]

-----------------------------------------------------------------------------
(***************************************************************************)
(* Mutators                                                                *)
(***************************************************************************)

\* Mutant: objects allocated after the snapshot are objects of this collection
AllocatesTargetLate(p) == p >= ASYNC /\ p <= PREMARK

\* set_alloc_ptr, release_alloc_ptr and take_allocptr_snapshot: an object is
\* below allocptr_snapshot iff it is allocated before the SYNC2 action
AllocatesTarget(p) == p >= ASYNC /\ p <= PRESYNC2

\* sml_alloc, and the initialisation of the object by compiled code
sml_alloc(w) ==
    \E o \in Block \ used, v \in root[w] \cup {Null} :
        /\ pc[w] = "run"
        /\ used' = used \cup {o}
        /\ owner' = [owner EXCEPT ![o] = w]
        /\ fld' = [fld EXCEPT ![o] = v]
        /\ target' = IF AllocatesTarget(phase[w]) THEN target \cup {o} ELSE target
        /\ root' = [root EXCEPT ![w] = @ \cup {o}]
        /\ UNCHANGED <<global, mark, allocator, pc, arg, phase, signal, finish>>

\* Compiled code loads a field; there is no read barrier
load_field(w) ==
    \E o \in root[w] :
        /\ pc[w] = "run"
        /\ fld[o] # Null
        /\ root' = [root EXCEPT ![w] = @ \cup {fld[o]}]
        /\ UNCHANGED <<heap, mark, allocator, pc, arg, phase, signal, finish>>

\* Compiled code loads a global variable
load_global(w) ==
    \E o \in global :
        /\ pc[w] = "run"
        /\ root' = [root EXCEPT ![w] = @ \cup {o}]
        /\ UNCHANGED <<heap, mark, allocator, pc, arg, phase, signal, finish>>

\* A variable of compiled code dies
drop_root(w) ==
    \E o \in root[w] :
        /\ pc[w] = "run"
        /\ root' = [root EXCEPT ![w] = @ \ {o}]
        /\ UNCHANGED <<heap, mark, allocator, pc, arg, phase, signal, finish>>

\* sml_write loads the old value ...
sml_write(w) ==
    \E o \in root[w], v \in root[w] \cup {Null} :
        /\ pc[w] = "run"
        /\ arg' = [arg EXCEPT ![w] = [obj |-> o, new |-> v, old |-> fld[o],
                                      cas |-> FALSE]]
        /\ Goto(w, "phase")
        /\ UNCHANGED <<heap, mark, root, allocator, phase, signal, finish>>

\* ... and stores the new one after the barrier
store(w) ==
    /\ pc[w] = "store"
    /\ fld' = IF arg[w].cas THEN fld ELSE [fld EXCEPT ![arg[w].obj] = arg[w].new]
    /\ arg' = [arg EXCEPT ![w] = NoArg]
    /\ Goto(w, "run")
    /\ UNCHANGED <<used, owner, target, global, mark, root, allocator, phase, signal, finish>>

\* A successful sml_cmpswap stores before the barrier; one that fails has no
\* effect
sml_cmpswap(w) ==
    \E o \in root[w], v \in root[w] \cup {Null} :
        /\ pc[w] = "run"
        /\ fld[o] \in root[w] \cup {Null}
        /\ arg' = [arg EXCEPT ![w] = [obj |-> o, new |-> v, old |-> fld[o],
                                      cas |-> TRUE]]
        /\ fld' = [fld EXCEPT ![o] = v]
        /\ Goto(w, "phase")
        /\ UNCHANGED <<used, owner, target, global, mark, root, allocator, phase, signal, finish>>

\* Mutant: the barrier only remembers what is overwritten
BarrierDeletionOnly(p) == IF p >= SYNC1 THEN "old" ELSE "store"

\* What the barrier remembers first in phase p
BarrierStart(p) ==
    IF p < SYNC1 THEN "store" ELSE IF p <= SYNC2 THEN "new" ELSE "old"

\* sml_current_phase: the phase may change right after it is loaded
load_phase(w) ==
    /\ pc[w] = "phase"
    /\ Goto(w, BarrierStart(phase[w]))
    /\ UNCHANGED <<heap, mark, root, allocator, arg, phase, signal, finish>>

\* remember(alloc, new_value)
remember_new(w) ==
    /\ \/ pc[w] = "new" /\ Visit(w, arg[w].new, "pushnew", "old") /\ UNCHANGED remembered
       \/ pc[w] = "pushnew" /\ Push(w, arg[w].new) /\ Goto(w, "old") /\ UNCHANGED mark
    /\ UNCHANGED <<heap, root, root_set, stack, arg, phase, signal, finish>>

\* remember(alloc, old_value)
remember_old(w) ==
    /\ \/ pc[w] = "old" /\ Visit(w, arg[w].old, "pushold", "store") /\ UNCHANGED remembered
       \/ pc[w] = "pushold" /\ Push(w, arg[w].old) /\ Goto(w, "store") /\ UNCHANGED mark
    /\ UNCHANGED <<heap, root, root_set, stack, arg, phase, signal, finish>>

-----------------------------------------------------------------------------
(***************************************************************************)
(* Signals                                                                 *)
(***************************************************************************)

\* global_phase, and change_phase before its first worker
Issue(w, p) ==
    /\ sig' = p
    /\ unsent' = Worker
    /\ owing' = Worker
    /\ Goto(w, "send")

\* The end of an action: fetch_sub on sml_check_flag.  The last worker to
\* answer issues signal p.
Answer(w, p) ==
    IF owing = {w}
    THEN Issue(w, p)
    ELSE /\ owing' = owing \ {w}
         /\ Goto(w, "run")
         /\ UNCHANGED <<sig, unsent>>

Pending(w, p) == pc[w] = "run" /\ phase[w] = p

AcceptSignal(w) == phase' = [phase EXCEPT ![w] = Accept(@)]

\* sml_gc and the end of try_find_segment: no collection is in progress
sml_gc(w) ==
    /\ pc[w] = "run"
    /\ sig = PREASYNC
    /\ owing = {}
    /\ gc_count < MaxGC
    /\ Issue(w, PRESYNC1)
    /\ UNCHANGED <<heap, mark, root, allocator, arg, phase, genum, gc_count, finish>>

\* One iteration of change_phase: the phase bits of worker v are changed
change_phase(w) ==
    \E v \in unsent :
        /\ pc[w] = "send"
        /\ phase' = [phase EXCEPT ![v] = sig]
        /\ unsent' = unsent \ {v}
        /\ Goto(w, IF unsent = {v} THEN "run" ELSE "send")
        /\ UNCHANGED <<heap, mark, root, allocator, arg, sig, owing, genum, gc_count, finish>>

-----------------------------------------------------------------------------
(***************************************************************************)
(* Actions of the workers                                                  *)
(***************************************************************************)

worker_sync1(w) ==
    /\ Pending(w, PRESYNC1)
    /\ AcceptSignal(w)
    /\ genum' = IF owing = {w} THEN w ELSE genum
    /\ Answer(w, PRESYNC2)
    /\ UNCHANGED <<heap, mark, root, allocator, arg, gc_count, finish>>

\* Mutant: the global variables are not enumerated
RootsOfUserOnly(w) == root[w]

\* What the SYNC2 action of w enumerates: sml_heap_user_sync2 and
\* sml_heap_global_sync2
RootsOf(w) == root[w] \cup IF genum = w THEN global ELSE {}

\* The roots are marked and linked; the worker's own mutator is stopped and
\* root_set is its own, so this is one step.  The snapshot of the allocation
\* pointers is AllocatesTarget.
worker_sync2(w) ==
    LET new == {o \in RootsOf(w) : Markable(o)}
    IN  /\ Pending(w, PRESYNC2)
        /\ AcceptSignal(w)
        /\ mark' = mark \cup new
        /\ root_set' = [root_set EXCEPT ![w] = @ \cup new]
        /\ genum' = IF genum = w THEN Null ELSE genum
        /\ Answer(w, PREMARK)
        /\ UNCHANGED <<heap, root, remembered, stack, arg, gc_count, finish>>

\* sml_heap_worker_mark: nobody looks at either set before the worker has
\* answered, so they are taken and cleared together
worker_mark(w) ==
    /\ Pending(w, PREMARK)
    /\ AcceptSignal(w)
    /\ stack' = [stack EXCEPT ![w] = root_set[w] \cup remembered[w]]
    /\ root_set' = [root_set EXCEPT ![w] = {}]
    /\ remembered' = [remembered EXCEPT ![w] = {}]
    /\ Goto(w, "trace")
    /\ UNCHANGED <<heap, mark, root, arg, signal, finish>>

\* One iteration of trace
trace(w) ==
    \E o \in stack[w] :
        LET new == {p \in {fld[o]} : Markable(p)}
        IN  /\ pc[w] = "trace"
            /\ mark' = mark \cup new
            /\ stack' = [stack EXCEPT ![w] = (@ \ {o}) \cup new]
            /\ UNCHANGED <<heap, root, root_set, remembered, pc, arg, phase, signal, finish>>

\* The stack is empty: answer, and the last one calls sml_heap_mark_finish
trace_done(w) ==
    /\ pc[w] = "trace"
    /\ stack[w] = {}
    /\ owing' = owing \ {w}
    /\ IF owing = {w}
       THEN Goto(w, "finish") /\ toSee' = Worker /\ round' = 1
       ELSE Goto(w, "run") /\ UNCHANGED finish
    /\ UNCHANGED <<heap, mark, root, allocator, arg, phase, sig, unsent, genum, gc_count>>

\* Number of times sml_heap_mark_finish looks at every remembered set
FinishRounds == 2

\* load_relaxed(&c.alloc->remembered_set) == NULL
SeenEmpty(v) == remembered[v] = {}

\* sml_heap_mark_finish looks at the remembered set of v; MARK is repeated when
\* it is not empty
sml_heap_mark_finish(w) ==
    \E v \in toSee :
        /\ pc[w] = "finish"
        /\ \/ /\ ~SeenEmpty(v)
              /\ Issue(w, PREMARK)
              /\ toSee' = {}
              /\ round' = 0
           \/ /\ SeenEmpty(v)
              /\ toSee # {v} \/ round < FinishRounds
              /\ IF toSee # {v}
                 THEN toSee' = toSee \ {v} /\ UNCHANGED round
                 ELSE toSee' = Worker /\ round' = round + 1
              /\ UNCHANGED <<pc, sig, unsent, owing>>
           \/ /\ SeenEmpty(v)
              /\ toSee = {v} /\ round = FinishRounds
              /\ Issue(w, PREASYNC)
              /\ toSee' = {}
              /\ round' = 0
        /\ UNCHANGED <<heap, mark, root, allocator, arg, phase, genum, gc_count>>

\* Collect bits that reclaiming the allocator of w clears
CollectBits(w) == {o \in Block : owner[o] = w}

\* Mutant: released blocks keep their bit in bitmap[0]
ObjectsOfNextWithGarbage(w, garbage) == target \cup {o \in used : owner[o] = w}

\* The objects of the next collection after w has released garbage
ObjectsOfNext(w, garbage) ==
    (target \ garbage) \cup {o \in used \ garbage : owner[o] = w}

\* sml_heap_worker_async: objects of this collection whose bit is clear are
\* released, all others are objects of the next collection
worker_async(w) ==
    LET garbage == {o \in used : owner[o] = w /\ o \in target /\ o \notin mark}
    IN  /\ Pending(w, PREASYNC)
        /\ AcceptSignal(w)
        /\ remembered' = [remembered EXCEPT ![w] = {}]
        /\ used' = used \ garbage
        /\ owner' = [o \in Block |-> IF o \in garbage THEN Null ELSE owner[o]]
        /\ fld' = [o \in Block |-> IF o \in garbage THEN Null ELSE fld[o]]
        /\ target' = ObjectsOfNext(w, garbage)
        /\ mark' = mark \ CollectBits(w)
        /\ owing' = owing \ {w}
        /\ gc_count' = IF owing = {w} THEN gc_count + 1 ELSE gc_count
        /\ UNCHANGED <<global, root, root_set, stack, pc, arg, sig, unsent, genum, finish>>

-----------------------------------------------------------------------------
Mutate(w) ==
    \/ sml_alloc(w) \/ load_field(w) \/ load_global(w) \/ drop_root(w)
    \/ sml_write(w) \/ sml_cmpswap(w)

Barrier(w) == load_phase(w) \/ remember_new(w) \/ remember_old(w) \/ store(w)

Collect(w) ==
    \/ change_phase(w) \/ worker_sync1(w) \/ worker_sync2(w) \/ worker_mark(w)
    \/ trace(w) \/ trace_done(w) \/ sml_heap_mark_finish(w) \/ worker_async(w)

Next == \E w \in Worker : Mutate(w) \/ Barrier(w) \/ Collect(w) \/ sml_gc(w)

Spec == Init /\ [][Next]_vars

Updating(w) == pc[w] \in {"phase", "new", "pushnew", "old", "pushold", "store"}

-----------------------------------------------------------------------------
PC == {"run", "phase", "new", "pushnew", "old", "pushold", "store", "send",
       "trace", "finish"}

\* Types of all variables
TypeOK ==
    /\ used \subseteq Block /\ target \subseteq used /\ mark \subseteq Block
    /\ global \subseteq Block
    /\ owner \in [Block -> Worker \cup {Null}]
    /\ fld \in [Block -> Value]
    /\ root \in [Worker -> SUBSET Block]
    /\ root_set \in [Worker -> SUBSET Block]
    /\ remembered \in [Worker -> SUBSET Block]
    /\ stack \in [Worker -> SUBSET Block]
    /\ pc \in [Worker -> PC]
    /\ arg \in [Worker -> [obj : Value, new : Value, old : Value, cas : BOOLEAN]]
    /\ phase \in [Worker -> Phase]
    /\ sig \in Phase
    /\ unsent \subseteq Worker /\ owing \subseteq Worker
    /\ genum \in Worker \cup {Null}
    /\ toSee \subseteq Worker /\ round \in 0 .. 2
    /\ gc_count \in 0 .. MaxGC

\* Sets of objects that no field leads out of
Closed(S) == \A o \in S : fld[o] \in S \cup {Null}

\* Objects that a mutator can get at: those in every closed set that has the roots
Reachable ==
    {o \in Block : \A S \in SUBSET Block :
        global \subseteq S /\ (\A w \in Worker : root[w] \subseteq S) /\ Closed(S)
            => o \in S}

\* No object that a mutator can get at is ever released by the reclaiming of
\* sml_heap_worker_async
LiveKept == Reachable \subseteq used

\* When worker_mark goes on to ASYNC because "tracing has ended", every object
\* of this collection that a mutator can get at has its collect bit set
TraceComplete ==
    sig = PREASYNC /\ unsent = Worker => Reachable \cap target \subseteq mark

\* From the reclaiming of a worker to the next collection the collect bits of
\* its segments are clear, as get_segment_from_pool relies on
ClearInAsync ==
    \A w \in Worker :
        sig = PREASYNC /\ phase[w] = ASYNC => \A o \in mark : owner[o] # w

\* Objects whose bit is set and that will be traced: in one of the sets, or
\* about to be put there; and what sml_cmpswap has removed but not remembered
Grey ==
    {o \in Block : \E w \in Worker :
        \/ o \in root_set[w] \cup remembered[w] \cup stack[w]
        \/ pc[w] = "pushnew" /\ arg[w].new = o
        \/ /\ pc[w] = "pushold" \/ (arg[w].cas /\ pc[w] \in {"phase", "new", "pushnew", "old"})
           /\ arg[w].old = o}

\* The objects reached from G through objects of this collection whose bit is
\* clear
WhiteReach(G) ==
    {o \in Block : \A S \in SUBSET Block :
        G \subseteq S /\ (\A p \in S : Markable(fld[p]) => fld[p] \in S)
            => o \in S}

\* While MARK is in progress, everything a mutator can get at is marked or will
\* be found by tracing, whatever the mutators do to the heap meanwhile
SnapshotKept ==
    sig = PREMARK =>
        \A o \in Reachable : Markable(o) => o \in WhiteReach(Grey)

=============================================================================
