----------------------------- MODULE UserRoots -----------------------------
(***************************************************************************)
(* User contexts and the enumeration of their roots, src/runtime/control.c.*)
(*                                                                         *)
(* A user thread runs ML code on a worker, leaves it for C code, and may   *)
(* come back on another worker: MassiveThreads steals it meanwhile.  Its   *)
(* user context cannot be unlinked from the list of the worker it left, so *)
(* sml_enter_internal moves it by making a copy, while that worker or a    *)
(* helper may be enumerating the thread's stack.  The enumeration, the     *)
(* move and the cancellation of a thread exclude each other by BUSY_FLAG,  *)
(* but only in the phases where they can meet.                             *)
(*                                                                         *)
(* The handshake is reduced to what module Handshake shows of it, as in    *)
(* module ConcurrentMark: an action is a step of the worker, executed by   *)
(* its thread at a poll, or by its thread or a helper when no ML code runs *)
(* on the worker.  User contexts are objects of the heap, which are kept   *)
(* by sml_heap_user_sync2 and released like any other object.              *)
(***************************************************************************)
EXTENDS Phases, FiniteSets

CONSTANTS
    Worker,         \* the workers
    Thread,         \* the user threads
    Context,        \* addresses of user contexts
    Null,
    MaxGC,          \* bound: number of collections
    MaxDepth,       \* bound: nested callbacks of a thread
    StolenCallback  \* C code calls ML after it was stolen

ASSUME NullAssumption == Null \notin Worker \cup Thread \cup Context
ASSUME FiniteAssumption == IsFiniteSet(Worker) /\ Worker # {}
ASSUME BoundAssumption == MaxGC \in Nat /\ MaxDepth \in Nat \ {0}
ASSUME StolenAssumption == StolenCallback \in BOOLEAN

\* The threads
VARIABLES
    at,     \* where the thread is
    on,     \* the worker whose lock it holds, or Null
    depth,  \* number of its stack ranges
    open,   \* the last stack range is open (top = NULL)
    tlv,    \* user_tlv_get(current_user)
    loc     \* new_user and phase of sml_enter_internal

\* User contexts
VARIABLES
    ctx,    \* the fields of struct sml_user
    owner,  \* the worker in whose allocator the context is, Null if it is free
    target, \* contexts that this collection may release
    mark    \* contexts whose collect bit is set

\* Workers
VARIABLES
    users,  \* users[w]: worker->users
    cur,    \* worker->current_user
    act,    \* the action in progress
    todo,   \* users that worker_sync2 has not looked at yet
    enum,   \* the user that worker_sync2 has locked, or Null
    phase   \* worker->state

\* The handshake
VARIABLES
    sig,    \* the signal of the current handshake
    unsent, \* workers that change_phase has not signalled yet
    owing,  \* workers that have not answered
    gc_count,
    seen    \* threads whose roots are in the root sets of this collection,
            \* or that have none of an object this collection may release

thread == <<at, on, depth, open, tlv, loc>>
heap == <<ctx, owner, target, mark>>
worker == <<users, cur, act, todo, enum, phase>>
signal == <<sig, unsent, owing, gc_count>>
vars == <<thread, heap, worker, signal, seen>>

\* struct sml_user; stack is the number of ranges, 0 for NULL
NoUser == [worker |-> Null, busy |-> FALSE, thread |-> Null, stack |-> 0]
NoLoc == [new |-> Null, phase |-> ASYNC]

Init ==
    /\ at = [u \in Thread |-> "none"]
    /\ on = [u \in Thread |-> Null]
    /\ depth = [u \in Thread |-> 0]
    /\ open = [u \in Thread |-> FALSE]
    /\ tlv = [u \in Thread |-> Null]
    /\ loc = [u \in Thread |-> NoLoc]
    /\ ctx = [c \in Context |-> NoUser]
    /\ owner = [c \in Context |-> Null]
    /\ target = {} /\ mark = {}
    /\ users = [w \in Worker |-> {}]
    /\ cur = [w \in Worker |-> Null]
    /\ act = [w \in Worker |-> "none"]
    /\ todo = [w \in Worker |-> {}]
    /\ enum = [w \in Worker |-> Null]
    /\ phase = [w \in Worker |-> ASYNC]
    /\ sig = PREASYNC /\ unsent = {} /\ owing = {}
    /\ gc_count = 0
    /\ seen = {}

-----------------------------------------------------------------------------
Goto(u, l) == at' = [at EXCEPT ![u] = l]

\* enter_worker gets the lock: no thread and no helper has it
Unlocked(w) == act[w] = "none" /\ \A u \in Thread : on[u] # w

\* u executes ML code and its worker executes no action
Running(u) == at[u] = "ML" /\ act[on[u]] = "none"

\* An object allocated in phase p may be released by this collection or by the
\* next one to begin
AllocatesTarget(p) == p >= ASYNC /\ p <= PRESYNC2

\* sml_alloc_important: an object n in the allocator of w
Allocate(w, n) ==
    /\ owner[n] = Null
    /\ owner' = [owner EXCEPT ![n] = w]
    /\ target' = IF AllocatesTarget(phase[w]) THEN target \cup {n} ELSE target

\* u goes on in ML code on w.  If w has answered SYNC2 the roots it gets are
\* kept by the barrier or are new; otherwise it has to be enumerated (again).
SeenOn(u, w) ==
    IF phase[w] \in {SYNC2, PREMARK, MARK} THEN seen \cup {u} ELSE seen \ {u}

-----------------------------------------------------------------------------
(***************************************************************************)
(* sml_start and sml_end                                                   *)
(***************************************************************************)

\* The thread has no user context: it makes one
sml_start_new(u, w) ==
    \E n \in Context :
        /\ at[u] = "none"
        /\ Unlocked(w)
        /\ Allocate(w, n)
        /\ ctx' = [ctx EXCEPT ![n] = [worker |-> w, busy |-> FALSE,
                                      thread |-> u, stack |-> 1]]
        /\ users' = [users EXCEPT ![w] = @ \cup {n}]
        /\ cur' = [cur EXCEPT ![w] = n]
        /\ depth' = [depth EXCEPT ![u] = 1]
        /\ open' = [open EXCEPT ![u] = TRUE]
        /\ on' = [on EXCEPT ![u] = w]
        /\ Goto(u, "ML")
        /\ seen' = SeenOn(u, w)
        /\ UNCHANGED <<tlv, loc, mark, act, todo, enum, phase, signal>>

\* C code called from ML code calls back: a range is added to the context,
\* whatever worker it belongs to
sml_start_callback(u, w) ==
    /\ at[u] = "C"
    /\ Unlocked(w)
    /\ ctx[tlv[u]].worker = w \/ StolenCallback
    /\ depth[u] < MaxDepth
    /\ depth' = [depth EXCEPT ![u] = @ + 1]
    /\ open' = [open EXCEPT ![u] = TRUE]
    /\ ctx' = [ctx EXCEPT ![tlv[u]].stack = @ + 1]
    /\ cur' = [cur EXCEPT ![w] = tlv[u]]
    /\ tlv' = [tlv EXCEPT ![u] = Null]
    /\ on' = [on EXCEPT ![u] = w]
    /\ Goto(u, "ML")
    /\ seen' = SeenOn(u, w)
    /\ UNCHANGED <<loc, owner, target, mark, users, act, todo, enum, phase, signal>>

\* Mutant: the test is made before the range is removed
LastRangeLate(n) == n = 0

\* user->stack == NULL once one of n ranges is removed
LastRange(n) == n = 1

\* The last range is removed and the worker is unlocked
sml_end(u) ==
    LET w == on[u]
        c == cur[w]
        last == LastRange(ctx[c].stack)
    IN  /\ Running(u)
        /\ ctx' = [ctx EXCEPT ![c].stack = @ - 1,
                              ![c].worker = IF last THEN Null ELSE @]
        /\ cur' = IF last THEN [cur EXCEPT ![w] = Null] ELSE cur
        /\ tlv' = IF last THEN tlv ELSE [tlv EXCEPT ![u] = c]
        /\ depth' = [depth EXCEPT ![u] = @ - 1]
        /\ open' = [open EXCEPT ![u] = FALSE]
        /\ on' = [on EXCEPT ![u] = Null]
        /\ Goto(u, IF last THEN "none" ELSE "C")
        /\ UNCHANGED <<loc, owner, target, mark, users, act, todo, enum, phase, signal, seen>>

-----------------------------------------------------------------------------
(***************************************************************************)
(* sml_leave and sml_enter                                                 *)
(***************************************************************************)

\* The range is closed before the worker is unlocked
sml_leave(u) ==
    /\ Running(u)
    /\ open' = [open EXCEPT ![u] = FALSE]
    /\ tlv' = [tlv EXCEPT ![u] = cur[on[u]]]
    /\ on' = [on EXCEPT ![u] = Null]
    /\ Goto(u, "C")
    /\ UNCHANGED <<depth, loc, heap, worker, signal, seen>>

\* sml_save: C code that allocates runs with a closed range
sml_save(u) ==
    /\ Running(u)
    /\ open' = [open EXCEPT ![u] = FALSE]
    /\ Goto(u, "saved")
    /\ UNCHANGED <<on, depth, tlv, loc, heap, worker, signal, seen>>

sml_unsave(u) ==
    /\ at[u] = "saved" /\ act[on[u]] = "none"
    /\ open' = [open EXCEPT ![u] = TRUE]
    /\ Goto(u, "ML")
    /\ UNCHANGED <<on, depth, tlv, loc, heap, worker, signal, seen>>

\* The thread has not been stolen
sml_enter_same(u, w) ==
    /\ at[u] = "C"
    /\ Unlocked(w)
    /\ ctx[tlv[u]].worker = w
    /\ cur' = [cur EXCEPT ![w] = tlv[u]]
    /\ tlv' = [tlv EXCEPT ![u] = Null]
    /\ open' = [open EXCEPT ![u] = TRUE]
    /\ on' = [on EXCEPT ![u] = w]
    /\ Goto(u, "ML")
    /\ seen' = SeenOn(u, w)
    /\ UNCHANGED <<depth, loc, heap, users, act, todo, enum, phase, signal>>

\* In these phases of this worker another one may be in worker_sync2
MayMeetSync2(p) == SYNC1 <= p /\ p <= SYNC2

\* The thread was stolen: a new context is allocated and the phase is loaded.
\* Where allocation fails the thread unlocks the worker, yields and retries,
\* and nothing has changed.
sml_enter_stolen(u, w) ==
    \E n \in Context :
        /\ at[u] = "C"
        /\ Unlocked(w)
        /\ ctx[tlv[u]].worker # w
        /\ Allocate(w, n)
        /\ on' = [on EXCEPT ![u] = w]
        /\ loc' = [loc EXCEPT ![u] = [new |-> n, phase |-> phase[w]]]
        /\ Goto(u, IF MayMeetSync2(phase[w]) THEN "lock" ELSE "store")
        /\ UNCHANGED <<depth, open, tlv, ctx, mark, worker, signal, seen>>

\* Mutant: the roots are left to the previous worker
AfterLockNoEnum(p) == "move"

\* After the lock was taken at once.  A worker that has answered SYNC2 will
\* not enumerate the context again.
AfterLock(p) == IF p = SYNC2 THEN "enum" ELSE "move"

\* The first acquire_bit; when it fails the previous worker is enumerating
enter_lock(u) ==
    /\ at[u] = "lock"
    /\ IF ctx[tlv[u]].busy
       THEN Goto(u, "spin") /\ UNCHANGED ctx
       ELSE /\ Goto(u, AfterLock(loc[u].phase))
            /\ ctx' = [ctx EXCEPT ![tlv[u]].busy = TRUE]
    /\ UNCHANGED <<on, depth, open, tlv, loc, owner, target, mark, worker, signal, seen>>

\* acquire_bit in the busy loop
enter_spin(u) ==
    /\ at[u] = "spin"
    /\ ~ctx[tlv[u]].busy
    /\ ctx' = [ctx EXCEPT ![tlv[u]].busy = TRUE]
    /\ Goto(u, "move")
    /\ UNCHANGED <<on, depth, open, tlv, loc, owner, target, mark, worker, signal, seen>>

\* Mutant: only what the frames refer to is marked
VisitedFrames(c) == {}

\* sml_heap_user_sync2 marks the context, besides the roots of its ranges
Visited(c) == {c}

enter_enum(u) ==
    /\ at[u] = "enum"
    /\ mark' = mark \cup Visited(tlv[u])
    /\ seen' = seen \cup {u}
    /\ Goto(u, "move")
    /\ UNCHANGED <<on, depth, open, tlv, loc, ctx, owner, target, worker, signal>>

\* user->worker is changed, which makes the previous worker drop the context,
\* and the lock is released
enter_move(u) ==
    /\ at[u] = "move"
    /\ ctx' = [ctx EXCEPT ![tlv[u]].worker = on[u], ![tlv[u]].busy = FALSE]
    /\ Goto(u, "copy")
    /\ UNCHANGED <<on, depth, open, tlv, loc, owner, target, mark, worker, signal, seen>>

\* Nobody is in worker_sync2: user->worker is changed without the lock
enter_store(u) ==
    /\ at[u] = "store"
    /\ ctx' = [ctx EXCEPT ![tlv[u]].worker = on[u]]
    /\ Goto(u, "copy")
    /\ UNCHANGED <<on, depth, open, tlv, loc, owner, target, mark, worker, signal, seen>>

\* The new context takes the place of the old one.  What the worker gets to
\* do with it is the same as in SeenOn, but the roots it has are old ones.
enter_copy(u) ==
    LET w == on[u]
        n == loc[u].new
    IN  /\ at[u] = "copy"
        /\ ctx' = [ctx EXCEPT ![n] = [worker |-> w, busy |-> FALSE, thread |-> u,
                                      stack |-> ctx[tlv[u]].stack]]
        /\ users' = [users EXCEPT ![w] = @ \cup {n}]
        /\ cur' = [cur EXCEPT ![w] = n]
        /\ tlv' = [tlv EXCEPT ![u] = Null]
        /\ open' = [open EXCEPT ![u] = TRUE]
        /\ loc' = [loc EXCEPT ![u] = NoLoc]
        /\ Goto(u, "ML")
        /\ seen' = IF phase[w] \in {SYNC2, PREMARK, MARK} THEN seen ELSE seen \ {u}
        /\ UNCHANGED <<on, depth, owner, target, mark, act, todo, enum, phase, signal>>

-----------------------------------------------------------------------------
(***************************************************************************)
(* cancel_user                                                             *)
(***************************************************************************)

\* Mutant: the enumeration in progress is not waited for
CancelAtOnce(c) == TRUE

\* acquire_bit(&user->flags, BUSY_FLAG) succeeds
MayCancel(c) == ~ctx[c].busy

\* The thread ends outside ML code, by myth_exit or myth_cancel
cancel_user(u) ==
    /\ at[u] = "C"
    /\ MayCancel(tlv[u])
    /\ ctx' = [ctx EXCEPT ![tlv[u]].busy = TRUE]
    /\ Goto(u, "cancel")
    /\ UNCHANGED <<on, depth, open, tlv, loc, owner, target, mark, worker, signal, seen>>

\* Mutant: CANCELED_FLAG is set by fetch_or
CanceledOr(busy) == busy

\* BUSY_FLAG is cleared by the store that sets CANCELED_FLAG
Canceled(busy) == FALSE

\* user->worker and user->flags are stored, and the stack of the thread is
\* released
cancel_user_end(u) ==
    /\ at[u] = "cancel"
    /\ ctx' = [ctx EXCEPT ![tlv[u]].worker = Null, ![tlv[u]].busy = Canceled(@)]
    /\ tlv' = [tlv EXCEPT ![u] = Null]
    /\ depth' = [depth EXCEPT ![u] = 0]
    /\ Goto(u, "dead")
    /\ UNCHANGED <<on, open, loc, owner, target, mark, worker, signal, seen>>

-----------------------------------------------------------------------------
(***************************************************************************)
(* Signals and actions                                                     *)
(***************************************************************************)

Issue(w, p) ==
    /\ sig' = p
    /\ unsent' = Worker
    /\ owing' = Worker
    /\ act' = [act EXCEPT ![w] = "send"]

\* The end of an action: the last worker to answer issues p
Answer(w, p) ==
    IF owing = {w}
    THEN Issue(w, p)
    ELSE /\ owing' = owing \ {w}
         /\ act' = [act EXCEPT ![w] = "none"]
         /\ UNCHANGED <<sig, unsent>>

\* A collection is started by a thread that allocates
sml_gc(u) ==
    /\ Running(u)
    /\ sig = PREASYNC /\ owing = {}
    /\ gc_count < MaxGC
    /\ Issue(on[u], PRESYNC1)
    /\ seen' = {}
    /\ UNCHANGED <<thread, heap, users, cur, todo, enum, phase, gc_count>>

\* One iteration of change_phase
change_phase(w) ==
    \E v \in unsent :
        /\ act[w] = "send"
        /\ phase' = [phase EXCEPT ![v] = sig]
        /\ unsent' = unsent \ {v}
        /\ act' = IF unsent = {v} THEN [act EXCEPT ![w] = "none"] ELSE act
        /\ UNCHANGED <<thread, heap, users, cur, todo, enum, sig, owing, gc_count, seen>>

\* The signal p of w is accepted: by its thread at a poll (sml_check_internal),
\* by its thread in leave_worker, or by a helper
Accepts(w, p) ==
    /\ phase[w] = p
    /\ act[w] = "none"
    /\ \A u \in Thread : on[u] = w => at[u] \in {"ML", "saved"}
    /\ phase' = [phase EXCEPT ![w] = Accept(@)]

\* SYNC1 and MARK do nothing to user contexts
worker_sync1(w) ==
    /\ Accepts(w, PRESYNC1)
    /\ Answer(w, PRESYNC2)
    /\ UNCHANGED <<thread, heap, users, cur, todo, enum, gc_count, seen>>

worker_mark(w) ==
    /\ Accepts(w, PREMARK)
    /\ Answer(w, PREASYNC)
    /\ UNCHANGED <<thread, heap, users, cur, todo, enum, gc_count, seen>>

\* sml_check_internal closes the range of the thread that polls, unless
\* sml_save has closed it, and opens it again
Poll(w, b) == [u \in Thread |-> IF on[u] = w /\ at[u] = "ML" THEN b ELSE open[u]]

worker_sync2(w) ==
    /\ Accepts(w, PRESYNC2)
    /\ act' = [act EXCEPT ![w] = "sync2"]
    /\ todo' = [todo EXCEPT ![w] = users[w]]
    /\ open' = Poll(w, FALSE)
    /\ UNCHANGED <<at, on, depth, tlv, loc, heap, users, cur, enum, signal, seen>>

\* load_relaxed(&user->worker) == worker
Belongs(w, c) == ctx[c].worker = w

\* An iteration of the loop over worker->users that gets the lock of c; one
\* that does not puts c off.  A context that has left the worker is dropped,
\* and its BUSY_FLAG stays set.
sync2_lock(w) ==
    \E c \in todo[w] :
        /\ act[w] = "sync2" /\ enum[w] = Null
        /\ ~ctx[c].busy
        /\ ctx' = [ctx EXCEPT ![c].busy = TRUE]
        /\ IF Belongs(w, c)
           THEN enum' = [enum EXCEPT ![w] = c] /\ UNCHANGED <<users, todo>>
           ELSE /\ users' = [users EXCEPT ![w] = @ \ {c}]
                /\ todo' = [todo EXCEPT ![w] = @ \ {c}]
                /\ UNCHANGED enum
        /\ UNCHANGED <<thread, owner, target, mark, cur, act, phase, signal, seen>>

\* sml_heap_user_sync2 and the release of the lock
sync2_enum(w) ==
    LET c == enum[w]
    IN  /\ c # Null
        /\ mark' = mark \cup Visited(c)
        /\ seen' = seen \cup {ctx[c].thread}
        /\ ctx' = [ctx EXCEPT ![c].busy = FALSE]
        /\ todo' = [todo EXCEPT ![w] = @ \ {c}]
        /\ enum' = [enum EXCEPT ![w] = Null]
        /\ UNCHANGED <<thread, owner, target, users, cur, act, phase, signal>>

\* No user is left over or pending
sync2_end(w) ==
    /\ act[w] = "sync2" /\ todo[w] = {}
    /\ open' = Poll(w, TRUE)
    /\ Answer(w, PREMARK)
    /\ UNCHANGED <<at, on, depth, tlv, loc, heap, users, cur, todo, enum, phase, gc_count, seen>>

\* The allocator of w releases its contexts that are not marked
worker_async(w) ==
    LET garbage == {c \in target : owner[c] = w /\ c \notin mark}
        own == {c \in Context : owner[c] = w}
    IN  /\ Accepts(w, PREASYNC)
        /\ owner' = [c \in Context |-> IF c \in garbage THEN Null ELSE owner[c]]
        /\ ctx' = [c \in Context |-> IF c \in garbage THEN NoUser ELSE ctx[c]]
        /\ target' = (target \cup own) \ garbage
        /\ mark' = mark \ own
        /\ owing' = owing \ {w}
        /\ gc_count' = IF owing = {w} THEN gc_count + 1 ELSE gc_count
        /\ UNCHANGED <<thread, users, cur, act, todo, enum, sig, unsent, seen>>

-----------------------------------------------------------------------------
\* Steps of compiled code and C code, which may or may not happen
Choose(u) ==
    \/ \E w \in Worker : \/ sml_start_new(u, w) \/ sml_start_callback(u, w)
                         \/ sml_enter_same(u, w) \/ sml_enter_stolen(u, w)
    \/ sml_end(u) \/ sml_leave(u) \/ sml_save(u) \/ cancel_user(u) \/ sml_gc(u)

\* Steps of the runtime that has been entered
Proceed(u) ==
    \/ enter_lock(u) \/ enter_spin(u) \/ enter_enum(u) \/ enter_move(u)
    \/ enter_store(u) \/ enter_copy(u) \/ cancel_user_end(u)

Collect(w) ==
    \/ change_phase(w) \/ worker_sync1(w) \/ worker_sync2(w) \/ sync2_lock(w)
    \/ sync2_enum(w) \/ sync2_end(w) \/ worker_mark(w) \/ worker_async(w)

Next ==
    \/ \E u \in Thread : Choose(u) \/ sml_unsave(u) \/ Proceed(u)
    \/ \E w \in Worker : Collect(w)

Spec == Init /\ [][Next]_vars

-----------------------------------------------------------------------------
\* Types of all variables
TypeOK ==
    /\ at \in [Thread -> {"none", "ML", "saved", "C", "lock", "spin", "enum",
                          "move", "store", "copy", "cancel", "dead"}]
    /\ on \in [Thread -> Worker \cup {Null}]
    /\ depth \in [Thread -> 0 .. MaxDepth]
    /\ open \in [Thread -> BOOLEAN]
    /\ tlv \in [Thread -> Context \cup {Null}]
    /\ loc \in [Thread -> [new : Context \cup {Null}, phase : Phase]]
    /\ ctx \in [Context -> [worker : Worker \cup {Null}, busy : BOOLEAN,
                            thread : Thread \cup {Null}, stack : 0 .. MaxDepth]]
    /\ owner \in [Context -> Worker \cup {Null}]
    /\ target \subseteq Context /\ mark \subseteq Context
    /\ users \in [Worker -> SUBSET Context]
    /\ cur \in [Worker -> Context \cup {Null}]
    /\ act \in [Worker -> {"none", "send", "sync2"}]
    /\ todo \in [Worker -> SUBSET Context]
    /\ enum \in [Worker -> Context \cup {Null}]
    /\ phase \in [Worker -> Phase]
    /\ sig \in Phase /\ unsent \subseteq Worker /\ owing \subseteq Worker
    /\ gc_count \in 0 .. MaxGC
    /\ seen \subseteq Thread

\* Contexts whose stack somebody enumerates now
Enumerated ==
    ({enum[w] : w \in Worker} \ {Null})
    \cup {tlv[u] : u \in {v \in Thread : at[v] = "enum"}}

\* Whoever enumerates a context (worker_sync2, sml_enter_internal) finds the
\* ranges of a thread that exists, all of them closed, and nobody else
\* enumerates it: the assertions of sml_stack_enum_ptr
EnumSafe ==
    /\ \A c \in Enumerated :
        LET u == ctx[c].thread
        IN  /\ ctx[c].busy
            /\ u # Null /\ at[u] # "dead"
            /\ ctx[c].stack = depth[u] /\ depth[u] > 0
            /\ ~open[u]
    /\ \A w, v \in Worker : enum[w] = enum[v] /\ enum[w] # Null => w = v
    /\ \A w \in Worker, u \in Thread : at[u] = "enum" => enum[w] # tlv[u]

\* When the last worker answers SYNC2 and MARK is issued, the roots of every
\* thread have been enumerated since it last ran ML code on a worker that had
\* not answered SYNC2
RootsEnumerated ==
    sig = PREMARK /\ unsent = Worker =>
        \A u \in Thread : at[u] \notin {"none", "dead"} => u \in seen

\* Contexts that a thread or a worker has a pointer to
Referenced ==
    ({tlv[u] : u \in Thread} \cup {loc[u].new : u \in Thread}
        \cup {cur[on[u]] : u \in {v \in Thread : at[v] \in {"ML", "saved"}}}
        \cup UNION {users[w] : w \in Worker}) \ {Null}

\* user and new_user are not released until sml_enter_internal is done with
\* them, nor is a context that is still in a list
ContextKept == \A c \in Referenced : owner[c] # Null

\* A thread that wants the lock of its context (sml_enter_internal,
\* cancel_user), or a worker that has put a context off, waits for somebody who
\* has the lock and will release it: worker_sync2 leaves the BUSY_FLAG of a
\* context it drops set for ever
LockReleased ==
    LET wanted(c) == \/ \E u \in Thread : tlv[u] = c /\ at[u] \in {"C", "lock", "spin"}
                     \/ \E w \in Worker : c \in todo[w]
        held(c) == \/ \E w \in Worker : enum[w] = c
                   \/ \E u \in Thread : tlv[u] = c /\ at[u] \in {"enum", "move", "cancel"}
    IN  \A c \in Context : ctx[c].busy /\ wanted(c) => held(c)

=============================================================================
