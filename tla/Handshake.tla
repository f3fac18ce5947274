----------------------------- MODULE Handshake -----------------------------
(***************************************************************************)
(* The phase handshake between the mutator threads of the SML# runtime and *)
(* its concurrent collector, from src/runtime/control.c.  There is no      *)
(* collector thread: whichever thread answers a signal last moves every    *)
(* worker context to the next phase.                                       *)
(*                                                                         *)
(* Worker contexts are numbered in the order in which they are pushed on   *)
(* workers_available, so that the list is n, n-1, ..., 1, the "next" of w  *)
(* is w-1 and 0 is NULL.  Worker context w belongs to the worker thread w  *)
(* (the thread-local variable current_worker).  A context whose DEAD_FLAG  *)
(* is set is skipped by every traversal, so unlinking it from the list is  *)
(* not modelled separately.                                                *)
(*                                                                         *)
(* One action is one atomic access of the code to shared memory, with the  *)
(* thread-local computation around it.                                     *)
(***************************************************************************)
EXTENDS Phases, FiniteSets

CONSTANTS
    N,          \* number of worker threads that ever enter ML code
    MaxGC,      \* bound: number of collections
    MaxRetry    \* bound: MARK signals repeated in one collection

ASSUME NAssumption == N \in Nat
ASSUME BoundAssumption == MaxGC \in Nat /\ MaxRetry \in Nat

Worker == 1 .. N
Pointer == 0 .. N       \* struct sml_worker *, 0 is NULL

VARIABLES
    n,          \* worker contexts pushed on workers_available so far
    avail,      \* phase in the low bits of workers_available
    phase,      \* phase[w]:    worker->state & PHASE_MASK
    active,     \* active[w]:   INACTIVE_STATE is clear
    helper,     \* helper[w]:   HELPER_STATE
    canceled,   \* canceled[w]: CANCELED_FLAG
    dead,       \* dead[w]:     DEAD_FLAG
    genum,      \* genum[w]:    GLOBALENUM_FLAG
    users,      \* users[w]:    worker->users is empty ("none"), has only
                \*              users that ended ("ended"), or a live one
    hsHead,     \* workers_handshake: the list ...
    hsStamp,    \* ... and the phase in its low bits
    flag,       \* sml_check_flag, a signed reading of the counter
    gc_count,
    globals,    \* the global roots were enumerated in this collection
    retries     \* MARK signals repeated in this collection

\* Variables of thread t, 0 or FALSE while not in use
VARIABLES
    pc,         \* where thread t is
    tgt,        \* the worker context whose action t executes
    sig,        \* the phase t accepted for tgt, or is issuing to all
    from,       \* old_phase of change_phase
    greedy,     \* the argument of sml_gc and of worker_*
    ret,        \* where the action returns to
    list,       \* the list change_phase or help_inactive started with
    cur,        \* the list element t is looking at
    cnt,        \* count of change_phase
    stamp,      \* the stamp help_inactive loaded with the list
    seen,       \* the phase in help_inactive's old_state
    wait        \* the gc_count sml_wait_gc waits for

registry == <<n, avail>>
state == <<phase, active, helper>>
flags == <<canceled, dead, genum, users>>
handshake == <<hsHead, hsStamp>>
collection == <<gc_count, globals, retries>>
job == <<tgt, sig, from, greedy, ret>>
walk == <<list, cur, cnt>>
help == <<stamp, seen>>
vars == <<registry, state, flags, handshake, flag, collection,
          pc, job, walk, help, wait>>

Goto(t, l) == pc' = [pc EXCEPT ![t] = l]

\* Thread t starts the action of the accepted phase p for worker context w
Begin(t, w, p, g, r) ==
    /\ Goto(t, "act")
    /\ tgt' = [tgt EXCEPT ![t] = w]
    /\ sig' = [sig EXCEPT ![t] = p]
    /\ greedy' = [greedy EXCEPT ![t] = g]
    /\ ret' = [ret EXCEPT ![t] = r]
    /\ from' = [from EXCEPT ![t] = 0]

\* Mutant of Return: a helper leaves the worker context locked
ReturnWithoutRelease(t) ==
    /\ Goto(t, IF ret[t] = "helped" THEN "ml" ELSE ret[t])
    /\ tgt' = [tgt EXCEPT ![t] = 0]
    /\ sig' = [sig EXCEPT ![t] = 0]
    /\ from' = [from EXCEPT ![t] = 0]
    /\ greedy' = [greedy EXCEPT ![t] = FALSE]
    /\ ret' = [ret EXCEPT ![t] = "ml"]

\* Thread t is done with the action, or with the signal it issued; a helper
\* still has the worker context locked
Return(t) ==
    /\ Goto(t, ret[t])
    /\ tgt' = [tgt EXCEPT ![t] = IF ret[t] = "helped" THEN @ ELSE 0]
    /\ sig' = [sig EXCEPT ![t] = 0]
    /\ from' = [from EXCEPT ![t] = 0]
    /\ greedy' = [greedy EXCEPT ![t] = FALSE]
    /\ ret' = [ret EXCEPT ![t] = "ml"]

Init ==
    /\ n = 0
    /\ avail = ASYNC
    /\ phase = [w \in Worker |-> ASYNC]
    /\ active = [w \in Worker |-> FALSE]
    /\ helper = [w \in Worker |-> FALSE]
    /\ canceled = [w \in Worker |-> FALSE]
    /\ dead = [w \in Worker |-> FALSE]
    /\ genum = [w \in Worker |-> FALSE]
    /\ users = [w \in Worker |-> "none"]
    /\ hsHead = 0
    /\ hsStamp = PREASYNC
    /\ flag = 0
    /\ gc_count = 0
    /\ globals = FALSE
    /\ retries = 0
    /\ pc = [t \in Worker |-> "none"]
    /\ tgt = [t \in Worker |-> 0]
    /\ sig = [t \in Worker |-> 0]
    /\ from = [t \in Worker |-> 0]
    /\ greedy = [t \in Worker |-> FALSE]
    /\ ret = [t \in Worker |-> "ml"]
    /\ list = [t \in Worker |-> 0]
    /\ cur = [t \in Worker |-> 0]
    /\ cnt = [t \in Worker |-> 0]
    /\ stamp = [t \in Worker |-> 0]
    /\ seen = [t \in Worker |-> 0]
    /\ wait = [t \in Worker |-> 0]

-----------------------------------------------------------------------------
(***************************************************************************)
(* Entering and leaving ML code.                                           *)
(***************************************************************************)

\* sml_start of a thread without a worker context: the new context takes its
\* phase from workers_available and is pushed on it in one CAS.
register_worker(t) ==
    /\ pc[t] = "none"
    /\ t = n + 1
    /\ n' = t
    /\ phase' = [phase EXCEPT ![t] = avail]
    /\ active' = [active EXCEPT ![t] = TRUE]
    /\ users' = [users EXCEPT ![t] = "live"]
    /\ Goto(t, "ml")
    /\ UNCHANGED <<avail, helper, canceled, dead, genum, handshake, flag,
                   collection, job, walk, help, wait>>

\* sml_leave, or sml_end of the outermost ML call if the user ends.  The
\* worker is unlocked and a pending signal is accepted at the same time; its
\* action is executed after the worker has become INACTIVE.
leave_worker(t, ends) ==
    /\ pc[t] = "ml"
    /\ wait[t] = 0
    /\ phase' = [phase EXCEPT ![t] = Accept(@)]
    /\ active' = [active EXCEPT ![t] = FALSE]
    /\ users' = [users EXCEPT ![t] = IF ends THEN "ended" ELSE @]
    /\ IF IsPre(phase[t])
       THEN Begin(t, t, Accept(phase[t]), FALSE, "c")
       ELSE Goto(t, "c") /\ UNCHANGED job
    /\ UNCHANGED <<registry, helper, canceled, dead, genum, handshake, flag,
                   collection, walk, help, wait>>

\* C code calls sml_enter or sml_start
sml_enter(t) ==
    /\ pc[t] = "c"
    /\ Goto(t, "enter")
    /\ UNCHANGED <<registry, state, flags, handshake, flag, collection,
                   job, walk, help, wait>>

\* Mutant of enter_worker: the thread does not wait for a helper
EnterAtOnce(t) ==
    /\ pc[t] = "enter"
    /\ active' = [active EXCEPT ![t] = TRUE]
    /\ users' = [users EXCEPT ![t] = "live"]
    /\ Goto(t, "ml")
    /\ UNCHANGED <<registry, phase, helper, canceled, dead, genum, handshake,
                   flag, collection, job, walk, help, wait>>

\* The busy loop of enter_worker gets the lock.  A thread whose user ended
\* comes in through sml_start and makes a new user.
enter_worker(t) ==
    /\ pc[t] = "enter"
    /\ ~active[t]
    /\ active' = [active EXCEPT ![t] = TRUE]
    /\ users' = [users EXCEPT ![t] = "live"]
    /\ Goto(t, "ml")
    /\ UNCHANGED <<registry, phase, helper, canceled, dead, genum, handshake,
                   flag, collection, job, walk, help, wait>>

\* The worker thread ends while it is in C code
cancel_worker(t) ==
    /\ pc[t] = "c"
    /\ IF active[t] /\ ~helper[t]
       THEN Goto(t, "fatal") /\ UNCHANGED canceled
       ELSE Goto(t, "exited") /\ canceled' = [canceled EXCEPT ![t] = TRUE]
    /\ UNCHANGED <<registry, state, dead, genum, users, handshake, flag,
                   collection, job, walk, help, wait>>

-----------------------------------------------------------------------------
(***************************************************************************)
(* Issuing a signal: global_phase, change_phase and the addition to        *)
(* sml_check_flag.  Several threads could be here at the same time as far  *)
(* as the code's guards go; that only one is follows from the counting.    *)
(***************************************************************************)

\* fetch_or(&gc_count, 1) in sml_gc.  g: called by sml_wait_gc.  The thread
\* that finds the count even starts a collection.
sml_gc(t, g) ==
    /\ pc[t] = "ml"
    /\ wait[t] = 0
    /\ IF gc_count % 2 = 0
       THEN /\ gc_count < 2 * MaxGC
            /\ gc_count' = gc_count + 1
            /\ globals' = FALSE
            /\ retries' = 0
            /\ Goto(t, "global")
            /\ tgt' = [tgt EXCEPT ![t] = t]
            /\ sig' = [sig EXCEPT ![t] = PRESYNC1]
            /\ from' = [from EXCEPT ![t] = ASYNC]
            /\ greedy' = [greedy EXCEPT ![t] = g]
            /\ ret' = [ret EXCEPT ![t] = "ml"]
            /\ wait' = [wait EXCEPT ![t] = IF g THEN gc_count + 2 ELSE 0]
       ELSE /\ g
            /\ wait' = [wait EXCEPT ![t] = gc_count + 1]
            /\ UNCHANGED <<collection, pc, job>>
    /\ UNCHANGED <<registry, state, flags, handshake, flag, walk, help>>

\* signal_handler calls sml_gc(0) on a thread that is interrupted in C code
signal_gc(t) ==
    /\ pc[t] = "c"
    /\ gc_count % 2 = 0
    /\ gc_count < 2 * MaxGC
    /\ gc_count' = gc_count + 1
    /\ globals' = FALSE
    /\ retries' = 0
    /\ Goto(t, "global")
    /\ tgt' = [tgt EXCEPT ![t] = t]
    /\ sig' = [sig EXCEPT ![t] = PRESYNC1]
    /\ from' = [from EXCEPT ![t] = ASYNC]
    /\ greedy' = [greedy EXCEPT ![t] = FALSE]
    /\ ret' = [ret EXCEPT ![t] = "c"]
    /\ UNCHANGED <<registry, state, flags, handshake, flag, walk, help, wait>>

\* The first element of workers_available that is not DEAD, or NULL
IsLiveHead(h) ==
    /\ h <= n
    /\ h # 0 => ~dead[h]
    /\ \A w \in Worker : h < w /\ w <= n => dead[w]

\* Mutant of global_phase: the phase of new workers is not changed with it
GlobalPhaseLate(t) ==
    /\ pc[t] = "global"
    /\ \E h \in Pointer :
          /\ IsLiveHead(h)
          /\ list' = [list EXCEPT ![t] = h]
          /\ cur' = [cur EXCEPT ![t] = h]
    /\ cnt' = [cnt EXCEPT ![t] = 0]
    /\ Goto(t, "walk")
    /\ UNCHANGED <<registry, state, flags, handshake, flag, collection, job,
                   help, wait>>

\* One CAS fixes the set of workers that get the signal and the phase of the
\* workers that register from now on.
global_phase(t) ==
    /\ pc[t] = "global"
    /\ avail' = Accept(sig[t])
    /\ \E h \in Pointer :
          /\ IsLiveHead(h)
          /\ list' = [list EXCEPT ![t] = h]
          /\ cur' = [cur EXCEPT ![t] = h]
    /\ cnt' = [cnt EXCEPT ![t] = 0]
    /\ Goto(t, "walk")
    /\ UNCHANGED <<n, state, flags, handshake, flag, collection, job, help,
                   wait>>

\* Mutant of Killable: CANCELED_FLAG is not looked at
KillableUncanceled(t, w) == from[t] = ASYNC /\ users[w] = "none"

\* A canceled worker without users leaves the protocol when a collection starts
Killable(t, w) == from[t] = ASYNC /\ canceled[w] /\ users[w] = "none"

\* One iteration of the loop of change_phase
change_phase(t) ==
    LET w == cur[t] IN
    /\ pc[t] = "walk"
    /\ w # 0
    /\ cur' = [cur EXCEPT ![t] = w - 1]
    /\ \/ /\ dead[w] /\ w # list[t]
          /\ UNCHANGED <<phase, dead, cnt>>
       \/ /\ ~(dead[w] /\ w # list[t])
          /\ Killable(t, w)
          /\ dead' = [dead EXCEPT ![w] = TRUE]
          /\ UNCHANGED <<phase, cnt>>
       \/ /\ ~(dead[w] /\ w # list[t])
          /\ ~Killable(t, w)
          /\ phase' = [phase EXCEPT ![w] = Signal(@, from[t], sig[t])]
          /\ cnt' = [cnt EXCEPT ![t] = @ + 1]
          /\ UNCHANGED dead
    /\ UNCHANGED <<registry, active, helper, canceled, genum, users, handshake,
                   flag, collection, pc, job, list, help, wait>>

\* The end of change_phase: the list is offered to helpers
publish_handshake(t) ==
    /\ pc[t] = "walk"
    /\ cur[t] = 0
    /\ hsHead' = list[t]
    /\ hsStamp' = sig[t]
    /\ Goto(t, "add")
    /\ list' = [list EXCEPT ![t] = 0]
    /\ UNCHANGED <<registry, state, flags, flag, collection, job, cur, cnt,
                   help, wait>>

\* fetch_add(&sml_check_flag, count) by the caller of change_phase
add_check_flag(t) ==
    /\ pc[t] = "add"
    /\ flag' = flag + cnt[t]
    /\ cnt' = [cnt EXCEPT ![t] = 0]
    /\ IF greedy[t] THEN Goto(t, "greedy") /\ UNCHANGED job ELSE Return(t)
    /\ UNCHANGED <<registry, state, flags, handshake, collection, list, cur,
                   help, wait>>

\* A greedy caller answers the signal it has just issued
accept_own(t) ==
    /\ pc[t] = "greedy"
    /\ phase' = [phase EXCEPT ![tgt[t]] = Accept(sig[t])]
    /\ Begin(t, tgt[t], Accept(sig[t]), TRUE, "ml")
    /\ UNCHANGED <<registry, active, helper, flags, handshake, flag,
                   collection, walk, help, wait>>

-----------------------------------------------------------------------------
(***************************************************************************)
(* The actions of the four signals.  Each ends with fetch_sub on           *)
(* sml_check_flag; the thread that takes it to 0 issues the next signal.   *)
(***************************************************************************)

Executes(t, p) == pc[t] = "act" /\ sig[t] = p

\* Mutant of Respond: the counter stops at 0
RespondSaturating(t) == flag' = IF flag > 0 THEN flag - 1 ELSE flag

\* Mutant of IsLast: a negative counter is taken for the last answer
IsLastOrPast == flag <= 1

Respond(t) == flag' = flag - 1

IsLast == flag = 1

Issue(t, old, new) ==
    /\ Goto(t, "global")
    /\ from' = [from EXCEPT ![t] = old]
    /\ sig' = [sig EXCEPT ![t] = new]
    /\ UNCHANGED <<tgt, greedy, ret>>

\* Mutant of worker_sync1: nobody is made to enumerate the global roots
Sync1WithoutGlobalEnum(t) ==
    /\ Executes(t, SYNC1)
    /\ Respond(t)
    /\ IF IsLast THEN Issue(t, SYNC1, PRESYNC2) ELSE Return(t)
    /\ UNCHANGED <<registry, state, flags, handshake, collection, walk, help,
                   wait>>

worker_sync1(t) ==
    /\ Executes(t, SYNC1)
    /\ Respond(t)
    /\ IF IsLast
       THEN /\ genum' = [genum EXCEPT ![tgt[t]] = TRUE]
            /\ Issue(t, SYNC1, PRESYNC2)
       ELSE Return(t) /\ UNCHANGED genum
    /\ UNCHANGED <<registry, state, canceled, dead, users, handshake,
                   collection, walk, help, wait>>

\* The roots of the users are enumerated and ended users dropped; the worker
\* that has GLOBALENUM_FLAG enumerates the global roots too.
worker_sync2(t) ==
    LET w == tgt[t] IN
    /\ Executes(t, SYNC2)
    /\ users' = [users EXCEPT ![w] = IF @ = "ended" THEN "none" ELSE @]
    /\ globals' = (globals \/ genum[w])
    /\ genum' = [genum EXCEPT ![w] = FALSE]
    /\ Respond(t)
    /\ IF IsLast THEN Issue(t, SYNC2, PREMARK) ELSE Return(t)
    /\ UNCHANGED <<registry, state, canceled, dead, handshake, gc_count,
                   retries, walk, help, wait>>

\* sml_heap_mark_finish decides, from the heap, whether MARK is repeated
worker_mark(t) ==
    /\ Executes(t, MARK)
    /\ Respond(t)
    /\ \/ ~IsLast /\ Return(t) /\ UNCHANGED retries
       \/ IsLast /\ Issue(t, MARK, PREASYNC) /\ UNCHANGED retries
       \/ /\ IsLast
          /\ retries < MaxRetry
          /\ retries' = retries + 1
          /\ Issue(t, MARK, PREMARK)
    /\ UNCHANGED <<registry, state, flags, handshake, gc_count, globals, walk,
                   help, wait>>

\* Mutant of worker_async: the first answer ends the collection
AsyncEndsAtOnce(t) ==
    /\ Executes(t, ASYNC)
    /\ Respond(t)
    /\ Goto(t, "end")
    /\ UNCHANGED <<registry, state, flags, handshake, collection, job, walk,
                   help, wait>>

worker_async(t) ==
    /\ Executes(t, ASYNC)
    /\ Respond(t)
    /\ IF IsLast THEN Goto(t, "end") /\ UNCHANGED job ELSE Return(t)
    /\ UNCHANGED <<registry, state, flags, handshake, collection, walk, help,
                   wait>>

\* sml_heap_global_async, then fetch_add(&gc_count, 1)
end_gc(t) ==
    /\ pc[t] = "end"
    /\ gc_count' = gc_count + 1
    /\ Return(t)
    /\ UNCHANGED <<registry, state, flags, handshake, flag, globals, retries,
                   walk, help, wait>>

-----------------------------------------------------------------------------
(***************************************************************************)
(* Polling: sml_check_internal and help_inactive.                          *)
(***************************************************************************)

\* Compiled code calls it when it has seen sml_check_flag not 0, which may have
\* changed since; sml_wait_gc calls it until gc_count is reached.  A pending
\* signal is accepted by a plain store.
sml_check(t) ==
    /\ pc[t] = "ml"
    /\ wait[t] = 0 \/ gc_count < wait[t]
    /\ IF IsPre(phase[t])
       THEN /\ phase' = [phase EXCEPT ![t] = Accept(@)]
            /\ Begin(t, t, Accept(phase[t]), TRUE, "ml")
       ELSE /\ Goto(t, "load")
            /\ UNCHANGED <<phase, job>>
    /\ UNCHANGED <<registry, active, helper, flags, handshake, flag,
                   collection, walk, help, wait>>

\* The loop of sml_wait_gc ends
wait_done(t) ==
    /\ pc[t] = "ml"
    /\ wait[t] # 0
    /\ gc_count >= wait[t]
    /\ wait' = [wait EXCEPT ![t] = 0]
    /\ UNCHANGED <<registry, state, flags, handshake, flag, collection, pc,
                   job, walk, help>>

load_handshake(t) ==
    /\ pc[t] = "load"
    /\ list' = [list EXCEPT ![t] = hsHead]
    /\ cur' = [cur EXCEPT ![t] = hsHead]
    /\ stamp' = [stamp EXCEPT ![t] = hsStamp]
    /\ Goto(t, "scan")
    /\ UNCHANGED <<registry, state, flags, handshake, flag, collection, job,
                   cnt, seen, wait>>

\* Mutant of NeedsHelp: looks for an accepted phase instead of a pending one
NeedsNoHelp(w) == ~dead[w] /\ ~active[w] /\ ~IsPre(phase[w])

NeedsHelp(w) == ~dead[w] /\ ~active[w] /\ IsPre(phase[w])

\* One iteration of the loop of help_inactive, up to the CAS
scan_handshake(t) ==
    /\ pc[t] = "scan"
    /\ cur[t] # 0
    /\ IF NeedsHelp(cur[t])
       THEN /\ Goto(t, "pop")
            /\ seen' = [seen EXCEPT ![t] = phase[cur[t]]]
            /\ UNCHANGED cur
       ELSE /\ cur' = [cur EXCEPT ![t] = @ - 1]
            /\ UNCHANGED <<pc, seen>>
    /\ UNCHANGED <<registry, state, flags, handshake, flag, collection, job,
                   list, cnt, stamp, wait>>

\* help_inactive returns to sml_check_internal, which returns to ML code
HelpReturns(t) ==
    /\ Goto(t, "ml")
    /\ list' = [list EXCEPT ![t] = 0]
    /\ cur' = [cur EXCEPT ![t] = 0]
    /\ stamp' = [stamp EXCEPT ![t] = 0]
    /\ seen' = [seen EXCEPT ![t] = 0]

\* Mutant of Unmoved: the stamp is not compared
UnmovedPointer(t) == hsHead = list[t]

\* workers_handshake still has the value t loaded
Unmoved(t) == hsHead = list[t] /\ hsStamp = stamp[t]

\* The worker found is taken off the list together with those before it
pop_handshake(t) ==
    /\ pc[t] = "pop"
    /\ Unmoved(t)
    /\ hsHead' = cur[t] - 1
    /\ Goto(t, "take")
    /\ UNCHANGED <<registry, state, flags, hsStamp, flag, collection, job,
                   walk, help, wait>>

\* The weak CAS fails, perhaps spuriously, and the helper gives up
pop_fails(t) ==
    /\ pc[t] = "pop"
    /\ HelpReturns(t)
    /\ UNCHANGED <<registry, state, flags, handshake, flag, collection, job,
                   cnt, wait>>

\* Nobody on the list needs help: clear it, unless it is already empty
clear_handshake(t) ==
    /\ pc[t] = "scan"
    /\ cur[t] = 0
    /\ \/ list[t] # 0 /\ Unmoved(t) /\ hsHead' = 0
       \/ UNCHANGED hsHead
    /\ HelpReturns(t)
    /\ UNCHANGED <<registry, state, flags, hsStamp, flag, collection, job,
                   cnt, wait>>

\* Strong CAS from INACTIVE(PRE...) to ACTIVE and HELPER_STATE
take_worker(t) ==
    LET w == cur[t] IN
    /\ pc[t] = "take"
    /\ IF ~active[w] /\ phase[w] = seen[t]
       THEN /\ phase' = [phase EXCEPT ![w] = Accept(seen[t])]
            /\ active' = [active EXCEPT ![w] = TRUE]
            /\ helper' = [helper EXCEPT ![w] = TRUE]
            /\ Begin(t, w, Accept(seen[t]), FALSE, "helped")
            /\ list' = [list EXCEPT ![t] = 0]
            /\ cur' = [cur EXCEPT ![t] = 0]
            /\ stamp' = [stamp EXCEPT ![t] = 0]
            /\ UNCHANGED seen
       ELSE /\ HelpReturns(t)
            /\ UNCHANGED <<state, job>>
    /\ UNCHANGED <<registry, flags, handshake, flag, collection, cnt, wait>>

\* The helper unlocks the worker, unless the next signal has arrived: then it
\* has to execute that action as well.
release_worker(t) ==
    LET w == tgt[t] IN
    /\ pc[t] = "helped"
    /\ IF phase[w] = Accept(seen[t])
       THEN /\ active' = [active EXCEPT ![w] = FALSE]
            /\ helper' = [helper EXCEPT ![w] = FALSE]
            /\ HelpReturns(t)
            /\ tgt' = [tgt EXCEPT ![t] = 0]
            /\ UNCHANGED <<phase, sig, from, greedy, ret>>
       ELSE /\ seen' = [seen EXCEPT ![t] = phase[w]]
            /\ phase' = [phase EXCEPT ![w] = Accept(@)]
            /\ IF IsPre(phase[w])
               THEN Begin(t, w, Accept(phase[w]), FALSE, "helped")
               ELSE Goto(t, "fatal") /\ UNCHANGED job
            /\ UNCHANGED <<active, helper, list, cur, stamp>>
    /\ UNCHANGED <<registry, flags, handshake, flag, collection, cnt, wait>>
-----------------------------------------------------------------------------

\* The steps of the runtime system proper, which a running thread never stops
\* in the middle of
RuntimeStep(t) ==
    \/ enter_worker(t)
    \/ global_phase(t) \/ change_phase(t) \/ publish_handshake(t)
    \/ add_check_flag(t) \/ accept_own(t)
    \/ worker_sync1(t) \/ worker_sync2(t) \/ worker_mark(t) \/ worker_async(t)
    \/ end_gc(t)
    \/ load_handshake(t) \/ scan_handshake(t) \/ pop_handshake(t)
    \/ pop_fails(t) \/ clear_handshake(t) \/ take_worker(t) \/ release_worker(t)

\* What the program running on the thread may ask for
ProgramStep(t) ==
    \/ register_worker(t)
    \/ \E ends \in BOOLEAN : leave_worker(t, ends)
    \/ sml_enter(t)
    \/ cancel_worker(t)
    \/ \E g \in BOOLEAN : sml_gc(t, g)
    \/ signal_gc(t)

PollStep(t) == sml_check(t) \/ wait_done(t)

Next == \E t \in Worker : RuntimeStep(t) \/ ProgramStep(t) \/ PollStep(t)

Spec == Init /\ [][Next]_vars

\* Threads run unless the program blocks them in C code: a runtime step that
\* can be taken is taken, ML code polls, and a weak CAS that keeps being
\* possible does not fail forever.
Fairness ==
    \A t \in Worker :
        /\ WF_vars(RuntimeStep(t))
        /\ WF_vars(PollStep(t))
        /\ SF_vars(pop_handshake(t))

FairSpec == Spec /\ Fairness

-----------------------------------------------------------------------------
(***************************************************************************)
(* Properties.                                                             *)
(***************************************************************************)

Label == {"none", "ml", "c", "enter", "exited", "fatal", "act", "global",
          "walk", "add", "greedy", "end", "load", "scan", "pop", "take",
          "helped"}

\* Every variable has the type its declaration in control.c gives it.
TypeOK ==
    /\ n \in Pointer
    /\ avail \in Phase
    /\ phase \in [Worker -> Phase]
    /\ active \in [Worker -> BOOLEAN]
    /\ helper \in [Worker -> BOOLEAN]
    /\ canceled \in [Worker -> BOOLEAN]
    /\ dead \in [Worker -> BOOLEAN]
    /\ genum \in [Worker -> BOOLEAN]
    /\ users \in [Worker -> {"none", "ended", "live"}]
    /\ hsHead \in Pointer
    /\ hsStamp \in Phase
    /\ flag \in Int
    /\ gc_count \in Nat
    /\ globals \in BOOLEAN
    /\ retries \in Nat
    /\ pc \in [Worker -> Label]
    /\ tgt \in [Worker -> Pointer]
    /\ sig \in [Worker -> Phase]
    /\ from \in [Worker -> Phase]
    /\ greedy \in [Worker -> BOOLEAN]
    /\ ret \in [Worker -> {"ml", "c", "helped"}]
    /\ list \in [Worker -> Pointer]
    /\ cur \in [Worker -> Pointer]
    /\ cnt \in [Worker -> Nat]
    /\ stamp \in [Worker -> Phase]
    /\ seen \in [Worker -> Phase]
    /\ wait \in [Worker -> Nat]

Live(w) == w <= n /\ ~dead[w]
Acting(t) == pc[t] = "act"
Changing(t) == pc[t] \in {"global", "walk", "add", "end"}

\* Worker context w was signalled and has not been answered for
Owes(w) == \/ Live(w) /\ IsPre(phase[w])
           \/ \E t \in Worker : Acting(t) /\ tgt[t] = w
Owing == {w \in Worker : Owes(w)}

\* At most one thread at a time issues a signal or ends the collection: the
\* thread that took sml_check_flag to 0 is the only one that changes phases.
SingleChanger ==
    \A t, u \in Worker : Changing(t) /\ Changing(u) => t = u

\* sml_check_flag is the number of workers that owe an answer, less those the
\* thread in change_phase has signalled but not yet added; so it is negative
\* at times, and 0 only when every worker has answered.
CounterExact ==
    /\ (\A t \in Worker : ~Changing(t)) => flag = Cardinality(Owing)
    /\ \A t \in Worker : Changing(t) => flag = Cardinality(Owing) - cnt[t]

\* All actions that are executing, and all that are pending, are of the same
\* signal: no worker starts an action before all have ended the previous one.
OneActionAtATime ==
    \A t \in Worker : Acting(t) =>
        /\ \A u \in Worker : Acting(u) => sig[u] = sig[t]
        /\ \A w \in Worker : Live(w) /\ IsPre(phase[w]) => Accept(phase[w]) = sig[t]

\* When a worker may trace, or a new worker starts in MARK, the roots of every
\* user and the global roots have been enumerated.
RootsBeforeMark ==
    (avail = MARK \/ \E w \in Worker : Live(w) /\ phase[w] \in {PREMARK, MARK}) =>
        /\ globals
        /\ \A t \in Worker : ~Executes(t, SYNC2)
        /\ \A w \in Worker : Live(w) => phase[w] # PRESYNC2

\* Thread t does not hold its worker context: it is in C code, or leaves it to
\* others while it finishes the phase change that an unlocked action ended in
Outside(t) == \/ pc[t] \in {"c", "enter", "exited"}
              \/ Changing(t) /\ ret[t] = "c"

\* No two threads execute an action for the same worker context, and nobody
\* does so for a worker whose own thread is running ML code: worker->users and
\* the allocator have one user at a time although leave_worker has no lock.
ExclusiveAction ==
    \A t \in Worker : Acting(t) =>
        /\ \A u \in Worker : Acting(u) /\ tgt[u] = tgt[t] => u = t
        /\ tgt[t] # t => Outside(tgt[t])

\* The assertions of control.c: in change_phase every worker is in old_phase,
\* a greedy caller's own worker is ACTIVE in the phase just issued, and a
\* collection that ends was in progress; and neither sml_fatal is reached.
Asserts ==
    \A t \in Worker :
        /\ pc[t] = "walk" => \A w \in 1 .. cur[t] :
                                Live(w) => phase[w] = from[t]
        /\ pc[t] = "greedy" => /\ active[tgt[t]] /\ ~helper[tgt[t]]
                               /\ phase[tgt[t]] = sig[t]
        /\ pc[t] = "end" => gc_count % 2 = 1
        /\ pc[t] # "fatal"

\* Between collections every worker is in ASYNC, new ones start in ASYNC, and
\* no collector action is left over.
QuietBetweenCollections ==
    gc_count % 2 = 0 =>
        /\ avail = ASYNC
        /\ flag = 0
        /\ \A w \in Worker : Live(w) => phase[w] = ASYNC
        /\ \A t \in Worker : ~Acting(t) /\ ~Changing(t)

\* A DEAD worker context is out of the protocol for good: no step signals it,
\* locks it or executes an action for it, although help_inactive does not look
\* at DEAD_FLAG again before it locks a worker.
DeadIsLeftAlone ==
    [][\A w \in Worker : dead[w] =>
        /\ dead'[w]
        /\ phase'[w] = phase[w]
        /\ active'[w] => active[w]
        /\ \A t \in Worker : Acting(t)' => tgt'[t] # w]_vars

\* While a collection is in progress, some worker owes an answer or some thread
\* is moving the collection to its next phase.
SomeoneAdvances ==
    gc_count % 2 = 1 =>
        Owing # {} \/ \E t \in Worker : Changing(t) \/ pc[t] = "greedy"

\* A worker is on workers_handshake, or a helper has just taken it off and is
\* about to lock it.
OnOffer(w) ==
    \/ w <= hsHead
    \/ \E t \in Worker : pc[t] = "take" /\ cur[t] = w

\* The phase embedded in workers_handshake as a stamp "avoids ABA": the list
\* is cleared or shortened only while the phase has not advanced.  So a pending
\* signal of an INACTIVE worker stays on offer, unless a new list is about to be
\* published, in which the worker will be.
HelpAlwaysOffered ==
    (\A t \in Worker : pc[t] \notin {"global", "walk"}) =>
        \A w \in Worker : w <= n /\ NeedsHelp(w) => OnOffer(w)

\* MARK has been repeated, or is about to be: the new list has the stamp of the
\* one before it.
MarkRepeated == retries > 0 /\ hsStamp = PREMARK

\* The stamp is as good as that comment says for all other signals, also those
\* that follow a repeated MARK.
HelpStaysOffered == MarkRepeated \/ HelpAlwaysOffered

\* A helper that remembers the list of a MARK signal has cleared that of its
\* repetition.
HelpWithdrawn == MarkRepeated /\ ~HelpAlwaysOffered

\* All workers have answered but the addition, not an answer, took the counter
\* to 0, so that no thread is the last to answer.
LastAnswerLost ==
    /\ gc_count % 2 = 1
    /\ flag = 0
    /\ Owing = {}
    /\ \A t \in Worker : ~Changing(t)

\* sml_wait_gc returns, even if the other threads never leave C code again,
\* unless the last answer is lost or the list of a repeated MARK is cleared.
WaiterReleased ==
    \A t \in Worker : wait[t] # 0 ~> wait[t] = 0 \/ LastAnswerLost \/ HelpWithdrawn

\* enter_worker returns: the helper that holds the worker lets it go.
EnterReturns == \A t \in Worker : pc[t] = "enter" ~> pc[t] = "ml"

=============================================================================
