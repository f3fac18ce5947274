-------------------------------- MODULE Exit --------------------------------
(***************************************************************************)
(* The end of the program: sml_exit of src/runtime/control.c and           *)
(* sml_finish of src/runtime/init.c, against threads that register, enter  *)
(* and leave, and a collection in progress.                                *)
(*                                                                         *)
(* sml_exit stores 0 in the low bits of workers_available, which makes     *)
(* register_worker stop, locks the workers there are, and releases the     *)
(* runtime's resources.  A thread that leaves ML code unlocks its worker   *)
(* first and answers its signal after that: if it answers last, it calls   *)
(* global_phase, which stores the phase of the next signal.                *)
(***************************************************************************)
EXTENDS Phases

CONSTANTS
    Thread,     \* each with its worker, once it has registered one
    Exiter,     \* the thread that calls sml_exit
    MaxSignal   \* bound: number of signals

VARIABLES
    avail,      \* low bits of workers_available; PREASYNC = 0 forbids
    lock,       \* state of the worker: "none", "inactive" or "active"
    pc,
    owing,      \* workers with a signal they have not answered
    signals,    \* number of signals so far
    toLock      \* workers sml_exit has not locked yet

vars == <<avail, lock, pc, owing, signals, toLock>>

Init ==
    /\ avail = ASYNC
    /\ lock \in [Thread -> {"none", "inactive"}]
    /\ pc = [t \in Thread |-> "C"]
    /\ owing = {}
    /\ signals = 0
    /\ toLock = {}

Goto(t, l) == pc' = [pc EXCEPT ![t] = l]
Registered == {t \in Thread : lock[t] # "none"}

\* The phase of new workers after signal number n
PhaseOf(n) == <<SYNC1, SYNC2, MARK, ASYNC>>[((n - 1) % 4) + 1]

-----------------------------------------------------------------------------
\* The first enter_worker of a thread: when the phase is 0 it sleeps for ever
register_worker(t) ==
    /\ pc[t] = "C" /\ lock[t] = "none"
    /\ IF avail = PREASYNC
       THEN Goto(t, "asleep") /\ UNCHANGED lock
       ELSE Goto(t, "ML") /\ lock' = [lock EXCEPT ![t] = "active"]
    /\ UNCHANGED <<avail, owing, signals, toLock>>

\* enter_worker of a thread that has a worker
enter_worker(t) ==
    /\ pc[t] = "C" /\ lock[t] = "inactive"
    /\ lock' = [lock EXCEPT ![t] = "active"]
    /\ Goto(t, "ML")
    /\ UNCHANGED <<avail, owing, signals, toLock>>

\* leave_worker unlocks, and goes on with a signal that was pending
leave_worker(t) ==
    /\ pc[t] = "ML"
    /\ lock' = [lock EXCEPT ![t] = "inactive"]
    /\ Goto(t, IF t \in owing THEN "leaving" ELSE "C")
    /\ UNCHANGED <<avail, owing, signals, toLock>>

\* An action ends, in leave_worker or at a poll; whoever is last goes on
answer(t) ==
    /\ pc[t] \in {"leaving", "ML"} /\ t \in owing
    /\ owing' = owing \ {t}
    /\ Goto(t, IF owing # {t} \/ signals % 4 = 0
               THEN IF pc[t] = "ML" THEN "ML" ELSE "C"
               ELSE IF pc[t] = "ML" THEN "phase" ELSE "phase_left")
    /\ UNCHANGED <<avail, lock, signals, toLock>>

\* sml_gc
sml_gc(t) ==
    /\ pc[t] = "ML" /\ signals % 4 = 0 /\ owing = {}
    /\ Goto(t, "phase")
    /\ UNCHANGED <<avail, lock, owing, signals, toLock>>

\* global_phase and change_phase
global_phase(t) ==
    /\ pc[t] \in {"phase", "phase_left"}
    /\ signals < MaxSignal
    /\ signals' = signals + 1
    /\ avail' = PhaseOf(signals')
    /\ owing' = Registered
    /\ Goto(t, IF pc[t] = "phase" THEN "ML" ELSE "C")
    /\ UNCHANGED <<lock, toLock>>

-----------------------------------------------------------------------------
\* sml_exit: no worker may be registered any more
sml_exit(t) ==
    /\ t = Exiter /\ pc[t] \in {"C", "ML"}
    /\ avail' = PREASYNC
    /\ toLock' = Registered \ {t}
    /\ Goto(t, "exit")
    /\ UNCHANGED <<lock, owing, signals>>

\* fetch_and of the state of a worker; one that is locked makes it give up
exit_lock(t) ==
    \E v \in toLock :
        /\ pc[t] = "exit"
        /\ IF lock[v] = "active"
           THEN Goto(t, "exited") /\ UNCHANGED <<lock, toLock>>
           ELSE /\ lock' = [lock EXCEPT ![v] = "active"]
                /\ toLock' = toLock \ {v}
                /\ UNCHANGED pc
        /\ UNCHANGED <<avail, owing, signals>>

\* All workers are locked: sml_finish destroys finalizers, callbacks and heap
sml_finish(t) ==
    \/ pc[t] = "exit" /\ toLock = {} /\ Goto(t, "finish")
       /\ UNCHANGED <<avail, lock, owing, signals, toLock>>
    \/ pc[t] = "finish" /\ Goto(t, "exited")
       /\ UNCHANGED <<avail, lock, owing, signals, toLock>>

Next == \E t \in Thread :
    \/ register_worker(t) \/ enter_worker(t) \/ leave_worker(t) \/ answer(t)
    \/ sml_gc(t) \/ global_phase(t) \/ sml_exit(t) \/ exit_lock(t) \/ sml_finish(t)

Spec == Init /\ [][Next]_vars

\* While sml_finish runs no other thread executes ML code: "only this thread
\* is running, so all global resources of the runtime can be used safely"
Alone == \A t \in Thread : pc[Exiter] = "finish" /\ pc[t] = "ML" => t = Exiter

=============================================================================
