-------------------------- MODULE HandshakeProofs --------------------------
(***************************************************************************)
(* The theorems about the handshake, for any number of worker threads.     *)
(*                                                                         *)
(* First comes type correctness, which rests on help_inactive going on to  *)
(* its CAS only when it has a list element, so that the "next" it stores   *)
(* exists.  Then every action preserves IInv.  There is one lemma for each *)
(* action or case of an action; actions that do the same to the state the  *)
(* invariant speaks of share a lemma about an operator that says what they *)
(* have in common.  A lemma first states the effect of the step on one     *)
(* worker or thread, then what makes the step safe, and then takes the     *)
(* conjuncts of IInv in turn.  Step <1>9 says what the action does to the  *)
(* set of workers that owe an answer, on which the counting argument rests.*)
(*                                                                         *)
(* The second part shows that the handshake implements module Rounds, and  *)
(* the last one that help stays on offer.                                  *)
(***************************************************************************)
EXTENDS HandshakeInv, TLAPS, FiniteSetTheorems

\* Worker contexts and pointers to them.
LEMMA PointerFacts ==
    /\ 0 \in Pointer
    /\ \A w \in Worker : w \in Nat /\ w # 0 /\ w \in Pointer
    /\ \A p \in Pointer : p \in Nat /\ (p # 0 => p \in Worker /\ p - 1 \in Pointer)
BY NAssumption DEF Worker, Pointer

\* What accepting a signal does to a phase.
LEMMA PhaseFacts ==
    /\ \A p \in Phase : Accept(p) \in Phase /\ ~IsPre(Accept(p))
    /\ \A p \in Phase : ~IsPre(p) => Accept(p) = p
    /\ \A p \in Phase : Accept(Accept(p)) = Accept(p)
    /\ IsPre(PREASYNC) /\ IsPre(PRESYNC1) /\ IsPre(PRESYNC2) /\ IsPre(PREMARK)
    /\ ~IsPre(ASYNC) /\ ~IsPre(SYNC1) /\ ~IsPre(SYNC2) /\ ~IsPre(MARK)
    /\ Accept(PREASYNC) = ASYNC /\ Accept(PRESYNC1) = SYNC1
    /\ Accept(PRESYNC2) = SYNC2 /\ Accept(PREMARK) = MARK
    /\ \A p \in Phase : Accept(p) \in {ASYNC, SYNC1, SYNC2, MARK}
    /\ ASYNC # SYNC1 /\ ASYNC # SYNC2 /\ ASYNC # MARK /\ SYNC1 # SYNC2
    /\ SYNC1 # MARK /\ SYNC2 # MARK /\ PRESYNC1 # PRESYNC2
    /\ PREMARK # PRESYNC2 /\ PREASYNC # PRESYNC2
    /\ 0 \in Phase /\ {ASYNC, SYNC1, SYNC2, MARK} \subseteq Phase
    /\ {PREASYNC, PRESYNC1, PRESYNC2, PREMARK} \subseteq Phase
BY DEF Phase, Accept, IsPre, PREASYNC, ASYNC, PRESYNC1, SYNC1, PRESYNC2, SYNC2,
       PREMARK, MARK

\* The exclusive or of two phases is a phase.
LEMMA XorType == \A p, q \in Phase : Xor(p, q) \in Phase
<1> TAKE p, q \in Phase
<1>1. /\ BitXor(p \div 4, q \div 4) \in {0, 1}
      /\ BitXor((p \div 2) % 2, (q \div 2) % 2) \in {0, 1}
      /\ BitXor(p % 2, q % 2) \in {0, 1}
  BY DEF BitXor, Phase
<1> HIDE DEF BitXor
<1> QED
  BY <1>1 DEF Xor, Phase

\* fetch_xor leaves a phase in the low bits of a worker's state.
LEMMA SignalType == \A p, q, r \in Phase : Signal(p, q, r) \in Phase
BY XorType DEF Signal

\* The places a thread can be in.
LEMMA LabelFacts ==
    /\ {"none", "ml", "c", "enter", "exited", "fatal", "act", "global", "walk",
        "add", "greedy", "end", "load", "scan", "pop", "take",
        "helped"} \subseteq Label
    /\ {"ml", "c", "helped"} \subseteq Label
BY DEF Label

\* The type of the thread-local variables of an action or a phase change.
JobType ==
    /\ pc \in [Worker -> Label]
    /\ tgt \in [Worker -> Pointer]
    /\ sig \in [Worker -> Phase]
    /\ from \in [Worker -> Phase]
    /\ greedy \in [Worker -> BOOLEAN]
    /\ ret \in [Worker -> {"ml", "c", "helped"}]

\* The type of the lists a thread walks.
WalkType ==
    /\ list \in [Worker -> Pointer]
    /\ cur \in [Worker -> Pointer]
    /\ cnt \in [Worker -> Nat]
    /\ stamp \in [Worker -> Phase]
    /\ seen \in [Worker -> Phase]
    /\ wait \in [Worker -> Nat]

\* The type of the worker contexts.
ContextType ==
    /\ phase \in [Worker -> Phase]
    /\ active \in [Worker -> BOOLEAN]
    /\ helper \in [Worker -> BOOLEAN]
    /\ canceled \in [Worker -> BOOLEAN]
    /\ dead \in [Worker -> BOOLEAN]
    /\ genum \in [Worker -> BOOLEAN]
    /\ users \in [Worker -> {"none", "ended", "live"}]

\* The type of the global variables.
GlobalType ==
    /\ n \in Pointer
    /\ avail \in Phase
    /\ hsHead \in Pointer
    /\ hsStamp \in Phase
    /\ flag \in Int
    /\ gc_count \in Nat
    /\ globals \in BOOLEAN
    /\ retries \in Nat

\* A type is kept by an assignment of a value of that type.
LEMMA ExceptType ==
    ASSUME NEW D, NEW S, NEW f \in [D -> S], NEW x, NEW v,
           x \in D => v \in S
    PROVE  [f EXCEPT ![x] = v] \in [D -> S]
OBVIOUS

\* Starting an action keeps the types.
LEMMA BeginType ==
    ASSUME JobType, NEW t \in Worker, NEW w \in Pointer, NEW p \in Phase,
           NEW g \in BOOLEAN, NEW r \in {"ml", "c", "helped"}, Begin(t, w, p, g, r)
    PROVE  JobType'
<1> USE DEF JobType, Begin, Goto
<1>1. pc' \in [Worker -> Label]
  BY LabelFacts
<1>2. tgt' \in [Worker -> Pointer] /\ sig' \in [Worker -> Phase]
  OBVIOUS
<1>3. from' \in [Worker -> Phase]
  BY PhaseFacts
<1>4. greedy' \in [Worker -> BOOLEAN] /\ ret' \in [Worker -> {"ml", "c", "helped"}]
  OBVIOUS
<1> QED
  BY <1>1, <1>2, <1>3, <1>4

\* Returning from an action keeps the types.
LEMMA ReturnType ==
    ASSUME JobType, NEW t \in Worker, Return(t)
    PROVE  JobType'
<1> USE DEF JobType, Return, Goto
<1>1. pc' \in [Worker -> Label]
  BY LabelFacts
<1>2. tgt' \in [Worker -> Pointer]
  BY PointerFacts
<1>3. sig' \in [Worker -> Phase] /\ from' \in [Worker -> Phase]
  BY PhaseFacts
<1>4. greedy' \in [Worker -> BOOLEAN] /\ ret' \in [Worker -> {"ml", "c", "helped"}]
  OBVIOUS
<1> QED
  BY <1>1, <1>2, <1>3, <1>4

\* Issuing the next signal keeps the types.
LEMMA IssueType ==
    ASSUME JobType, NEW t \in Worker, NEW old \in Phase, NEW new \in Phase,
           Issue(t, old, new)
    PROVE  JobType'
BY LabelFacts DEF JobType, Issue, Goto

\* Starting a collection keeps the types.
LEMMA StartType ==
    ASSUME JobType, NEW t \in Worker, NEW g \in BOOLEAN, NEW r \in {"ml", "c"},
           Goto(t, "global"),
           tgt' = [tgt EXCEPT ![t] = t],
           sig' = [sig EXCEPT ![t] = PRESYNC1],
           from' = [from EXCEPT ![t] = ASYNC],
           greedy' = [greedy EXCEPT ![t] = g],
           ret' = [ret EXCEPT ![t] = r]
    PROVE  JobType'
<1> USE DEF JobType, Goto
<1>1. pc' \in [Worker -> Label]
  BY LabelFacts
<1>2. tgt' \in [Worker -> Pointer]
  BY PointerFacts
<1>3. sig' \in [Worker -> Phase] /\ from' \in [Worker -> Phase]
  BY PhaseFacts
<1>4. greedy' \in [Worker -> BOOLEAN] /\ ret' \in [Worker -> {"ml", "c", "helped"}]
  OBVIOUS
<1> QED
  BY <1>1, <1>2, <1>3, <1>4

\* Going to another place keeps the types.
LEMMA GotoType ==
    ASSUME JobType, NEW t \in Worker, NEW l \in Label, Goto(t, l), UNCHANGED job
    PROVE  JobType'
BY DEF JobType, Goto, job

\* Returning from help_inactive keeps the types.
LEMMA HelpReturnsType ==
    ASSUME WalkType, NEW t \in Worker, HelpReturns(t), UNCHANGED <<cnt, wait>>
    PROVE  WalkType'
BY PointerFacts, PhaseFacts DEF WalkType, HelpReturns

\* The type invariant is the conjunction of the types of its groups.
LEMMA TypeGroups == TypeOK <=> GlobalType /\ ContextType /\ JobType /\ WalkType
BY DEF TypeOK, GlobalType, ContextType, JobType, WalkType

\* Every step keeps the types, given that a helper has a worker.
LEMMA TypeStep ==
    ASSUME TypeOK, Targets, Helpers, [Next]_vars
    PROVE  TypeOK'
<1>0. GlobalType /\ ContextType /\ JobType /\ WalkType
  BY TypeGroups
<1> SUFFICES GlobalType' /\ ContextType' /\ JobType' /\ WalkType'
  BY DEF TypeOK, GlobalType, ContextType, JobType, WalkType
<1> USE <1>0 DEF registry, state, flags, handshake, collection, walk, help
<1>1. CASE UNCHANGED vars
  BY <1>1 DEF vars, GlobalType, ContextType, JobType, WalkType, job
<1>2. ASSUME NEW t \in Worker, RuntimeStep(t) \/ ProgramStep(t) \/ PollStep(t)
      PROVE  GlobalType' /\ ContextType' /\ JobType' /\ WalkType'
  <2>1. CASE register_worker(t)
    <3>1. GlobalType'
      BY <2>1, PointerFacts DEF register_worker, GlobalType
    <3>2. ContextType'
      BY <2>1, PhaseFacts DEF register_worker, ContextType, GlobalType
    <3>3. JobType'
      BY <2>1, GotoType, LabelFacts DEF register_worker
    <3>4. WalkType'
      BY <2>1 DEF register_worker, WalkType
    <3> QED
      BY <3>1, <3>2, <3>3, <3>4
  <2>2. ASSUME NEW ends \in BOOLEAN, leave_worker(t, ends)
       PROVE  GlobalType' /\ ContextType' /\ JobType' /\ WalkType'
    <3>1. GlobalType'
      BY <2>2 DEF leave_worker, GlobalType
    <3>2. ContextType'
      BY <2>2, PhaseFacts DEF leave_worker, ContextType
    <3>3. JobType'
      BY <2>2, PhaseFacts, PointerFacts, LabelFacts, BeginType,
         GotoType DEF leave_worker, ContextType
    <3>4. WalkType'
      BY <2>2 DEF leave_worker, WalkType
    <3> QED
      BY <3>1, <3>2, <3>3, <3>4
  <2>3. CASE sml_enter(t)
    <3>1. GlobalType'
      BY <2>3 DEF sml_enter, GlobalType
    <3>2. ContextType'
      BY <2>3 DEF sml_enter, ContextType
    <3>3. JobType'
      BY <2>3, GotoType, LabelFacts DEF sml_enter
    <3>4. WalkType'
      BY <2>3 DEF sml_enter, WalkType
    <3> QED
      BY <3>1, <3>2, <3>3, <3>4
  <2>4. CASE enter_worker(t)
    <3>1. GlobalType'
      BY <2>4 DEF enter_worker, GlobalType
    <3>2. ContextType'
      BY <2>4 DEF enter_worker, ContextType
    <3>3. JobType'
      BY <2>4, GotoType, LabelFacts DEF enter_worker
    <3>4. WalkType'
      BY <2>4 DEF enter_worker, WalkType
    <3> QED
      BY <3>1, <3>2, <3>3, <3>4
  <2>5. CASE cancel_worker(t)
    <3>1. GlobalType'
      BY <2>5 DEF cancel_worker, GlobalType
    <3>2. ContextType'
      BY <2>5 DEF cancel_worker, ContextType
    <3>3. JobType'
      BY <2>5, GotoType, LabelFacts DEF cancel_worker
    <3>4. WalkType'
      BY <2>5 DEF cancel_worker, WalkType
    <3> QED
      BY <3>1, <3>2, <3>3, <3>4
  <2>6. ASSUME NEW g \in BOOLEAN, sml_gc(t, g)
       PROVE  GlobalType' /\ ContextType' /\ JobType' /\ WalkType'
    <3>1. GlobalType'
      <4>1. globals' \in BOOLEAN
        BY <2>6 DEF sml_gc, GlobalType
      <4>2. /\ n' \in Pointer /\ avail' \in Phase /\ hsHead' \in Pointer
           /\ hsStamp' \in Phase /\ flag' \in Int /\ retries' \in Nat
        BY <2>6 DEF sml_gc, GlobalType
      <4>3. gc_count' \in Nat
        BY <2>6 DEF sml_gc, GlobalType
      <4> QED
        BY <4>1, <4>2, <4>3 DEF GlobalType
    <3>2. ContextType'
      BY <2>6 DEF sml_gc, ContextType
    <3>3. JobType'
      BY <2>6, StartType DEF sml_gc, JobType, job
    <3>4. WalkType'
      BY <2>6 DEF sml_gc, WalkType, GlobalType
    <3> QED
      BY <3>1, <3>2, <3>3, <3>4
  <2>7. CASE signal_gc(t)
    <3>1. GlobalType'
      <4>1. globals' \in BOOLEAN
        BY <2>7 DEF signal_gc, GlobalType
      <4>2. /\ n' \in Pointer /\ avail' \in Phase /\ hsHead' \in Pointer
           /\ hsStamp' \in Phase /\ flag' \in Int /\ retries' \in Nat
        BY <2>7 DEF signal_gc, GlobalType
      <4>3. gc_count' \in Nat
        BY <2>7 DEF signal_gc, GlobalType
      <4> QED
        BY <4>1, <4>2, <4>3 DEF GlobalType
    <3>2. ContextType'
      BY <2>7 DEF signal_gc, ContextType
    <3>3. JobType'
      BY <2>7, StartType DEF signal_gc
    <3>4. WalkType'
      BY <2>7 DEF signal_gc, WalkType
    <3> QED
      BY <3>1, <3>2, <3>3, <3>4
  <2>8. CASE global_phase(t)
    <3>1. GlobalType'
      BY <2>8, PhaseFacts DEF global_phase, GlobalType, JobType
    <3>2. ContextType'
      BY <2>8 DEF global_phase, ContextType
    <3>3. JobType'
      BY <2>8, GotoType, LabelFacts DEF global_phase
    <3>4. WalkType'
      BY <2>8 DEF global_phase, WalkType
    <3> QED
      BY <3>1, <3>2, <3>3, <3>4
  <2>9. CASE change_phase(t)
    <3>1. GlobalType'
      BY <2>9 DEF change_phase, GlobalType
    <3>2. ContextType'
      <4>1. phase' \in [Worker -> Phase]
        BY <2>9, SignalType DEF change_phase, ContextType, JobType
      <4>2. active' \in [Worker -> BOOLEAN] /\ helper' \in [Worker -> BOOLEAN]
        BY <2>9 DEF change_phase, ContextType
      <4>3. /\ canceled' \in [Worker -> BOOLEAN] /\ dead' \in [Worker -> BOOLEAN]
           /\ genum' \in [Worker -> BOOLEAN]
        BY <2>9 DEF change_phase, ContextType
      <4>4. users' \in [Worker -> {"none", "ended", "live"}]
        BY <2>9 DEF change_phase, ContextType
      <4> QED
        BY <4>1, <4>2, <4>3, <4>4 DEF ContextType
    <3>3. JobType'
      BY <2>9 DEF change_phase, JobType, job
    <3>4. WalkType'
      BY <2>9, PointerFacts DEF change_phase, WalkType
    <3> QED
      BY <3>1, <3>2, <3>3, <3>4
  <2>10. CASE publish_handshake(t)
    <3>1. GlobalType'
      BY <2>10 DEF publish_handshake, GlobalType, JobType, WalkType
    <3>2. ContextType'
      BY <2>10 DEF publish_handshake, ContextType
    <3>3. JobType'
      BY <2>10, GotoType, LabelFacts DEF publish_handshake
    <3>4. WalkType'
      BY <2>10, PointerFacts DEF publish_handshake, WalkType
    <3> QED
      BY <3>1, <3>2, <3>3, <3>4
  <2>11. CASE add_check_flag(t)
    <3>1. GlobalType'
      BY <2>11 DEF add_check_flag, GlobalType, WalkType
    <3>2. ContextType'
      BY <2>11 DEF add_check_flag, ContextType
    <3>3. JobType'
      BY <2>11, GotoType, ReturnType, LabelFacts DEF add_check_flag
    <3>4. WalkType'
      BY <2>11 DEF add_check_flag, WalkType
    <3> QED
      BY <3>1, <3>2, <3>3, <3>4
  <2>12. CASE accept_own(t)
    <3>1. GlobalType'
      BY <2>12 DEF accept_own, GlobalType
    <3>2. ContextType'
      BY <2>12, PhaseFacts DEF accept_own, ContextType, JobType
    <3>3. JobType'
      BY <2>12, BeginType, PhaseFacts DEF accept_own, JobType
    <3>4. WalkType'
      BY <2>12 DEF accept_own, WalkType
    <3> QED
      BY <3>1, <3>2, <3>3, <3>4
  <2>13. CASE worker_sync1(t)
    <3>1. GlobalType'
      BY <2>13 DEF worker_sync1, GlobalType, Respond
    <3>2. ContextType'
      BY <2>13 DEF worker_sync1, ContextType
    <3>3. JobType'
      BY <2>13, IssueType, ReturnType, PhaseFacts DEF worker_sync1
    <3>4. WalkType'
      BY <2>13 DEF worker_sync1, WalkType
    <3> QED
      BY <3>1, <3>2, <3>3, <3>4
  <2>14. CASE worker_sync2(t)
    <3>1. GlobalType'
      BY <2>14 DEF worker_sync2, GlobalType, Respond
    <3>2. ContextType'
      BY <2>14 DEF worker_sync2, ContextType
    <3>3. JobType'
      BY <2>14, IssueType, ReturnType, PhaseFacts DEF worker_sync2
    <3>4. WalkType'
      BY <2>14 DEF worker_sync2, WalkType
    <3> QED
      BY <3>1, <3>2, <3>3, <3>4
  <2>15. CASE worker_mark(t)
    <3>1. GlobalType'
      BY <2>15 DEF worker_mark, GlobalType, Respond
    <3>2. ContextType'
      BY <2>15 DEF worker_mark, ContextType
    <3>3. JobType'
      BY <2>15, IssueType, ReturnType, PhaseFacts DEF worker_mark
    <3>4. WalkType'
      BY <2>15 DEF worker_mark, WalkType
    <3> QED
      BY <3>1, <3>2, <3>3, <3>4
  <2>16. CASE worker_async(t)
    <3>1. GlobalType'
      BY <2>16 DEF worker_async, GlobalType, Respond
    <3>2. ContextType'
      BY <2>16 DEF worker_async, ContextType
    <3>3. JobType'
      BY <2>16, GotoType, ReturnType, LabelFacts DEF worker_async
    <3>4. WalkType'
      BY <2>16 DEF worker_async, WalkType
    <3> QED
      BY <3>1, <3>2, <3>3, <3>4
  <2>17. CASE end_gc(t)
    <3>1. GlobalType'
      BY <2>17 DEF end_gc, GlobalType
    <3>2. ContextType'
      BY <2>17 DEF end_gc, ContextType
    <3>3. JobType'
      BY <2>17, ReturnType DEF end_gc
    <3>4. WalkType'
      BY <2>17 DEF end_gc, WalkType
    <3> QED
      BY <3>1, <3>2, <3>3, <3>4
  <2>18. CASE sml_check(t)
    <3>1. GlobalType'
      BY <2>18 DEF sml_check, GlobalType
    <3>2. ContextType'
      <4>1. \/ phase' = phase
           \/ phase' = [phase EXCEPT ![t] = Accept(@)]
        BY <2>18 DEF sml_check
      <4>2. phase' \in [Worker -> Phase]
        BY <4>1, PhaseFacts DEF ContextType
      <4>3. active' \in [Worker -> BOOLEAN] /\ helper' \in [Worker -> BOOLEAN]
        BY <2>18 DEF sml_check, ContextType
      <4>4. /\ canceled' \in [Worker -> BOOLEAN] /\ dead' \in [Worker -> BOOLEAN]
           /\ genum' \in [Worker -> BOOLEAN]
        BY <2>18 DEF sml_check, ContextType
      <4>5. users' \in [Worker -> {"none", "ended", "live"}]
        BY <2>18 DEF sml_check, ContextType
      <4> QED
        BY <4>1, <4>2, <4>3, <4>4, <4>5 DEF ContextType
    <3>3. JobType'
      BY <2>18, BeginType, GotoType, PhaseFacts, PointerFacts,
         LabelFacts DEF sml_check, ContextType
    <3>4. WalkType'
      BY <2>18 DEF sml_check, WalkType
    <3> QED
      BY <3>1, <3>2, <3>3, <3>4
  <2>19. CASE wait_done(t)
    <3>1. GlobalType'
      BY <2>19 DEF wait_done, GlobalType
    <3>2. ContextType'
      BY <2>19 DEF wait_done, ContextType
    <3>3. JobType'
      BY <2>19 DEF wait_done, JobType, job
    <3>4. WalkType'
      BY <2>19 DEF wait_done, WalkType
    <3> QED
      BY <3>1, <3>2, <3>3, <3>4
  <2>20. CASE load_handshake(t)
    <3>1. GlobalType'
      BY <2>20 DEF load_handshake, GlobalType
    <3>2. ContextType'
      BY <2>20 DEF load_handshake, ContextType
    <3>3. JobType'
      BY <2>20, GotoType, LabelFacts DEF load_handshake
    <3>4. WalkType'
      BY <2>20 DEF load_handshake, WalkType, GlobalType
    <3> QED
      BY <3>1, <3>2, <3>3, <3>4
  <2>21. CASE scan_handshake(t)
    <3>1. GlobalType'
      BY <2>21 DEF scan_handshake, GlobalType
    <3>2. ContextType'
      BY <2>21 DEF scan_handshake, ContextType
    <3>3. JobType'
      BY <2>21, LabelFacts DEF scan_handshake, JobType, job, Goto
    <3>4. WalkType'
      BY <2>21, PointerFacts DEF scan_handshake, WalkType, ContextType
    <3> QED
      BY <3>1, <3>2, <3>3, <3>4
  <2>22. CASE pop_handshake(t)
    <3>1. GlobalType'
      BY <2>22, PointerFacts DEF pop_handshake, GlobalType, WalkType,
         Helpers
    <3>2. ContextType'
      BY <2>22 DEF pop_handshake, ContextType
    <3>3. JobType'
      BY <2>22, GotoType, LabelFacts DEF pop_handshake
    <3>4. WalkType'
      BY <2>22 DEF pop_handshake, WalkType
    <3> QED
      BY <3>1, <3>2, <3>3, <3>4
  <2>23. CASE pop_fails(t)
    <3>1. GlobalType'
      BY <2>23 DEF pop_fails, GlobalType
    <3>2. ContextType'
      BY <2>23 DEF pop_fails, ContextType
    <3>3. JobType'
      BY <2>23, GotoType, LabelFacts DEF pop_fails, HelpReturns
    <3>4. WalkType'
      BY <2>23, HelpReturnsType DEF pop_fails
    <3> QED
      BY <3>1, <3>2, <3>3, <3>4
  <2>24. CASE clear_handshake(t)
    <3>1. GlobalType'
      BY <2>24, PointerFacts DEF clear_handshake, GlobalType
    <3>2. ContextType'
      BY <2>24 DEF clear_handshake, ContextType
    <3>3. JobType'
      BY <2>24, GotoType, LabelFacts DEF clear_handshake, HelpReturns
    <3>4. WalkType'
      BY <2>24, HelpReturnsType DEF clear_handshake
    <3> QED
      BY <3>1, <3>2, <3>3, <3>4
  <2>25. CASE take_worker(t)
    <3>1. GlobalType'
      BY <2>25 DEF take_worker, GlobalType
    <3>2. ContextType'
      <4>1. \/ phase' = phase
           \/ phase' = [phase EXCEPT ![cur[t]] = Accept(seen[t])]
        BY <2>25 DEF take_worker
      <4>2. phase' \in [Worker -> Phase]
        BY <4>1, PhaseFacts DEF ContextType, WalkType
      <4>3. active' \in [Worker -> BOOLEAN] /\ helper' \in [Worker -> BOOLEAN]
        BY <2>25 DEF take_worker, ContextType
      <4>4. /\ canceled' \in [Worker -> BOOLEAN] /\ dead' \in [Worker -> BOOLEAN]
           /\ genum' \in [Worker -> BOOLEAN]
        BY <2>25 DEF take_worker, ContextType
      <4>5. users' \in [Worker -> {"none", "ended", "live"}]
        BY <2>25 DEF take_worker, ContextType
      <4> QED
        BY <4>1, <4>2, <4>3, <4>4, <4>5 DEF ContextType
    <3>3. JobType'
      BY <2>25, BeginType, GotoType, PhaseFacts, LabelFacts DEF
         take_worker, HelpReturns, WalkType
    <3>4. WalkType'
      <4>1. \/ list' = [list EXCEPT ![t] = 0]
        BY <2>25 DEF take_worker, HelpReturns
      <4>2. list' \in [Worker -> Pointer]
        BY <4>1, PointerFacts DEF WalkType
      <4>3. \/ cur' = [cur EXCEPT ![t] = 0]
        BY <2>25 DEF take_worker, HelpReturns
      <4>4. cur' \in [Worker -> Pointer]
        BY <4>3, PointerFacts DEF WalkType
      <4>5. \/ stamp' = [stamp EXCEPT ![t] = 0]
        BY <2>25 DEF take_worker, HelpReturns
      <4>6. stamp' \in [Worker -> Phase]
        BY <4>5, PhaseFacts DEF WalkType
      <4>7. \/ seen' = seen
           \/ seen' = [seen EXCEPT ![t] = 0]
        BY <2>25 DEF take_worker, HelpReturns
      <4>8. seen' \in [Worker -> Phase]
        BY <4>7, PhaseFacts DEF WalkType
      <4>9. cnt' \in [Worker -> Nat] /\ wait' \in [Worker -> Nat]
        BY <2>25 DEF take_worker, WalkType
      <4> QED
        BY <4>1, <4>2, <4>3, <4>4, <4>5, <4>6, <4>7, <4>8, <4>9 DEF
           WalkType
    <3> QED
      BY <3>1, <3>2, <3>3, <3>4
  <2>26. CASE release_worker(t)
    <3>1. GlobalType'
      BY <2>26 DEF release_worker, GlobalType
    <3>2. ContextType'
      <4>1. \/ phase' = phase
           \/ phase' = [phase EXCEPT ![tgt[t]] = Accept(@)]
        BY <2>26 DEF release_worker
      <4>2. phase' \in [Worker -> Phase]
        BY <4>1, PhaseFacts DEF ContextType, WalkType
      <4>3. active' \in [Worker -> BOOLEAN] /\ helper' \in [Worker -> BOOLEAN]
        BY <2>26 DEF release_worker, ContextType
      <4>4. /\ canceled' \in [Worker -> BOOLEAN] /\ dead' \in [Worker -> BOOLEAN]
           /\ genum' \in [Worker -> BOOLEAN]
        BY <2>26 DEF release_worker, ContextType
      <4>5. users' \in [Worker -> {"none", "ended", "live"}]
        BY <2>26 DEF release_worker, ContextType
      <4> QED
        BY <4>1, <4>2, <4>3, <4>4, <4>5 DEF ContextType
    <3>3. JobType'
      <4>1. pc' \in [Worker -> Label]
        BY <2>26, LabelFacts DEF release_worker, JobType,
           HelpReturns, Begin, Goto, job
      <4>2. tgt' \in [Worker -> Pointer]
        BY <2>26, PointerFacts DEF release_worker, JobType, Begin,
           job
      <4>3. from' \in [Worker -> Phase]
        BY <2>26, PhaseFacts DEF release_worker, JobType, Begin, job
      <4>4. sig' \in [Worker -> Phase]
        BY <2>26, PhaseFacts, PointerFacts DEF release_worker,
           JobType, Begin, job, ContextType, Targets
      <4>5. greedy' \in [Worker -> BOOLEAN]
        BY <2>26 DEF release_worker, JobType, Begin, job
      <4>6. ret' \in [Worker -> {"ml", "c", "helped"}]
        BY <2>26 DEF release_worker, JobType, Begin, job
      <4> QED
        BY <4>1, <4>2, <4>3, <4>4, <4>5, <4>6 DEF JobType
    <3>4. WalkType'
      <4>1. \/ list' = list
           \/ list' = [list EXCEPT ![t] = 0]
        BY <2>26 DEF release_worker, HelpReturns
      <4>2. list' \in [Worker -> Pointer]
        BY <4>1, PointerFacts DEF WalkType
      <4>3. \/ cur' = cur
           \/ cur' = [cur EXCEPT ![t] = 0]
        BY <2>26 DEF release_worker, HelpReturns
      <4>4. cur' \in [Worker -> Pointer]
        BY <4>3, PointerFacts DEF WalkType
      <4>5. \/ stamp' = stamp
           \/ stamp' = [stamp EXCEPT ![t] = 0]
        BY <2>26 DEF release_worker, HelpReturns
      <4>6. stamp' \in [Worker -> Phase]
        BY <4>5, PhaseFacts DEF WalkType
      <4>7. \/ seen' = [seen EXCEPT ![t] = 0]
           \/ seen' = [seen EXCEPT ![t] = phase[tgt[t]]]
        BY <2>26 DEF release_worker, HelpReturns
      <4>8. seen' \in [Worker -> Phase]
        BY <4>7, PhaseFacts, PointerFacts, <2>26 DEF WalkType,
           ContextType, JobType, Targets, release_worker
      <4>9. cnt' \in [Worker -> Nat] /\ wait' \in [Worker -> Nat]
        BY <2>26 DEF release_worker, WalkType
      <4> QED
        BY <4>1, <4>2, <4>3, <4>4, <4>5, <4>6, <4>7, <4>8, <4>9 DEF
           WalkType
    <3> QED
      BY <3>1, <3>2, <3>3, <3>4
  <2> QED
    BY <1>2, <2>1, <2>2, <2>3, <2>4, <2>5, <2>6, <2>7, <2>8, <2>9,
       <2>10, <2>11, <2>12, <2>13, <2>14, <2>15, <2>16, <2>17, <2>18,
       <2>19, <2>20, <2>21, <2>22, <2>23, <2>24, <2>25, <2>26 DEF
       RuntimeStep, ProgramStep, PollStep
<1> QED
  BY <1>1, <1>2 DEF Next

-----------------------------------------------------------------------------
\* fetch_xor moves a worker that is in the old phase to the new one.
LEMMA SignalFacts ==
    /\ Signal(ASYNC, ASYNC, PRESYNC1) = PRESYNC1
    /\ Signal(SYNC1, SYNC1, PRESYNC2) = PRESYNC2
    /\ Signal(SYNC2, SYNC2, PREMARK) = PREMARK
    /\ Signal(MARK, MARK, PREMARK) = PREMARK
    /\ Signal(MARK, MARK, PREASYNC) = PREASYNC
BY DEF Signal, Xor, BitXor, PREASYNC, ASYNC, PRESYNC1, SYNC1, PRESYNC2, SYNC2,
       PREMARK, MARK

\* Initially no worker is registered and nothing is counted.
LEMMA InitIInv == Init => IInv
<1> SUFFICES ASSUME Init PROVE IInv
  OBVIOUS
<1> USE NAssumption DEF Init, Worker, Pointer
<1>1. TypeOK
  <2>1. /\ active \in [Worker -> BOOLEAN] /\ helper \in [Worker -> BOOLEAN]
        /\ canceled \in [Worker -> BOOLEAN] /\ dead \in [Worker -> BOOLEAN]
        /\ genum \in [Worker -> BOOLEAN] /\ greedy \in [Worker -> BOOLEAN]
        /\ globals \in BOOLEAN
    OBVIOUS
  <2>2. /\ phase \in [Worker -> Phase] /\ sig \in [Worker -> Phase]
        /\ from \in [Worker -> Phase] /\ stamp \in [Worker -> Phase]
        /\ seen \in [Worker -> Phase] /\ hsStamp \in Phase /\ avail \in Phase
    BY DEF Phase, PREASYNC, ASYNC
  <2>3. /\ n \in Pointer /\ hsHead \in Pointer /\ tgt \in [Worker -> Pointer]
        /\ list \in [Worker -> Pointer] /\ cur \in [Worker -> Pointer]
    OBVIOUS
  <2>4. /\ users \in [Worker -> {"none", "ended", "live"}]
        /\ ret \in [Worker -> {"ml", "c", "helped"}]
        /\ pc \in [Worker -> Label]
    BY DEF Label
  <2>5. /\ cnt \in [Worker -> Nat] /\ wait \in [Worker -> Nat]
        /\ flag \in Int /\ gc_count \in Nat /\ retries \in Nat
    OBVIOUS
  <2> HIDE DEF Init, Worker, Pointer
  <2> QED
    BY <2>1, <2>2, <2>3, <2>4, <2>5 DEF TypeOK
<1>2. Registered /\ Locks /\ Targets /\ Actions /\ Changes /\ Helpers /\ Walks
  BY DEF Registered, Locks, Targets, Actions, Changes, Helpers, Walks, InML,
         Helping, Acting, Changing
<1>3. Phases
  BY DEF Phases, Live
<1>4. Owing = {} /\ \A w \in Worker : ~Owes(w)
  BY DEF Owing, Owes, Live, Acting
<1>5. Counter
  BY <1>4, FS_EmptySet DEF Counter, SingleChanger, CounterExact, Changing
<1>6. Quiet /\ Roots
  BY <1>4 DEF Quiet, Roots, Changing, ASYNC, SYNC2, MARK
<1> QED
  BY <1>1, <1>2, <1>3, <1>5, <1>6 DEF IInv

\* The ranges of the variables at one worker context or thread.
LEMMA Ranges ==
    ASSUME TypeOK
    PROVE  /\ n \in Nat /\ avail \in Phase /\ flag \in Int /\ gc_count \in Nat
           /\ \A t \in Worker :
                /\ phase[t] \in Phase /\ sig[t] \in Phase /\ from[t] \in Phase
                /\ seen[t] \in Phase
                /\ tgt[t] \in Pointer /\ list[t] \in Pointer /\ cur[t] \in Pointer
                /\ cnt[t] \in Nat
                /\ ret[t] \in {"ml", "c", "helped"}
BY PointerFacts DEF TypeOK

\* A thread that works for a worker context works for an existing one.
LEMMA TargetFacts ==
    ASSUME TypeOK, Targets
    PROVE  \A t \in Worker :
              Acting(t) \/ Changing(t) \/ pc[t] \in {"greedy", "helped"} =>
                  tgt[t] \in Worker
BY PointerFacts, Ranges DEF Targets

\* A count that is even is odd after one step, and the other way round.
LEMMA Parity ==
    \A k \in Nat : (k % 2 = 0 => (k + 1) % 2 # 0) /\ (k % 2 # 0 => (k + 1) % 2 = 0)
OBVIOUS

\* The number of workers that owe an answer.
LEMMA OwingFinite ==
    /\ Cardinality(Owing) \in Nat
    /\ Cardinality(Owing) = 0 <=> \A w \in Worker : ~Owes(w)
<1>1. IsFiniteSet(Worker)
  BY FS_Interval, NAssumption DEF Worker
<1>2. IsFiniteSet(Owing)
  BY <1>1, FS_Subset DEF Owing
<1>3. Cardinality(Owing) = 0 <=> Owing = {}
  BY <1>2, FS_EmptySet
<1> QED
  BY <1>2, <1>3, FS_CardinalityType DEF Owing

\* A step that nobody's debt depends on does not change the number.
LEMMA OwingSame ==
    ASSUME \A w \in Worker : Owes(w)' <=> Owes(w)
    PROVE  Cardinality(Owing)' = Cardinality(Owing)
<1>1. Owing' = Owing
  BY DEF Owing
<1> QED
  BY <1>1

\* A signal adds one worker.
LEMMA OwingAdd ==
    ASSUME NEW v \in Worker, ~Owes(v),
           \A w \in Worker : Owes(w)' <=> Owes(w) \/ w = v
    PROVE  Cardinality(Owing)' = Cardinality(Owing) + 1
<1>1. IsFiniteSet(Worker)
  BY FS_Interval, NAssumption DEF Worker
<1>2. IsFiniteSet(Owing)
  BY <1>1, FS_Subset DEF Owing
<1>3. Owing' = Owing \cup {v} /\ v \notin Owing
  BY DEF Owing
<1> QED
  BY <1>2, <1>3, FS_AddElement

\* An answer takes one worker away.
LEMMA OwingRemove ==
    ASSUME NEW v \in Worker, Owes(v),
           \A w \in Worker : Owes(w)' <=> Owes(w) /\ w # v
    PROVE  Cardinality(Owing)' = Cardinality(Owing) - 1
<1>1. IsFiniteSet(Worker)
  BY FS_Interval, NAssumption DEF Worker
<1>2. IsFiniteSet(Owing)
  BY <1>1, FS_Subset DEF Owing
<1>3. Owing' = Owing \ {v} /\ v \in Owing
  BY DEF Owing
<1> QED
  BY <1>2, <1>3, FS_RemoveElement

\* When only one answer is owed, nobody else owes one.
LEMMA OwingOne ==
    ASSUME Cardinality(Owing) = 1, NEW v \in Worker, Owes(v)
    PROVE  \A w \in Worker : Owes(w) => w = v
<1>1. IsFiniteSet(Worker)
  BY FS_Interval, NAssumption DEF Worker
<1>2. IsFiniteSet(Owing)
  BY <1>1, FS_Subset DEF Owing
<1>3. PICK x : Owing = {x}
  BY <1>2, FS_Singleton
<1> QED
  BY <1>3 DEF Owing

\* When nobody owes an answer the number is 0.
LEMMA OwingNone ==
    ASSUME \A w \in Worker : ~Owes(w)'
    PROVE  Cardinality(Owing)' = 0
<1>1. Owing' = {}
  BY DEF Owing
<1> QED
  BY <1>1, FS_EmptySet

\* Two threads never execute an action for the same worker context.
LEMMA ActionsExclusive ==
    ASSUME TypeOK, Locks, Targets, Actions, NEW t \in Worker, NEW u \in Worker,
           Acting(t), Acting(u), tgt[t] = tgt[u]
    PROVE  t = u
<1> USE TargetFacts, Ranges
<1>1. CASE ret[t] = "helped" /\ ret[u] = "helped"
  BY <1>1 DEF Locks, Helping
<1>2. CASE ret[t] = "helped" /\ ret[u] # "helped"
  <2>1. helper[u] /\ active[u]
    BY <1>2 DEF Locks, Helping, Targets
  <2> QED
    BY <1>2, <2>1 DEF Locks, InML, Actions
<1>3. CASE ret[t] # "helped" /\ ret[u] = "helped"
  <2>1. helper[t] /\ active[t]
    BY <1>3 DEF Locks, Helping, Targets
  <2> QED
    BY <1>3, <2>1 DEF Locks, InML, Actions
<1>4. CASE ret[t] # "helped" /\ ret[u] # "helped"
  BY <1>4 DEF Targets
<1> QED
  BY <1>1, <1>2, <1>3, <1>4

\* A new worker context joins in the phase the CAS found, with no signal pending.
LEMMA RegisterIInv ==
    ASSUME IInv, TypeOK', NEW t \in Worker, register_worker(t)
    PROVE  IInv'
<1>0. /\ TypeOK /\ Registered /\ Locks /\ Targets /\ Actions /\ Changes /\ Helpers
      /\ Walks /\ Phases /\ Counter /\ Quiet /\ Roots
  BY DEF IInv
<1>2. /\ pc[t] = "none" /\ t = n + 1 /\ n' = t
      /\ \A w \in Worker : phase'[w] = IF w = t THEN avail ELSE phase[w]
      /\ \A w \in Worker : active'[w] <=> IF w = t THEN TRUE ELSE active[w]
      /\ \A w \in Worker : pc'[w] = IF w = t THEN "ml" ELSE pc[w]
      /\ UNCHANGED <<avail, helper, canceled, dead, genum, flag, gc_count,
                       globals, tgt, sig, from, greedy, ret, list, cur, cnt,
                       seen>>
  BY <1>0, PhaseFacts DEF TypeOK, register_worker, Goto, flags, registry,
     state, handshake, collection, job, walk, help
<1> USE <1>0, <1>2, PointerFacts, PhaseFacts, Ranges, TargetFacts
<1>a. \A u \in Worker : pc[u] = "walk" => u # t /\ cur[u] <= list[u] /\ list[u] <= n
  BY DEF Walks
<1>b. \A u \in Worker : pc[u] = "walk" => cur[u] < t /\ list[u] <= t
  <2> TAKE u \in Worker
  <2>1. cur[u] \in Nat /\ list[u] \in Nat /\ n \in Nat /\ t = n + 1
    OBVIOUS
  <2> QED
    BY <1>a, <2>1
<1> USE <1>a, <1>b
<1>3. Registered'
  BY DEF Registered
<1>4. Locks'
  BY DEF Locks, InML, Helping, Acting, Changing, Registered
<1>5. Targets'
  BY DEF Targets, Acting, Changing
<1>6. Actions'
  BY DEF Actions, Acting, Live, Registered
<1>7. Changes'
  BY DEF Changes, IsChange
<1>8. Helpers'
  BY DEF Helpers, Helping, Acting, Changing, Locks, InML, Registered
<1>9. \A w \in Worker : Owes(w)' <=> Owes(w)
  BY DEF Owes, Acting, Live, Registered, Phases, Actions
<1>10. Walks'
  <2>1. \A u, w \in Worker : pc[u] = "walk" /\ w <= cur[u] =>
          w # t /\ (Live(w)' <=> Live(w)) /\ phase'[w] = phase[w]
    BY DEF Live
  <2> QED
    BY <1>9, <2>1 DEF Walks
<1>11. Phases'
  BY DEF Phases, Live, Registered
<1>12. Counter'
  BY <1>9, OwingSame, OwingFinite DEF Counter, SingleChanger, CounterExact,
     Changing
<1>13. Quiet'
  BY <1>9 DEF Quiet, Changing
<1>14. Roots'
  BY <1>9 DEF Roots, GlobalsPending, Live, Registered
<1> QED
  BY <1>3, <1>4, <1>5, <1>6, <1>7, <1>8, <1>10, <1>11, <1>12, <1>13, <1>14
     DEF IInv

\* Leaving ML code with no signal pending only unlocks the worker.
LEMMA LeaveIdleIInv ==
    ASSUME IInv, TypeOK', NEW t \in Worker, NEW ends \in BOOLEAN, ~IsPre(phase[t]), leave_worker(t, ends)
    PROVE  IInv'
<1>0. /\ TypeOK /\ Registered /\ Locks /\ Targets /\ Actions /\ Changes /\ Helpers
      /\ Walks /\ Phases /\ Counter /\ Quiet /\ Roots
  BY DEF IInv
<1>2. /\ pc[t] = "ml" 
      /\ \A w \in Worker : phase'[w] = phase[w]
      /\ \A w \in Worker : active'[w] <=> IF w = t THEN FALSE ELSE active[w]
      /\ \A w \in Worker : pc'[w] = IF w = t THEN "c" ELSE pc[w]
      /\ UNCHANGED <<n, avail, helper, canceled, dead, genum, flag,
                       gc_count, globals, tgt, sig, from, greedy, ret, list,
                       cur, cnt, seen>>
  BY <1>0, PhaseFacts DEF TypeOK, leave_worker, Goto, flags, registry,
     state, handshake, collection, job, walk, help
<1> USE <1>0, <1>2, PointerFacts, PhaseFacts, Ranges, TargetFacts
<1>3. Registered'
  BY DEF Registered
<1>4. Locks'
  BY DEF Locks, InML, Helping, Acting, Changing, Registered
<1>5. Targets'
  BY DEF Targets, Acting, Changing
<1>6. Actions'
  BY DEF Actions, Acting, Live, Registered
<1>7. Changes'
  BY DEF Changes, IsChange
<1>8. Helpers'
  BY DEF Helpers, Helping, Acting, Changing, Locks, InML, Registered
<1>9. \A w \in Worker : Owes(w)' <=> Owes(w)
  BY DEF Owes, Acting, Live, Registered, Phases, Actions
<1>10. Walks'
  BY <1>9 DEF Walks, Live, Registered
<1>11. Phases'
  BY DEF Phases, Live, Registered
<1>12. Counter'
  BY <1>9, OwingSame, OwingFinite DEF Counter, SingleChanger, CounterExact,
     Changing
<1>13. Quiet'
  BY <1>9 DEF Quiet, Changing
<1>14. Roots'
  BY <1>9 DEF Roots, GlobalsPending, Live, Registered
<1> QED
  BY <1>3, <1>4, <1>5, <1>6, <1>7, <1>8, <1>10, <1>11, <1>12, <1>13, <1>14
     DEF IInv

\* Leaving ML code accepts a pending signal and unlocks the worker in one step.
LEMMA LeaveActIInv ==
    ASSUME IInv, TypeOK', NEW t \in Worker, NEW ends \in BOOLEAN, IsPre(phase[t]), leave_worker(t, ends)
    PROVE  IInv'
<1>0. /\ TypeOK /\ Registered /\ Locks /\ Targets /\ Actions /\ Changes /\ Helpers
      /\ Walks /\ Phases /\ Counter /\ Quiet /\ Roots
  BY DEF IInv
<1>2. /\ pc[t] = "ml" 
      /\ \A w \in Worker : phase'[w] = IF w = t THEN Accept(phase[t]) ELSE phase[w]
      /\ \A w \in Worker : active'[w] <=> IF w = t THEN FALSE ELSE active[w]
      /\ \A w \in Worker : pc'[w] = IF w = t THEN "act" ELSE pc[w]
      /\ \A w \in Worker : tgt'[w] = IF w = t THEN t ELSE tgt[w]
      /\ \A w \in Worker : sig'[w] = IF w = t THEN Accept(phase[t]) ELSE sig[w]
      /\ \A w \in Worker : from'[w] = IF w = t THEN 0 ELSE from[w]
      /\ \A w \in Worker : greedy'[w] <=> IF w = t THEN FALSE ELSE greedy[w]
      /\ \A w \in Worker : ret'[w] = IF w = t THEN "c" ELSE ret[w]
      /\ UNCHANGED <<n, avail, helper, canceled, dead, genum, flag,
                       gc_count, globals, list, cur, cnt, seen>>
  BY <1>0, PhaseFacts DEF TypeOK, leave_worker, Goto, flags, registry,
     state, handshake, collection, job, walk, help, Begin
<1> USE <1>0, <1>2, PointerFacts, PhaseFacts, Ranges, TargetFacts
<1>a. Live(t) /\ Owes(t)
  BY DEF Owes, Live, Registered
<1> USE <1>a
<1>3. Registered'
  BY DEF Registered
<1>4. Locks'
  BY DEF Locks, InML, Helping, Acting, Changing, Registered
<1>5. Targets'
  BY DEF Targets, Acting, Changing
<1>6. Actions'
  BY DEF Actions, Acting, Live, Registered
<1>7. Changes'
  BY DEF Changes, IsChange
<1>8. Helpers'
  BY DEF Helpers, Helping, Acting, Changing, Locks, InML, Registered
<1>9. \A w \in Worker : Owes(w)' <=> Owes(w)
  BY DEF Owes, Acting, Live, Registered, Phases, Actions
<1>10. Walks'
  BY <1>9 DEF Walks, Live, Registered
<1>11. Phases'
  BY DEF Phases, Live, Registered
<1>12. Counter'
  BY <1>9, OwingSame, OwingFinite DEF Counter, SingleChanger, CounterExact,
     Changing
<1>13. Quiet'
  BY <1>9 DEF Quiet, Changing
<1>14. Roots'
  BY <1>9 DEF Roots, GlobalsPending, Live, Registered
<1> QED
  BY <1>3, <1>4, <1>5, <1>6, <1>7, <1>8, <1>10, <1>11, <1>12, <1>13, <1>14
     DEF IInv

\* A thread in C code starts to wait for its worker.
LEMMA EnterCallIInv ==
    ASSUME IInv, TypeOK', NEW t \in Worker, sml_enter(t)
    PROVE  IInv'
<1>0. /\ TypeOK /\ Registered /\ Locks /\ Targets /\ Actions /\ Changes /\ Helpers
      /\ Walks /\ Phases /\ Counter /\ Quiet /\ Roots
  BY DEF IInv
<1>2. /\ pc[t] = "c" 
      /\ \A w \in Worker : pc'[w] = IF w = t THEN "enter" ELSE pc[w]
      /\ UNCHANGED <<n, avail, phase, active, helper, canceled, dead,
                       genum, flag, gc_count, globals, tgt, sig, from,
                       greedy, ret, list, cur, cnt, seen>>
  BY <1>0, PhaseFacts DEF TypeOK, sml_enter, Goto, flags, registry, state,
     handshake, collection, job, walk, help
<1> USE <1>0, <1>2, PointerFacts, PhaseFacts, Ranges, TargetFacts
<1>3. Registered'
  BY DEF Registered
<1>4. Locks'
  BY DEF Locks, InML, Helping, Acting, Changing, Registered
<1>5. Targets'
  BY DEF Targets, Acting, Changing
<1>6. Actions'
  BY DEF Actions, Acting, Live, Registered
<1>7. Changes'
  BY DEF Changes, IsChange
<1>8. Helpers'
  BY DEF Helpers, Helping, Acting, Changing, Locks, InML, Registered
<1>9. \A w \in Worker : Owes(w)' <=> Owes(w)
  BY DEF Owes, Acting, Live, Registered, Phases, Actions
<1>10. Walks'
  BY <1>9 DEF Walks, Live, Registered
<1>11. Phases'
  BY DEF Phases, Live, Registered
<1>12. Counter'
  BY <1>9, OwingSame, OwingFinite DEF Counter, SingleChanger, CounterExact,
     Changing
<1>13. Quiet'
  BY <1>9 DEF Quiet, Changing
<1>14. Roots'
  BY <1>9 DEF Roots, GlobalsPending, Live, Registered
<1> QED
  BY <1>3, <1>4, <1>5, <1>6, <1>7, <1>8, <1>10, <1>11, <1>12, <1>13, <1>14
     DEF IInv

\* An INACTIVE worker has no helper, so its thread may lock it.
LEMMA EnterIInv ==
    ASSUME IInv, TypeOK', NEW t \in Worker, enter_worker(t)
    PROVE  IInv'
<1>0. /\ TypeOK /\ Registered /\ Locks /\ Targets /\ Actions /\ Changes /\ Helpers
      /\ Walks /\ Phases /\ Counter /\ Quiet /\ Roots
  BY DEF IInv
<1>2. /\ pc[t] = "enter" /\ ~active[t]
      /\ \A w \in Worker : active'[w] <=> IF w = t THEN TRUE ELSE active[w]
      /\ \A w \in Worker : pc'[w] = IF w = t THEN "ml" ELSE pc[w]
      /\ UNCHANGED <<n, avail, phase, helper, canceled, dead, genum, flag,
                       gc_count, globals, tgt, sig, from, greedy, ret, list,
                       cur, cnt, seen>>
  BY <1>0, PhaseFacts DEF TypeOK, enter_worker, Goto, flags, registry,
     state, handshake, collection, job, walk, help
<1> USE <1>0, <1>2, PointerFacts, PhaseFacts, Ranges, TargetFacts
<1>3. Registered'
  BY DEF Registered
<1>4. Locks'
  BY DEF Locks, InML, Helping, Acting, Changing, Registered
<1>5. Targets'
  BY DEF Targets, Acting, Changing
<1>6. Actions'
  BY DEF Actions, Acting, Live, Registered
<1>7. Changes'
  BY DEF Changes, IsChange
<1>8. Helpers'
  BY DEF Helpers, Helping, Acting, Changing, Locks, InML, Registered
<1>9. \A w \in Worker : Owes(w)' <=> Owes(w)
  BY DEF Owes, Acting, Live, Registered, Phases, Actions
<1>10. Walks'
  BY <1>9 DEF Walks, Live, Registered
<1>11. Phases'
  BY DEF Phases, Live, Registered
<1>12. Counter'
  BY <1>9, OwingSame, OwingFinite DEF Counter, SingleChanger, CounterExact,
     Changing
<1>13. Quiet'
  BY <1>9 DEF Quiet, Changing
<1>14. Roots'
  BY <1>9 DEF Roots, GlobalsPending, Live, Registered
<1> QED
  BY <1>3, <1>4, <1>5, <1>6, <1>7, <1>8, <1>10, <1>11, <1>12, <1>13, <1>14
     DEF IInv

\* A thread that ends in C code does not hold its worker, so sml_fatal is not reached.
LEMMA CancelIInv ==
    ASSUME IInv, TypeOK', NEW t \in Worker, cancel_worker(t)
    PROVE  IInv'
<1>0. /\ TypeOK /\ Registered /\ Locks /\ Targets /\ Actions /\ Changes /\ Helpers
      /\ Walks /\ Phases /\ Counter /\ Quiet /\ Roots
  BY DEF IInv
<1>a. ~(active[t] /\ ~helper[t])
  BY <1>0 DEF Locks, InML, Acting, Changing, cancel_worker
<1>2. /\ pc[t] = "c" 
      /\ \A w \in Worker : canceled'[w] <=> IF w = t THEN TRUE ELSE canceled[w]
      /\ \A w \in Worker : pc'[w] = IF w = t THEN "exited" ELSE pc[w]
      /\ UNCHANGED <<n, avail, phase, active, helper, dead, genum, flag,
                       gc_count, globals, tgt, sig, from, greedy, ret, list,
                       cur, cnt, seen>>
  BY <1>0, <1>a, PhaseFacts DEF TypeOK, cancel_worker, Goto, flags,
     registry, state, handshake, collection, job, walk, help
<1> USE <1>0, <1>2, PointerFacts, PhaseFacts, Ranges, TargetFacts
<1> USE <1>a
<1>3. Registered'
  BY DEF Registered
<1>4. Locks'
  BY DEF Locks, InML, Helping, Acting, Changing, Registered
<1>5. Targets'
  BY DEF Targets, Acting, Changing
<1>6. Actions'
  BY DEF Actions, Acting, Live, Registered
<1>7. Changes'
  BY DEF Changes, IsChange
<1>8. Helpers'
  BY DEF Helpers, Helping, Acting, Changing, Locks, InML, Registered
<1>9. \A w \in Worker : Owes(w)' <=> Owes(w)
  BY DEF Owes, Acting, Live, Registered, Phases, Actions
<1>10. Walks'
  BY <1>9 DEF Walks, Live, Registered
<1>11. Phases'
  BY DEF Phases, Live, Registered
<1>12. Counter'
  BY <1>9, OwingSame, OwingFinite DEF Counter, SingleChanger, CounterExact,
     Changing
<1>13. Quiet'
  BY <1>9 DEF Quiet, Changing
<1>14. Roots'
  BY <1>9 DEF Roots, GlobalsPending, Live, Registered
<1> QED
  BY <1>3, <1>4, <1>5, <1>6, <1>7, <1>8, <1>10, <1>11, <1>12, <1>13, <1>14
     DEF IInv

\* A thread finds gc_count even and goes on to signal SYNC1.
Start(t, g, r) ==
    /\ r \in {"ml", "c"} /\ pc[t] = r /\ (g => r = "ml")
    /\ gc_count % 2 = 0 /\ gc_count' = gc_count + 1 /\ globals' = FALSE
    /\ \A w \in Worker : pc'[w] = IF w = t THEN "global" ELSE pc[w]
    /\ \A w \in Worker : tgt'[w] = IF w = t THEN t ELSE tgt[w]
    /\ \A w \in Worker : sig'[w] = IF w = t THEN PRESYNC1 ELSE sig[w]
    /\ \A w \in Worker : from'[w] = IF w = t THEN ASYNC ELSE from[w]
    /\ \A w \in Worker : greedy'[w] <=> IF w = t THEN g ELSE greedy[w]
    /\ \A w \in Worker : ret'[w] = IF w = t THEN r ELSE ret[w]
    /\ UNCHANGED <<n, avail, phase, active, helper, canceled, dead,
                     genum, flag, list, cur, cnt, seen>>

\* A collection starts only when the previous one has left nothing behind.
LEMMA StartIInv ==
    ASSUME IInv, TypeOK', NEW t \in Worker, NEW g \in BOOLEAN, NEW r, Start(t, g, r)
    PROVE  IInv'
<1>0. /\ TypeOK /\ Registered /\ Locks /\ Targets /\ Actions /\ Changes /\ Helpers
      /\ Walks /\ Phases /\ Counter /\ Quiet /\ Roots
  BY DEF IInv
<1> USE <1>0, PointerFacts, PhaseFacts, Ranges, TargetFacts
    DEF Start
<1>a. gc_count' % 2 # 0
  BY Parity
<1>c. ~Changing(t)
  BY DEF Changing
<1>b. avail = ASYNC /\ \A u \in Worker : ~Changing(u) /\ ~Owes(u)
  BY DEF Quiet
<1> USE <1>a, <1>c, <1>b
<1>3. Registered'
  BY DEF Registered
<1>4. Locks'
  BY DEF Locks, InML, Helping, Acting, Changing, Registered
<1>5. Targets'
  BY DEF Targets, Acting, Changing
<1>6. Actions'
  BY DEF Actions, Acting, Live, Registered
<1>7. Changes'
  BY DEF Changes, IsChange
<1>8. Helpers'
  BY DEF Helpers, Helping, Acting, Changing, Locks, InML, Registered
<1>9. \A w \in Worker : Owes(w)' <=> Owes(w)
  BY DEF Owes, Acting, Live, Registered, Phases, Actions
<1>10. Walks'
  BY <1>9 DEF Walks, Live, Registered
<1>11. Phases'
  BY DEF Phases, Live, Changing
<1>12. Counter'
  BY <1>9, OwingSame, OwingFinite DEF Counter, SingleChanger, CounterExact,
     Changing, Changes
<1>13. Quiet'
  BY DEF Quiet
<1>14. Roots'
  BY DEF Roots, Changing
<1> QED
  BY <1>3, <1>4, <1>5, <1>6, <1>7, <1>8, <1>10, <1>11, <1>12, <1>13, <1>14
     DEF IInv

\* The set of workers that get the signal is fixed.
LEMMA GlobalPhaseIInv ==
    ASSUME IInv, TypeOK', NEW t \in Worker, global_phase(t)
    PROVE  IInv'
<1>0. /\ TypeOK /\ Registered /\ Locks /\ Targets /\ Actions /\ Changes /\ Helpers
      /\ Walks /\ Phases /\ Counter /\ Quiet /\ Roots
  BY DEF IInv
<1>2. /\ pc[t] = "global" /\ avail' = Accept(sig[t])
      /\ \E h \in Pointer : /\ IsLiveHead(h)
                            /\ \A w \in Worker : /\ list'[w] = IF w = t THEN h ELSE list[w]
                                                 /\ cur'[w] = IF w = t THEN h ELSE cur[w]
      /\ \A w \in Worker : cnt'[w] = IF w = t THEN 0 ELSE cnt[w]
      /\ \A w \in Worker : pc'[w] = IF w = t THEN "walk" ELSE pc[w]
      /\ UNCHANGED <<n, phase, active, helper, canceled, dead, genum, flag,
                       gc_count, globals, tgt, sig, from, greedy, ret, seen>>
  BY <1>0, PhaseFacts DEF TypeOK, global_phase, Goto, flags, registry,
     state, handshake, collection, job, walk, help
<1> USE <1>0, <1>2, PointerFacts, PhaseFacts, Ranges, TargetFacts
<1>a. \A u \in Worker : Changing(u) => u = t
  BY DEF Counter, SingleChanger, Changing
<1>b. \A w \in Worker : ~Owes(w)
  BY DEF Counter
<1>c. \A w \in Worker : Live(w) => phase[w] = from[t] /\ ~IsPre(phase[w])
  BY <1>a, <1>b DEF Phases, Changing, Owes
<1>d. cur'[t] = list'[t] /\ cur'[t] <= n /\ (cur'[t] # 0 => ~dead[cur'[t]])
  BY DEF IsLiveHead
<1>e. \A w \in Worker : Live(w) => w <= cur'[t]
  BY DEF IsLiveHead, Live
<1>f. IsChange(from[t], sig[t]) /\ avail = from[t]
  BY DEF Changes, Phases
<1> USE <1>a, <1>b, <1>c, <1>d, <1>e, <1>f
<1>3. Registered'
  BY DEF Registered
<1>4. Locks'
  BY DEF Locks, InML, Helping, Acting, Changing, Registered
<1>5. Targets'
  BY DEF Targets, Acting, Changing
<1>6. Actions'
  BY DEF Actions, Acting, Live, Registered
<1>7. Changes'
  BY DEF Changes, IsChange, Live, Registered, Locks, InML
<1>8. Helpers'
  BY DEF Helpers, Helping, Acting, Changing, Locks, InML, Registered
<1>9. \A w \in Worker : Owes(w)' <=> Owes(w)
  BY DEF Owes, Acting, Live, Registered, Phases, Actions
<1>10. Walks'
  BY <1>9 DEF Walks, Live, Changing
<1>11. Phases'
  BY DEF Phases, Live, Changing
<1>12. Counter'
  BY <1>9, OwingSame, OwingFinite DEF Counter, SingleChanger, CounterExact,
     Changing, Changes
<1>13. Quiet'
  BY DEF Quiet, Changing
<1>14. Roots'
  BY <1>9 DEF Roots, GlobalsPending, Live, Changing, IsChange
<1> QED
  BY <1>3, <1>4, <1>5, <1>6, <1>7, <1>8, <1>10, <1>11, <1>12, <1>13, <1>14
     DEF IInv

\* change_phase passes over a DEAD worker.
LEMMA WalkSkipIInv ==
    ASSUME IInv, TypeOK', NEW t \in Worker, dead[cur[t]] /\ cur[t] # list[t], change_phase(t)
    PROVE  IInv'
<1>0. /\ TypeOK /\ Registered /\ Locks /\ Targets /\ Actions /\ Changes /\ Helpers
      /\ Walks /\ Phases /\ Counter /\ Quiet /\ Roots
  BY DEF IInv
<1>2. /\ pc[t] = "walk" /\ cur[t] # 0
      /\ \A w \in Worker : cur'[w] = IF w = t THEN cur[t] - 1 ELSE cur[w]
      /\ UNCHANGED <<n, avail, phase, active, helper, canceled, dead,
                       genum, flag, gc_count, globals, pc, tgt, sig, from,
                       greedy, ret, list, cnt, seen>>
  BY <1>0, PhaseFacts DEF TypeOK, change_phase, Goto, flags, registry,
     state, handshake, collection, job, walk, help
<1> USE <1>0, <1>2, PointerFacts, PhaseFacts, Ranges, TargetFacts
<1>a. cur[t] # t
  BY DEF Registered
<1> USE <1>a
<1>3. Registered'
  BY DEF Registered
<1>4. Locks'
  BY DEF Locks, InML, Helping, Acting, Changing, Registered
<1>5. Targets'
  BY DEF Targets, Acting, Changing
<1>6. Actions'
  BY DEF Actions, Acting, Live, Registered
<1>7. Changes'
  BY DEF Changes, IsChange
<1>8. Helpers'
  BY DEF Helpers, Helping, Acting, Changing, Locks, InML, Registered
<1>9. \A w \in Worker : Owes(w)' <=> Owes(w)
  BY DEF Owes, Acting, Live, Registered, Phases, Actions
<1>10. Walks'
  BY <1>9 DEF Walks, Live, Registered
<1>11. Phases'
  BY DEF Phases, Live, Registered
<1>12. Counter'
  BY <1>9, OwingSame, OwingFinite DEF Counter, SingleChanger, CounterExact,
     Changing
<1>13. Quiet'
  BY <1>9 DEF Quiet, Changing
<1>14. Roots'
  BY <1>9 DEF Roots, GlobalsPending, Live, Registered
<1> QED
  BY <1>3, <1>4, <1>5, <1>6, <1>7, <1>8, <1>10, <1>11, <1>12, <1>13, <1>14
     DEF IInv

\* change_phase takes a canceled worker without users out of the protocol.
LEMMA WalkKillIInv ==
    ASSUME IInv, TypeOK', NEW t \in Worker, ~(dead[cur[t]] /\ cur[t] # list[t]), Killable(t, cur[t]), change_phase(t)
    PROVE  IInv'
<1>0. /\ TypeOK /\ Registered /\ Locks /\ Targets /\ Actions /\ Changes /\ Helpers
      /\ Walks /\ Phases /\ Counter /\ Quiet /\ Roots
  BY DEF IInv
<1>2. /\ pc[t] = "walk" /\ cur[t] # 0 /\ Killable(t, cur[t])
      /\ \A w \in Worker : cur'[w] = IF w = t THEN cur[t] - 1 ELSE cur[w]
      /\ \A w \in Worker : dead'[w] <=> IF w = cur[t] THEN TRUE ELSE dead[w]
      /\ UNCHANGED <<n, avail, phase, active, helper, canceled, genum,
                       flag, gc_count, globals, pc, tgt, sig, from, greedy,
                       ret, list, cnt, seen>>
  BY <1>0, PhaseFacts DEF TypeOK, change_phase, Goto, flags, registry,
     state, handshake, collection, job, walk, help
<1> USE <1>0, <1>2, PointerFacts, PhaseFacts, Ranges, TargetFacts
<1>a. cur[t] \in Worker /\ Live(cur[t])
  BY DEF Walks, Live
<1>b. phase[cur[t]] = from[t] /\ ~Owes(cur[t])
  BY <1>a DEF Walks
<1>c. IsChange(from[t], sig[t]) /\ avail = Accept(sig[t])
  BY DEF Changes, Walks
<1>d. \A u \in Worker : Changing(u) => u = t
  BY DEF Counter, SingleChanger, Changing
<1>e. from[t] = ASYNC /\ canceled[cur[t]] /\ avail = SYNC1 /\ sig[t] = PRESYNC1
  BY <1>c DEF Killable, IsChange
<1>f. \A u \in Worker : Acting(u) => tgt[u] # cur[t]
  BY <1>b DEF Owes
<1>g. cur[t] # t
  BY <1>a, <1>e DEF Registered
<1>h. cur'[t] < cur[t] /\ cur'[t] < list[t] /\ list[t] <= n /\ cur'[t] \in Nat
  BY <1>a DEF Walks
<1> USE <1>a, <1>b, <1>c, <1>d, <1>e, <1>f, <1>g, <1>h
<1>3. Registered'
  BY DEF Registered
<1>4. Locks'
  BY DEF Locks, InML, Helping, Acting, Changing, Registered
<1>5. Targets'
  BY DEF Targets, Acting, Changing
<1>6. Actions'
  BY DEF Actions, Acting, Live, Registered
<1>7. Changes'
  BY DEF Changes, IsChange
<1>8. Helpers'
  BY DEF Helpers, Helping, Acting, Changing, Locks, InML, Registered
<1>9. \A w \in Worker : Owes(w)' <=> Owes(w)
  BY DEF Owes, Acting, Live
<1>10. Walks'
  BY <1>9 DEF Walks, Live, Changing
<1>11. Phases'
  BY DEF Phases, Live, Registered
<1>12. Counter'
  BY <1>9, OwingSame, OwingFinite DEF Counter, SingleChanger, CounterExact,
     Changing
<1>13. Quiet'
  BY <1>9 DEF Quiet, Changing
<1>14. Roots'
  BY DEF Roots, Changing
<1> QED
  BY <1>3, <1>4, <1>5, <1>6, <1>7, <1>8, <1>10, <1>11, <1>12, <1>13, <1>14
     DEF IInv

\* change_phase signals a worker, which from then on owes an answer.
LEMMA WalkSignalIInv ==
    ASSUME IInv, TypeOK', NEW t \in Worker, ~(dead[cur[t]] /\ cur[t] # list[t]), ~Killable(t, cur[t]), change_phase(t)
    PROVE  IInv'
<1>0. /\ TypeOK /\ Registered /\ Locks /\ Targets /\ Actions /\ Changes /\ Helpers
      /\ Walks /\ Phases /\ Counter /\ Quiet /\ Roots
  BY DEF IInv
<1>2. /\ pc[t] = "walk" /\ cur[t] # 0
      /\ \A w \in Worker : cur'[w] = IF w = t THEN cur[t] - 1 ELSE cur[w]
      /\ \A w \in Worker : cnt'[w] = IF w = t THEN cnt[t] + 1 ELSE cnt[w]
      /\ \A w \in Worker : phase'[w] = IF w = cur[t] THEN Signal(phase[cur[t]], from[t], sig[t]) ELSE phase[w]
      /\ UNCHANGED <<n, avail, active, helper, canceled, dead, genum, flag,
                       gc_count, globals, pc, tgt, sig, from, greedy, ret,
                       list, seen>>
  BY <1>0, PhaseFacts DEF TypeOK, change_phase, Goto, flags, registry,
     state, handshake, collection, job, walk, help
<1> USE <1>0, <1>2, PointerFacts, PhaseFacts, Ranges, TargetFacts
<1>a. cur[t] \in Worker /\ Live(cur[t])
  BY DEF Walks, Live
<1>b. phase[cur[t]] = from[t] /\ ~Owes(cur[t])
  BY <1>a DEF Walks
<1>c. IsChange(from[t], sig[t]) /\ avail = Accept(sig[t])
  BY DEF Changes, Walks
<1>d. \A u \in Worker : Changing(u) => u = t
  BY DEF Counter, SingleChanger, Changing
<1>g. phase'[cur[t]] = sig[t] /\ IsPre(sig[t])
  BY <1>a, <1>b, <1>c, SignalFacts DEF IsChange
<1>f. \A u \in Worker : Acting(u) => tgt[u] # cur[t]
  BY <1>b DEF Owes
<1>h. cur'[t] < cur[t] /\ cur'[t] < list[t] /\ list[t] <= n /\ cur'[t] \in Nat
  BY <1>a DEF Walks
<1> USE <1>a, <1>b, <1>c, <1>d, <1>g, <1>f, <1>h
<1>3. Registered'
  BY DEF Registered, Live
<1>4. Locks'
  BY DEF Locks, InML, Helping, Acting, Changing, Registered
<1>5. Targets'
  BY DEF Targets, Acting, Changing
<1>6. Actions'
  BY DEF Actions, Acting, Live, Registered
<1>7. Changes'
  BY DEF Changes, IsChange
<1>8. Helpers'
  BY DEF Helpers, Helping, Acting, Changing, Locks, InML, Registered
<1>9. \A w \in Worker : Owes(w)' <=> Owes(w) \/ w = cur[t]
  BY DEF Owes, Acting, Live
<1>10. Walks'
  BY <1>9 DEF Walks, Live, Changing
<1>11. Phases'
  BY DEF Phases, Live, Registered
<1>12. Counter'
  BY <1>9, OwingAdd, OwingFinite DEF Counter, SingleChanger, CounterExact,
     Changing
<1>13. Quiet'
  BY <1>9 DEF Quiet, Changing
<1>14. Roots'
  BY <1>9 DEF Roots, GlobalsPending, Live, Registered
<1> QED
  BY <1>3, <1>4, <1>5, <1>6, <1>7, <1>8, <1>10, <1>11, <1>12, <1>13, <1>14
     DEF IInv

\* Publishing the list changes no phase.
LEMMA PublishIInv ==
    ASSUME IInv, TypeOK', NEW t \in Worker, publish_handshake(t)
    PROVE  IInv'
<1>0. /\ TypeOK /\ Registered /\ Locks /\ Targets /\ Actions /\ Changes /\ Helpers
      /\ Walks /\ Phases /\ Counter /\ Quiet /\ Roots
  BY DEF IInv
<1>2. /\ pc[t] = "walk" /\ cur[t] = 0
      /\ \A w \in Worker : pc'[w] = IF w = t THEN "add" ELSE pc[w]
      /\ \A w \in Worker : list'[w] = IF w = t THEN 0 ELSE list[w]
      /\ UNCHANGED <<n, avail, phase, active, helper, canceled, dead,
                       genum, flag, gc_count, globals, tgt, sig, from,
                       greedy, ret, cur, cnt, seen>>
  BY <1>0, PhaseFacts DEF TypeOK, publish_handshake, Goto, flags, registry,
     state, handshake, collection, job, walk, help
<1> USE <1>0, <1>2, PointerFacts, PhaseFacts, Ranges, TargetFacts
<1>d. \A u \in Worker : Changing(u) => u = t
  BY DEF Counter, SingleChanger, Changing
<1> USE <1>d
<1>3. Registered'
  BY DEF Registered
<1>4. Locks'
  BY DEF Locks, InML, Helping, Acting, Changing, Registered
<1>5. Targets'
  BY DEF Targets, Acting, Changing
<1>6. Actions'
  BY DEF Actions, Acting, Live, Registered
<1>7. Changes'
  BY DEF Changes, IsChange
<1>8. Helpers'
  BY DEF Helpers, Helping, Acting, Changing, Locks, InML, Registered
<1>9. \A w \in Worker : Owes(w)' <=> Owes(w)
  BY DEF Owes, Acting, Live, Registered, Phases, Actions
<1>10. Walks'
  BY <1>9 DEF Walks, Live, Registered
<1>11. Phases'
  BY DEF Phases, Live, Walks, Changing
<1>12. Counter'
  BY <1>9, OwingSame, OwingFinite DEF Counter, SingleChanger, CounterExact,
     Changing
<1>13. Quiet'
  BY <1>9 DEF Quiet, Changing
<1>14. Roots'
  BY <1>9 DEF Roots, GlobalsPending, Live, Registered
<1> QED
  BY <1>3, <1>4, <1>5, <1>6, <1>7, <1>8, <1>10, <1>11, <1>12, <1>13, <1>14
     DEF IInv

\* The addition makes the counter exact again.
LEMMA AddReturnIInv ==
    ASSUME IInv, TypeOK', NEW t \in Worker, ~greedy[t], add_check_flag(t)
    PROVE  IInv'
<1>0. /\ TypeOK /\ Registered /\ Locks /\ Targets /\ Actions /\ Changes /\ Helpers
      /\ Walks /\ Phases /\ Counter /\ Quiet /\ Roots
  BY DEF IInv
<1>2. /\ pc[t] = "add" /\ flag' = flag + cnt[t]
      /\ \A w \in Worker : cnt'[w] = IF w = t THEN 0 ELSE cnt[w]
      /\ \A w \in Worker : pc'[w] = IF w = t THEN ret[t] ELSE pc[w]
      /\ \A w \in Worker : tgt'[w] = IF w = t /\ ret[t] # "helped" THEN 0 ELSE tgt[w]
      /\ \A w \in Worker : sig'[w] = IF w = t THEN 0 ELSE sig[w]
      /\ \A w \in Worker : from'[w] = IF w = t THEN 0 ELSE from[w]
      /\ \A w \in Worker : greedy'[w] <=> IF w = t THEN FALSE ELSE greedy[w]
      /\ \A w \in Worker : ret'[w] = IF w = t THEN "ml" ELSE ret[w]
      /\ UNCHANGED <<n, avail, phase, active, helper, canceled, dead,
                       genum, gc_count, globals, list, cur, seen>>
  BY <1>0, PhaseFacts DEF TypeOK, add_check_flag, Goto, flags, registry,
     state, handshake, collection, job, walk, help, Return
<1> USE <1>0, <1>2, PointerFacts, PhaseFacts, Ranges, TargetFacts
<1>d. \A u \in Worker : Changing(u) => u = t
  BY DEF Counter, SingleChanger, Changing
<1> USE <1>d
<1>3. Registered'
  BY DEF Registered
<1>4. Locks'
  BY DEF Locks, InML, Helping, Acting, Changing, Registered
<1>5. Targets'
  BY DEF Targets, Acting, Changing
<1>6. Actions'
  BY DEF Actions, Acting, Live, Registered
<1>7. Changes'
  BY DEF Changes, IsChange
<1>8. Helpers'
  BY DEF Helpers, Helping, Acting, Changing, Locks, InML, Registered
<1>9. \A w \in Worker : Owes(w)' <=> Owes(w)
  BY DEF Owes, Acting, Live, Registered, Phases, Actions
<1>10. Walks'
  BY <1>9 DEF Walks, Live, Registered
<1>11. Phases'
  BY DEF Phases, Live, Registered
<1>12. Counter'
  BY <1>9, OwingSame, OwingFinite DEF Counter, SingleChanger, CounterExact,
     Changing
<1>13. Quiet'
  BY <1>9 DEF Quiet, Changing
<1>14. Roots'
  BY <1>9 DEF Roots, GlobalsPending, Live, Registered
<1> QED
  BY <1>3, <1>4, <1>5, <1>6, <1>7, <1>8, <1>10, <1>11, <1>12, <1>13, <1>14
     DEF IInv

\* The same if the thread goes on to answer its own signal.
LEMMA AddGreedyIInv ==
    ASSUME IInv, TypeOK', NEW t \in Worker, greedy[t], add_check_flag(t)
    PROVE  IInv'
<1>0. /\ TypeOK /\ Registered /\ Locks /\ Targets /\ Actions /\ Changes /\ Helpers
      /\ Walks /\ Phases /\ Counter /\ Quiet /\ Roots
  BY DEF IInv
<1>2. /\ pc[t] = "add" /\ flag' = flag + cnt[t]
      /\ \A w \in Worker : cnt'[w] = IF w = t THEN 0 ELSE cnt[w]
      /\ \A w \in Worker : pc'[w] = IF w = t THEN "greedy" ELSE pc[w]
      /\ UNCHANGED <<n, avail, phase, active, helper, canceled, dead,
                       genum, gc_count, globals, tgt, sig, from, greedy, ret,
                       list, cur, seen>>
  BY <1>0, PhaseFacts DEF TypeOK, add_check_flag, Goto, flags, registry,
     state, handshake, collection, job, walk, help
<1> USE <1>0, <1>2, PointerFacts, PhaseFacts, Ranges, TargetFacts
<1>d. \A u \in Worker : Changing(u) => u = t
  BY DEF Counter, SingleChanger, Changing
<1> USE <1>d
<1>3. Registered'
  BY DEF Registered
<1>4. Locks'
  BY DEF Locks, InML, Helping, Acting, Changing, Targets
<1>5. Targets'
  BY DEF Targets, Acting, Changing
<1>6. Actions'
  BY DEF Actions, Acting, Live, Registered
<1>7. Changes'
  BY DEF Changes, IsChange
<1>8. Helpers'
  BY DEF Helpers, Helping, Acting, Changing, Locks, InML, Registered
<1>9. \A w \in Worker : Owes(w)' <=> Owes(w)
  BY DEF Owes, Acting, Live, Registered, Phases, Actions
<1>10. Walks'
  BY <1>9 DEF Walks, Live, Registered
<1>11. Phases'
  BY DEF Phases, Live, Registered
<1>12. Counter'
  <2>1. \A u \in Worker : ~Changing(u)'
    BY DEF Changing
  <2>2. flag' = Cardinality(Owing)'
    BY <1>9, OwingSame, OwingFinite DEF Counter, CounterExact, Changing
  <2> QED
    BY <2>1, <2>2 DEF Counter, SingleChanger, CounterExact, Changing
<1>13. Quiet'
  BY <1>9 DEF Quiet, Changing
<1>14. Roots'
  BY <1>9 DEF Roots, GlobalsPending, Live, Registered
<1> QED
  BY <1>3, <1>4, <1>5, <1>6, <1>7, <1>8, <1>10, <1>11, <1>12, <1>13, <1>14
     DEF IInv

\* A thread that holds its worker accepts its pending signal.
AcceptOwn(t) ==
    /\ pc[t] \in {"ml", "greedy"} /\ IsPre(phase[t])
    /\ \A w \in Worker : phase'[w] = IF w = t THEN Accept(phase[t]) ELSE phase[w]
    /\ \A w \in Worker : pc'[w] = IF w = t THEN "act" ELSE pc[w]
    /\ \A w \in Worker : tgt'[w] = IF w = t THEN t ELSE tgt[w]
    /\ \A w \in Worker : sig'[w] = IF w = t THEN Accept(phase[t]) ELSE sig[w]
    /\ \A w \in Worker : from'[w] = IF w = t THEN 0 ELSE from[w]
    /\ \A w \in Worker : greedy'[w] <=> IF w = t THEN TRUE ELSE greedy[w]
    /\ \A w \in Worker : ret'[w] = IF w = t THEN "ml" ELSE ret[w]
    /\ UNCHANGED <<n, avail, active, helper, canceled, dead, genum, flag,
                     gc_count, globals, list, cur, cnt, seen>>

\* A thread accepts the signal of its own worker.
LEMMA OwnIInv ==
    ASSUME IInv, TypeOK', NEW t \in Worker, AcceptOwn(t)
    PROVE  IInv'
<1>0. /\ TypeOK /\ Registered /\ Locks /\ Targets /\ Actions /\ Changes /\ Helpers
      /\ Walks /\ Phases /\ Counter /\ Quiet /\ Roots
  BY DEF IInv
<1> USE <1>0, PointerFacts, PhaseFacts, Ranges, TargetFacts
    DEF AcceptOwn
<1>a. Live(t) /\ Owes(t)
  BY DEF Owes, Live, Registered
<1> USE <1>a
<1>3. Registered'
  BY DEF Registered
<1>4. Locks'
  BY DEF Locks, InML, Helping, Acting, Changing
<1>5. Targets'
  BY DEF Targets, Acting, Changing
<1>6. Actions'
  BY DEF Actions, Acting, Live, Registered
<1>7. Changes'
  BY DEF Changes, IsChange
<1>8. Helpers'
  BY DEF Helpers, Helping, Acting, Changing, Locks, InML, Registered
<1>9. \A w \in Worker : Owes(w)' <=> Owes(w)
  BY DEF Owes, Acting, Live, Registered, Phases, Actions
<1>10. Walks'
  BY <1>9 DEF Walks, Live, Registered
<1>11. Phases'
  BY DEF Phases, Live, Registered
<1>12. Counter'
  BY <1>9, OwingSame, OwingFinite DEF Counter, SingleChanger, CounterExact,
     Changing
<1>13. Quiet'
  BY <1>9 DEF Quiet, Changing
<1>14. Roots'
  BY <1>9 DEF Roots, GlobalsPending, Live, Registered
<1> QED
  BY <1>3, <1>4, <1>5, <1>6, <1>7, <1>8, <1>10, <1>11, <1>12, <1>13, <1>14
     DEF IInv

\* A thread answers for a worker and does not take the counter to 0.
Answer(t) ==
    /\ pc[t] = "act" /\ flag # 1 /\ flag' = flag - 1
    /\ globals' <=> globals \/ (sig[t] = SYNC2 /\ genum[tgt[t]])
    /\ \A w \in Worker : genum'[w] <=> genum[w] /\ ~(sig[t] = SYNC2 /\ w = tgt[t])
    /\ \A w \in Worker : pc'[w] = IF w = t THEN ret[t] ELSE pc[w]
    /\ \A w \in Worker : tgt'[w] = IF w = t /\ ret[t] # "helped" THEN 0 ELSE tgt[w]
    /\ \A w \in Worker : sig'[w] = IF w = t THEN 0 ELSE sig[w]
    /\ \A w \in Worker : from'[w] = IF w = t THEN 0 ELSE from[w]
    /\ \A w \in Worker : greedy'[w] <=> IF w = t THEN FALSE ELSE greedy[w]
    /\ \A w \in Worker : ret'[w] = IF w = t THEN "ml" ELSE ret[w]
    /\ UNCHANGED <<n, avail, phase, active, helper, canceled, dead,
                     gc_count, list, cur, cnt, seen>>

\* An answer that is not the last.
LEMMA AnswerIInv ==
    ASSUME IInv, TypeOK', NEW t \in Worker, Answer(t)
    PROVE  IInv'
<1>0. /\ TypeOK /\ Registered /\ Locks /\ Targets /\ Actions /\ Changes /\ Helpers
      /\ Walks /\ Phases /\ Counter /\ Quiet /\ Roots
  BY DEF IInv
<1> USE <1>0, PointerFacts, PhaseFacts, Ranges, TargetFacts
    DEF Answer
<1>a. tgt[t] \in Worker /\ Owes(tgt[t]) /\ Acting(t)
  BY DEF Owes, Acting
<1>b. Live(tgt[t]) /\ phase[tgt[t]] = sig[t] /\ ~IsPre(phase[tgt[t]])
  BY <1>a DEF Actions
<1>c. \A u \in Worker : Acting(u) /\ tgt[u] = tgt[t] => u = t
  BY <1>a, ActionsExclusive
<1>d. avail = sig[t]
  BY <1>a, <1>b DEF Phases, Walks
<1>e. \A u \in Worker : pc[u] # "global"
  BY <1>a DEF Counter
<1> USE <1>a, <1>b, <1>c, <1>d, <1>e
<1>3. Registered'
  BY DEF Registered
<1>4. Locks'
  BY DEF Locks, InML, Helping, Acting, Changing, Registered
<1>5. Targets'
  BY DEF Targets, Acting, Changing
<1>6. Actions'
  BY DEF Actions, Acting, Live, Registered
<1>7. Changes'
  BY DEF Changes, IsChange
<1>8. Helpers'
  BY DEF Helpers, Helping, Acting, Changing, Locks, InML, Registered
<1>9. \A w \in Worker : Owes(w)' <=> Owes(w) /\ w # tgt[t]
  BY DEF Owes, Acting, Live
<1>10. Walks'
  BY <1>9 DEF Walks, Live, Registered
<1>11. Phases'
  BY DEF Phases, Live, Registered
<1>12. Counter'
  BY <1>9, OwingRemove, OwingFinite DEF Counter, SingleChanger,
     CounterExact, Changing
<1>13. Quiet'
  BY <1>9 DEF Quiet, Changing
<1>14. Roots'
  BY <1>9 DEF Roots, GlobalsPending, Live, Registered
<1> QED
  BY <1>3, <1>4, <1>5, <1>6, <1>7, <1>8, <1>10, <1>11, <1>12, <1>13, <1>14
     DEF IInv

\* A thread takes the counter to 0 and goes on to issue signal q.
Last(t, q) ==
    /\ pc[t] = "act" /\ flag = 1 /\ flag' = 0 /\ IsChange(sig[t], q)
    /\ globals' <=> globals \/ (sig[t] = SYNC2 /\ genum[tgt[t]])
    /\ \A w \in Worker : genum'[w] <=> IF w = tgt[t] /\ sig[t] \in {SYNC1, SYNC2}
                                   THEN sig[t] = SYNC1 ELSE genum[w]
    /\ \A w \in Worker : pc'[w] = IF w = t THEN "global" ELSE pc[w]
    /\ \A w \in Worker : from'[w] = IF w = t THEN sig[t] ELSE from[w]
    /\ \A w \in Worker : sig'[w] = IF w = t THEN q ELSE sig[w]
    /\ UNCHANGED <<n, avail, phase, active, helper, canceled, dead,
                     gc_count, tgt, greedy, ret, list, cur, cnt, seen>>

\* The last answer finds every worker in the phase answered, and moves on.
LEMMA LastIInv ==
    ASSUME IInv, TypeOK', NEW t \in Worker, NEW q \in Phase, Last(t, q)
    PROVE  IInv'
<1>0. /\ TypeOK /\ Registered /\ Locks /\ Targets /\ Actions /\ Changes /\ Helpers
      /\ Walks /\ Phases /\ Counter /\ Quiet /\ Roots
  BY DEF IInv
<1> USE <1>0, PointerFacts, PhaseFacts, Ranges, TargetFacts
    DEF Last
<1>a. tgt[t] \in Worker /\ Owes(tgt[t]) /\ Acting(t)
  BY DEF Owes, Acting
<1>b. Live(tgt[t]) /\ phase[tgt[t]] = sig[t] /\ ~IsPre(phase[tgt[t]])
  BY <1>a DEF Actions
<1>c. \A u \in Worker : Acting(u) /\ tgt[u] = tgt[t] => u = t
  BY <1>a, ActionsExclusive
<1>d. avail = sig[t]
  BY <1>a, <1>b DEF Phases, Walks
<1>e. \A u \in Worker : ~Changing(u)
  BY <1>a DEF Counter, Changing
<1>f. \A w \in Worker : Owes(w) => w = tgt[t]
  BY <1>a, <1>e, OwingOne DEF Counter, CounterExact
<1>g. gc_count % 2 # 0
  BY <1>a DEF Quiet
<1> USE <1>a, <1>b, <1>c, <1>d, <1>e, <1>f, <1>g
<1>3. Registered'
  BY DEF Registered, Live
<1>4. Locks'
  BY DEF Locks, InML, Helping, Acting, Changing, Registered
<1>5. Targets'
  BY DEF Targets, Acting, Changing
<1>6. Actions'
  BY DEF Actions, Acting, Live, Registered
<1>7. Changes'
  BY DEF Changes
<1>8. Helpers'
  BY DEF Helpers, Helping, Acting, Changing, Locks, InML, Registered
<1>9. \A w \in Worker : ~Owes(w)'
  BY DEF Owes, Acting, Live
<1>10. Walks'
  BY <1>9 DEF Walks, Live, Registered
<1>11. Phases'
  BY DEF Phases, Live, Changing
<1>12. Counter'
  BY <1>9, OwingNone DEF Counter, SingleChanger, CounterExact, Changing,
     Changes
<1>13. Quiet'
  BY DEF Quiet
<1>14. Roots'
  <2>1. CASE sig[t] = SYNC1
    BY <2>1 DEF Roots, GlobalsPending, Live, Changing
  <2>2. CASE sig[t] = SYNC2
    BY <2>2 DEF Roots, GlobalsPending, Live, Changing, IsChange
  <2>3. CASE sig[t] \notin {SYNC1, SYNC2}
    BY <2>3 DEF Roots, Changing, IsChange
  <2> QED
    BY <2>1, <2>2, <2>3
<1> QED
  BY <1>3, <1>4, <1>5, <1>6, <1>7, <1>8, <1>10, <1>11, <1>12, <1>13, <1>14
     DEF IInv

\* The last answer to ASYNC.
LEMMA AsyncLastIInv ==
    ASSUME IInv, TypeOK', NEW t \in Worker, flag = 1, worker_async(t)
    PROVE  IInv'
<1>0. /\ TypeOK /\ Registered /\ Locks /\ Targets /\ Actions /\ Changes /\ Helpers
      /\ Walks /\ Phases /\ Counter /\ Quiet /\ Roots
  BY DEF IInv
<1>2. /\ pc[t] = "act" /\ sig[t] = ASYNC /\ flag' = flag - 1
      /\ \A w \in Worker : pc'[w] = IF w = t THEN "end" ELSE pc[w]
      /\ UNCHANGED <<n, avail, phase, active, helper, canceled, dead,
                       genum, gc_count, globals, tgt, sig, from, greedy, ret,
                       list, cur, cnt, seen>>
  BY <1>0, PhaseFacts DEF TypeOK, worker_async, Goto, flags, registry,
     state, handshake, collection, job, walk, help, Issue, Respond, IsLast,
     Executes, Return
<1> USE <1>0, <1>2, PointerFacts, PhaseFacts, Ranges, TargetFacts
<1>a. tgt[t] \in Worker /\ Owes(tgt[t]) /\ Acting(t)
  BY DEF Owes, Acting
<1>b. Live(tgt[t]) /\ phase[tgt[t]] = sig[t] /\ ~IsPre(phase[tgt[t]])
  BY <1>a DEF Actions
<1>c. \A u \in Worker : Acting(u) /\ tgt[u] = tgt[t] => u = t
  BY <1>a, ActionsExclusive
<1>d. avail = sig[t]
  BY <1>a, <1>b DEF Phases, Walks
<1>e. \A u \in Worker : ~Changing(u)
  BY <1>a DEF Counter, Changing
<1>f. \A w \in Worker : Owes(w) => w = tgt[t]
  BY <1>a, <1>e, OwingOne DEF Counter, CounterExact
<1>g. gc_count % 2 # 0
  BY <1>a DEF Quiet
<1> USE <1>a, <1>b, <1>c, <1>d, <1>e, <1>f, <1>g
<1>3. Registered'
  BY DEF Registered
<1>4. Locks'
  BY DEF Locks, InML, Helping, Acting, Changing, Registered
<1>5. Targets'
  BY DEF Targets, Acting, Changing
<1>6. Actions'
  BY DEF Actions, Acting, Live, Registered
<1>7. Changes'
  BY DEF Changes, IsChange
<1>8. Helpers'
  BY DEF Helpers, Helping, Acting, Changing, Locks, InML, Registered
<1>9. \A w \in Worker : ~Owes(w)'
  BY DEF Owes, Acting, Live
<1>10. Walks'
  BY <1>9 DEF Walks, Live, Registered
<1>11. Phases'
  BY DEF Phases, Live, Changing
<1>12. Counter'
  BY <1>9, OwingNone DEF Counter, SingleChanger, CounterExact, Changing,
     Changes
<1>13. Quiet'
  BY DEF Quiet
<1>14. Roots'
  BY DEF Roots, GlobalsPending, Live, Changing
<1> QED
  BY <1>3, <1>4, <1>5, <1>6, <1>7, <1>8, <1>10, <1>11, <1>12, <1>13, <1>14
     DEF IInv

\* The collection ends with every worker in ASYNC.
LEMMA EndGcIInv ==
    ASSUME IInv, TypeOK', NEW t \in Worker, end_gc(t)
    PROVE  IInv'
<1>0. /\ TypeOK /\ Registered /\ Locks /\ Targets /\ Actions /\ Changes /\ Helpers
      /\ Walks /\ Phases /\ Counter /\ Quiet /\ Roots
  BY DEF IInv
<1>2. /\ pc[t] = "end" /\ gc_count' = gc_count + 1
      /\ \A w \in Worker : pc'[w] = IF w = t THEN ret[t] ELSE pc[w]
      /\ \A w \in Worker : tgt'[w] = IF w = t /\ ret[t] # "helped" THEN 0 ELSE tgt[w]
      /\ \A w \in Worker : sig'[w] = IF w = t THEN 0 ELSE sig[w]
      /\ \A w \in Worker : from'[w] = IF w = t THEN 0 ELSE from[w]
      /\ \A w \in Worker : greedy'[w] <=> IF w = t THEN FALSE ELSE greedy[w]
      /\ \A w \in Worker : ret'[w] = IF w = t THEN "ml" ELSE ret[w]
      /\ UNCHANGED <<n, avail, phase, active, helper, canceled, dead,
                       genum, flag, globals, list, cur, cnt, seen>>
  BY <1>0, PhaseFacts DEF TypeOK, end_gc, Goto, flags, registry, state,
     handshake, collection, job, walk, help, Return
<1> USE <1>0, <1>2, PointerFacts, PhaseFacts, Ranges, TargetFacts
<1>d. \A u \in Worker : Changing(u) => u = t
  BY DEF Counter, SingleChanger, Changing
<1>e. avail = ASYNC /\ \A w \in Worker : ~Owes(w)
  BY DEF Phases, Counter
<1> USE <1>d, <1>e
<1>3. Registered'
  BY DEF Registered
<1>4. Locks'
  BY DEF Locks, InML, Helping, Acting, Changing, Registered
<1>5. Targets'
  BY DEF Targets, Acting, Changing
<1>6. Actions'
  BY DEF Actions, Acting, Live, Registered
<1>7. Changes'
  BY DEF Changes, IsChange
<1>8. Helpers'
  BY DEF Helpers, Helping, Acting, Changing, Locks, InML, Registered
<1>9. \A w \in Worker : Owes(w)' <=> Owes(w)
  BY DEF Owes, Acting, Live, Registered, Phases, Actions
<1>10. Walks'
  BY <1>9 DEF Walks, Live, Registered
<1>11. Phases'
  BY DEF Phases, Live, Registered
<1>12. Counter'
  <2>1. \A u \in Worker : ~Changing(u)'
    BY DEF Changing
  <2>2. flag' = Cardinality(Owing)'
    BY <1>9, OwingSame, OwingFinite DEF Counter, CounterExact, Changing,
       Changes
  <2> QED
    BY <2>1, <2>2 DEF Counter, SingleChanger, CounterExact, Changing
<1>13. Quiet'
  BY <1>9 DEF Quiet, Changing
<1>14. Roots'
  BY <1>9 DEF Roots, GlobalsPending, Live, Registered
<1> QED
  BY <1>3, <1>4, <1>5, <1>6, <1>7, <1>8, <1>10, <1>11, <1>12, <1>13, <1>14
     DEF IInv

\* A step of sml_check_internal or help_inactive before a worker is locked.
Inert(t) ==
    /\ pc[t] \in {"ml", "load", "scan", "pop", "take"}
    /\ pc'[t] \in {"ml", "load", "scan", "pop", "take"}
    /\ pc'[t] \in {"pop", "take"} => cur'[t] # 0 /\ IsPre(seen'[t])
    /\ \A w \in Worker : w # t => /\ pc'[w] = pc[w] /\ list'[w] = list[w]
                               /\ cur'[w] = cur[w] /\ seen'[w] = seen[w]
    /\ UNCHANGED <<n, avail, phase, active, helper, canceled, dead,
                     genum, flag, gc_count, globals, tgt, sig, from,
                     greedy, ret, cnt>>

\* Reading and popping the list changes nothing the invariant speaks of.
LEMMA InertIInv ==
    ASSUME IInv, TypeOK', NEW t \in Worker, Inert(t)
    PROVE  IInv'
<1>0. /\ TypeOK /\ Registered /\ Locks /\ Targets /\ Actions /\ Changes /\ Helpers
      /\ Walks /\ Phases /\ Counter /\ Quiet /\ Roots
  BY DEF IInv
<1> USE <1>0, PointerFacts, PhaseFacts, Ranges, TargetFacts
    DEF Inert
<1>3. Registered'
  BY DEF Registered
<1>4. Locks'
  BY DEF Locks, InML, Helping, Acting, Changing, Registered
<1>5. Targets'
  BY DEF Targets, Acting, Changing
<1>6. Actions'
  BY DEF Actions, Acting, Live, Registered
<1>7. Changes'
  BY DEF Changes, IsChange
<1>8. Helpers'
  BY DEF Helpers, Helping, Acting, Changing, Locks, InML, Registered
<1>9. \A w \in Worker : Owes(w)' <=> Owes(w)
  BY DEF Owes, Acting, Live, Registered, Phases, Actions
<1>10. Walks'
  BY <1>9 DEF Walks, Live, Registered
<1>11. Phases'
  BY DEF Phases, Live, Registered
<1>12. Counter'
  BY <1>9, OwingSame, OwingFinite DEF Counter, SingleChanger, CounterExact,
     Changing
<1>13. Quiet'
  BY <1>9 DEF Quiet, Changing
<1>14. Roots'
  BY <1>9 DEF Roots, GlobalsPending, Live, Registered
<1> QED
  BY <1>3, <1>4, <1>5, <1>6, <1>7, <1>8, <1>10, <1>11, <1>12, <1>13, <1>14
     DEF IInv

\* The helper locks the worker and accepts its signal.
LEMMA TakeIInv ==
    ASSUME IInv, TypeOK', NEW t \in Worker, ~active[cur[t]], phase[cur[t]] = seen[t], take_worker(t)
    PROVE  IInv'
<1>0. /\ TypeOK /\ Registered /\ Locks /\ Targets /\ Actions /\ Changes /\ Helpers
      /\ Walks /\ Phases /\ Counter /\ Quiet /\ Roots
  BY DEF IInv
<1>a. cur[t] \in Worker /\ IsPre(seen[t]) /\ cur[t] # 0
  BY <1>0, Ranges, PointerFacts DEF Helpers, take_worker
<1>b. /\ phase' = [phase EXCEPT ![cur[t]] = Accept(seen[t])]
      /\ active' = [active EXCEPT ![cur[t]] = TRUE]
      /\ helper' = [helper EXCEPT ![cur[t]] = TRUE]
      /\ Begin(t, cur[t], Accept(seen[t]), FALSE, "helped")
      /\ list' = [list EXCEPT ![t] = 0]
      /\ cur' = [cur EXCEPT ![t] = 0]
      /\ UNCHANGED seen
  BY DEF take_worker
<1>2. /\ pc[t] = "take" /\ cur[t] # 0
      /\ \A w \in Worker : phase'[w] = IF w = cur[t] THEN Accept(seen[t]) ELSE phase[w]
      /\ \A w \in Worker : active'[w] <=> IF w = cur[t] THEN TRUE ELSE active[w]
      /\ \A w \in Worker : helper'[w] <=> IF w = cur[t] THEN TRUE ELSE helper[w]
      /\ \A w \in Worker : w # t => list'[w] = list[w] /\ cur'[w] = cur[w]
      /\ \A w \in Worker : pc'[w] = IF w = t THEN "act" ELSE pc[w]
      /\ \A w \in Worker : tgt'[w] = IF w = t THEN cur[t] ELSE tgt[w]
      /\ \A w \in Worker : sig'[w] = IF w = t THEN Accept(seen[t]) ELSE sig[w]
      /\ \A w \in Worker : from'[w] = IF w = t THEN 0 ELSE from[w]
      /\ \A w \in Worker : greedy'[w] <=> IF w = t THEN FALSE ELSE greedy[w]
      /\ \A w \in Worker : ret'[w] = IF w = t THEN "helped" ELSE ret[w]
      /\ UNCHANGED <<n, avail, canceled, dead, genum, flag, gc_count,
                       globals, cnt, seen>>
  BY <1>0, <1>a, <1>b, PhaseFacts DEF TypeOK, take_worker, Goto, flags,
     registry, state, handshake, collection, job, walk, help, Begin
<1> USE <1>0, <1>2, PointerFacts, PhaseFacts, Ranges, TargetFacts
<1>c. Live(cur[t]) /\ Owes(cur[t])
  BY <1>a DEF Live, Owes, Registered
<1>d. /\ ~InML(cur[t]) /\ ~helper[cur[t]] /\ cur[t] # t
      /\ \A u \in Worker : Acting(u) => tgt[u] # cur[t]
  BY <1>a DEF Locks, Actions, InML
<1> USE <1>a, <1>c, <1>d
<1>3. Registered'
  BY DEF Registered, Live
<1>4. Locks'
  BY DEF Locks, InML, Helping, Acting, Changing, Registered
<1>5. Targets'
  BY DEF Targets, Acting, Changing
<1>6. Actions'
  BY DEF Actions, Acting, Live, Targets
<1>7. Changes'
  BY DEF Changes, InML, Changing, Targets
<1>8. Helpers'
  BY DEF Helpers, Helping, Acting, Changing, Locks, InML, Registered
<1>9. \A w \in Worker : Owes(w)' <=> Owes(w)
  BY DEF Owes, Acting, Live
<1>10. Walks'
  BY <1>9 DEF Walks, Live, Registered
<1>11. Phases'
  BY DEF Phases, Live, Registered
<1>12. Counter'
  BY <1>9, OwingSame, OwingFinite DEF Counter, SingleChanger, CounterExact,
     Changing
<1>13. Quiet'
  BY <1>9 DEF Quiet, Changing
<1>14. Roots'
  BY <1>9 DEF Roots, GlobalsPending, Live, Registered
<1> QED
  BY <1>3, <1>4, <1>5, <1>6, <1>7, <1>8, <1>10, <1>11, <1>12, <1>13, <1>14
     DEF IInv

\* The helper unlocks the worker.
LEMMA ReleaseIInv ==
    ASSUME IInv, TypeOK', NEW t \in Worker, phase[tgt[t]] = Accept(seen[t]), release_worker(t)
    PROVE  IInv'
<1>0. /\ TypeOK /\ Registered /\ Locks /\ Targets /\ Actions /\ Changes /\ Helpers
      /\ Walks /\ Phases /\ Counter /\ Quiet /\ Roots
  BY DEF IInv
<1>2. /\ pc[t] = "helped" /\ phase[tgt[t]] = Accept(seen[t])
      /\ \A w \in Worker : active'[w] <=> IF w = tgt[t] THEN FALSE ELSE active[w]
      /\ \A w \in Worker : helper'[w] <=> IF w = tgt[t] THEN FALSE ELSE helper[w]
      /\ \A w \in Worker : tgt'[w] = IF w = t THEN 0 ELSE tgt[w]
      /\ \A w \in Worker : pc'[w] = IF w = t THEN "ml" ELSE pc[w]
      /\ \A w \in Worker : w # t => list'[w] = list[w] /\ cur'[w] = cur[w] /\ seen'[w] = seen[w]
      /\ UNCHANGED <<n, avail, phase, canceled, dead, genum, flag,
                       gc_count, globals, sig, from, greedy, ret, cnt>>
  BY <1>0, PhaseFacts DEF TypeOK, release_worker, Goto, flags, registry,
     state, handshake, collection, job, walk, help, HelpReturns
<1> USE <1>0, <1>2, PointerFacts, PhaseFacts, Ranges, TargetFacts
<1>3. Registered'
  BY DEF Registered
<1>4. Locks'
  BY DEF Locks, InML, Helping, Acting, Changing, Registered
<1>5. Targets'
  BY DEF Targets, Acting, Changing
<1>6. Actions'
  BY DEF Actions, Acting, Live, Registered
<1>7. Changes'
  BY DEF Changes, IsChange
<1>8. Helpers'
  BY DEF Helpers, Helping, Acting, Changing, Locks, InML, Registered
<1>9. \A w \in Worker : Owes(w)' <=> Owes(w)
  BY DEF Owes, Acting, Live, Registered, Phases, Actions
<1>10. Walks'
  BY <1>9 DEF Walks, Live, Registered
<1>11. Phases'
  BY DEF Phases, Live, Registered
<1>12. Counter'
  BY <1>9, OwingSame, OwingFinite DEF Counter, SingleChanger, CounterExact,
     Changing
<1>13. Quiet'
  BY <1>9 DEF Quiet, Changing
<1>14. Roots'
  BY <1>9 DEF Roots, GlobalsPending, Live, Registered
<1> QED
  BY <1>3, <1>4, <1>5, <1>6, <1>7, <1>8, <1>10, <1>11, <1>12, <1>13, <1>14
     DEF IInv

\* The next signal has arrived: it is pending, so sml_fatal is not reached.
LEMMA ReleaseAgainIInv ==
    ASSUME IInv, TypeOK', NEW t \in Worker, phase[tgt[t]] # Accept(seen[t]), release_worker(t)
    PROVE  IInv'
<1>0. /\ TypeOK /\ Registered /\ Locks /\ Targets /\ Actions /\ Changes /\ Helpers
      /\ Walks /\ Phases /\ Counter /\ Quiet /\ Roots
  BY DEF IInv
<1>a. tgt[t] \in Worker /\ IsPre(phase[tgt[t]])
  BY <1>0, TargetFacts DEF Helpers, Helping, release_worker
<1>b. /\ phase' = [phase EXCEPT ![tgt[t]] = Accept(@)]
      /\ seen' = [seen EXCEPT ![t] = phase[tgt[t]]]
      /\ Begin(t, tgt[t], Accept(phase[tgt[t]]), FALSE, "helped")
      /\ UNCHANGED <<active, helper, list, cur>>
  BY <1>a DEF release_worker
<1>2. /\ pc[t] = "helped" /\ IsPre(phase[tgt[t]])
      /\ \A w \in Worker : phase'[w] = IF w = tgt[t] THEN Accept(phase[tgt[t]]) ELSE phase[w]
      /\ \A w \in Worker : seen'[w] = IF w = t THEN phase[tgt[t]] ELSE seen[w]
      /\ \A w \in Worker : pc'[w] = IF w = t THEN "act" ELSE pc[w]
      /\ \A w \in Worker : tgt'[w] = IF w = t THEN tgt[t] ELSE tgt[w]
      /\ \A w \in Worker : sig'[w] = IF w = t THEN Accept(phase[tgt[t]]) ELSE sig[w]
      /\ \A w \in Worker : from'[w] = IF w = t THEN 0 ELSE from[w]
      /\ \A w \in Worker : greedy'[w] <=> IF w = t THEN FALSE ELSE greedy[w]
      /\ \A w \in Worker : ret'[w] = IF w = t THEN "helped" ELSE ret[w]
      /\ UNCHANGED <<n, avail, active, helper, canceled, dead, genum, flag,
                       gc_count, globals, list, cur, cnt>>
  BY <1>0, <1>a, <1>b, PhaseFacts DEF TypeOK, release_worker, Goto, flags,
     registry, state, handshake, collection, job, walk, help, Begin
<1> USE <1>0, <1>2, PointerFacts, PhaseFacts, Ranges, TargetFacts
<1>c. Live(tgt[t]) /\ Owes(tgt[t])
  BY <1>a DEF Live, Owes, Registered
<1>d. /\ ~InML(tgt[t]) /\ helper[tgt[t]]
      /\ \A u \in Worker : Acting(u) => tgt[u] # tgt[t]
  BY <1>a DEF Locks, Actions, Helping
<1> USE <1>a, <1>c, <1>d
<1>3. Registered'
  BY DEF Registered
<1>4. Locks'
  BY DEF Locks, InML, Helping, Acting, Changing, Registered
<1>5. Targets'
  BY DEF Targets, Acting, Changing
<1>6. Actions'
  BY DEF Actions, Acting, Live, Registered
<1>7. Changes'
  BY DEF Changes, InML, Changing, Targets
<1>8. Helpers'
  BY DEF Helpers, Helping, Acting, Changing, Locks, InML, Registered
<1>9. \A w \in Worker : Owes(w)' <=> Owes(w)
  BY DEF Owes, Acting, Live, Registered, Phases, Actions
<1>10. Walks'
  BY <1>9 DEF Walks, Live, Registered
<1>11. Phases'
  BY DEF Phases, Live, Registered
<1>12. Counter'
  BY <1>9, OwingSame, OwingFinite DEF Counter, SingleChanger, CounterExact,
     Changing
<1>13. Quiet'
  BY <1>9 DEF Quiet, Changing
<1>14. Roots'
  BY <1>9 DEF Roots, GlobalsPending, Live, Registered
<1> QED
  BY <1>3, <1>4, <1>5, <1>6, <1>7, <1>8, <1>10, <1>11, <1>12, <1>13, <1>14
     DEF IInv

-----------------------------------------------------------------------------
(*****************************************************************************)
(* The theorems                                                              *)
(*****************************************************************************)

\* A step that leaves alone everything the invariant speaks of.
LEMMA SameIInv ==
    ASSUME IInv, TypeOK',
           UNCHANGED <<registry, state, canceled, dead, genum, flag, gc_count,
                       globals, pc, job, walk, seen>>
    PROVE  IInv'
<1> USE DEF registry, state, job, walk
<1>1. /\ TypeOK /\ Registered /\ Locks /\ Targets /\ Actions /\ Changes /\ Helpers
      /\ Walks /\ Phases /\ Counter /\ Quiet /\ Roots
  BY DEF IInv
<1>2. \A w \in Worker : Owes(w)' <=> Owes(w)
  BY DEF Owes, Acting, Live
<1>3. Registered' /\ Locks' /\ Targets' /\ Actions' /\ Changes' /\ Helpers'
  BY <1>1 DEF Registered, Locks, Targets, Actions, Changes, Helpers, InML,
              Helping, Acting, Changing, Live
<1>4. Walks' /\ Phases' /\ Quiet' /\ Roots'
  BY <1>1, <1>2 DEF Walks, Phases, Quiet, Roots, GlobalsPending, Changing, Live
<1>5. Counter'
  BY <1>1, <1>2, OwingSame DEF Counter, SingleChanger, CounterExact, Changing
<1> QED
  BY <1>3, <1>4, <1>5 DEF IInv

\* IInv is inductive.
LEMMA NextIInv == IInv /\ [Next]_vars => IInv'
<1> SUFFICES ASSUME IInv, [Next]_vars PROVE IInv'
  OBVIOUS
<1>0. /\ TypeOK /\ Registered /\ Locks /\ Targets /\ Actions /\ Changes /\ Helpers
      /\ Walks /\ Phases /\ Counter /\ Quiet /\ Roots
  BY DEF IInv
<1>1. TypeOK'
  BY <1>0, TypeStep
<1>2. CASE UNCHANGED vars
  BY <1>1, <1>2, SameIInv DEF vars, flags, collection, help
<1>3. ASSUME NEW t \in Worker, ProgramStep(t)
      PROVE  IInv'
  <2>1. CASE register_worker(t)
    BY <1>1, <2>1, RegisterIInv
  <2>2. ASSUME NEW ends \in BOOLEAN, leave_worker(t, ends)
        PROVE  IInv'
    BY <1>1, <2>2, LeaveIdleIInv, LeaveActIInv
  <2>3. CASE sml_enter(t)
    BY <1>1, <2>3, EnterCallIInv
  <2>4. CASE cancel_worker(t)
    BY <1>1, <2>4, CancelIInv
  <2>5. ASSUME NEW g \in BOOLEAN, sml_gc(t, g)
        PROVE  IInv'
    <3>1. CASE gc_count % 2 = 0
      <4>1. Start(t, g, "ml")
        BY <1>0, <2>5, <3>1 DEF TypeOK, sml_gc, Start, Goto, registry, state,
           flags, handshake, walk, help
      <4> QED
        BY <1>1, <4>1, StartIInv
    <3>2. CASE gc_count % 2 # 0
      BY <1>1, <2>5, <3>2, SameIInv DEF sml_gc, flags, collection, help
    <3> QED
      BY <3>1, <3>2
  <2>6. CASE signal_gc(t)
    <3>1. Start(t, FALSE, "c")
      BY <1>0, <2>6 DEF TypeOK, signal_gc, Start, Goto, registry, state, flags,
         handshake, walk, help
    <3> QED
      BY <1>1, <3>1, StartIInv
  <2> QED
    BY <1>3, <2>1, <2>2, <2>3, <2>4, <2>5, <2>6 DEF ProgramStep
<1>4. ASSUME NEW t \in Worker, PollStep(t)
      PROVE  IInv'
  <2>1. CASE sml_check(t) /\ IsPre(phase[t])
    <3>1. AcceptOwn(t)
      BY <1>0, <2>1 DEF TypeOK, sml_check, AcceptOwn, Begin, Goto, registry,
         flags, handshake, collection, walk, help
    <3> QED
      BY <1>1, <3>1, OwnIInv
  <2>2. CASE sml_check(t) /\ ~IsPre(phase[t])
    <3>1. Inert(t)
      BY <1>0, <2>2 DEF TypeOK, sml_check, Inert, Goto, registry, flags,
         handshake, collection, job, walk, help
    <3> QED
      BY <1>1, <3>1, InertIInv
  <2>3. CASE wait_done(t)
    BY <1>1, <2>3, SameIInv DEF wait_done, flags, collection, help
  <2> QED
    BY <1>4, <2>1, <2>2, <2>3 DEF PollStep
<1>5. ASSUME NEW t \in Worker, RuntimeStep(t)
      PROVE  IInv'
  <2> USE <1>0 DEF TypeOK, Goto, registry, state, flags, handshake, collection,
                   walk, help
  <2>1. CASE enter_worker(t)
    BY <1>1, <2>1, EnterIInv
  <2>2. CASE global_phase(t)
    BY <1>1, <2>2, GlobalPhaseIInv
  <2>3. CASE change_phase(t)
    BY <1>1, <2>3, WalkSkipIInv, WalkKillIInv, WalkSignalIInv
  <2>4. CASE publish_handshake(t)
    BY <1>1, <2>4, PublishIInv
  <2>5. CASE add_check_flag(t)
    BY <1>1, <2>5, AddReturnIInv, AddGreedyIInv
  <2>6. CASE accept_own(t)
    <3>1. tgt[t] = t /\ phase[t] = sig[t] /\ IsPre(phase[t])
      BY <2>6 DEF accept_own, Targets, Changes
    <3>2. AcceptOwn(t)
      BY <2>6, <3>1 DEF accept_own, AcceptOwn, Begin
    <3> QED
      BY <1>1, <3>2, OwnIInv
  <2>7. CASE worker_sync1(t)
    <3>1. flag # 1 => Answer(t)
      BY <2>7, PhaseFacts DEF worker_sync1, Executes, Respond, IsLast, Return, Answer
    <3>2. flag = 1 => Last(t, PRESYNC2)
      BY <2>7, PhaseFacts DEF worker_sync1, Executes, Respond, IsLast, Issue, Last,
         IsChange
    <3> QED
      BY <1>1, <3>1, <3>2, AnswerIInv, LastIInv, PhaseFacts
  <2>8. CASE worker_sync2(t)
    <3>a. globals' <=> globals \/ genum[tgt[t]]
      BY <2>8 DEF worker_sync2
    <3>b. \A w \in Worker : genum'[w] <=> genum[w] /\ w # tgt[t]
      BY <2>8 DEF worker_sync2
    <3>c. /\ pc[t] = "act" /\ sig[t] = SYNC2 /\ flag' = flag - 1
          /\ IF flag = 1 THEN Issue(t, SYNC2, PREMARK) ELSE Return(t)
          /\ UNCHANGED <<n, avail, phase, active, helper, canceled, dead,
                         gc_count, list, cur, cnt, seen>>
      BY <2>8 DEF worker_sync2, Executes, Respond, IsLast
    <3>1. flag # 1 => Answer(t)
      BY <3>a, <3>b, <3>c DEF Return, Answer
    <3>2. flag = 1 => Last(t, PREMARK)
      BY <3>a, <3>b, <3>c, PhaseFacts DEF Issue, Last, IsChange
    <3> QED
      BY <1>1, <3>1, <3>2, AnswerIInv, LastIInv, PhaseFacts
  <2>9. CASE worker_mark(t)
    <3>1. flag # 1 => Answer(t)
      BY <2>9, PhaseFacts DEF worker_mark, Executes, Respond, IsLast, Return, Answer
    <3>2. flag = 1 => Last(t, PREMARK) \/ Last(t, PREASYNC)
      BY <2>9, PhaseFacts DEF worker_mark, Executes, Respond, IsLast, Issue, Last,
         IsChange
    <3> QED
      BY <1>1, <3>1, <3>2, AnswerIInv, LastIInv, PhaseFacts
  <2>10. CASE worker_async(t)
    <3>1. flag # 1 => Answer(t)
      BY <2>10, PhaseFacts DEF worker_async, Executes, Respond, IsLast, Return, Answer
    <3> QED
      BY <1>1, <2>10, <3>1, AnswerIInv, AsyncLastIInv
  <2>11. CASE end_gc(t)
    BY <1>1, <2>11, EndGcIInv
  <2>12. CASE load_handshake(t) \/ pop_fails(t) \/ clear_handshake(t)
    <3>1. Inert(t)
      BY <2>12 DEF load_handshake, pop_fails, clear_handshake, HelpReturns, Inert, job
    <3> QED
      BY <1>1, <3>1, InertIInv
  <2>13. CASE scan_handshake(t)
    <3>1. Inert(t)
      BY <2>13 DEF scan_handshake, NeedsHelp, Inert, job
    <3> QED
      BY <1>1, <3>1, InertIInv
  <2>14. CASE pop_handshake(t)
    <3>1. Inert(t)
      BY <2>14 DEF pop_handshake, Inert, job, Helpers
    <3> QED
      BY <1>1, <3>1, InertIInv
  <2>15. CASE take_worker(t)
    <3>1. CASE ~active[cur[t]] /\ phase[cur[t]] = seen[t]
      BY <1>1, <2>15, <3>1, TakeIInv
    <3>2. CASE ~(~active[cur[t]] /\ phase[cur[t]] = seen[t])
      <4>1. pc[t] = "take" /\ HelpReturns(t) /\ UNCHANGED <<state, job>>
        BY <2>15, <3>2 DEF take_worker
      <4>2. Inert(t)
        BY <2>15, <4>1 DEF take_worker, HelpReturns, Inert, job
      <4> QED
        BY <1>1, <4>2, InertIInv
    <3> QED
      BY <3>1, <3>2
  <2>16. CASE release_worker(t)
    BY <1>1, <2>16, ReleaseIInv, ReleaseAgainIInv
  <2> QED
    BY <1>5, <2>1, <2>2, <2>3, <2>4, <2>5, <2>6, <2>7, <2>8, <2>9, <2>10, <2>11,
       <2>12, <2>13, <2>14, <2>15, <2>16 DEF RuntimeStep
<1> QED
  BY <1>2, <1>3, <1>4, <1>5 DEF Next

\* IInv holds in every reachable state.
THEOREM Invariance == Spec => []IInv
BY InitIInv, NextIInv, PTL DEF Spec

\* Every variable of the handshake keeps its type.
THEOREM TypeCorrect == Spec => []TypeOK
<1>1. IInv => TypeOK
  BY DEF IInv
<1> QED
  BY <1>1, Invariance, PTL

\* At most one thread at a time changes the phase, and sml_check_flag always is
\* the number of answers still owed, less those not added yet.
THEOREM CounterTheorem == Spec => [](SingleChanger /\ CounterExact)
<1>1. IInv => SingleChanger /\ CounterExact
  BY DEF IInv, Counter
<1> QED
  BY <1>1, Invariance, PTL

\* A worker that owes an answer has the phase in workers_available, or has the
\* signal for it pending; the same goes for a thread that executes an action.
LEMMA OwedPhase ==
    ASSUME IInv
    PROVE  /\ \A w \in Worker : Live(w) /\ IsPre(phase[w]) => Accept(phase[w]) = avail
           /\ \A t \in Worker : Acting(t) => sig[t] = avail
<1>0. TypeOK /\ Registered /\ Targets /\ Actions /\ Changes /\ Walks /\ Phases
  BY DEF IInv
<1> USE <1>0, Ranges, TargetFacts, PointerFacts, PhaseFacts
<1>1. ASSUME NEW w \in Worker, Owes(w), Live(w)
      PROVE  Accept(phase[w]) = avail
  BY <1>1 DEF Phases, Walks
<1>2. ASSUME NEW t \in Worker, Acting(t)
      PROVE  sig[t] = avail
  <2>1. tgt[t] \in Worker /\ Owes(tgt[t]) /\ Live(tgt[t]) /\ phase[tgt[t]] = sig[t]
    BY <1>2 DEF Owes, Actions
  <2>2. Accept(sig[t]) = sig[t]
    BY <1>2 DEF Actions
  <2> QED
    BY <1>1, <2>1, <2>2
<1> QED
  BY <1>1, <1>2 DEF Owes

\* No worker starts the action of a signal before every worker has ended the
\* action of the previous one.
THEOREM OneActionTheorem == Spec => []OneActionAtATime
<1>1. IInv => OneActionAtATime
  BY OwedPhase DEF OneActionAtATime
<1> QED
  BY <1>1, Invariance, PTL

\* Nobody traces before all roots have been enumerated.
THEOREM RootsTheorem == Spec => []RootsBeforeMark
<1>1. ASSUME IInv PROVE RootsBeforeMark
  <2>0. TypeOK /\ Changes /\ Walks /\ Phases /\ Roots
    BY <1>1 DEF IInv
  <2> USE <2>0, Ranges, PointerFacts, PhaseFacts
  <2>1. CASE avail = MARK
    BY <1>1, <2>1, OwedPhase DEF Roots, RootsBeforeMark, Executes, Acting
  <2>2. ASSUME avail # MARK, NEW w \in Worker, Live(w), phase[w] \in {PREMARK, MARK}
        PROVE  globals /\ avail = ASYNC
    <3>1. PICK t \in Worker : pc[t] = "walk" /\ w <= cur[t]
      BY <2>2 DEF Phases
    <3>2. phase[w] = from[t] /\ avail = Accept(sig[t]) /\ IsChange(from[t], sig[t])
      BY <2>2, <3>1 DEF Walks, Changes
    <3>3. from[t] = MARK /\ avail = ASYNC
      BY <2>2, <3>2 DEF IsChange, PREMARK, MARK, ASYNC, SYNC1, SYNC2
    <3> QED
      BY <3>1, <3>3 DEF Roots
  <2>3. avail = ASYNC => /\ \A t \in Worker : ~Executes(t, SYNC2)
                         /\ \A w \in Worker : Live(w) => phase[w] # PRESYNC2
    BY <1>1, OwedPhase DEF Executes, Acting
  <2> QED
    BY <2>1, <2>2, <2>3 DEF RootsBeforeMark
<1> QED
  BY <1>1, Invariance, PTL

\* One thread at a time executes an action for a worker context, and none does
\* while the worker's own thread holds it.
THEOREM ExclusiveTheorem == Spec => []ExclusiveAction
<1>1. ASSUME IInv PROVE ExclusiveAction
  <2>0. TypeOK /\ Registered /\ Locks /\ Targets /\ Actions
    BY <1>1 DEF IInv
  <2> USE <2>0, Ranges, TargetFacts
  <2>1. \A t, u \in Worker : Acting(t) /\ Acting(u) /\ tgt[u] = tgt[t] => u = t
    BY ActionsExclusive
  <2>2. ASSUME NEW t \in Worker, Acting(t), tgt[t] # t
        PROVE  Outside(tgt[t])
    <3>1. tgt[t] \in Worker /\ ret[t] = "helped" /\ Live(tgt[t])
      BY <2>2 DEF Targets, Actions
    <3>2. helper[tgt[t]] /\ ~InML(tgt[t])
      BY <2>2, <3>1 DEF Locks, Helping
    <3>3. ~(Acting(tgt[t]) /\ ret[tgt[t]] = "c")
      BY <3>1, <3>2 DEF Actions, Locks
    <3>4. pc[tgt[t]] \in Label /\ pc[tgt[t]] # "none" /\ pc[tgt[t]] # "fatal"
      BY <3>1 DEF TypeOK, Registered, Live, Targets
    <3> QED
      BY <3>1, <3>2, <3>3, <3>4 DEF InML, Outside, Acting, Changing, Label
  <2> QED
    BY <2>1, <2>2 DEF ExclusiveAction
<1> QED
  BY <1>1, Invariance, PTL

\* The assertions of control.c hold and neither sml_fatal is reached.
THEOREM AssertsTheorem == Spec => []Asserts
<1>1. ASSUME IInv PROVE Asserts
  <2>0. /\ TypeOK /\ Locks /\ Targets /\ Changes /\ Walks /\ Quiet
    BY <1>1 DEF IInv
  <2> USE <2>0, Ranges, TargetFacts, PointerFacts
  <2> SUFFICES ASSUME NEW t \in Worker
               PROVE  /\ pc[t] = "walk" => \A w \in 1 .. cur[t] :
                                              Live(w) => phase[w] = from[t]
                      /\ pc[t] = "greedy" => /\ active[tgt[t]] /\ ~helper[tgt[t]]
                                             /\ phase[tgt[t]] = sig[t]
                      /\ pc[t] = "end" => gc_count % 2 = 1
                      /\ pc[t] # "fatal"
    BY DEF Asserts
  <2>1. ASSUME pc[t] = "walk", NEW w \in 1 .. cur[t], Live(w)
        PROVE  phase[w] = from[t]
    <3>1. w \in Worker
      BY NAssumption DEF Worker, Pointer
    <3> QED
      BY <2>1, <3>1 DEF Walks
  <2>2. CASE pc[t] = "greedy"
    <3>1. tgt[t] = t
      BY <2>2 DEF Targets, Changes
    <3> QED
      BY <2>2, <3>1 DEF Locks, InML, Changes
  <2>3. CASE pc[t] = "end"
    <3>1. gc_count % 2 # 0 /\ gc_count \in Nat
      BY <2>3 DEF Quiet, Changing
    <3> QED
      BY <2>3, <3>1
  <2> QED
    BY <2>1, <2>2, <2>3 DEF Targets
<1> QED
  BY <1>1, Invariance, PTL

\* Nothing of a collection is left when gc_count is even again.
THEOREM QuietTheorem == Spec => []QuietBetweenCollections
<1>1. ASSUME IInv PROVE QuietBetweenCollections
  <2>0. TypeOK /\ Targets /\ Phases /\ Counter /\ Quiet
    BY <1>1 DEF IInv
  <2> SUFFICES ASSUME gc_count % 2 = 0
               PROVE  /\ avail = ASYNC
                      /\ flag = 0
                      /\ \A w \in Worker : Live(w) => phase[w] = ASYNC
                      /\ \A t \in Worker : ~Acting(t) /\ ~Changing(t)
    BY DEF QuietBetweenCollections
  <2> USE <2>0, Ranges, TargetFacts, PointerFacts, PhaseFacts
  <2>1. /\ avail = ASYNC
        /\ \A w \in Worker : ~Owes(w)
        /\ \A t \in Worker : ~Changing(t)
    BY DEF Quiet
  <2>2. flag = 0
    BY <2>1, OwingFinite DEF Counter, CounterExact
  <2>3. \A w \in Worker : Live(w) => phase[w] = ASYNC
    BY <2>1 DEF Phases, Owes, Changing
  <2>4. \A t \in Worker : ~Acting(t)
    BY <2>1 DEF Owes
  <2> QED
    BY <2>1, <2>2, <2>3, <2>4
<1> QED
  BY <1>1, Invariance, PTL

\* Who can lock a worker context, and that DEAD_FLAG is never cleared.
LEMMA DeadStep ==
    ASSUME IInv, Next, NEW w \in Worker, dead[w]
    PROVE  dead'[w] /\ (active'[w] => active[w])
<1>0. TypeOK /\ Registered /\ Helpers
  BY DEF IInv
<1> USE <1>0, Ranges, PointerFacts, PhaseFacts
    DEF TypeOK, registry, state, flags, Goto
<1>1. pc[w] = "exited" /\ phase[w] = ASYNC /\ w <= n
  BY DEF Registered
<1>2. PICK t \in Worker : RuntimeStep(t) \/ ProgramStep(t) \/ PollStep(t)
  BY DEF Next
<1>3. CASE PollStep(t)
  <2>1. UNCHANGED <<active, dead>>
    <3>1. CASE sml_check(t)
      BY <3>1 DEF sml_check
    <3>2. CASE wait_done(t)
      BY <3>2 DEF wait_done
    <3> QED
      BY <1>3, <3>1, <3>2 DEF PollStep
  <2> QED
    BY <2>1
<1>4. CASE ProgramStep(t)
  <2>1. CASE register_worker(t)
    BY <1>1, <2>1 DEF register_worker
  <2>2. ASSUME NEW ends \in BOOLEAN, leave_worker(t, ends)
        PROVE  dead'[w] /\ (active'[w] => active[w])
    BY <2>2 DEF leave_worker
  <2>3. CASE sml_enter(t) \/ cancel_worker(t) \/ signal_gc(t)
    BY <2>3 DEF sml_enter, cancel_worker, signal_gc
  <2>4. ASSUME NEW g \in BOOLEAN, sml_gc(t, g)
        PROVE  dead'[w] /\ (active'[w] => active[w])
    BY <2>4 DEF sml_gc
  <2> QED
    BY <1>4, <2>1, <2>2, <2>3, <2>4 DEF ProgramStep
<1>5. CASE RuntimeStep(t)
  <2>1. CASE enter_worker(t)
    BY <1>1, <2>1 DEF enter_worker
  <2>2. CASE change_phase(t)
    BY <2>2 DEF change_phase
  <2>3. CASE global_phase(t) \/ publish_handshake(t) \/ add_check_flag(t)
             \/ accept_own(t) \/ end_gc(t)
    <3>1. CASE global_phase(t) \/ publish_handshake(t)
      <4>1. UNCHANGED <<active, dead>>
        BY <3>1 DEF global_phase, publish_handshake
      <4> QED
        BY <4>1
    <3>2. CASE add_check_flag(t)
      BY <3>2 DEF add_check_flag
    <3>3. CASE accept_own(t) \/ end_gc(t)
      <4>1. UNCHANGED <<active, dead>>
        BY <3>3 DEF accept_own, end_gc
      <4> QED
        BY <4>1
    <3> QED
      BY <2>3, <3>1, <3>2, <3>3
  <2>4. CASE worker_sync1(t) \/ worker_sync2(t) \/ worker_mark(t) \/ worker_async(t)
    BY <2>4 DEF worker_sync1, worker_sync2, worker_mark, worker_async
  <2>5. CASE load_handshake(t) \/ scan_handshake(t) \/ pop_handshake(t)
             \/ pop_fails(t) \/ clear_handshake(t)
    BY <2>5 DEF load_handshake, scan_handshake, pop_handshake, pop_fails,
                clear_handshake
  <2>6. CASE take_worker(t)
    <3>1. cur[t] \in Worker /\ IsPre(seen[t]) /\ dead' = dead
      BY <2>6 DEF take_worker, Helpers
    <3>2. active' = active \/ (phase[cur[t]] = seen[t]
                               /\ active' = [active EXCEPT ![cur[t]] = TRUE])
      BY <2>6 DEF take_worker
    <3> QED
      BY <1>1, <3>1, <3>2
  <2>7. CASE release_worker(t)
    <3>1. dead' = dead /\ (active' = active
                           \/ active' = [active EXCEPT ![tgt[t]] = FALSE])
      BY <2>7 DEF release_worker
    <3> QED
      BY <3>1
  <2> QED
    BY <1>5, <2>1, <2>2, <2>3, <2>4, <2>5, <2>6, <2>7 DEF RuntimeStep
<1> QED
  BY <1>2, <1>3, <1>4, <1>5

\* A DEAD worker context is never signalled, locked or worked for again.
THEOREM DeadTheorem == Spec => DeadIsLeftAlone
<1>1. IInv /\ [Next]_vars =>
        [\A w \in Worker : dead[w] =>
            /\ dead'[w]
            /\ phase'[w] = phase[w]
            /\ active'[w] => active[w]
            /\ \A t \in Worker : Acting(t)' => tgt'[t] # w]_vars
  <2> SUFFICES ASSUME IInv, Next, NEW w \in Worker, dead[w]
               PROVE  /\ dead'[w]
                      /\ phase'[w] = phase[w]
                      /\ active'[w] => active[w]
                      /\ \A t \in Worker : Acting(t)' => tgt'[t] # w
    OBVIOUS
  <2>1. dead'[w] /\ (active'[w] => active[w])
    BY DeadStep
  <2>2. IInv'
    BY NextIInv
  <2>3. Registered /\ Registered' /\ Actions'
    BY <2>2 DEF IInv
  <2>4. phase'[w] = phase[w]
    BY <2>1, <2>3 DEF Registered
  <2>5. \A t \in Worker : Acting(t)' => tgt'[t] # w
    BY <2>1, <2>3 DEF Actions, Live
  <2> QED
    BY <2>1, <2>4, <2>5
<1> QED
  BY <1>1, Invariance, PTL DEF Spec, DeadIsLeftAlone

-----------------------------------------------------------------------------
(***************************************************************************)
(* The handshake implements module Rounds: every step of a thread is a     *)
(* step of the rounds, or none that they speak of.  First comes one lemma  *)
(* for each variable of Rounds: when a step leaves it alone.               *)
(***************************************************************************)

\* Module Rounds has the phases of module Phases.
LEMMA RoundPhases ==
    /\ Rounds!ASYNC = ASYNC /\ Rounds!SYNC1 = SYNC1 /\ Rounds!SYNC2 = SYNC2
    /\ Rounds!MARK = MARK /\ Rounds!PREASYNC = PREASYNC /\ Rounds!PRESYNC1 = PRESYNC1
    /\ Rounds!PRESYNC2 = PRESYNC2 /\ Rounds!PREMARK = PREMARK /\ Rounds!Phase = Phase
    /\ \A p : Rounds!Accept(p) = Accept(p) /\ (Rounds!IsPre(p) <=> IsPre(p))
BY DEF Rounds!ASYNC, Rounds!SYNC1, Rounds!SYNC2, Rounds!MARK, Rounds!PREASYNC,
       Rounds!PRESYNC1, Rounds!PRESYNC2, Rounds!PREMARK, Rounds!Phase, Rounds!Accept,
       Rounds!IsPre, ASYNC, SYNC1, SYNC2, MARK, PREASYNC, PRESYNC1, PRESYNC2, PREMARK,
       Phase, Accept, IsPre

\* Nobody registers or dies.
LEMMA SameMembers ==
    ASSUME UNCHANGED <<n, dead>>
    PROVE  UNCHANGED <<Members, Gone>>
BY DEF Members, Gone, Live

\* Nobody's walk moves.
LEMMA SameUnsent ==
    ASSUME Members' = Members,
           \A t \in Worker : (pc'[t] = "walk" <=> pc[t] = "walk")
                             /\ (pc[t] = "walk" => cur'[t] = cur[t])
    PROVE  Unsent' = Unsent
BY DEF Unsent

\* No addition becomes due or is made.
LEMMA SameCounted ==
    ASSUME \A t \in Worker : pc'[t] \in {"walk", "add"} <=> pc[t] \in {"walk", "add"}
    PROVE  Counted' = Counted
BY DEF Counted

\* No action begins or ends.
LEMMA SameActing ==
    ASSUME \A t \in Worker : (Acting(t)' <=> Acting(t)) /\ (Acting(t) => tgt'[t] = tgt[t])
    PROVE  ActedFor' = ActedFor
BY DEF ActedFor

\* Nothing is decided.
LEMMA SameDecided ==
    ASSUME \A t \in Worker : /\ pc'[t] = "global" <=> pc[t] = "global"
                             /\ pc'[t] = "end" <=> pc[t] = "end"
                             /\ pc[t] = "global" => sig'[t] = sig[t]
    PROVE  Decided' = Decided
BY DEF Decided

\* The part of pc that rounds do not speak of
Elsewhere == {"none", "ml", "c", "enter", "exited", "fatal", "greedy", "load", "scan",
              "pop", "take", "helped"}

\* A step of one thread that does nothing about a round.
LEMMA NoRound ==
    ASSUME UNCHANGED <<n, dead, phase, avail, gc_count>>, NEW t \in Worker,
           pc[t] \in Elsewhere, pc'[t] \in Elsewhere,
           \A u \in Worker : u # t => /\ pc'[u] = pc[u] /\ tgt'[u] = tgt[u]
                                      /\ sig'[u] = sig[u] /\ cur'[u] = cur[u]
    PROVE  UNCHANGED Rounds!vars
<1> USE DEF Elsewhere
<1>1. UNCHANGED <<Members, Gone>>
  BY SameMembers
<1>2. UNCHANGED <<Unsent, Counted>>
  BY <1>1, SameUnsent, SameCounted
<1>3. UNCHANGED <<ActedFor, Decided>>
  BY SameActing, SameDecided DEF Acting
<1> QED
  BY <1>1, <1>2, <1>3 DEF Rounds!vars

\* Nothing has been decided, sent or started at the beginning.
LEMMA InitRounds == Init => Rounds!Init
<1> SUFFICES ASSUME Init PROVE Rounds!Init
  OBVIOUS
<1>1. Members = {} /\ Gone = {}
  BY NAssumption DEF Init, Members, Gone, Live, Worker
<1>2. Unsent = {} /\ ActedFor = {} /\ Decided = {} /\ Counted
  BY <1>1 DEF Init, Unsent, ActedFor, Decided, Counted, Acting
<1> QED
  BY <1>1, <1>2, RoundPhases DEF Rounds!Init, Init

-----------------------------------------------------------------------------
(***************************************************************************)
(* The steps                                                               *)
(***************************************************************************)

\* Who has not answered in the round.
LEMMA UnansweredIs ==
    ASSUME IInv
    PROVE  /\ Rounds!Unanswered = Unsent \cup Owing
           /\ \A w \in Unsent : ~Owes(w)
           /\ Counted => Unsent = {}
<1>1. Rounds!Pending = {w \in Worker : Live(w) /\ IsPre(phase[w])}
  BY RoundPhases DEF Rounds!Pending, Members
<1>2. Owing = Rounds!Pending \cup ActedFor
  BY <1>1 DEF Owing, Owes, ActedFor
<1>3. \A w \in Unsent : ~Owes(w)
  BY DEF Unsent, Members, IInv, Walks
<1>4. Counted => Unsent = {}
  BY DEF Counted, Unsent
<1> QED
  BY <1>2, <1>3, <1>4 DEF Rounds!Unanswered

\* register_worker
LEMMA RegisterRound ==
    ASSUME IInv, IInv', NEW t \in Worker, register_worker(t)
    PROVE  Rounds!Join(t)
<1>0. TypeOK /\ Registered /\ Walks
  BY DEF IInv
<1> USE <1>0, PointerFacts, Ranges
<1>1. /\ pc[t] = "none" /\ t = n + 1 /\ n' = t
      /\ phase' = [phase EXCEPT ![t] = avail]
      /\ \A w \in Worker : pc'[w] = IF w = t THEN "ml" ELSE pc[w]
      /\ UNCHANGED <<avail, dead, gc_count, tgt, sig, cur>>
  BY DEF TypeOK, register_worker, Goto, flags, collection, job, walk
<1>2. t \notin Members \cup Gone
  BY <1>1 DEF Members, Gone, Live, Registered
<1>3. Members' = Members \cup {t} /\ Gone' = Gone
  <2>1. ~dead[t] /\ UNCHANGED dead
    BY <1>1 DEF Registered
  <2>2. \A w \in Worker : w <= n' <=> w <= n \/ w = t
    BY <1>1
  <2> QED
    BY <2>1, <2>2 DEF Members, Gone, Live
<1>4. Unsent' = Unsent
  <2>1. \A u \in Worker : pc[u] = "walk" => cur[u] <= list[u] /\ list[u] <= n
    BY DEF Walks
  <2>2. \A u \in Worker : pc'[u] = "walk" => ~(t <= cur'[u])
    BY <1>1, <2>1
  <2> QED
    BY <1>1, <1>3, <2>2 DEF Unsent
<1>5. UNCHANGED <<Counted, ActedFor, Decided>>
  BY <1>1, SameCounted, SameActing, SameDecided DEF Acting
<1> QED
  BY <1>1, <1>2, <1>3, <1>4, <1>5 DEF Rounds!Join

\* A thread accepts the signal of worker w and begins its action.
LEMMA BeginRound ==
    ASSUME IInv, IInv', NEW t \in Worker, NEW w \in Worker, pc[t] \in Elsewhere,
           Live(w), IsPre(phase[w]),
           phase' = [phase EXCEPT ![w] = Accept(@)],
           \A u \in Worker : pc'[u] = IF u = t THEN "act" ELSE pc[u],
           \A u \in Worker : tgt'[u] = IF u = t THEN w ELSE tgt[u],
           \A u \in Worker : u # t => sig'[u] = sig[u] /\ cur'[u] = cur[u],
           UNCHANGED <<n, dead, avail, gc_count>>
    PROVE  Rounds!Begin(w)
<1>0. TypeOK /\ Targets /\ Actions /\ Changes /\ Walks
  BY DEF IInv
<1> USE <1>0, PointerFacts, PhaseFacts, Ranges, TargetFacts DEF Elsewhere
<1>1. UNCHANGED <<Members, Gone>>
  BY SameMembers
<1>2. UNCHANGED <<Unsent, Counted, Decided>>
  BY <1>1, SameUnsent, SameCounted, SameDecided
<1>3. ActedFor' = ActedFor \cup {w}
  BY DEF ActedFor, Acting
<1>4. w \notin ActedFor
  BY DEF ActedFor, Actions
<1>5. w \notin Unsent
  BY UnansweredIs DEF Owes
<1>6. w \in Rounds!Pending
  BY RoundPhases DEF Rounds!Pending, Members
<1>7. Accept(phase[w]) = avail
  BY OwedPhase
<1> QED
  BY <1>1, <1>2, <1>3, <1>4, <1>5, <1>6, <1>7 DEF Rounds!Begin

\* sml_gc and signal_gc
LEMMA StartRound ==
    ASSUME IInv, NEW t \in Worker, NEW g \in BOOLEAN, NEW r, Start(t, g, r)
    PROVE  Rounds!Start
<1>0. Quiet
  BY DEF IInv
<1> USE <1>0 DEF Start
<1>1. \A u \in Worker : ~Changing(u)
  BY DEF Quiet
<1>2. UNCHANGED <<Members, Gone>>
  BY SameMembers
<1>3. UNCHANGED <<Unsent, Counted, ActedFor>>
  BY <1>2, SameUnsent, SameCounted, SameActing DEF Acting
<1>4. Decided' = {PRESYNC1}
  BY <1>1 DEF Decided, Changing
<1> QED
  BY <1>2, <1>3, <1>4, RoundPhases DEF Rounds!Start

\* global_phase
LEMMA IssueRound ==
    ASSUME IInv, IInv', NEW t \in Worker, global_phase(t)
    PROVE  sig[t] \in Phase /\ Rounds!Issue(sig[t])
<1>0. TypeOK /\ Registered /\ Changes /\ Counter
  BY DEF IInv
<1> USE <1>0, PointerFacts, PhaseFacts, Ranges
<1>1. /\ pc[t] = "global" /\ avail' = Accept(sig[t])
      /\ \E h \in Pointer : IsLiveHead(h) /\ cur'[t] = h
      /\ \A w \in Worker : w # t => cur'[w] = cur[w]
      /\ \A w \in Worker : pc'[w] = IF w = t THEN "walk" ELSE pc[w]
      /\ UNCHANGED <<n, phase, dead, gc_count, tgt, sig>>
  BY DEF TypeOK, global_phase, Goto, flags, state, collection, job
<1>2. \A u \in Worker : Changing(u) => u = t
  BY <1>1 DEF Counter, SingleChanger, Changing
<1>3. UNCHANGED <<Members, Gone>>
  BY <1>1, SameMembers
<1>4. Decided = {sig[t]} /\ Decided' = {}
  BY <1>1, <1>2 DEF Decided, Changing
<1>5. Counted /\ ~Counted'
  BY <1>1, <1>2 DEF Counted, Changing
<1>6. Rounds!Unanswered = {}
  BY <1>1, <1>5, UnansweredIs DEF Counter, Owing
<1>7. Unsent' = Members'
  <2>1. \A w \in Members : w <= cur'[t]
    BY <1>1 DEF IsLiveHead, Members, Live
  <2> QED
    BY <1>1, <1>3, <2>1 DEF Unsent
<1>8. ActedFor' = ActedFor
  BY <1>1, SameActing DEF Acting
<1>9. IsPre(sig[t])
  BY <1>1 DEF Changes, IsChange
<1> QED
  BY <1>1, <1>3, <1>4, <1>5, <1>6, <1>7, <1>8, <1>9, RoundPhases DEF Rounds!Issue

\* change_phase passes over a worker that is DEAD.
LEMMA SkipRound ==
    ASSUME IInv, NEW t \in Worker, change_phase(t), dead[cur[t]] /\ cur[t] # list[t]
    PROVE  UNCHANGED Rounds!vars
<1>0. TypeOK
  BY DEF IInv
<1> USE <1>0, PointerFacts, Ranges
<1>1. /\ pc[t] = "walk" /\ cur[t] # 0 /\ cur[t] \in Worker /\ cur'[t] = cur[t] - 1
      /\ \A w \in Worker : w # t => cur'[w] = cur[w]
      /\ UNCHANGED <<n, avail, phase, dead, gc_count, pc, tgt, sig>>
  BY DEF TypeOK, change_phase, registry, collection, job
<1>2. UNCHANGED <<Members, Gone>>
  BY <1>1, SameMembers
<1>3. Unsent' = Unsent
  <2>1. \A w \in Members : w <= cur'[t] <=> w <= cur[t]
    BY <1>1 DEF Members, Live
  <2> QED
    BY <1>1, <1>2, <2>1 DEF Unsent
<1>4. UNCHANGED <<Counted, ActedFor, Decided>>
  BY <1>1, SameCounted, SameActing, SameDecided DEF Acting
<1> QED
  BY <1>1, <1>2, <1>3, <1>4 DEF Rounds!vars

\* The worker change_phase comes to is the next one that the signal is sent to.
LEMMA NextUnsent ==
    ASSUME IInv, NEW t \in Worker, pc[t] = "walk", cur[t] # 0,
           ~(dead[cur[t]] /\ cur[t] # list[t]),
           cur'[t] = cur[t] - 1, \A w \in Worker : w # t => cur'[w] = cur[w],
           UNCHANGED <<n, pc>>
    PROVE  /\ cur[t] \in Unsent /\ Live(cur[t]) /\ phase[cur[t]] = from[t]
           /\ \A u \in Worker : Changing(u) => u = t
           /\ Members' \in {Members, Members \ {cur[t]}} => Unsent' = Unsent \ {cur[t]}
<1>0. TypeOK /\ Walks /\ Counter
  BY DEF IInv
<1> USE <1>0, PointerFacts, Ranges
<1>1. cur[t] \in Worker /\ cur[t] <= n /\ ~dead[cur[t]]
  BY DEF Walks
<1>2. Live(cur[t]) /\ cur[t] \in Unsent
  BY <1>1 DEF Live, Unsent, Members
<1>3. \A u \in Worker : Changing(u) => u = t
  BY DEF Counter, SingleChanger, Changing
<1>4. ASSUME Members' \in {Members, Members \ {cur[t]}}
      PROVE  Unsent' = Unsent \ {cur[t]}
  <2>1. Unsent = {w \in Members : w <= cur[t]}
    BY <1>3 DEF Unsent, Changing
  <2>2. Unsent' = {w \in Members' : w <= cur'[t]}
    BY <1>3 DEF Unsent, Changing
  <2>3. \A w \in Worker : w <= cur'[t] <=> w <= cur[t] /\ w # cur[t]
    BY <1>1
  <2> QED
    BY <1>4, <2>1, <2>2, <2>3 DEF Members
<1> QED
  BY <1>1, <1>2, <1>3, <1>4 DEF Walks

\* ... kills a worker
LEMMA LeaveRound ==
    ASSUME IInv, NEW t \in Worker, change_phase(t), ~(dead[cur[t]] /\ cur[t] # list[t]),
           Killable(t, cur[t])
    PROVE  Rounds!Leave(cur[t])
<1>0. TypeOK /\ Changes /\ Walks
  BY DEF IInv
<1> USE <1>0, PointerFacts, PhaseFacts, Ranges
<1>1. /\ pc[t] = "walk" /\ cur[t] # 0 /\ cur[t] \in Worker /\ cur'[t] = cur[t] - 1
      /\ \A w \in Worker : w # t => cur'[w] = cur[w]
      /\ dead' = [dead EXCEPT ![cur[t]] = TRUE]
      /\ UNCHANGED <<n, avail, phase, gc_count, pc, tgt, sig>>
  BY DEF TypeOK, change_phase, registry, collection, job
<1>2. Members' = Members \ {cur[t]} /\ Gone' = Gone \cup {cur[t]}
  BY <1>1 DEF Members, Gone, Live, TypeOK
<1>3. cur[t] \in Unsent /\ Unsent' = Unsent \ {cur[t]}
  BY <1>1, <1>2, NextUnsent
<1>4. UNCHANGED <<Counted, ActedFor, Decided>>
  BY <1>1, SameCounted, SameActing, SameDecided DEF Acting
<1>5. avail = SYNC1
  BY <1>1 DEF Walks, Changes, IsChange, Killable
<1> QED
  BY <1>1, <1>2, <1>3, <1>4, <1>5, RoundPhases DEF Rounds!Leave

\* ... or signals one
LEMMA SendRound ==
    ASSUME IInv, NEW t \in Worker, change_phase(t), ~(dead[cur[t]] /\ cur[t] # list[t]),
           ~Killable(t, cur[t])
    PROVE  Rounds!Send(cur[t])
<1>0. TypeOK /\ Changes /\ Walks
  BY DEF IInv
<1> USE <1>0, PointerFacts, PhaseFacts, Ranges
<1>1. /\ pc[t] = "walk" /\ cur[t] # 0 /\ cur[t] \in Worker /\ cur'[t] = cur[t] - 1
      /\ \A w \in Worker : w # t => cur'[w] = cur[w]
      /\ phase' = [phase EXCEPT ![cur[t]] = Signal(@, from[t], sig[t])]
      /\ UNCHANGED <<n, avail, dead, gc_count, pc, tgt, sig>>
  BY DEF TypeOK, change_phase, registry, collection, job
<1>2. UNCHANGED <<Members, Gone>>
  BY <1>1, SameMembers
<1>3. cur[t] \in Unsent /\ Unsent' = Unsent \ {cur[t]} /\ phase[cur[t]] = from[t]
  BY <1>1, <1>2, NextUnsent
<1>4. UNCHANGED <<Counted, ActedFor, Decided>>
  BY <1>1, SameCounted, SameActing, SameDecided DEF Acting
<1>5. avail = Accept(sig[t]) /\ IsChange(from[t], sig[t])
  BY <1>1 DEF Walks, Changes
<1>6. Signal(phase[cur[t]], from[t], sig[t]) = sig[t]
  BY <1>3, <1>5, SignalFacts DEF IsChange
<1>7. sig[t] = avail - 1
  BY <1>5 DEF IsChange, PREASYNC, ASYNC, PRESYNC1, SYNC1, PRESYNC2, SYNC2, PREMARK, MARK
<1>8. phase' = [phase EXCEPT ![cur[t]] = avail - 1]
  BY <1>1, <1>6, <1>7
<1> QED
  BY <1>1, <1>2, <1>3, <1>4, <1>8 DEF Rounds!Send

\* publish_handshake
LEMMA PublishRound ==
    ASSUME IInv, NEW t \in Worker, publish_handshake(t)
    PROVE  UNCHANGED Rounds!vars
<1>0. TypeOK /\ Counter
  BY DEF IInv
<1> USE <1>0, PointerFacts, Ranges
<1>1. /\ pc[t] = "walk" /\ cur[t] = 0
      /\ \A w \in Worker : pc'[w] = IF w = t THEN "add" ELSE pc[w]
      /\ UNCHANGED <<n, avail, phase, dead, gc_count, tgt, sig, cur>>
  BY DEF TypeOK, publish_handshake, Goto, registry, state, flags, collection, job
<1>2. UNCHANGED <<Members, Gone>>
  BY <1>1, SameMembers
<1>3. Unsent' = Unsent
  <2>1. \A w \in Worker : ~(w <= cur[t])
    BY <1>1
  <2>2. \A u \in Worker, w \in Worker :
           pc'[u] = "walk" /\ w <= cur'[u] <=> pc[u] = "walk" /\ w <= cur[u]
    BY <1>1, <2>1
  <2> QED
    BY <1>2, <2>2 DEF Unsent, Members
<1>4. UNCHANGED <<Counted, ActedFor, Decided>>
  BY <1>1, SameCounted, SameActing, SameDecided DEF Acting
<1> QED
  BY <1>1, <1>2, <1>3, <1>4 DEF Rounds!vars

\* add_check_flag
LEMMA CountRound ==
    ASSUME IInv, NEW t \in Worker, add_check_flag(t)
    PROVE  Rounds!Count
<1>0. TypeOK /\ Counter
  BY DEF IInv
<1> USE <1>0, PointerFacts, Ranges
<1>1. /\ pc[t] = "add" /\ pc'[t] \in {"greedy", "ml", "c", "helped"}
      /\ \A w \in Worker : w # t => pc'[w] = pc[w] /\ tgt'[w] = tgt[w] /\ sig'[w] = sig[w]
      /\ UNCHANGED <<n, avail, phase, dead, gc_count, cur>>
  BY DEF TypeOK, add_check_flag, Return, Goto, registry, state, flags, collection, job
<1>2. UNCHANGED <<Members, Gone>>
  BY <1>1, SameMembers
<1>3. \A u \in Worker : Changing(u) => u = t
  BY <1>1 DEF Counter, SingleChanger, Changing
<1>4. Unsent = {} /\ Unsent' = {} /\ ~Counted /\ Counted'
  BY <1>1, <1>3 DEF Unsent, Counted, Changing
<1>5. ActedFor' = ActedFor
  BY <1>1, SameActing DEF Acting
<1>6. Decided' = Decided
  BY <1>1, <1>3, SameDecided DEF Changing
<1> QED
  BY <1>1, <1>2, <1>4, <1>5, <1>6 DEF Rounds!Count

\* An answer takes the worker from those whose action is executed, and nothing
\* is decided before.
LEMMA EndsAction ==
    ASSUME IInv, NEW t \in Worker, pc[t] = "act", pc'[t] # "act",
           \A u \in Worker : u # t => pc'[u] = pc[u] /\ tgt'[u] = tgt[u]
    PROVE  /\ tgt[t] \in ActedFor /\ Owes(tgt[t]) /\ avail = sig[t]
           /\ ActedFor' = ActedFor \ {tgt[t]}
           /\ Decided = {} /\ \A u \in Worker : pc[u] \notin {"global", "end"}
<1>0. TypeOK /\ Locks /\ Targets /\ Actions /\ Counter
  BY DEF IInv
<1> USE <1>0, PointerFacts, Ranges, TargetFacts
<1>1. tgt[t] \in Worker /\ Acting(t)
  BY DEF Acting
<1>2. tgt[t] \in ActedFor /\ Owes(tgt[t])
  BY <1>1 DEF ActedFor, Owes
<1>3. \A u \in Worker : Acting(u) /\ tgt[u] = tgt[t] => u = t
  BY <1>1, ActionsExclusive
<1>4. ActedFor' = ActedFor \ {tgt[t]}
  BY <1>1, <1>3 DEF ActedFor, Acting
<1>5. \A u \in Worker : pc[u] \notin {"global", "end"}
  BY <1>1, <1>2 DEF Counter
<1>6. Decided = {}
  BY <1>5 DEF Decided
<1> QED
  BY <1>1, <1>2, <1>4, <1>5, <1>6, OwedPhase

\* The counter is 1 when the last worker answers after the addition.
LEMMA LastIs ==
    ASSUME IInv, NEW w \in Worker, Owes(w),
           \A u \in Worker : pc[u] \notin {"global", "end"}
    PROVE  flag = 1 <=> Rounds!Unanswered = {w} /\ Counted
<1>0. TypeOK /\ Counter
  BY DEF IInv
<1> USE <1>0, Ranges
<1>1. Counted <=> \A u \in Worker : ~Changing(u)
  BY DEF Counted, Changing
<1>2. flag = 1 => Counted
  BY DEF Counter, Counted
<1>3. Counted => flag = Cardinality(Owing) /\ Rounds!Unanswered = Owing
  BY <1>1, UnansweredIs DEF Counter, CounterExact
<1>4. Cardinality(Owing) = 1 => Owing = {w}
  BY OwingOne DEF Owing
<1>5. Cardinality({w}) = 1
  BY FS_Singleton
<1> QED
  BY <1>2, <1>3, <1>4, <1>5

\* An answer that is not the last one, or comes before the addition.
LEMMA AnswerRound ==
    ASSUME IInv, NEW t \in Worker, Answer(t)
    PROVE  Rounds!Answer(tgt[t])
<1>0. TypeOK
  BY DEF IInv
<1> USE <1>0, Ranges DEF Answer
<1>1. pc'[t] \in {"ml", "c", "helped"}
  OBVIOUS
<1>2. /\ tgt[t] \in ActedFor /\ Owes(tgt[t]) /\ Decided = {}
      /\ ActedFor' = ActedFor \ {tgt[t]}
      /\ \A u \in Worker : pc[u] \notin {"global", "end"}
  BY <1>1, EndsAction
<1>3. UNCHANGED <<Members, Gone>>
  BY SameMembers
<1>4. UNCHANGED <<Unsent, Counted>>
  BY <1>1, <1>3, SameUnsent, SameCounted
<1>5. Decided' = {}
  BY <1>1, <1>2 DEF Decided
<1>6. ~(Rounds!Unanswered = {tgt[t]} /\ Counted)
  BY <1>2, LastIs DEF ActedFor
<1> QED
  BY <1>2, <1>3, <1>4, <1>5, <1>6 DEF Rounds!Answer

\* The last answer, and what it decides.
LEMMA DecidesRound ==
    ASSUME IInv, NEW t \in Worker, pc[t] = "act", flag = 1, NEW q \in Phase,
           \/ pc'[t] = "global" /\ sig'[t] = q
           \/ pc'[t] = "end" /\ q = ASYNC,
           q \in Rounds!Following(sig[t]),
           \A u \in Worker : /\ u # t => pc'[u] = pc[u] /\ sig'[u] = sig[u]
                             /\ tgt'[u] = tgt[u],
           UNCHANGED <<n, avail, phase, dead, gc_count, cur>>
    PROVE  Rounds!Answer(tgt[t])
<1>2. /\ tgt[t] \in ActedFor /\ Owes(tgt[t]) /\ Decided = {} /\ avail = sig[t]
      /\ ActedFor' = ActedFor \ {tgt[t]}
      /\ \A u \in Worker : pc[u] \notin {"global", "end"}
  BY EndsAction
<1>3. UNCHANGED <<Members, Gone>>
  BY SameMembers
<1>4. UNCHANGED <<Unsent, Counted>>
  BY <1>3, SameUnsent, SameCounted
<1>5. Decided' = {q}
  BY <1>2 DEF Decided
<1>6. Rounds!Unanswered = {tgt[t]} /\ Counted
  BY <1>2, LastIs DEF ActedFor
<1> QED
  BY <1>2, <1>3, <1>4, <1>5, <1>6 DEF Rounds!Answer

\* The last answer to SYNC1, SYNC2 or MARK.
LEMMA LastRound ==
    ASSUME IInv, NEW t \in Worker, NEW q \in Phase, Last(t, q), sig[t] # ASYNC
    PROVE  Rounds!Answer(tgt[t])
<1>1. q \in Rounds!Following(sig[t])
  BY RoundPhases, PhaseFacts DEF Last, IsChange, Rounds!Following
<1> QED
  BY <1>1, DecidesRound DEF Last

\* The last answer to ASYNC.
LEMMA LastAsyncRound ==
    ASSUME IInv, NEW t \in Worker, worker_async(t), flag = 1
    PROVE  Rounds!Answer(tgt[t])
<1>0. TypeOK
  BY DEF IInv
<1>1. /\ pc[t] = "act" /\ sig[t] = ASYNC /\ pc'[t] = "end"
      /\ \A u \in Worker : u # t => pc'[u] = pc[u]
      /\ UNCHANGED <<n, avail, phase, dead, gc_count, cur, tgt, sig>>
  BY <1>0 DEF TypeOK, worker_async, Executes, IsLast, Goto, registry, state, flags,
     collection, job, walk
<1>2. ASYNC \in Rounds!Following(sig[t]) /\ ASYNC \in Phase
  BY <1>1, RoundPhases, PhaseFacts DEF Rounds!Following
<1> QED
  BY <1>1, <1>2, DecidesRound

\* end_gc
LEMMA EndRound ==
    ASSUME IInv, NEW t \in Worker, end_gc(t)
    PROVE  Rounds!End
<1>0. TypeOK /\ Counter /\ Quiet
  BY DEF IInv
<1> USE <1>0, PointerFacts, Ranges
<1>1. /\ pc[t] = "end" /\ pc'[t] \in {"ml", "c", "helped"} /\ gc_count' = gc_count + 1
      /\ \A w \in Worker : w # t => pc'[w] = pc[w] /\ tgt'[w] = tgt[w] /\ sig'[w] = sig[w]
      /\ UNCHANGED <<n, avail, phase, dead, cur>>
  BY DEF TypeOK, end_gc, Return, Goto, registry, state, flags, walk
<1>2. \A u \in Worker : Changing(u) => u = t
  BY <1>1 DEF Counter, SingleChanger, Changing
<1>3. UNCHANGED <<Members, Gone>>
  BY <1>1, SameMembers
<1>4. UNCHANGED <<Unsent, Counted, ActedFor>>
  BY <1>1, <1>3, SameUnsent, SameCounted, SameActing DEF Acting
<1>5. Decided = {ASYNC} /\ Decided' = {}
  BY <1>1, <1>2 DEF Decided, Changing
<1>6. Counted
  BY <1>1, <1>2 DEF Counted, Changing
<1>7. Rounds!Unanswered = {}
  BY <1>1, <1>6, UnansweredIs DEF Counter, Owing
<1>8. gc_count % 2 = 1
  <2>1. gc_count % 2 # 0 /\ gc_count \in Nat
    BY <1>1 DEF Quiet, Changing
  <2> HIDE <1>0
  <2> QED
    BY <2>1
<1> QED
  BY <1>1, <1>3, <1>4, <1>5, <1>7, <1>8, RoundPhases DEF Rounds!End

\* Every step of the handshake is a step of the rounds, or stutters.
LEMMA RoundStep == IInv /\ IInv' /\ [Next]_vars => [Rounds!Next]_Rounds!vars
<1> SUFFICES ASSUME IInv, IInv', [Next]_vars PROVE [Rounds!Next]_Rounds!vars
  OBVIOUS
<1>0. /\ TypeOK /\ Registered /\ Targets /\ Actions /\ Changes /\ Helpers /\ TypeOK'
  BY DEF IInv
<1> USE <1>0
<1>1. CASE UNCHANGED vars
  <2>1. UNCHANGED <<n, dead, phase, avail, gc_count, pc, tgt, sig, cur>>
    BY <1>1 DEF vars, registry, state, flags, collection, job, walk
  <2>2. UNCHANGED <<Members, Gone>>
    BY <2>1, SameMembers
  <2>3. UNCHANGED <<Unsent, Counted, ActedFor, Decided>>
    BY <2>1, <2>2, SameUnsent, SameCounted, SameActing, SameDecided DEF Acting
  <2> QED
    BY <2>1, <2>2, <2>3 DEF Rounds!vars
<1> USE DEF TypeOK, Goto, registry, state, flags, collection, job, walk
<1>2. ASSUME NEW t \in Worker, ProgramStep(t)
      PROVE  [Rounds!Next]_Rounds!vars
  <2>1. CASE register_worker(t)
    BY <2>1, RegisterRound DEF Rounds!Next
  <2>2. ASSUME NEW ends \in BOOLEAN, leave_worker(t, ends)
        PROVE  [Rounds!Next]_Rounds!vars
    <3>1. CASE IsPre(phase[t])
      <4>1. Live(t)
        BY <2>2, PhaseFacts DEF leave_worker, Registered, Live
      <4>2. /\ pc[t] \in Elsewhere /\ phase' = [phase EXCEPT ![t] = Accept(@)]
            /\ Begin(t, t, Accept(phase[t]), FALSE, "c")
            /\ UNCHANGED <<n, dead, avail, gc_count, cur>>
        BY <2>2, <3>1 DEF leave_worker, Elsewhere
      <4>3. Rounds!Begin(t)
        BY <3>1, <4>1, <4>2, BeginRound DEF Begin
      <4> QED
        BY <4>3 DEF Rounds!Next
    <3>2. CASE ~IsPre(phase[t])
      <4>1. UNCHANGED <<n, dead, phase, avail, gc_count, tgt, sig, cur>>
        BY <2>2, <3>2, PhaseFacts DEF leave_worker
      <4> QED
        BY <2>2, <3>2, <4>1, NoRound DEF leave_worker, Elsewhere
    <3> QED
      BY <3>1, <3>2
  <2>3. CASE sml_enter(t)
    BY <2>3, NoRound DEF sml_enter, Elsewhere
  <2>4. CASE cancel_worker(t)
    BY <2>4, NoRound DEF cancel_worker, Elsewhere
  <2>5. ASSUME NEW g \in BOOLEAN, sml_gc(t, g)
        PROVE  [Rounds!Next]_Rounds!vars
    <3>1. CASE gc_count % 2 = 0
      <4>1. Start(t, g, "ml")
        BY <2>5, <3>1 DEF sml_gc, Start, handshake, help
      <4> QED
        BY <4>1, StartRound DEF Rounds!Next
    <3>2. CASE gc_count % 2 # 0
      BY <2>5, <3>2, NoRound DEF sml_gc, Elsewhere
    <3> QED
      BY <3>1, <3>2
  <2>6. CASE signal_gc(t)
    <3>1. Start(t, FALSE, "c")
      BY <2>6 DEF signal_gc, Start, handshake, help
    <3> QED
      BY <3>1, StartRound DEF Rounds!Next
  <2> QED
    BY <1>2, <2>1, <2>2, <2>3, <2>4, <2>5, <2>6 DEF ProgramStep
<1>3. ASSUME NEW t \in Worker, PollStep(t)
      PROVE  [Rounds!Next]_Rounds!vars
  <2>1. CASE sml_check(t) /\ IsPre(phase[t])
    <3>1. Live(t)
      BY <2>1, PhaseFacts DEF sml_check, Registered, Live
    <3>2. /\ pc[t] \in Elsewhere
          /\ phase' = [phase EXCEPT ![t] = Accept(@)]
          /\ \A u \in Worker : pc'[u] = IF u = t THEN "act" ELSE pc[u]
          /\ \A u \in Worker : tgt'[u] = IF u = t THEN t ELSE tgt[u]
          /\ \A u \in Worker : u # t => sig'[u] = sig[u] /\ cur'[u] = cur[u]
          /\ UNCHANGED <<n, dead, avail, gc_count>>
      BY <2>1 DEF sml_check, Begin, Elsewhere
    <3>3. Rounds!Begin(t)
      BY <2>1, <3>1, <3>2, BeginRound
    <3> QED
      BY <3>3 DEF Rounds!Next
  <2>2. CASE sml_check(t) /\ ~IsPre(phase[t])
    BY <2>2, NoRound DEF sml_check, Elsewhere
  <2>3. CASE wait_done(t)
    BY <2>3, NoRound DEF wait_done, Elsewhere
  <2> QED
    BY <1>3, <2>1, <2>2, <2>3 DEF PollStep
<1>4. ASSUME NEW t \in Worker, RuntimeStep(t)
      PROVE  [Rounds!Next]_Rounds!vars
  <2>1. CASE enter_worker(t)
    BY <2>1, NoRound DEF enter_worker, Elsewhere
  <2>2. CASE global_phase(t)
    BY <2>2, IssueRound, RoundPhases DEF Rounds!Next
  <2>3. CASE change_phase(t)
    <3>1. cur[t] \in Worker
      BY <2>3, PointerFacts DEF change_phase
    <3> QED
      BY <2>3, <3>1, SkipRound, LeaveRound, SendRound DEF Rounds!Next
  <2>4. CASE publish_handshake(t)
    BY <2>4, PublishRound
  <2>5. CASE add_check_flag(t)
    BY <2>5, CountRound DEF Rounds!Next
  <2>6. CASE accept_own(t)
    <3>1. pc[t] = "greedy" /\ tgt[t] = t /\ phase[t] = sig[t] /\ IsPre(phase[t])
      BY <2>6 DEF accept_own, Targets, Changes
    <3>2. Live(t)
      BY <3>1, PhaseFacts DEF Registered, Live
    <3>3. Rounds!Begin(t)
      BY <2>6, <3>1, <3>2, BeginRound DEF accept_own, Begin, Elsewhere
    <3> QED
      BY <3>3 DEF Rounds!Next
  <2>7. ASSUME Answer(t)
        PROVE  [Rounds!Next]_Rounds!vars
    BY <2>7, TargetFacts, AnswerRound DEF Rounds!Next, Answer, Acting
  <2>8. ASSUME NEW q \in Phase, Last(t, q), sig[t] # ASYNC
        PROVE  [Rounds!Next]_Rounds!vars
    BY <2>8, TargetFacts, LastRound DEF Rounds!Next, Last, Acting
  <2>9. CASE worker_sync1(t)
    <3>1. flag # 1 => Answer(t)
      BY <2>9, PhaseFacts DEF worker_sync1, Executes, Respond, IsLast, Return, Answer, help
    <3>2. flag = 1 => Last(t, PRESYNC2) /\ sig[t] # ASYNC
      BY <2>9, PhaseFacts DEF worker_sync1, Executes, Respond, IsLast, Issue, Last,
         IsChange, help
    <3> QED
      BY <2>7, <2>8, <3>1, <3>2, PhaseFacts
  <2>10. CASE worker_sync2(t)
    <3>a. globals' <=> globals \/ genum[tgt[t]]
      BY <2>10 DEF worker_sync2
    <3>b. \A w \in Worker : genum'[w] <=> genum[w] /\ w # tgt[t]
      BY <2>10 DEF worker_sync2
    <3>c. /\ pc[t] = "act" /\ sig[t] = SYNC2 /\ flag' = flag - 1
          /\ IF flag = 1 THEN Issue(t, SYNC2, PREMARK) ELSE Return(t)
          /\ UNCHANGED <<n, avail, phase, active, helper, canceled, dead,
                         gc_count, list, cur, cnt, seen>>
      BY <2>10 DEF worker_sync2, Executes, Respond, IsLast, help
    <3>1. flag # 1 => Answer(t)
      BY <3>a, <3>b, <3>c DEF Return, Answer
    <3>2. flag = 1 => Last(t, PREMARK) /\ sig[t] # ASYNC
      BY <3>a, <3>b, <3>c, PhaseFacts DEF Issue, Last, IsChange
    <3> QED
      BY <2>7, <2>8, <3>1, <3>2, PhaseFacts
  <2>11. CASE worker_mark(t)
    <3>1. flag # 1 => Answer(t)
      BY <2>11, PhaseFacts DEF worker_mark, Executes, Respond, IsLast, Return, Answer, help
    <3>2. flag = 1 => (Last(t, PREMARK) \/ Last(t, PREASYNC)) /\ sig[t] # ASYNC
      BY <2>11, PhaseFacts DEF worker_mark, Executes, Respond, IsLast, Issue, Last,
         IsChange, help
    <3> QED
      BY <2>7, <2>8, <3>1, <3>2, PhaseFacts
  <2>12. CASE worker_async(t)
    <3>1. flag # 1 => Answer(t)
      BY <2>12, PhaseFacts DEF worker_async, Executes, Respond, IsLast, Return, Answer, help
    <3>2. flag = 1 => Rounds!Answer(tgt[t]) /\ tgt[t] \in Worker
      BY <2>12, LastAsyncRound, TargetFacts DEF worker_async, Executes, Acting
    <3> QED
      BY <2>7, <3>1, <3>2 DEF Rounds!Next
  <2>13. CASE end_gc(t)
    BY <2>13, EndRound DEF Rounds!Next
  <2>14. CASE load_handshake(t) \/ pop_fails(t) \/ clear_handshake(t)
    BY <2>14, NoRound DEF load_handshake, pop_fails, clear_handshake, HelpReturns, Elsewhere
  <2>15. CASE scan_handshake(t)
    BY <2>15, NoRound DEF scan_handshake, Elsewhere
  <2>16. CASE pop_handshake(t)
    BY <2>16, NoRound DEF pop_handshake, Elsewhere
  <2>17. CASE take_worker(t)
    <3>1. CASE ~active[cur[t]] /\ phase[cur[t]] = seen[t]
      <4>1. cur[t] \in Worker /\ IsPre(phase[cur[t]]) /\ pc[t] = "take"
        BY <2>17, <3>1, PointerFacts DEF take_worker, Helpers
      <4>2. Live(cur[t])
        BY <4>1, PhaseFacts, PointerFacts, Ranges DEF Registered, Live
      <4>3. /\ phase' = [phase EXCEPT ![cur[t]] = Accept(@)]
            /\ Begin(t, cur[t], Accept(seen[t]), FALSE, "helped")
            /\ UNCHANGED <<n, dead, avail, gc_count>>
            /\ \A u \in Worker : u # t => cur'[u] = cur[u]
        <5>1. /\ phase' = [phase EXCEPT ![cur[t]] = Accept(seen[t])]
              /\ Begin(t, cur[t], Accept(seen[t]), FALSE, "helped")
              /\ cur' = [cur EXCEPT ![t] = 0]
          BY <2>17, <3>1 DEF take_worker
        <5>2. UNCHANGED <<n, dead, avail, gc_count>>
          BY <2>17 DEF take_worker
        <5> QED
          BY <3>1, <5>1, <5>2
      <4>4. Rounds!Begin(cur[t])
        BY <4>1, <4>2, <4>3, BeginRound DEF Begin, Elsewhere
      <4> QED
        BY <4>1, <4>4 DEF Rounds!Next
    <3>2. CASE ~(~active[cur[t]] /\ phase[cur[t]] = seen[t])
      <4>1. pc[t] = "take" /\ HelpReturns(t) /\ UNCHANGED <<state, job>>
        BY <2>17, <3>2 DEF take_worker
      <4> QED
        BY <2>17, <4>1, NoRound DEF take_worker, HelpReturns, Elsewhere
    <3> QED
      BY <3>1, <3>2
  <2>18. CASE release_worker(t)
    <3>1. tgt[t] \in Worker /\ pc[t] = "helped"
      BY <2>18, TargetFacts DEF release_worker
    <3>2. CASE phase[tgt[t]] = Accept(seen[t])
      BY <2>18, <3>1, <3>2, NoRound DEF release_worker, HelpReturns, Elsewhere
    <3>3. CASE phase[tgt[t]] # Accept(seen[t])
      <4>1. IsPre(phase[tgt[t]])
        BY <3>1, <3>3 DEF Helpers, Helping
      <4>2. Live(tgt[t])
        BY <3>1, <4>1, PhaseFacts, PointerFacts, Ranges DEF Registered, Live
      <4>3. /\ phase' = [phase EXCEPT ![tgt[t]] = Accept(@)]
            /\ Begin(t, tgt[t], Accept(phase[tgt[t]]), FALSE, "helped")
            /\ UNCHANGED <<n, dead, avail, gc_count, cur>>
        BY <2>18, <3>3, <4>1 DEF release_worker
      <4>4. Rounds!Begin(tgt[t])
        BY <3>1, <4>1, <4>2, <4>3, BeginRound DEF Begin, Elsewhere
      <4> QED
        BY <3>1, <4>4 DEF Rounds!Next
    <3> QED
      BY <3>2, <3>3
  <2> QED
    BY <1>4, <2>1, <2>2, <2>3, <2>4, <2>5, <2>6, <2>9, <2>10, <2>11, <2>12, <2>13,
       <2>14, <2>15, <2>16, <2>17, <2>18 DEF RuntimeStep
<1> QED
  BY <1>1, <1>2, <1>3, <1>4 DEF Next

\* The handshake implements the rounds, for any number of threads: between two
\* phases every worker executes the action of its signal exactly once.
THEOREM HandshakeInRounds == Spec => InRounds
<1>1. Init => Rounds!Init
  BY InitRounds
<1>2. IInv /\ IInv' /\ [Next]_vars => [Rounds!Next]_Rounds!vars
  BY RoundStep
<1> QED
  BY <1>1, <1>2, Invariance, PTL DEF Spec, InRounds, Rounds!Spec

-----------------------------------------------------------------------------
(***************************************************************************)
(* A pending signal of a worker in C code stays on offer to helpers, for   *)
(* any number of worker threads, collections and repetitions of MARK,      *)
(* except that of a repeated MARK.  The list of helpers is unlocked:       *)
(* whoever loads it, walks it and moves it later compares only the pointer *)
(* and the stamp.  The proof is that a stamp cannot come again while       *)
(* somebody still holds it, unless it comes twice in a row: its holder     *)
(* owes an answer to one of the signals in between.                        *)
(***************************************************************************)

\* The order of the phases.
LEMMA PreviousFacts ==
    /\ \A p \in Phase : Previous(Accept(p)) \in {ASYNC, SYNC1, SYNC2, MARK}
    /\ \A p, q \in Phase : IsChange(p, q) => IsPre(q) /\ ~IsPre(p)
    /\ PREMARK \in Phase /\ Accept(PREMARK) = MARK /\ IsPre(PREMARK)
    /\ \A p, q \in Phase : IsChange(p, q) /\ ~(p = MARK /\ q = PREMARK) =>
          /\ Previous(Accept(q)) = p
          /\ Accept(q) # p /\ Accept(q) # Previous(p)
    /\ \A p, q \in Phase : IsPre(p) /\ IsPre(q) /\ Accept(p) = Accept(q) => p = q
BY DEF Previous, IsChange, Phase, Accept, IsPre, PREASYNC, ASYNC, PRESYNC1, SYNC1,
       PRESYNC2, SYNC2, PREMARK, MARK

\* The ranges of what a helper has loaded.
LEMMA StampRanges ==
    ASSUME TypeOK
    PROVE  hsStamp \in Phase /\ hsHead \in Pointer /\ \A t \in Worker : stamp[t] \in Phase
BY DEF TypeOK

\* A worker that needs help has registered.
LEMMA NeedsRegistered ==
    ASSUME TypeOK, Registered
    PROVE  \A w \in Worker : NeedsHelp(w) => w <= n /\ Live(w)
BY Ranges, PhaseFacts, PointerFacts DEF Registered, NeedsHelp, Live

\* A thread that looks at the list is in ML code: nobody else works for it.
LEMMA LookerAlone ==
    ASSUME IInv, NEW t \in Worker, Looking(t)
    PROVE  /\ active[t] /\ ~helper[t] /\ Live(t)
           /\ \A u \in Worker : ~Helping(u, t)
BY Ranges, PointerFacts DEF IInv, Looking, Locks, InML, Registered, Live

Issuing(u) == pc[u] \in {"global", "walk"}

\* A step of thread t that neither issues a signal nor moves the list, and after
\* which t does not look at the list.  Nobody comes to need help by it.
Aside(t) ==
    /\ UNCHANGED <<avail, hsHead, hsStamp>>
    /\ ~Issuing(t) /\ pc'[t] \notin {"walk", "scan", "pop", "take"}
    /\ \A u \in Worker : u # t =>
          /\ pc'[u] = pc[u] /\ sig'[u] = sig[u] /\ from'[u] = from[u]
          /\ list'[u] = list[u] /\ cur'[u] = cur[u]
          /\ stamp'[u] = stamp[u] /\ seen'[u] = seen[u]
          /\ Looking(u) => phase'[u] = phase[u]
    /\ \A w \in Worker :
          /\ (Live(w) /\ IsPre(phase[w]))' => Live(w) /\ phase'[w] = phase[w]
          /\ NeedsHelp(w)' => NeedsHelp(w)
    /\ \A w \in Worker : pc[t] = "take" /\ cur[t] = w =>
          ~(NeedsHelp(w)' /\ phase'[w] = seen[t])
    /\ MarkRepeated => MarkRepeated'

\* Such a step keeps the list in order.
LEMMA AsideHelp ==
    ASSUME IInv, Stamps, Offers, IInv', NEW t \in Worker, Aside(t)
    PROVE  Stamps' /\ Offers'
<1>0. /\ TypeOK /\ Registered /\ Helpers /\ Phases /\ Counter
      /\ TypeOK' /\ Registered' /\ Phases' /\ Counter'
  BY DEF IInv
<1> USE <1>0
<1>1. ASSUME pc'[t] = "global"
      PROVE  from'[t] = avail /\ \A u \in Worker : ~Issuing(u)
  <2>1. from'[t] = avail
    BY <1>1 DEF Phases, Aside
  <2>2. ASSUME NEW u \in Worker, Issuing(u) PROVE FALSE
    <3>1. u # t /\ pc'[u] = pc[u]
      BY <2>2 DEF Aside
    <3> QED
      BY <1>1, <2>2, <3>1 DEF Counter, SingleChanger, Changing, Issuing
  <2> QED
    BY <2>1, <2>2
<1>2. /\ \A u \in Worker : pc'[u] \in {"global", "walk"} => Accept(hsStamp') = from'[u]
      /\ (\A u \in Worker : pc'[u] \notin {"global", "walk"}) => Accept(hsStamp') = avail'
  BY <1>1 DEF Stamps, Aside, Issuing
<1>3. \A u \in Worker : Looking(u)' =>
        u # t /\ Looking(u) /\ stamp'[u] = stamp[u] /\ phase'[u] = phase[u]
  BY DEF Looking, Aside
<1>4. \A u \in Worker : pc'[u] = "walk" =>
        u # t /\ pc[u] = "walk" /\ sig'[u] = sig[u] /\ from'[u] = from[u]
  BY DEF Aside
<1>5. Stamps'
  BY <1>2, <1>3, <1>4 DEF Stamps, LastDone, Aside, Repeats
<1>6. \A u, w \in Worker : pc'[u] = "walk" /\ Live(w)' /\ IsPre(phase'[w]) => w <= list'[u]
  BY <1>4 DEF Offers, Aside
<1>7. Walking' <=> Walking
  BY <1>4 DEF Walking, Aside, Issuing
<1>8. ASSUME ~Walking, ~MarkRepeated, NEW w \in Worker, w <= n', NeedsHelp(w)'
      PROVE  w <= hsHead' \/ \E u \in Worker : pc'[u] = "take" /\ cur'[u] = w /\ seen'[u] = phase'[w]
  <2>1. NeedsHelp(w) /\ w <= n /\ phase'[w] = phase[w]
    BY <1>8, NeedsRegistered DEF Aside, NeedsHelp, Live
  <2>2. CASE w <= hsHead
    BY <2>2 DEF Aside
  <2>3. CASE \E u \in Worker : pc[u] = "take" /\ cur[u] = w /\ seen[u] = phase[w]
    <3>1. PICK u \in Worker : pc[u] = "take" /\ cur[u] = w /\ seen[u] = phase[w]
      BY <2>3
    <3>2. u # t
      BY <1>8, <2>1, <3>1 DEF Aside
    <3> QED
      BY <2>1, <3>1, <3>2 DEF Aside
  <2> QED
    BY <1>8, <2>1, <2>2, <2>3 DEF Offers
<1>9. ASSUME ~Walking, ~MarkRepeated, NEW u \in Worker, Looking(u)', stamp'[u] = hsStamp'
      PROVE  /\ \A w \in Worker : cur'[u] < w /\ w <= list'[u] => ~NeedsHelp(w)'
             /\ (pc[u] = "pop" /\ NeedsHelp(cur[u]) => seen[u] = phase[cur[u]])'
  <2>1. /\ u # t /\ Looking(u) /\ stamp[u] = hsStamp /\ pc'[u] = pc[u]
        /\ list'[u] = list[u] /\ cur'[u] = cur[u] /\ seen'[u] = seen[u]
    BY <1>9, <1>3 DEF Aside
  <2>2. \A w \in Worker : cur'[u] < w /\ w <= list'[u] => ~NeedsHelp(w)'
    BY <1>9, <2>1 DEF Offers, Aside
  <2>3. ASSUME NEW w \in Worker, pc'[u] = "pop", cur'[u] = w, NeedsHelp(w)'
        PROVE  seen'[u] = phase'[w]
    <3>a. ~dead'[w] /\ IsPre(phase'[w])
      BY <2>3 DEF NeedsHelp
    <3>b. w <= n'
      <4>1. phase'[w] # ASYNC
        BY <3>a, PhaseFacts
      <4>2. CASE n' < w
        BY <4>1, <4>2 DEF Registered
      <4> QED
        BY <4>2, PointerFacts DEF TypeOK
    <3>1. NeedsHelp(w) /\ Live(w)' /\ IsPre(phase'[w])
      BY <2>3, <3>a, <3>b DEF Aside, Live
    <3> QED
      BY <1>9, <2>1, <2>3, <3>1 DEF Offers, Aside
  <2>4. pc'[u] = "pop" => cur'[u] \in Worker
    BY <2>1, Ranges, PointerFacts DEF Helpers
  <2> QED
    BY <2>2, <2>3, <2>4
<1>10. MarkRepeated => MarkRepeated'
  BY DEF Aside
<1> QED
  BY <1>5, <1>6, <1>7, <1>8, <1>9, <1>10 DEF Offers

-----------------------------------------------------------------------------
(***************************************************************************)
(* The steps that neither move the list nor look at it                     *)
(***************************************************************************)

\* A new worker starts in an accepted phase.
LEMMA RegisterAside ==
    ASSUME IInv, NEW t \in Worker, register_worker(t)
    PROVE  Aside(t)
<1>0. TypeOK /\ Registered /\ Phases
  BY DEF IInv
<1>1. /\ pc[t] = "none" /\ t = n + 1 /\ n' = t /\ ~IsPre(avail)
      /\ \A w \in Worker : phase'[w] = IF w = t THEN avail ELSE phase[w]
      /\ \A w \in Worker : active'[w] <=> IF w = t THEN TRUE ELSE active[w]
      /\ \A w \in Worker : pc'[w] = IF w = t THEN "ml" ELSE pc[w]
      /\ UNCHANGED <<avail, hsHead, hsStamp, dead, sig, from, list, cur, stamp, seen, retries>>
  BY <1>0, PhaseFacts DEF TypeOK, register_worker, Goto, flags, job, walk, help, handshake,
     collection, Phases
<1>2. \A u \in Worker : Looking(u) => u # t
  BY <1>1 DEF Looking
<1>3. \A w \in Worker : w # t => (Live(w)' <=> Live(w))
  <2>1. ASSUME NEW w \in Worker, w # t PROVE w <= n' <=> w <= n
    <3>1. n \in Nat /\ w \in Nat
      BY <1>0, PointerFacts, NAssumption DEF TypeOK, Worker
    <3>2. n' = n + 1 /\ w # n + 1
      BY <2>1, <1>1
    <3> QED
      BY <3>1, <3>2
  <2> QED
    BY <1>1, <2>1 DEF Live
<1> QED
  BY <1>1, <1>2, <1>3 DEF Aside, NeedsHelp, Issuing, MarkRepeated

\* Steps that change no phase and unlock no worker
Plain(t) ==
    /\ UNCHANGED <<n, avail, hsHead, hsStamp, dead, phase>>
    /\ MarkRepeated => MarkRepeated'
    /\ \A w \in Worker : active[w] => active'[w]
    /\ pc[t] \notin {"global", "walk", "take"}
    /\ pc'[t] \notin {"walk", "scan", "pop", "take"}
    /\ \A u \in Worker : u # t =>
          /\ pc'[u] = pc[u] /\ sig'[u] = sig[u] /\ from'[u] = from[u]
          /\ list'[u] = list[u] /\ cur'[u] = cur[u]
          /\ stamp'[u] = stamp[u] /\ seen'[u] = seen[u]

LEMMA PlainAside ==
    ASSUME NEW t \in Worker, Plain(t)
    PROVE  Aside(t)
BY DEF Plain, Aside, NeedsHelp, Live, Issuing

\* The phases of a thread's own worker: sml_leave, sml_check and a greedy caller
\* accept a pending signal.
OwnAccept(t) ==
    /\ UNCHANGED <<n, avail, hsHead, hsStamp, dead, retries>>
    /\ \A w \in Worker : phase'[w] = IF w = t THEN Accept(phase[t]) ELSE phase[w]
    /\ \A w \in Worker : w # t => active'[w] = active[w]
    /\ pc[t] \in {"ml", "greedy"} /\ pc'[t] \in {"act", "c"}
    /\ \A u \in Worker : u # t =>
          /\ pc'[u] = pc[u] /\ sig'[u] = sig[u] /\ from'[u] = from[u]
          /\ list'[u] = list[u] /\ cur'[u] = cur[u]
          /\ stamp'[u] = stamp[u] /\ seen'[u] = seen[u]

LEMMA OwnAcceptAside ==
    ASSUME IInv, NEW t \in Worker, OwnAccept(t)
    PROVE  Aside(t)
<1>1. ~IsPre(phase'[t]) /\ \A w \in Worker : w # t => phase'[w] = phase[w]
  BY Ranges, PhaseFacts DEF OwnAccept, IInv
<1>2. \A w \in Worker : Live(w)' <=> Live(w)
  BY DEF OwnAccept, Live
<1> QED
  BY <1>1, <1>2 DEF OwnAccept, Aside, NeedsHelp, Issuing, MarkRepeated

\* The program's steps.
LEMMA ProgramAside ==
    ASSUME IInv, Stamps, NEW t \in Worker, ProgramStep(t)
    PROVE  Aside(t)
<1>0. TypeOK
  BY DEF IInv
<1>a. gc_count % 2 = 0 => hsStamp # PREMARK
  <2> SUFFICES ASSUME gc_count % 2 = 0 PROVE hsStamp # PREMARK
    OBVIOUS
  <2>1. avail = ASYNC /\ \A u \in Worker : pc[u] \notin {"global", "walk"}
    BY DEF IInv, Quiet, Changing
  <2>2. Accept(hsStamp) = ASYNC
    BY <2>1 DEF Stamps
  <2> QED
    BY <2>2, PreviousFacts DEF ASYNC, MARK
<1> USE <1>0 DEF TypeOK, Goto, registry, state, flags, handshake, collection, job,
    walk, help
<1>1. CASE register_worker(t)
  BY <1>1, RegisterAside
<1>2. ASSUME NEW ends \in BOOLEAN, leave_worker(t, ends)
      PROVE  Aside(t)
  <2>1. /\ pc[t] = "ml"
        /\ phase' = [phase EXCEPT ![t] = Accept(@)]
        /\ active' = [active EXCEPT ![t] = FALSE]
        /\ UNCHANGED <<n, avail, dead, hsHead, hsStamp, retries, list, cur, stamp, seen>>
    BY <1>2 DEF leave_worker
  <2>2. CASE IsPre(phase[t])
    <3>1. Begin(t, t, Accept(phase[t]), FALSE, "c")
      BY <1>2, <2>2 DEF leave_worker
    <3>2. OwnAccept(t)
      BY <2>1, <3>1 DEF Begin, OwnAccept
    <3> QED
      BY <3>2, OwnAcceptAside
  <2>3. CASE ~IsPre(phase[t])
    <3>1. Goto(t, "c") /\ UNCHANGED <<sig, from>>
      BY <1>2, <2>3 DEF leave_worker
    <3>2. OwnAccept(t)
      BY <2>1, <3>1 DEF OwnAccept
    <3> QED
      BY <3>2, OwnAcceptAside
  <2> QED
    BY <2>2, <2>3
<1>3. CASE sml_enter(t)
  <2>1. Plain(t)
    BY <1>3 DEF sml_enter, Plain, MarkRepeated
  <2> QED
    BY <2>1, PlainAside
<1>4. CASE cancel_worker(t)
  <2>1. Plain(t)
    BY <1>4 DEF cancel_worker, Plain, MarkRepeated
  <2> QED
    BY <2>1, PlainAside
<1>5. ASSUME NEW g \in BOOLEAN, sml_gc(t, g)
      PROVE  Aside(t)
  <2>1. Plain(t)
    BY <1>5, <1>a DEF sml_gc, Plain, MarkRepeated
  <2> QED
    BY <2>1, PlainAside
<1>6. CASE signal_gc(t)
  <2>1. Plain(t)
    BY <1>6, <1>a DEF signal_gc, Plain, MarkRepeated
  <2> QED
    BY <2>1, PlainAside
<1> QED
  BY <1>1, <1>2, <1>3, <1>4, <1>5, <1>6 DEF ProgramStep

\* Polling, as long as the list is not loaded.
LEMMA PollAside ==
    ASSUME IInv, NEW t \in Worker, PollStep(t)
    PROVE  Aside(t)
<1>0. TypeOK
  BY DEF IInv
<1> USE <1>0 DEF TypeOK, Goto, registry, flags, handshake, collection, job, walk, help
<1>1. CASE sml_check(t) /\ IsPre(phase[t])
  <2>1. OwnAccept(t)
    BY <1>1 DEF sml_check, Begin, OwnAccept
  <2> QED
    BY <2>1, OwnAcceptAside
<1>2. CASE sml_check(t) /\ ~IsPre(phase[t])
  <2>1. Plain(t)
    BY <1>2 DEF sml_check, Plain, MarkRepeated
  <2> QED
    BY <2>1, PlainAside
<1>3. CASE wait_done(t)
  <2>1. Plain(t)
    BY <1>3 DEF wait_done, Plain, state, MarkRepeated
  <2> QED
    BY <2>1, PlainAside
<1> QED
  BY <1>1, <1>2, <1>3 DEF PollStep

\* A helper locks the worker it took off the list, or gives up.
LEMMA TakeAside ==
    ASSUME IInv, NEW t \in Worker, take_worker(t)
    PROVE  Aside(t)
<1>0. TypeOK /\ Helpers
  BY DEF IInv
<1> USE <1>0 DEF TypeOK, Goto, registry, state, flags, handshake, collection, job, walk, help
<1>1. pc[t] = "take" /\ cur[t] \in Worker
  BY PointerFacts DEF take_worker, Helpers
<1>2. CASE ~active[cur[t]] /\ phase[cur[t]] = seen[t]
  <2>1. /\ UNCHANGED <<n, avail, hsHead, hsStamp, dead, retries>>
        /\ \A w \in Worker : phase'[w] = IF w = cur[t] THEN Accept(seen[t]) ELSE phase[w]
        /\ \A w \in Worker : active'[w] <=> IF w = cur[t] THEN TRUE ELSE active[w]
        /\ \A u \in Worker : u # t =>
              /\ pc'[u] = pc[u] /\ sig'[u] = sig[u] /\ from'[u] = from[u]
              /\ list'[u] = list[u] /\ cur'[u] = cur[u]
              /\ stamp'[u] = stamp[u] /\ seen'[u] = seen[u]
        /\ pc'[t] = "act"
    BY <1>1, <1>2 DEF take_worker, Begin
  <2>2. ~IsPre(Accept(seen[t]))
    BY PhaseFacts
  <2>3. \A u \in Worker : Looking(u) => u # cur[t]
    BY <1>2, LookerAlone
  <2>4. \A w \in Worker : Live(w)' <=> Live(w)
    BY <2>1 DEF Live
  <2> QED
    BY <1>1, <2>1, <2>2, <2>3, <2>4 DEF Aside, NeedsHelp, Issuing, MarkRepeated
<1>3. CASE ~(~active[cur[t]] /\ phase[cur[t]] = seen[t])
  <2>1. HelpReturns(t) /\ UNCHANGED <<n, avail, hsHead, hsStamp, dead, retries, state, job>>
    BY <1>3 DEF take_worker
  <2> QED
    BY <1>1, <1>3, <2>1 DEF HelpReturns, Aside, NeedsHelp, Live, Issuing, MarkRepeated
<1> QED
  BY <1>2, <1>3

\* A helper unlocks its worker, or executes the next action for it.
LEMMA ReleaseAside ==
    ASSUME IInv, NEW t \in Worker, release_worker(t)
    PROVE  Aside(t)
<1>0. TypeOK /\ Targets /\ Helpers
  BY DEF IInv
<1> USE <1>0 DEF TypeOK, Goto, registry, flags, handshake, collection, walk
<1>1. pc[t] = "helped" /\ tgt[t] \in Worker /\ Helping(t, tgt[t])
  BY TargetFacts DEF release_worker, Helping
<1>2. \A u \in Worker : Looking(u) => u # tgt[t]
  BY <1>1, LookerAlone
<1>3. /\ UNCHANGED <<n, avail, hsHead, hsStamp, dead, retries>>
      /\ \A w \in Worker : w # tgt[t] => phase'[w] = phase[w] /\ active'[w] = active[w]
      /\ \A u \in Worker : u # t =>
            /\ pc'[u] = pc[u] /\ sig'[u] = sig[u] /\ from'[u] = from[u]
            /\ list'[u] = list[u] /\ cur'[u] = cur[u]
            /\ stamp'[u] = stamp[u] /\ seen'[u] = seen[u]
      /\ pc'[t] \in {"ml", "act", "fatal"}
  BY <1>1 DEF release_worker, HelpReturns, Begin, job
<1>4. ~IsPre(phase'[tgt[t]])
  <2>1. CASE phase[tgt[t]] = Accept(seen[t])
    <3>1. phase' = phase
      BY <2>1 DEF release_worker
    <3> QED
      BY <2>1, <3>1, PhaseFacts
  <2>2. CASE phase[tgt[t]] # Accept(seen[t])
    <3>1. phase' = [phase EXCEPT ![tgt[t]] = Accept(@)]
      BY <2>2 DEF release_worker
    <3> QED
      BY <1>1, <3>1, PhaseFacts
  <2> QED
    BY <2>1, <2>2
<1>5. \A w \in Worker : Live(w)' <=> Live(w)
  BY <1>3 DEF Live
<1> QED
  BY <1>1, <1>2, <1>3, <1>4, <1>5 DEF Aside, NeedsHelp, Issuing, MarkRepeated

\* The answers: each returns, goes on to issue a signal or ends the collection.
LEMMA AnswerAside ==
    ASSUME IInv, NEW t \in Worker,
           worker_sync1(t) \/ worker_sync2(t) \/ worker_mark(t) \/ worker_async(t)
    PROVE  Aside(t)
<1>0. TypeOK
  BY DEF IInv
<1>1. /\ pc[t] = "act"
      /\ UNCHANGED <<n, avail, hsHead, hsStamp, dead, phase, active, list, cur, stamp, seen>>
  BY DEF worker_sync1, worker_sync2, worker_mark, worker_async, Executes, registry, state,
     flags, handshake, walk, help
<1> DEFINE Moves ==
      /\ pc'[t] \in {"global", "end", "ml", "c", "helped"}
      /\ \A u \in Worker : u # t => pc'[u] = pc[u] /\ sig'[u] = sig[u] /\ from'[u] = from[u]
<1>2. /\ Return(t) => Moves
      /\ \A p, q : Issue(t, p, q) => Moves
      /\ Goto(t, "end") /\ UNCHANGED job => Moves
  BY <1>0 DEF TypeOK, Goto, Issue, Return, job
<1> HIDE DEF Moves
<1>3. Moves
  <2>1. worker_sync1(t) => Moves
    BY <1>2 DEF worker_sync1
  <2>2. worker_sync2(t) => Moves
    BY <1>2 DEF worker_sync2
  <2>3. worker_mark(t) => Moves
    BY <1>2 DEF worker_mark
  <2>4. worker_async(t) => Moves
    BY <1>2 DEF worker_async
  <2> QED
    BY <2>1, <2>2, <2>3, <2>4
<1>4. retries' = retries \/ retries' = retries + 1
  BY DEF worker_sync1, worker_sync2, worker_mark, worker_async, collection
<1>5. MarkRepeated => MarkRepeated'
  BY <1>0, <1>1, <1>4 DEF MarkRepeated, TypeOK
<1>6. Plain(t)
  BY <1>1, <1>3, <1>5 DEF Plain, Moves
<1> QED
  BY <1>6, PlainAside

\* The other steps of this kind.
LEMMA RuntimeAside ==
    ASSUME IInv, NEW t \in Worker,
           \/ enter_worker(t) \/ add_check_flag(t) \/ accept_own(t) \/ end_gc(t)
           \/ pop_fails(t)
           \/ clear_handshake(t) /\ UNCHANGED hsHead
    PROVE  Aside(t)
<1>0. TypeOK /\ Targets /\ Changes
  BY DEF IInv
<1> USE <1>0 DEF TypeOK, Goto, registry, state, flags, handshake, collection, job, walk, help
<1>1. CASE enter_worker(t)
  <2>1. Plain(t)
    BY <1>1 DEF enter_worker, Plain, MarkRepeated
  <2> QED
    BY <2>1, PlainAside
<1>2. CASE add_check_flag(t)
  <2>1. Plain(t)
    BY <1>2 DEF add_check_flag, Return, Plain, MarkRepeated
  <2> QED
    BY <2>1, PlainAside
<1>3. CASE accept_own(t)
  <2>1. tgt[t] = t /\ phase[t] = sig[t] /\ IsPre(phase[t])
    BY <1>3 DEF accept_own, Targets, Changes
  <2>2. OwnAccept(t)
    BY <1>3, <2>1 DEF accept_own, Begin, OwnAccept
  <2> QED
    BY <2>2, OwnAcceptAside
<1>4. CASE end_gc(t)
  <2>1. Plain(t)
    BY <1>4 DEF end_gc, Return, Plain, MarkRepeated
  <2> QED
    BY <2>1, PlainAside
<1>5. CASE pop_fails(t)
  <2>1. Plain(t)
    BY <1>5 DEF pop_fails, HelpReturns, Plain, MarkRepeated
  <2> QED
    BY <2>1, PlainAside
<1>6. CASE clear_handshake(t) /\ UNCHANGED hsHead
  <2>1. Plain(t)
    BY <1>6 DEF clear_handshake, HelpReturns, Plain, MarkRepeated
  <2> QED
    BY <2>1, PlainAside
<1> QED
  BY <1>1, <1>2, <1>3, <1>4, <1>5, <1>6

-----------------------------------------------------------------------------
(***************************************************************************)
(* The steps that issue a signal                                           *)
(***************************************************************************)

\* No signal that is about to be sent is one that a helper still remembers.
LEMMA GlobalPhaseHelp ==
    ASSUME IInv, RetryCounted, Stamps, Offers, NEW t \in Worker, global_phase(t)
    PROVE  Stamps' /\ Offers'
<1>0. TypeOK /\ Changes /\ Phases /\ Counter
  BY DEF IInv
<1> USE <1>0, Ranges, PhaseFacts
<1>1. /\ pc[t] = "global"
      /\ \A u \in Worker : pc'[u] = IF u = t THEN "walk" ELSE pc[u]
      /\ UNCHANGED <<n, dead, phase, active, hsHead, hsStamp, sig, from, stamp>>
  BY DEF TypeOK, global_phase, Goto, state, flags, handshake, job, help
<1>2. \A u \in Worker : Issuing(u) => u = t
  BY <1>1 DEF Counter, SingleChanger, Changing, Issuing
<1>3. \A w \in Worker : ~Owes(w)
  BY <1>1 DEF Counter
<1>4. IsChange(from[t], sig[t]) /\ avail = from[t] /\ ~IsPre(from[t])
  BY <1>1, PreviousFacts DEF Changes, Phases
<1>5. \A w \in Worker : Live(w) => phase[w] = from[t] /\ ~IsPre(phase[w])
  <2>1. \A u \in Worker : pc[u] # "walk"
    BY <1>1, <1>2 DEF Issuing
  <2>2. \A w \in Worker : Live(w) => Accept(phase[w]) = avail
    BY <2>1 DEF Phases
  <2> QED
    BY <1>3, <1>4, <2>2 DEF Owes
<1>6. ASSUME NEW u \in Worker, Looking(u), ~Repeats(t)
      PROVE  stamp[u] # sig[t]
  <2>1. phase[u] = from[t] /\ ~IsPre(phase[u])
    BY <1>5, <1>6, LookerAlone
  <2>2. IsPre(stamp[u]) /\ Accept(stamp[u]) \in {from[t], Previous(from[t])}
    BY <1>6, <2>1 DEF Stamps, LastDone
  <2> QED
    BY <1>4, <1>6, <2>2, PreviousFacts DEF Repeats
<1>7. \A u \in Worker : Looking(u)' <=> Looking(u)
  BY <1>1 DEF Looking
<1>8. Stamps'
  BY <1>1, <1>2, <1>6, <1>7 DEF Stamps, LastDone, Issuing, Repeats
<1>9. Walking'
  BY <1>1 DEF Walking
<1>10. \A w \in Worker : Live(w)' => ~IsPre(phase'[w])
  BY <1>1, <1>5 DEF Live
<1> QED
  BY <1>8, <1>9, <1>10 DEF Offers

\* A worker is sent the signal, or not.
LEMMA ChangePhaseHelp ==
    ASSUME IInv, RetryCounted, Stamps, Offers, NEW t \in Worker, change_phase(t)
    PROVE  Stamps' /\ Offers'
<1>0. TypeOK /\ Changes /\ Walks /\ Counter
  BY DEF IInv
<1> USE <1>0, Ranges, PhaseFacts, PointerFacts
<1>1. /\ pc[t] = "walk" /\ cur[t] \in Worker
      /\ \A w \in Worker : dead[w] => dead'[w]
      /\ UNCHANGED <<n, avail, active, hsHead, hsStamp, pc, sig, from, list, stamp, seen>>
  BY DEF TypeOK, change_phase, registry, handshake, job, help
<1>2. cur[t] <= list[t] /\ IsChange(from[t], sig[t])
  BY <1>1 DEF Walks, Changes
<1>3. \A w \in Worker : \/ phase'[w] = phase[w]
                        \/ w = cur[t] /\ (Live(w) => phase[w] = from[t] /\ phase'[w] = sig[t])
  <2>1. phase' = phase \/ phase' = [phase EXCEPT ![cur[t]] = Signal(@, from[t], sig[t])]
    BY DEF change_phase
  <2>2. Live(cur[t]) => phase[cur[t]] = from[t]
    BY <1>1 DEF Walks
  <2>3. Signal(from[t], from[t], sig[t]) = sig[t]
    BY <1>2, SignalFacts DEF IsChange
  <2> QED
    BY <1>1, <2>1, <2>2, <2>3 DEF TypeOK
<1>4. \A w \in Worker : Live(w)' => Live(w)
  BY <1>1 DEF Live
<1>5. \A u \in Worker : (Looking(u)' <=> Looking(u)) /\ (pc'[u] = "walk" => u = t)
  BY <1>1 DEF Looking, Counter, SingleChanger, Changing
<1>6. ASSUME NEW u \in Worker, Looking(u)
      PROVE  Accept(stamp[u]) \in {LastDone(u)', Previous(LastDone(u)')} \/ stamp[u] = phase'[u]
  <2>1. CASE phase'[u] = phase[u]
    BY <1>6, <2>1 DEF Stamps, LastDone
  <2>2. CASE phase'[u] # phase[u]
    <3>1. phase[u] = from[t] /\ phase'[u] = sig[t]
      BY <1>3, <1>6, <2>2, LookerAlone
    <3>2. CASE ~Repeats(t)
      <4>1. LastDone(u) = from[t] /\ LastDone(u)' = from[t] /\ ~IsPre(phase[u])
        BY <1>2, <3>1, <3>2, PreviousFacts DEF LastDone, Repeats
      <4> QED
        BY <1>6, <4>1 DEF Stamps
    <3>3. CASE Repeats(t)
      <4>1. phase[u] = MARK /\ phase'[u] = PREMARK /\ ~IsPre(phase[u])
        BY <1>2, <3>1, <3>3, PreviousFacts DEF Repeats
      <4>2. LastDone(u) = MARK /\ LastDone(u)' = Previous(MARK)
        BY <4>1, PreviousFacts DEF LastDone
      <4>3. IsPre(stamp[u]) /\ Accept(stamp[u]) \in {MARK, Previous(MARK)}
        BY <1>6, <4>1, <4>2 DEF Stamps
      <4> QED
        BY <4>1, <4>2, <4>3, PreviousFacts, StampRanges
    <3> QED
      BY <3>2, <3>3
  <2> QED
    BY <2>1, <2>2
<1>7. Stamps'
  BY <1>1, <1>5, <1>6 DEF Stamps, Repeats
<1>8. ASSUME NEW w \in Worker, Live(w)', IsPre(phase'[w])
      PROVE  w <= list'[t]
  <2>1. CASE phase'[w] = phase[w]
    BY <1>1, <1>4, <1>8, <2>1 DEF Offers
  <2>2. CASE phase'[w] # phase[w]
    BY <1>1, <1>2, <1>3, <2>2
  <2> QED
    BY <2>1, <2>2
<1>9. Walking'
  BY <1>1 DEF Walking
<1> QED
  BY <1>5, <1>7, <1>8, <1>9 DEF Offers

\* The new list has everybody on it who needs help, and no helper that knows an
\* old one takes the new one for it, unless it is that of a repeated MARK.
LEMMA PublishHelp ==
    ASSUME IInv, IInv', RetryCounted, Stamps, Offers, NEW t \in Worker, publish_handshake(t)
    PROVE  Stamps' /\ Offers'
<1>0. TypeOK /\ Registered /\ Changes /\ Walks /\ Counter
  BY DEF IInv
<1> USE <1>0, Ranges, PhaseFacts, PointerFacts
<1>1. /\ pc[t] = "walk" /\ hsHead' = list[t] /\ hsStamp' = sig[t]
      /\ \A u \in Worker : pc'[u] = IF u = t THEN "add" ELSE pc[u]
      /\ UNCHANGED <<n, avail, dead, phase, active, sig, from, stamp, retries>>
  BY DEF TypeOK, publish_handshake, Goto, registry, state, flags, collection, job, help
<1>2. \A u \in Worker : Issuing(u) => u = t
  BY <1>1 DEF Counter, SingleChanger, Changing, Issuing
<1>3. IsPre(sig[t]) /\ Accept(sig[t]) = avail
  BY <1>1, PreviousFacts DEF Changes, Walks
<1>4. \A u \in Worker : ~Issuing(u)' /\ (Looking(u)' <=> Looking(u))
  BY <1>1, <1>2 DEF Issuing, Looking
<1>5. Stamps'
  BY <1>1, <1>3, <1>4 DEF Stamps, LastDone, Issuing
<1>6. ~MarkRepeated' => \A u \in Worker : Looking(u)' => stamp'[u] # hsStamp'
  <2>1. Repeats(t) => MarkRepeated'
    BY <1>1 DEF RetryCounted, MarkRepeated, Repeats
  <2> QED
    BY <1>1, <1>4, <2>1 DEF Stamps
<1>7. \A w \in Worker : NeedsHelp(w)' => w <= hsHead'
  <2> SUFFICES ASSUME NEW w \in Worker, NeedsHelp(w)' PROVE w <= hsHead'
    OBVIOUS
  <2>1. NeedsHelp(w)
    BY <1>1 DEF NeedsHelp
  <2>2. Live(w) /\ IsPre(phase[w])
    BY <2>1, NeedsRegistered DEF NeedsHelp
  <2> QED
    BY <1>1, <2>2 DEF Offers
<1>8. \A u \in Worker : pc'[u] # "walk"
  BY <1>4 DEF Issuing
<1> QED
  BY <1>5, <1>6, <1>7, <1>8 DEF Offers

-----------------------------------------------------------------------------
(***************************************************************************)
(* The steps of help_inactive on the list                                  *)
(***************************************************************************)

\* Steps that change nothing but what helper t knows, and the head of the list
Listing(t) ==
    /\ UNCHANGED <<n, avail, dead, phase, active, hsStamp, sig, from, retries>>
    /\ pc[t] \in {"load", "scan", "pop"} /\ pc'[t] \in {"ml", "scan", "pop", "take"}
    /\ \A u \in Worker : u # t =>
          /\ pc'[u] = pc[u] /\ list'[u] = list[u] /\ cur'[u] = cur[u]
          /\ stamp'[u] = stamp[u] /\ seen'[u] = seen[u]

\* The helper remembers the stamp of a list that is still the last one, or of one
\* that it has looked at before.
LEMMA ListingStamps ==
    ASSUME TypeOK, Stamps, NEW t \in Worker, Listing(t),
           Looking(t)' =>
              /\ IsPre(stamp'[t])
              /\ \/ Accept(stamp'[t]) \in {LastDone(t), Previous(LastDone(t))}
                 \/ stamp'[t] = phase[t]
              /\ \A u \in Worker : pc[u] = "walk" => stamp'[t] # sig[u] \/ Repeats(u)
    PROVE  Stamps'
<1>1. \A u \in Worker : /\ pc'[u] = "walk" <=> pc[u] = "walk"
                        /\ pc'[u] = "global" <=> pc[u] = "global"
                        /\ u # t => (Looking(u)' <=> Looking(u)) /\ stamp'[u] = stamp[u]
  BY DEF Listing, Looking
<1>2. \A u \in Worker : LastDone(u)' = LastDone(u)
  BY DEF LastDone, Listing
<1> QED
  BY <1>1, <1>2 DEF Stamps, Listing, Repeats

\* What the helper has seen of the list is right after the step
SeesRight(t) ==
    ~Walking /\ ~MarkRepeated /\ Looking(t)' /\ stamp'[t] = hsStamp =>
        /\ \A w \in Worker : cur'[t] < w /\ w <= list'[t] => ~NeedsHelp(w)
        /\ \A w \in Worker :
              pc'[t] = "pop" /\ cur'[t] = w /\ NeedsHelp(w) => seen'[t] = phase[w]

\* The step takes nobody off who needs help but the worker that the helper found
TakesRight(t) ==
    ~Walking /\ ~MarkRepeated => \A w \in Worker : NeedsHelp(w) /\ w <= hsHead =>
        w <= hsHead' \/ (pc'[t] = "take" /\ cur'[t] = w /\ seen'[t] = phase[w])

\* The list stays in order when the helper's own view of it is right, and when it
\* takes the right workers off.
LEMMA ListingOffers ==
    ASSUME TypeOK, Offers, NEW t \in Worker, Listing(t),
           SeesRight(t), TakesRight(t), pc'[t] = "pop" => cur'[t] \in Worker, Helpers
    PROVE  Offers'
<1>1. \A w \in Worker : (NeedsHelp(w)' <=> NeedsHelp(w)) /\ (Live(w)' <=> Live(w))
  BY DEF Listing, NeedsHelp, Live
<1>2. \A u \in Worker : /\ pc'[u] = "walk" <=> pc[u] = "walk"
                        /\ pc[u] = "walk" \/ pc[u] = "take" => u # t
                        /\ u # t => (Looking(u)' <=> Looking(u))
  BY DEF Listing, Looking
<1>3. (Walking' <=> Walking) /\ (MarkRepeated' <=> MarkRepeated)
  BY <1>2 DEF Walking, MarkRepeated, Listing
<1>4. \A u, w \in Worker : pc'[u] = "walk" /\ Live(w)' /\ IsPre(phase'[w]) => w <= list'[u]
  BY <1>1, <1>2 DEF Offers, Listing
<1>5. ASSUME ~Walking, ~MarkRepeated, NEW w \in Worker, w <= n', NeedsHelp(w)'
      PROVE  \/ w <= hsHead'
             \/ \E u \in Worker : pc'[u] = "take" /\ cur'[u] = w /\ seen'[u] = phase'[w]
  <2>1. NeedsHelp(w) /\ w <= n /\ phase'[w] = phase[w]
    BY <1>1, <1>5 DEF Listing
  <2>2. CASE \E u \in Worker : pc[u] = "take" /\ cur[u] = w /\ seen[u] = phase[w]
    <3>1. PICK u \in Worker : pc[u] = "take" /\ cur[u] = w /\ seen[u] = phase[w]
      BY <2>2
    <3>2. u # t
      BY <1>2, <3>1
    <3> QED
      BY <2>1, <3>1, <3>2 DEF Listing
  <2>3. CASE w <= hsHead
    BY <1>5, <2>1, <2>3 DEF TakesRight
  <2> QED
    BY <1>5, <2>1, <2>2, <2>3 DEF Offers
<1>6. ASSUME ~Walking, ~MarkRepeated, NEW u \in Worker, Looking(u)', stamp'[u] = hsStamp'
      PROVE  /\ \A w \in Worker : cur'[u] < w /\ w <= list'[u] => ~NeedsHelp(w)'
             /\ (pc[u] = "pop" /\ NeedsHelp(cur[u]) => seen[u] = phase[cur[u]])'
  <2>1. CASE u = t
    <3>1. \A w \in Worker : cur'[t] < w /\ w <= list'[t] => ~NeedsHelp(w)'
      BY <1>1, <1>6, <2>1 DEF Listing, SeesRight
    <3>2. ASSUME NEW w \in Worker, pc'[t] = "pop", cur'[t] = w, NeedsHelp(w)'
          PROVE  seen'[t] = phase'[w]
      BY <1>1, <1>6, <2>1, <3>2 DEF Listing, SeesRight
    <3> QED
      BY <2>1, <3>1, <3>2
  <2>2. CASE u # t
    <3>1. /\ Looking(u) /\ stamp[u] = hsStamp /\ pc'[u] = pc[u]
          /\ list'[u] = list[u] /\ cur'[u] = cur[u] /\ seen'[u] = seen[u]
      BY <1>2, <1>6, <2>2 DEF Listing
    <3>2. \A w \in Worker : cur'[u] < w /\ w <= list'[u] => ~NeedsHelp(w)'
      BY <1>1, <1>6, <3>1 DEF Offers
    <3>3. ASSUME NEW w \in Worker, pc'[u] = "pop", cur'[u] = w, NeedsHelp(w)'
          PROVE  seen'[u] = phase'[w]
      BY <1>1, <1>6, <3>1, <3>3, ZenonT(40) DEF Offers, Listing
    <3>4. pc'[u] = "pop" => cur'[u] \in Worker
      BY <3>1, Ranges, PointerFacts DEF Helpers
    <3> QED
      BY <3>2, <3>3, <3>4
  <2> QED
    BY <2>1, <2>2
<1> QED
  BY <1>3, <1>4, <1>5, <1>6 DEF Offers

\* sml_check_internal loads the list.
LEMMA LoadHelp ==
    ASSUME IInv, RetryCounted, Stamps, Offers, NEW t \in Worker, load_handshake(t)
    PROVE  Stamps' /\ Offers'
<1>0. TypeOK /\ Registered /\ Changes /\ Walks /\ Phases /\ Counter
  BY DEF IInv
<1> USE <1>0, Ranges, PhaseFacts, PointerFacts, StampRanges
<1>1. /\ pc[t] = "load" /\ pc'[t] = "scan"
      /\ list'[t] = hsHead /\ cur'[t] = hsHead /\ stamp'[t] = hsStamp
      /\ hsHead' = hsHead /\ Listing(t)
  BY DEF TypeOK, load_handshake, Goto, registry, state, flags, handshake, collection, job,
     Listing
<1>2. Live(t)
  BY <1>1 DEF Registered, Live
<1>3. ASSUME NEW u \in Worker, Issuing(u)
      PROVE  /\ \/ Accept(hsStamp) \in {LastDone(t), Previous(LastDone(t))}
                \/ hsStamp = phase[t]
             /\ pc[u] = "walk" => hsStamp # sig[u] \/ Repeats(u)
  <2>1. /\ Accept(hsStamp) = from[u] /\ IsPre(hsStamp) /\ IsPre(sig[u])
        /\ \/ Previous(Accept(sig[u])) = from[u] /\ Accept(sig[u]) # from[u]
           \/ Repeats(u) /\ from[u] = MARK /\ Accept(sig[u]) = MARK /\ hsStamp = PREMARK
    BY <1>3, PreviousFacts DEF Issuing, Stamps, Changes, Repeats
  <2>2. \A v \in Worker : pc[v] = "walk" => v = u
    BY <1>3 DEF Issuing, Counter, SingleChanger, Changing
  <2>3. CASE pc[u] = "global"
    <3>1. Accept(phase[t]) = avail /\ ~IsPre(phase[t]) /\ avail = from[u]
      BY <1>2, <2>2, <2>3 DEF Phases, Counter, Owes
    <3> QED
      BY <2>1, <2>3, <3>1 DEF LastDone
  <2>4. CASE pc[u] = "walk" /\ t <= cur[u]
    <3>1. phase[t] = from[u] /\ ~IsPre(phase[t])
      BY <1>2, <2>4 DEF Walks, Owes
    <3> QED
      BY <2>1, <3>1 DEF LastDone
  <2>5. CASE pc[u] = "walk" /\ ~(t <= cur[u])
    <3>1. Accept(phase[t]) = Accept(sig[u])
      BY <1>2, <2>2, <2>5 DEF Phases, Walks
    <3> QED
      BY <2>1, <3>1, PreviousFacts DEF LastDone
  <2> QED
    BY <1>3, <2>3, <2>4, <2>5 DEF Issuing
<1>4. ASSUME \A u \in Worker : ~Issuing(u)
      PROVE  Accept(hsStamp) = LastDone(t) \/ hsStamp = phase[t]
  <2>1. Accept(hsStamp) = avail /\ Accept(phase[t]) = avail
    BY <1>2, <1>4 DEF Stamps, Phases, Issuing
  <2> QED
    BY <2>1, PreviousFacts DEF LastDone, Stamps
<1>5. Stamps'
  <2>1. IsPre(hsStamp)
    BY DEF Stamps
  <2>2. Accept(hsStamp) \in {LastDone(t), Previous(LastDone(t))} \/ hsStamp = phase[t]
    BY <1>3, <1>4
  <2>3. \A u \in Worker : pc[u] = "walk" => hsStamp # sig[u] \/ Repeats(u)
    BY <1>3 DEF Issuing
  <2> QED
    BY <1>1, <2>1, <2>2, <2>3, ListingStamps
<1>6. Offers'
  <2>1. Helpers
    BY DEF IInv
  <2>a. \A w \in Worker : ~(cur'[t] < w /\ w <= list'[t])
    BY <1>1
  <2>2. SeesRight(t) /\ TakesRight(t)
    BY <1>1, <2>a DEF SeesRight, TakesRight
  <2> QED
    BY <1>1, <2>1, <2>2, ListingOffers
<1> QED
  BY <1>5, <1>6

\* A helper passes over a worker that does not need help, or finds one that does.
LEMMA ScanHelp ==
    ASSUME IInv, Stamps, Offers, NEW t \in Worker, scan_handshake(t)
    PROVE  Stamps' /\ Offers'
<1>0. TypeOK /\ Helpers
  BY DEF IInv
<1>1. /\ pc[t] = "scan" /\ cur[t] \in Worker
      /\ hsHead' = hsHead /\ stamp'[t] = stamp[t] /\ list'[t] = list[t] /\ Listing(t)
      /\ IF NeedsHelp(cur[t])
         THEN pc'[t] = "pop" /\ seen'[t] = phase[cur[t]] /\ cur'[t] = cur[t]
         ELSE pc'[t] = "scan" /\ cur'[t] = cur[t] - 1
  BY <1>0, PointerFacts DEF TypeOK, scan_handshake, Goto, registry, state, flags, handshake, collection, job,
     Listing
<1>2. Looking(t) /\ Looking(t)'
  BY <1>1 DEF Looking
<1>3. Stamps'
  BY <1>0, <1>1, <1>2, ListingStamps DEF Stamps
<1>4. ASSUME ~Walking, ~MarkRepeated, stamp'[t] = hsStamp
      PROVE  /\ \A w \in Worker : cur'[t] < w /\ w <= list'[t] => ~NeedsHelp(w)
             /\ pc'[t] = "pop" =>
                   \A w \in Worker : cur'[t] = w /\ NeedsHelp(w) => seen'[t] = phase[w]
  <2>1. \A w \in Worker : cur[t] < w /\ w <= list[t] => ~NeedsHelp(w)
    BY <1>1, <1>2, <1>4 DEF Offers
  <2>2. CASE NeedsHelp(cur[t])
    BY <1>1, <2>1, <2>2
  <2>3. CASE ~NeedsHelp(cur[t])
    <3>1. \A w \in Worker : cur[t] - 1 < w => w = cur[t] \/ cur[t] < w
      BY <1>1, PointerFacts
    <3> QED
      BY <1>1, <2>1, <2>3, <3>1
  <2> QED
    BY <2>2, <2>3
<1>5. SeesRight(t) /\ TakesRight(t)
  BY <1>1, <1>4 DEF SeesRight, TakesRight
<1>6. Offers'
  BY <1>0, <1>1, <1>5, ListingOffers
<1> QED
  BY <1>3, <1>6

\* A helper takes the worker it found off the list, with those before it.
LEMMA PopHelp ==
    ASSUME IInv, Stamps, Offers, NEW t \in Worker, pop_handshake(t)
    PROVE  Stamps' /\ Offers'
<1>0. TypeOK /\ Helpers
  BY DEF IInv
<1>1. /\ pc[t] = "pop" /\ pc'[t] = "take" /\ cur[t] \in Worker
      /\ hsHead = list[t] /\ hsStamp = stamp[t] /\ hsHead' = cur[t] - 1
      /\ cur'[t] = cur[t] /\ seen'[t] = seen[t] /\ Listing(t)
  BY <1>0, PointerFacts DEF TypeOK, pop_handshake, Unmoved, Goto, registry, state, flags, collection, job, walk, help,
     Listing, Helpers
<1>2. Looking(t) /\ ~Looking(t)'
  BY <1>1 DEF Looking
<1>3. Stamps'
  BY <1>0, <1>1, <1>2, ListingStamps
<1>4. ASSUME ~Walking, ~MarkRepeated, NEW w \in Worker, NeedsHelp(w), w <= hsHead
      PROVE  w <= hsHead' \/ (cur'[t] = w /\ seen'[t] = phase[w])
  <2>1. ~(cur[t] < w)
    BY <1>1, <1>2, <1>4 DEF Offers
  <2>2. CASE w = cur[t]
    BY <1>1, <1>2, <1>4, <2>2 DEF Offers
  <2>3. CASE w < cur[t]
    BY <1>1, <2>3, PointerFacts
  <2> QED
    BY <1>1, <2>1, <2>2, <2>3, PointerFacts
<1>5. SeesRight(t) /\ TakesRight(t)
  BY <1>1, <1>2, <1>4 DEF SeesRight, TakesRight
<1>6. Offers'
  BY <1>0, <1>1, <1>5, ListingOffers
<1> QED
  BY <1>3, <1>6

\* A helper that found nobody clears the list.
LEMMA ClearHelp ==
    ASSUME IInv, Stamps, Offers, NEW t \in Worker, clear_handshake(t), hsHead' # hsHead
    PROVE  Stamps' /\ Offers'
<1>0. TypeOK /\ Helpers
  BY DEF IInv
<1>1. /\ pc[t] = "scan" /\ pc'[t] = "ml" /\ cur[t] = 0
      /\ hsHead = list[t] /\ hsStamp = stamp[t] /\ Listing(t)
  BY <1>0 DEF TypeOK, clear_handshake, Unmoved, HelpReturns, Goto, registry, state, flags, collection, job,
     Listing
<1>2. Looking(t) /\ ~Looking(t)'
  BY <1>1 DEF Looking
<1>3. Stamps'
  BY <1>0, <1>1, <1>2, ListingStamps
<1>4. ASSUME ~Walking, ~MarkRepeated, NEW w \in Worker, NeedsHelp(w), w <= hsHead
      PROVE  FALSE
  BY <1>0, <1>1, <1>2, <1>4, PointerFacts DEF Offers
<1>5. SeesRight(t) /\ TakesRight(t)
  BY <1>1, <1>2, <1>4 DEF SeesRight, TakesRight
<1>6. Offers'
  BY <1>0, <1>1, <1>5, ListingOffers
<1> QED
  BY <1>3, <1>6

-----------------------------------------------------------------------------
(***************************************************************************)
(* The theorem                                                             *)
(***************************************************************************)

\* The state of the list is right in the beginning.
LEMMA InitHelp == Init => HelpInv
<1> SUFFICES ASSUME Init PROVE HelpInv
  OBVIOUS
<1>1. IInv
  BY InitIInv
<1>2. RetryCounted
  BY DEF Init, RetryCounted
<1>3. Stamps
  BY PhaseFacts DEF Init, Stamps, Looking
<1>4. \A w \in Worker : ~NeedsHelp(w)
  BY PhaseFacts DEF Init, NeedsHelp
<1>5. Offers
  BY <1>4 DEF Init, Offers, Walking
<1> QED
  BY <1>1, <1>2, <1>3, <1>5 DEF HelpInv

\* Every repetition of MARK is counted, and the count is reset only between two
\* collections.
LEMMA NextRetryCounted ==
    ASSUME IInv, RetryCounted, [Next]_vars
    PROVE  RetryCounted'
<1>0. TypeOK /\ Quiet
  BY DEF IInv
<1> USE <1>0 DEF TypeOK, Goto, registry, state, flags, handshake, collection, job, walk, help
<1>1. ASSUME UNCHANGED vars PROVE RetryCounted'
  BY <1>1 DEF RetryCounted, Repeats, vars
<1> DEFINE Issues(u) == pc[u] \in {"global", "walk", "add"} /\ Repeats(u)
           Keeps(t) ==
             /\ \A u \in Worker : u # t => pc'[u] = pc[u] /\ sig'[u] = sig[u] /\ from'[u] = from[u]
             /\ Issues(t)' => Issues(t) \/ retries' > 0
             /\ retries > 0 => retries' > 0 \/ gc_count % 2 = 0
<1>2. ASSUME NEW t \in Worker, Keeps(t) PROVE RetryCounted'
  <2>1. \A u \in Worker : gc_count % 2 = 0 => ~Issues(u)
    BY DEF Quiet, Changing
  <2>2. \A u \in Worker : u # t => (Issues(u)' <=> Issues(u))
    BY <1>2 DEF Repeats
  <2> QED
    BY <1>2, <2>1, <2>2 DEF RetryCounted
<1> HIDE DEF Keeps, Issues, Repeats, Issues
<1>3. ASSUME NEW t \in Worker, ProgramStep(t) PROVE Keeps(t)
  BY <1>3, PhaseFacts DEF Keeps, Issues, Repeats, ProgramStep, register_worker, leave_worker, sml_enter,
     cancel_worker, sml_gc, signal_gc, Begin
<1>4. ASSUME NEW t \in Worker, PollStep(t) PROVE Keeps(t)
  BY <1>4 DEF Keeps, Issues, Repeats, PollStep, sml_check, wait_done, Begin
<1>5. ASSUME NEW t \in Worker, RuntimeStep(t) PROVE Keeps(t)
  <2>1. CASE enter_worker(t) \/ global_phase(t) \/ change_phase(t) \/ publish_handshake(t)
    BY <2>1 DEF Keeps, Issues, Repeats, enter_worker, global_phase, change_phase, publish_handshake
  <2>2. CASE add_check_flag(t) \/ accept_own(t) \/ end_gc(t)
    BY <2>2 DEF Keeps, Issues, Repeats, add_check_flag, accept_own, end_gc, Return, Begin
  <2>3. CASE worker_sync1(t)
    BY <2>3, PhaseFacts DEF Keeps, Issues, Repeats, worker_sync1, Issue, Return
  <2>4. CASE worker_sync2(t)
    BY <2>4, PhaseFacts DEF Keeps, Issues, Repeats, worker_sync2, Issue, Return
  <2>5. CASE worker_mark(t)
    <3>1. PREASYNC # PREMARK
      BY DEF PREASYNC, PREMARK
    <3> QED
      BY <2>5, <3>1 DEF Keeps, Issues, Repeats, worker_mark, Issue, Return
  <2>6. CASE worker_async(t)
    BY <2>6 DEF Keeps, Issues, Repeats, worker_async, Return
  <2>7. CASE load_handshake(t) \/ scan_handshake(t) \/ pop_handshake(t) \/ pop_fails(t)
             \/ clear_handshake(t)
    BY <2>7 DEF Keeps, Issues, Repeats, load_handshake, scan_handshake, pop_handshake, pop_fails,
       clear_handshake, HelpReturns
  <2>8. CASE take_worker(t)
    BY <2>8 DEF Keeps, Issues, Repeats, take_worker, Begin, HelpReturns
  <2>9. CASE release_worker(t)
    BY <2>9 DEF Keeps, Issues, Repeats, release_worker, Begin, HelpReturns
  <2> QED
    BY <1>5, <2>1, <2>2, <2>3, <2>4, <2>5, <2>6, <2>7, <2>8, <2>9 DEF RuntimeStep
<1> QED
  BY <1>1, <1>2, <1>3, <1>4, <1>5 DEF Next

\* HelpInv is inductive.
LEMMA NextHelp ==
    ASSUME HelpInv, [Next]_vars
    PROVE  HelpInv'
<1>1. IInv /\ RetryCounted /\ Stamps /\ Offers /\ TypeOK
  BY DEF HelpInv, IInv
<1>2. IInv' /\ RetryCounted'
  BY <1>1, NextIInv, NextRetryCounted
<1>3. ASSUME UNCHANGED vars PROVE Stamps' /\ Offers'
  BY <1>1, <1>3 DEF Stamps, Offers, vars, registry, state, flags, handshake, job, walk, help,
     collection, Looking, LastDone, NeedsHelp, Walking, Live, Repeats, MarkRepeated
<1>4. ASSUME NEW t \in Worker, Aside(t) PROVE Stamps' /\ Offers'
  BY <1>1, <1>2, <1>4, AsideHelp
<1>5. ASSUME NEW t \in Worker, ProgramStep(t) \/ PollStep(t) PROVE Stamps' /\ Offers'
  BY <1>1, <1>4, <1>5, ProgramAside, PollAside
<1>6. ASSUME NEW t \in Worker, RuntimeStep(t) PROVE Stamps' /\ Offers'
  <2>1. CASE global_phase(t) \/ change_phase(t) \/ publish_handshake(t)
    BY <1>1, <1>2, <2>1, GlobalPhaseHelp, ChangePhaseHelp, PublishHelp
  <2>2. CASE load_handshake(t) \/ scan_handshake(t) \/ pop_handshake(t)
    BY <1>1, <2>2, LoadHelp, ScanHelp, PopHelp
  <2>3. CASE clear_handshake(t)
    BY <1>1, <1>4, <2>3, ClearHelp, RuntimeAside
  <2>4. CASE enter_worker(t) \/ add_check_flag(t) \/ accept_own(t) \/ end_gc(t) \/ pop_fails(t)
    BY <1>1, <1>4, <2>4, RuntimeAside
  <2>5. CASE worker_sync1(t) \/ worker_sync2(t) \/ worker_mark(t) \/ worker_async(t)
    BY <1>1, <1>4, <2>5, AnswerAside
  <2>6. CASE take_worker(t) \/ release_worker(t)
    BY <1>1, <1>4, <2>6, TakeAside, ReleaseAside
  <2> QED
    BY <1>6, <2>1, <2>2, <2>3, <2>4, <2>5, <2>6 DEF RuntimeStep
<1> QED
  BY <1>1, <1>2, <1>3, <1>5, <1>6 DEF Next, HelpInv

\* A pending signal of a worker in C code stays on offer to helpers, also after
\* MARK has been repeated: nobody takes it off the list who does not lock it next,
\* and nobody clears a list that it is on, whatever old lists helpers remember.
\* The exception is the repeated MARK itself.
THEOREM HelpOffered == Spec => []HelpStaysOffered
<1>1. Init => HelpInv
  BY InitHelp
<1>2. HelpInv /\ [Next]_vars => HelpInv'
  BY NextHelp
<1>3. HelpInv => HelpStaysOffered
  BY DEF HelpInv, Offers, HelpStaysOffered, HelpAlwaysOffered, OnOffer, Walking
<1> QED
  BY <1>1, <1>2, <1>3, PTL DEF Spec

=============================================================================
