------------------------------- MODULE Rounds -------------------------------
(***************************************************************************)
(* What the handshake of src/runtime/control.c promises to the heap: a     *)
(* collection goes in rounds.  In each round every worker that takes part  *)
(* is sent one signal, accepts it, executes its action once and answers;   *)
(* nobody is sent the next signal before all have answered.  Workers join  *)
(* at any time, in the phase that the round leads to, and leave only at    *)
(* the beginning of a collection.  It does not say which thread does what, *)
(* how the answers are counted, or how workers in C code are helped.       *)
(***************************************************************************)
EXTENDS Phases

CONSTANT Worker

VARIABLES
    member,     \* workers that take part
    gone,       \* ... and those that did
    phase,      \* phase[w]: a signal that w has not accepted, or its phase
    round,      \* the phase that the round leads to
    unsent,     \* workers that are still to be sent the signal
    counted,    \* the workers that were sent it have been counted
    acting,     \* workers whose action is being executed
    todo,       \* the next signal, once it is decided; ASYNC ends the collection
    gc_count

vars == <<member, gone, phase, round, unsent, counted, acting, todo, gc_count>>

Pending == {w \in member : IsPre(phase[w])}
Unanswered == unsent \cup Pending \cup acting

\* What follows when all have answered in round p
Following(p) ==
    CASE p = SYNC1 -> {PRESYNC2}
      [] p = SYNC2 -> {PREMARK}
      [] p = MARK  -> {PREMARK, PREASYNC}
      [] p = ASYNC -> {ASYNC}

Init ==
    /\ member = {} /\ gone = {}
    /\ phase = [w \in Worker |-> ASYNC]
    /\ round = ASYNC
    /\ unsent = {} /\ counted = TRUE /\ acting = {}
    /\ todo = {} /\ gc_count = 0

\* A worker joins in the phase of the round, and owes it nothing
Join(w) ==
    /\ w \notin member \cup gone
    /\ member' = member \cup {w}
    /\ phase' = [phase EXCEPT ![w] = round]
    /\ UNCHANGED <<gone, round, unsent, counted, acting, todo, gc_count>>

\* A collection starts
Start ==
    /\ gc_count % 2 = 0
    /\ gc_count' = gc_count + 1
    /\ todo' = {PRESYNC1}
    /\ UNCHANGED <<member, gone, phase, round, unsent, counted, acting>>

\* A round begins: everybody has answered in the one before
Issue(p) ==
    /\ todo = {p} /\ IsPre(p)
    /\ Unanswered = {} /\ counted
    /\ round' = Accept(p)
    /\ unsent' = member /\ counted' = FALSE
    /\ todo' = {}
    /\ UNCHANGED <<member, gone, phase, acting, gc_count>>

\* The signal is sent to w
Send(w) ==
    /\ w \in unsent
    /\ unsent' = unsent \ {w}
    /\ phase' = [phase EXCEPT ![w] = round - 1]
    /\ UNCHANGED <<member, gone, round, counted, acting, todo, gc_count>>

\* ... or w is found to have no thread and no users any more
Leave(w) ==
    /\ w \in unsent /\ round = SYNC1
    /\ unsent' = unsent \ {w}
    /\ member' = member \ {w} /\ gone' = gone \cup {w}
    /\ UNCHANGED <<phase, round, counted, acting, todo, gc_count>>

\* The workers that were sent the signal are added to the count
Count ==
    /\ unsent = {} /\ ~counted
    /\ counted' = TRUE
    /\ UNCHANGED <<member, gone, phase, round, unsent, acting, todo, gc_count>>

\* The signal is accepted and its action begins
Begin(w) ==
    /\ w \in Pending \ (unsent \cup acting)
    /\ phase' = [phase EXCEPT ![w] = round]
    /\ acting' = acting \cup {w}
    /\ UNCHANGED <<member, gone, round, unsent, counted, todo, gc_count>>

\* The action ends.  The last answer decides what follows, if the count has been
\* made by then.
Answer(w) ==
    /\ w \in acting /\ todo = {}
    /\ acting' = acting \ {w}
    /\ IF Unanswered = {w} /\ counted
       THEN \E p \in Following(round) : todo' = {p}
       ELSE todo' = {}
    /\ UNCHANGED <<member, gone, phase, round, unsent, counted, gc_count>>

\* The collection ends
End ==
    /\ todo = {ASYNC} /\ Unanswered = {}
    /\ gc_count % 2 = 1
    /\ gc_count' = gc_count + 1
    /\ todo' = {}
    /\ UNCHANGED <<member, gone, phase, round, unsent, counted, acting>>

Next ==
    \/ \E w \in Worker : Join(w) \/ Send(w) \/ Leave(w) \/ Begin(w) \/ Answer(w)
    \/ \E p \in Phase : Issue(p)
    \/ Start \/ Count \/ End

Spec == Init /\ [][Next]_vars

=============================================================================
