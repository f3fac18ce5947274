--------------------------- MODULE HandshakeInv ---------------------------
(***************************************************************************)
(* The inductive invariant of the handshake.  Its conjuncts say, in turn,  *)
(* who is registered, who holds the lock of a worker context, what each    *)
(* thread that executes an action or issues a signal is doing, which       *)
(* phases the workers can be in, and what sml_check_flag counts.           *)
(***************************************************************************)
EXTENDS Handshake

\* Thread t holds its own worker context: it is in ML code or called from it
InML(t) ==
    \/ pc[t] \in {"ml", "load", "scan", "pop", "take", "helped", "greedy"}
    \/ (Acting(t) \/ Changing(t)) /\ ret[t] # "c"

\* Thread t is a helper that has locked worker context w
Helping(t, w) ==
    /\ tgt[t] = w
    /\ \/ pc[t] = "helped"
       \/ (Acting(t) \/ Changing(t)) /\ ret[t] = "helped"

\* A number is given to a worker context when it registers.
Registered ==
    \A w \in Worker :
        /\ w <= n <=> pc[w] # "none"
        /\ n < w => /\ ~active[w] /\ ~dead[w] /\ ~helper[w] /\ ~genum[w]
                    /\ phase[w] = ASYNC
        /\ canceled[w] <=> pc[w] = "exited"
        /\ dead[w] => canceled[w] /\ phase[w] = ASYNC

\* A worker context is locked by its own thread, by one helper, or by nobody.
Locks ==
    \A t \in Worker :
        /\ InML(t) => active[t] /\ ~helper[t]
        /\ ~InML(t) => ~active[t] \/ helper[t]
        /\ helper[t] => active[t]
        /\ \A w \in Worker : Helping(t, w) => t # w /\ helper[w]
        /\ \A u, w \in Worker : Helping(t, w) /\ Helping(u, w) => t = u

\* The worker context a thread works for.
Targets ==
    \A t \in Worker :
        /\ pc[t] # "fatal"
        /\ Acting(t) \/ Changing(t) \/ pc[t] \in {"greedy", "helped"} => tgt[t] # 0
        /\ Acting(t) \/ Changing(t) \/ pc[t] = "greedy" =>
              /\ ret[t] # "helped" => tgt[t] = t
              /\ greedy[t] => ret[t] = "ml"

\* A thread that executes an action has accepted its phase.
Actions ==
    \A t \in Worker : Acting(t) =>
        /\ sig[t] \in {ASYNC, SYNC1, SYNC2, MARK}
        /\ phase[tgt[t]] = sig[t]
        /\ Live(tgt[t])
        /\ ret[t] = "c" => ~active[t]
        /\ ret[t] = "helped" => sig[t] = Accept(seen[t])

\* The five phase changes of the code; a greedy thread signals itself.
IsChange(p, q) ==
    \/ p = ASYNC /\ q = PRESYNC1
    \/ p = SYNC1 /\ q = PRESYNC2
    \/ p = SYNC2 /\ q = PREMARK
    \/ p = MARK /\ q = PREMARK
    \/ p = MARK /\ q = PREASYNC

Changes ==
    \A t \in Worker :
        /\ pc[t] \in {"global", "walk", "add"} => IsChange(from[t], sig[t])
        /\ pc[t] = "greedy" => phase[t] = sig[t] /\ IsPre(sig[t]) /\ greedy[t]
        /\ pc[t] = "walk" /\ greedy[t] /\ cur[t] < t => phase[t] = sig[t]
        /\ pc[t] = "add" /\ greedy[t] => phase[t] = sig[t]
        /\ pc[t] \notin {"walk", "add"} => cnt[t] = 0

\* What a helper remembers of the worker it found or locked.
Helpers ==
    \A t \in Worker :
        /\ pc[t] \in {"pop", "take"} => cur[t] # 0 /\ IsPre(seen[t])
        /\ \A w \in Worker : Helping(t, w) =>
              phase[w] = Accept(seen[t]) \/ IsPre(phase[w])

\* Where change_phase is on the list.
Walks ==
    \A t \in Worker : pc[t] = "walk" =>
        /\ cur[t] <= list[t]
        /\ list[t] <= n
        /\ cur[t] = list[t] /\ list[t] # 0 => ~dead[list[t]]
        /\ avail = Accept(sig[t])
        /\ \A w \in Worker : w <= cur[t] /\ Live(w) =>
              phase[w] = from[t] /\ ~Owes(w)

\* A live worker that is not still waiting for change_phase is in the phase new
\* workers start in, or has the signal for that phase pending.
Phases ==
    /\ avail \in {ASYNC, SYNC1, SYNC2, MARK}
    /\ \A w \in Worker : Live(w) =>
        \/ Accept(phase[w]) = avail
        \/ \E t \in Worker : pc[t] = "walk" /\ w <= cur[t]
    /\ \A t \in Worker : pc[t] = "global" => avail = from[t]
    /\ \A t \in Worker : pc[t] = "add" => avail = Accept(sig[t])
    /\ \A t \in Worker : pc[t] = "end" => avail = ASYNC

\* What sml_check_flag counts, and that a thread issues signals only when it
\* has no answers to wait for.
Counter ==
    /\ SingleChanger
    /\ CounterExact
    /\ \A t \in Worker : pc[t] \in {"walk", "add"} => flag <= 0
    /\ \A t \in Worker : pc[t] \in {"global", "end"} =>
          \A w \in Worker : ~Owes(w)

\* Nothing is going on between two collections.
Quiet ==
    gc_count % 2 = 0 =>
        /\ avail = ASYNC
        /\ \A w \in Worker : ~Owes(w)
        /\ \A t \in Worker : ~Changing(t)

\* Somebody enumerates the global roots before the collection goes on to MARK.
GlobalsPending ==
    \/ globals
    \/ \E w \in Worker :
          /\ genum[w] /\ Live(w)
          /\ \/ Owes(w)
             \/ \E t \in Worker : pc[t] = "walk" /\ w <= cur[t]
             \/ \E t \in Worker : pc[t] = "global" /\ sig[t] = PRESYNC2

Roots ==
    /\ avail = SYNC2 => GlobalsPending
    /\ \A t \in Worker :
          pc[t] = "global" /\ sig[t] = PRESYNC2 => GlobalsPending
    /\ avail = MARK => globals
    /\ \A t \in Worker : pc[t] = "walk" /\ from[t] = MARK => globals

\* The inductive invariant.
IInv ==
    /\ TypeOK
    /\ Registered
    /\ Locks
    /\ Targets
    /\ Actions
    /\ Changes
    /\ Helpers
    /\ Walks
    /\ Phases
    /\ Counter
    /\ Quiet
    /\ Roots

-----------------------------------------------------------------------------
(***************************************************************************)
(* The list that is offered to helpers: what a helper has seen of it is    *)
(* right as long as it finds it unmoved, unless the list is that of a      *)
(* repeated MARK.                                                          *)
(***************************************************************************)

Walking == \E t \in Worker : pc[t] = "walk"

\* Thread t is looking for a worker on the list it has loaded
Looking(t) == pc[t] \in {"scan", "pop"}

\* The phase before p in a collection without repetitions
Previous(p) == IF p = ASYNC THEN MARK ELSE p - 2

\* The last action worker t has executed, or that was over when it registered
LastDone(t) == IF IsPre(phase[t]) THEN Previous(Accept(phase[t])) ELSE phase[t]

\* Thread t issues a MARK signal that follows another one
Repeats(t) == from[t] = MARK /\ sig[t] = PREMARK

\* Repetitions are counted.
RetryCounted ==
    \A t \in Worker : pc[t] \in {"global", "walk", "add"} /\ Repeats(t) => retries > 0

\* The stamp of the list is the last signal that was published.  A helper that
\* still has an older stamp owes an answer before that one can come again, unless
\* it comes twice in a row.
Stamps ==
    /\ IsPre(hsStamp)
    /\ \A u \in Worker : pc[u] \in {"global", "walk"} => Accept(hsStamp) = from[u]
    /\ (\A u \in Worker : pc[u] \notin {"global", "walk"}) => Accept(hsStamp) = avail
    /\ \A t \in Worker : Looking(t) =>
          /\ IsPre(stamp[t])
          /\ Accept(stamp[t]) \in {LastDone(t), Previous(LastDone(t))} \/ stamp[t] = phase[t]
          /\ \A u \in Worker : pc[u] = "walk" => stamp[t] # sig[u] \/ Repeats(u)

\* Who needs help is on the list, and a helper that finds the list unmoved has
\* passed over nobody who needs it.
Offers ==
    /\ \A u, w \in Worker : pc[u] = "walk" /\ Live(w) /\ IsPre(phase[w]) => w <= list[u]
    /\ ~Walking /\ ~MarkRepeated =>
          /\ \A w \in Worker : w <= n /\ NeedsHelp(w) =>
                \/ w <= hsHead
                \/ \E t \in Worker : pc[t] = "take" /\ cur[t] = w /\ seen[t] = phase[w]
          /\ \A t \in Worker : Looking(t) /\ stamp[t] = hsStamp =>
                /\ \A w \in Worker : cur[t] < w /\ w <= list[t] => ~NeedsHelp(w)
                /\ pc[t] = "pop" /\ NeedsHelp(cur[t]) => seen[t] = phase[cur[t]]

HelpInv == IInv /\ RetryCounted /\ Stamps /\ Offers

-----------------------------------------------------------------------------
(***************************************************************************)
(* The rounds of module Rounds, in the state of the handshake              *)
(***************************************************************************)

Members == {w \in Worker : Live(w)}
Gone == {w \in Worker : dead[w]}

\* Workers that change_phase has not come to yet
Unsent == {w \in Members : \E t \in Worker : pc[t] = "walk" /\ w <= cur[t]}

\* fetch_add on sml_check_flag is not pending
Counted == \A t \in Worker : pc[t] \notin {"walk", "add"}

\* Workers some thread executes an action for
ActedFor == {w \in Worker : \E t \in Worker : Acting(t) /\ tgt[t] = w}

\* What the changer has decided to do next
Decided ==
    {sig[t] : t \in {u \in Worker : pc[u] = "global"}}
    \cup {ASYNC : t \in {u \in Worker : pc[u] = "end"}}

Rounds == INSTANCE Rounds
    WITH member <- Members, gone <- Gone, round <- avail, unsent <- Unsent,
         counted <- Counted, acting <- ActedFor, todo <- Decided

\* The handshake proceeds in rounds.  Whatever threads do, a worker is sent a
\* signal, executes its action once and answers, and no signal is sent before
\* the last one has been answered by all: nobody misses an action, does it twice
\* or in another's round.
InRounds == Rounds!Spec

=============================================================================
