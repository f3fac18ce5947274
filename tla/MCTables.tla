----------------------------- MODULE MCTables -------------------------------
(***************************************************************************)
(* The tables of the runtime beside the heap: finalizers, callbacks, frame *)
(* tables with top-level objects, and the frames of a thread that          *)
(* exceptions go through.  They have no state in common and each has its   *)
(* own lock or thread, so each behaviour is one of one of them.            *)
(***************************************************************************)
EXTENDS Finalizers, Callbacks, GlobalRoots, Unwind

VARIABLE table

tables == <<finalizerVars, callbackVars, rootVars>>

MCInit ==
    /\ table \in {"finalizers", "callbacks", "gcroots", "frames"}
    /\ FinalizerInit /\ CallbackInit /\ RootInit /\ Init

\* A program may stop using a table at any time, but an exception always goes on.
MCNext ==
    /\ UNCHANGED table
    /\ \/ /\ table = "finalizers"
          /\ FinalizerNext
          /\ UNCHANGED <<callbackVars, rootVars, vars>>
       \/ /\ table = "callbacks"
          /\ CallbackNext
          /\ UNCHANGED <<finalizerVars, rootVars, vars>>
       \/ /\ table = "gcroots"
          /\ RootNext
          /\ UNCHANGED <<finalizerVars, callbackVars, vars>>
       \/ table = "frames" /\ Next /\ UNCHANGED tables
       \/ table # "frames" /\ UNCHANGED <<tables, vars>>

MCSpec == MCInit /\ [][MCNext]_<<table, tables, vars>>

Sym == Permutations(Exporter)

\* "b" and "c" are equal environments
MCClass == [e \in Env |-> IF e = "a" THEN 1 ELSE 2]

\* Units with and without top-level objects, whose safe points are not sorted
MCUnits ==
    [p \in Program |->
        CASE p = "main" -> <<[points |-> <<13, 11>>, tops |-> TRUE],
                             [points |-> <<12>>, tops |-> FALSE]>>
          [] p = "second" -> <<[points |-> <<21>>, tops |-> TRUE],
                               [points |-> <<22, 20>>, tops |-> TRUE]>>
          [] p = "third" -> <<[points |-> <<31>>, tops |-> TRUE]>>]

=============================================================================
