----------------------------- MODULE CheneyInv ------------------------------
(***************************************************************************)
(* A program with the copying collector alone, and the inductive invariant *)
(* behind the theorems about it.                                           *)
(***************************************************************************)
EXTENDS Cheney, FiniteSets

vars == <<mutator, cheneyVars>>

Init == MutatorInit /\ CheneyInit /\ field = [a \in CheneyAddr |-> Null]
Spec == Init /\ [][CheneyNext]_vars

\* What the program sees: a pointer to an object that has been copied stands for
\* the copy
root == [s \in Slot |-> CheneyObject(slot[s])]
next == [a \in CheneyAddr |-> CheneyObject(field[a])]

Graph == INSTANCE ObjectGraph WITH Address <- CheneyAddr

-----------------------------------------------------------------------------
Collecting == mode \in {"roots", "region"}

\* The objects of from-space and those of to-space
Old == {a \in CheneyAddr : a[1] = from_space /\ a[2] < free[from_space]}
New == {a \in CheneyAddr : a[1] = to_space /\ a[2] < free[to_space]}

TypeOK ==
    /\ slot \in [Slot -> CheneyAddr \cup {Null}]
    /\ field \in [CheneyAddr -> CheneyAddr \cup {Null}]
    /\ barriered \subseteq Global
    /\ request \in (Var \X Var) \cup {<<>>}
    /\ mode \in {"run", "roots", "region", "retry", "over"}
    /\ from_space \in {1, 2}
    /\ free \in [{1, 2} -> 1 .. SpaceSize + 1]
    /\ forwarded \subseteq Old
    /\ todo \subseteq Roots
    /\ cur \in 1 .. SpaceSize + 1

\* Variables refer to objects; those that the collector has forwarded, to objects
\* of to-space.  It has not to look at a global that was never assigned.
Variables ==
    /\ \A s \in Slot : slot[s] \in IF Collecting /\ s \notin todo THEN New \cup {Null}
                                   ELSE Old \cup {Null}
    /\ \A g \in Global \ barriered : slot[g] = Null

\* An object that has been forwarded refers to its copy.  The fields of copies
\* that forward_region has passed have been forwarded.
Fields ==
    /\ \A a \in Old : field[a] \in IF a \in forwarded THEN New ELSE Old \cup {Null}
    /\ \A a \in New : field[a] \in IF a[2] < cur THEN New \cup {Null} ELSE Old \cup {Null}

\* There is one copy of each object, so to-space has room for all of them
Copies ==
    /\ Cardinality(forwarded) = free[to_space] - 1
    /\ cur <= free[to_space]

\* Outside of a collection to-space is empty
Stages ==
    /\ mode = "roots" => cur = 1 /\ todo # {}
    /\ mode # "roots" => todo = {}
    /\ ~Collecting => forwarded = {} /\ cur = 1
    /\ mode = "retry" => request # <<>>

\* The assertion of forward: to-space has room for the copy of an object that has
\* not been forwarded
CopyHasRoom == \A p \in Old \ forwarded : HEAP_REST(to_space) >= 1

IInv == TypeOK /\ Variables /\ Fields /\ Copies /\ Stages


=============================================================================
