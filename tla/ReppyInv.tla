------------------------------ MODULE ReppyInv ------------------------------
(***************************************************************************)
(* A program with the generational copying collector alone, and the        *)
(* inductive invariant behind the theorems about it.                       *)
(***************************************************************************)
EXTENDS Reppy

vars == <<mutator, reppyVars>>

Init == MutatorInit /\ ReppyInit /\ field = [a \in ReppyAddr |-> Null]
Spec == Init /\ [][ReppyNext]_vars

\* What the program sees: a pointer to an object that has been copied stands for
\* the copy
root == [s \in Slot |-> ReppyObject(slot[s])]
next == [a \in ReppyAddr |-> ReppyObject(field[a])]

Graph == INSTANCE ObjectGraph WITH Address <- ReppyAddr

-----------------------------------------------------------------------------
Collecting == mode \in {"remembered", "scan"}

\* The generations that are being collected, and the space of a generation that
\* objects are in, or copied to
Collected(i) == Collecting /\ i <= gc_level
Space(i) == IF Collected(i) THEN To(i) ELSE From(i)

InUse(a) == a[3] < top[a[1]][a[2]]

\* Objects that are to be copied if they are needed, all other objects, and copies
\* that the loop of do_gc has not come to
Old == {a \in ReppyAddr : Collected(a[1]) /\ a[2] = From(a[1]) /\ InUse(a)}
New == {a \in ReppyAddr : a[2] = Space(a[1]) /\ InUse(a)}
Waiting == {a \in New : Collecting /\ a[1] <= gc_level + 1 /\ scan.start[a[1]] <= a[3]}

\* What a slot may hold that has not been forwarded
Pre == Old \cup {a \in New : ~Collected(a[1])} \cup {Null}

TypeOK ==
    /\ slot \in [Slot -> ReppyAddr \cup {Null}]
    /\ field \in [ReppyAddr -> ReppyAddr \cup {Null}]
    /\ barriered \subseteq Global
    /\ request \in (Var \X Var) \cup {<<>>}
    /\ mode \in {"run", "remembered", "scan", "retry", "over"}
    /\ half \in [Generation -> {1, 2}]
    /\ top \in [Generation -> [{1, 2} -> 1 .. GenSize + 1]]
    /\ water_mark \in [Generation -> 1 .. GenSize + 1]
    /\ remember \in [Generation -> [{1, 2} -> SUBSET ReppyAddr]]
    /\ moved \subseteq ReppyAddr
    /\ gc_level \in Generation
    /\ entries \subseteq Generation \X ReppyAddr
    /\ left \subseteq Roots
    /\ scan \in [start : [Generation -> 1 .. GenSize + 1], at : Generation]

\* The other space of a generation that is not collected is empty
Spaces ==
    /\ \A i \in Generation : ~Collected(i) => top[i][To(i)] = 1 /\ remember[i][To(i)] = {}
    /\ Collecting => \A i \in Generation : i <= gc_level + 1 => scan.start[i] <= top[i][Space(i)]
    /\ moved \subseteq Old

\* Variables refer to objects, those that have been forwarded to objects that stay.
\* A global that is no root was never assigned.
Variables ==
    /\ \A s \in left : slot[s] \in Pre
    /\ \A s \in Slot \ left : slot[s] \in New \cup {Null}
    /\ \A g \in Global \ barriered : slot[g] = Null

\* An object that has been copied refers to its copy, in its generation or the next
\* one.  The fields of copies that wait have not been forwarded; those of other
\* objects that stay have been, unless their slot is an entry that is to be looked at.
Fields ==
    /\ \A a \in moved : field[a] \in New /\ HOW_OLD(field[a]) \in {HOW_OLD(a), HOW_OLD(a) + 1}
    /\ \A a \in (Old \ moved) \cup Waiting : field[a] \in Pre
    /\ \A a \in New \ Waiting :
          \/ field[a] \in New \cup {Null}
          \/ field[a] \in Old /\ HOW_OLD(a) > gc_level /\ <<HOW_OLD(field[a]), a>> \in entries

\* The remembered set of a generation has the older slots that point to it.  A slot
\* is looked at once for each generation, from old to young, so when it points to a
\* generation where objects are copied to, there is no entry left that leads there.
Remembered ==
    /\ \A i \in Generation : \A a \in remember[i][Space(i)] : a \in New /\ HOW_OLD(a) >= i
    /\ \A a \in New \ Waiting :
          field[a] \in New /\ HOW_OLD(a) > HOW_OLD(field[a])
          => a \in remember[HOW_OLD(field[a])][Space(HOW_OLD(field[a]))]
    /\ \A e \in entries :
          /\ e[1] <= gc_level
          /\ HOW_OLD(e[2]) > gc_level =>
                /\ e[2] \in New \ Waiting
                /\ field[e[2]] \in New => e[1] < HOW_OLD(field[e[2]])

Stages ==
    /\ mode # "remembered" => entries = {} /\ left = {}
    /\ mode = "retry" => request # <<>>

\* When the program has stopped there is nothing to say
IInv == TypeOK /\ (mode # "over" => Spaces /\ Variables /\ Fields /\ Remembered /\ Stages)

=============================================================================
