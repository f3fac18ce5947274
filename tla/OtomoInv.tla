----------------------------- MODULE OtomoInv -------------------------------
(***************************************************************************)
(* A program with the bitmap collector of heap_otomo.c alone, and the      *)
(* inductive invariant behind the theorems about it.                       *)
(***************************************************************************)
EXTENDS Otomo

varsOtomo == <<mutator, otomoVars>>

InitOtomo == MutatorInit /\ OtomoInit /\ field = [b \in OtomoAddr |-> Null]
SpecOtomo == InitOtomo /\ [][OtomoNext]_varsOtomo

\* What the program sees: objects do not move
GraphOtomo == INSTANCE ObjectGraph WITH Address <- OtomoAddr, root <- slot, next <- field

\* The block that is found for a new object is one of the heap, and has none
FoundIsFree == mode \in {"run", "retry"} => NextBlock \subseteq OtomoAddr \ held

-----------------------------------------------------------------------------
Words == BITMAP_ROUND(BlockCounts)

TypeOKOtomo ==
    /\ slot \in [Slot -> OtomoAddr \cup {Null}]
    /\ field \in [OtomoAddr -> OtomoAddr \cup {Null}]
    /\ barriered \subseteq Global
    /\ request \in (Var \X Var) \cup {<<>>}
    /\ mode \in {"run", "trace", "retry", "over"}
    /\ held \subseteq OtomoAddr
    /\ cursor \in 0 .. BlockCounts
    /\ marking_stack \in Seq(OtomoAddr)
    /\ unseen \subseteq Roots

\* The sentinels are set, and a bit of the tree says that a word is full
Bitmaps ==
    /\ Sentinel(BlockCounts) \subseteq leaf
    /\ leaf \subseteq OtomoAddr \cup Sentinel(BlockCounts)
    /\ tree \subseteq 0 .. WordBits - 1
    /\ \A k \in 0 .. WordBits - 1 : k \in tree <=> k >= Words \/ WordOf(k) \subseteq leaf

\* Variables and objects refer to objects
ObjectsOtomo ==
    /\ \A s \in Slot : slot[s] \in held \cup {Null}
    /\ \A g \in Global \ barriered : slot[g] = Null
    /\ \A b \in held : field[b] \in held \cup {Null}

\* Behind the cursor a block that is not marked is free
Behind ==
    mode # "trace" => \A b \in held : cursor <= b => b \in leaf

\* What a marked object refers to is marked, too, unless it is in the stack
Traced ==
    mode = "trace" =>
        /\ leaf \cap OtomoAddr \subseteq held
        /\ ToSet(marking_stack) \subseteq held
        /\ \A b \in leaf \cap OtomoAddr : field[b] \in leaf \cup {Null} \/ b \in ToSet(marking_stack)
        /\ \A s \in Roots \ unseen : slot[s] \in leaf \cup {Null}

StagesOtomo ==
    /\ mode \in {"trace", "retry"} => cursor = 0
    /\ mode # "trace" => marking_stack = <<>> /\ unseen = {}
    /\ mode = "retry" => request # <<>>

IInvOtomo == TypeOKOtomo /\ Bitmaps /\ ObjectsOtomo /\ Behind /\ Traced /\ StagesOtomo /\ OverMeansInUse

=============================================================================
