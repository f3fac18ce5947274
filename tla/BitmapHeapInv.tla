---------------------------- MODULE BitmapHeapInv ---------------------------
(***************************************************************************)
(* A program with the generational bitmap collector of heap_bitmap.c       *)
(* alone, and the inductive invariant behind the theorems about it.        *)
(***************************************************************************)
EXTENDS BitmapHeap

vars == <<mutator, bitmapVars>>

Init == MutatorInit /\ BitmapInit /\ field = [b \in Block |-> Null]
Spec == Init /\ [][BitmapNext]_vars

\* What the program sees: objects do not move
Graph == INSTANCE ObjectGraph WITH Address <- Block, root <- slot, next <- field

-----------------------------------------------------------------------------
Segment == 1 .. MaxSegments

\* Segments of the sub-heap that allocation has come to, and those that it has not
Reserved == {seglist[i] : i \in 1 .. unreserved}
Unreserved == {seglist[i] : i \in unreserved + 1 .. Len(seglist)}

TypeOK ==
    /\ slot \in [Slot -> Block \cup {Null}]
    /\ field \in [Block -> Block \cup {Null}]
    /\ barriered \subseteq Global
    /\ request \in (Var \X Var) \cup {<<>>}
    /\ mode \in {"run", "trace", "retry", "over"}
    /\ objects \subseteq Block
    /\ mark \subseteq objects
    /\ stack \in Seq(Block)
    /\ unreserved \in 0 .. Len(seglist) /\ minor_space \in 0 .. unreserved
    /\ num_committed \in Int
    /\ ptr \in (Segment \X (Nat \ {0})) \cup {<<>>}
    /\ gc_mode \in {"MINOR", "MAJOR"}
    /\ unmarked \subseteq Roots

\* Every committed segment is in the sub-heap or in the free list, once; those in
\* the free list have no objects
Lists ==
    /\ seglist \in Seq(Segment) /\ IsInjective(seglist)
    /\ freelist \in Seq(Segment) /\ IsInjective(freelist)
    /\ ToSet(seglist) \cap ToSet(freelist) = {}
    /\ committed = ToSet(seglist) \cup ToSet(freelist)

\* Objects are in segments of the sub-heap, and variables and objects refer to objects
Objects ==
    /\ \A b \in objects : b[1] \in ToSet(seglist)
    /\ \A s \in Slot : slot[s] \in objects \cup {Null}
    /\ \A g \in Global \ barriered : slot[g] = Null
    /\ \A b \in objects : field[b] \in objects \cup {Null}

\* What a marked object refers to is marked, unless the object is in the stack,
\* and what a global refers to is marked, unless it is still to be looked at
Marked ==
    /\ ToSet(stack) \subseteq mark
    /\ \A b \in mark : field[b] \in mark \cup {Null} \/ b \in ToSet(stack)
    /\ \A g \in barriered \ unmarked : slot[g] \in mark \cup {Null}
    /\ mode = "trace" => \A s \in Var \ unmarked : slot[s] \in mark \cup {Null}

\* Young objects are in segments that have been reserved, before the pointer
Young ==
    mode # "trace" =>
        /\ ptr # <<>> => ptr[1] \in Reserved
        /\ \A b \in objects \ mark :
              b[1] \in Reserved /\ (ptr # <<>> /\ b[1] = ptr[1] => b[2] < ptr[2])

\* A segment that has not been reserved has a free block, and after a major
\* collection that is all room there is
Room ==
    /\ mode \in {"run", "retry"} =>
          \A g \in Unreserved : \E j \in 1 .. NumBlocks : <<g, j>> \notin mark
    /\ mode = "retry" /\ gc_mode = "MAJOR" =>
          \A g \in Reserved : \A j \in 1 .. NumBlocks : <<g, j>> \in mark

Stages ==
    /\ mode # "trace" => unmarked = {}
    /\ mode = "retry" => request # <<>> /\ ptr = <<>>

IInv == TypeOK /\ Lists /\ Objects /\ Marked /\ Young /\ Room /\ Stages /\ OverMeansMarked

=============================================================================
