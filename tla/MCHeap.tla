------------------------------- MODULE MCHeap -------------------------------
(***************************************************************************)
(* The four stop-the-world collectors, one of them in each behaviour, and  *)
(* the heap that each of them shows to the program.                        *)
(***************************************************************************)
EXTENDS Cheney, Reppy, BitmapHeap, Otomo

CONSTANTS
    MaxOps,     \* bound: number of steps of the program
    ReppyOps    \* steps that are taken before the behaviours with reppy begin

VARIABLES
    collector,  \* "cheney", "reppy", "bitmap" or "otomo"
    ops,        \* number of steps of the program
    graph       \* the heap as the program sees it

MCSlots == SetToSeq(Slot)

\* The object that p stands for, and the addresses of the heap
Object(p) == CASE collector = "cheney" -> CheneyObject(p)
               [] collector = "reppy" -> ReppyObject(p)
               [] collector \in {"bitmap", "otomo"} -> p

Addr == CASE collector = "cheney" -> CheneyAddr
          [] collector = "reppy" -> ReppyAddr
          [] collector = "bitmap" -> Block
          [] collector = "otomo" -> OtomoAddr

Abstract == INSTANCE Heap WITH Slots <- MCSlots,
                               MaxObjects <- Cardinality(CheneyAddr \cup ReppyAddr \cup Block)

Root == [s \in Slot |-> Object(slot[s])]
Heap == [a \in Addr |-> Object(field[a])]

-----------------------------------------------------------------------------
Fresh == MutatorInit /\ CheneyInit /\ BitmapInit /\ OtomoInit /\ field = [a \in Addr |-> Null]

\* Reppy begins with a variable for each generation, whose object has survived
\* a collection there.  A program that makes A, B, and C, with minor collections
\* after A and after B and a major one after C, gets there.
Worn ==
    /\ CheneyInit /\ BitmapInit /\ OtomoInit
    /\ slot \in [Slot -> {<<i, 2, 1>> : i \in Generation}]
    /\ IsInjective(slot)
    /\ field = [a \in Addr |-> Null]
    /\ barriered = Global /\ request = <<>> /\ mode = "run"
    /\ half = [i \in Generation |-> 2]
    /\ top = [i \in Generation |-> <<1, 2>>]
    /\ water_mark = [i \in Generation |-> 2]
    /\ remember = [i \in Generation |-> <<{}, {}>>]
    /\ moved = {} /\ gc_level = 0 /\ entries = {} /\ left = {}
    /\ scan = [start |-> [i \in Generation |-> 1], at |-> 0]

MCInit ==
    /\ \/ collector \in {"cheney", "bitmap", "otomo"} /\ ops = 0 /\ Fresh /\ ReppyInit
       \/ collector = "reppy" /\ ops = ReppyOps /\ Worn
    /\ graph = Abstract!Canonical(Root, Heap)

MCNext ==
    /\ \/ collector = "cheney" /\ CheneyNext /\ UNCHANGED <<reppyVars, bitmapVars, otomoVars>>
       \/ collector = "reppy" /\ ReppyNext /\ UNCHANGED <<cheneyVars, bitmapVars, otomoVars>>
       \/ collector = "bitmap" /\ BitmapNext /\ UNCHANGED <<cheneyVars, reppyVars, otomoVars>>
       \/ collector = "otomo" /\ OtomoNext /\ UNCHANGED <<cheneyVars, reppyVars, bitmapVars>>
    /\ mode = "run" => ops < MaxOps
    /\ ops' = IF mode = "run" THEN ops + 1 ELSE ops
    /\ UNCHANGED collector
    /\ \E root \in {Root'}, heap \in {Heap'} : graph' = Abstract!Canonical(root, heap)

MCSpec ==
    MCInit /\ [][MCNext]_<<mutator, cheneyVars, reppyVars, bitmapVars, otomoVars, collector, ops, graph>>

-----------------------------------------------------------------------------
(* What the program sees of its heap changes by what the program does      *)
(* (sml_alloc, sml_write, and reads of fields), never by a step of a       *)
(* collection: no object that can be reached is lost, copied twice,        *)
(* overwritten by a new one, or reached through an old address.            *)
HeapKept == Abstract!Spec

(* Between collections a pointer from an old object to a young one is      *)
(* known to the next minor collection: with heap_reppy.c the slot is in    *)
(* the remembered set of the generation it points to, with heap_bitmap.c   *)
(* the object is in the mark stack, and what a global refers to is marked. *)
OldToYoung ==
    /\ collector = "reppy" => SlotsRemembered
    /\ collector = "bitmap" => WritesKnown

(* "heap exceeded" is said only after a collection that found every block  *)
(* in use: neither the search through the bitmap and its tree of           *)
(* heap_otomo.c nor the segment lists of heap_bitmap.c overlook room that  *)
(* the collection made.                                                    *)
OverMeansFull ==
    /\ collector = "bitmap" => OverMeansMarked
    /\ collector = "otomo" => OverMeansInUse

=============================================================================
