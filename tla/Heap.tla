-------------------------------- MODULE Heap --------------------------------
(***************************************************************************)
(* What a heap is to the program: a graph of objects that it reaches from  *)
(* its variables, and that changes by what the program does and by nothing *)
(* else.  A collection is no step of it.                                   *)
(*                                                                         *)
(* Objects have no names the program could see, so the graph is kept in a  *)
(* canonical form: objects are numbered in the order in which they are     *)
(* reached first, and 0 is NULL.  Every object has one pointer field.      *)
(***************************************************************************)
EXTENDS Integers, SequencesExt

CONSTANTS
    Slots,      \* the variables of the program, as a sequence
    MaxObjects  \* bound: number of objects that can be reached

VARIABLE graph  \* root[s]: the object variable s refers to; field[n]: the
                \* object that object n refers to

\* The objects in seen and those that are reached by way of next from o and
\* from the variables from number k on, in this order
RECURSIVE Walk(_, _, _, _, _)
Walk(o, k, root, next, seen) ==
    IF o \in DOMAIN next /\ ~Contains(seen, o)
    THEN Walk(next[o], k, root, next, Append(seen, o))
    ELSE IF k > Len(Slots) THEN seen
    ELSE Walk(root[Slots[k]], k + 1, root, next, seen)

\* The canonical form of the graph with these roots; an object is an element of
\* the domain of next, anything else is NULL
Canonical(root, next) ==
    LET order == Walk(root[Slots[1]], 2, root, next, <<>>)
        number(o) == IF o \in DOMAIN next THEN CHOOSE i \in DOMAIN order : order[i] = o ELSE 0
    IN  [root |-> [s \in DOMAIN root |-> number(root[s])],
         field |-> [i \in DOMAIN order |-> number(next[order[i]])]]

\* What the program has made of an empty heap so far
Init ==
    /\ DOMAIN graph.root = ToSet(Slots)
    /\ graph = Canonical(graph.root, graph.field)

Becomes(root, field) == graph' = Canonical(root, field)

\* s := a new object whose field is the value of t
New(s, t) ==
    /\ Len(graph.field) < MaxObjects
    /\ Becomes([graph.root EXCEPT ![s] = Len(graph.field) + 1],
               Append(graph.field, graph.root[t]))

\* s := t, s := NULL, s := the field of t, and the field of s := t
Copy(s, t) == Becomes([graph.root EXCEPT ![s] = graph.root[t]], graph.field)
Drop(s) == Becomes([graph.root EXCEPT ![s] = 0], graph.field)

Read(s, t) ==
    /\ graph.root[t] # 0
    /\ Becomes([graph.root EXCEPT ![s] = graph.field[graph.root[t]]], graph.field)

Write(s, t) ==
    /\ graph.root[s] # 0
    /\ Becomes(graph.root, [graph.field EXCEPT ![graph.root[s]] = graph.root[t]])

Next == \E s, t \in ToSet(Slots) :
    New(s, t) \/ Copy(s, t) \/ Drop(s) \/ Read(s, t) \/ Write(s, t)

Spec == Init /\ [][Next]_graph

=============================================================================
