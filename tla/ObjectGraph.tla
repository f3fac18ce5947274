----------------------------- MODULE ObjectGraph ----------------------------
(***************************************************************************)
(* The heap as the program sees it, with the addresses of its objects: the *)
(* objects that it reaches from its variables change by what the program   *)
(* does and by nothing else.  Whatever it does not reach is free: a new    *)
(* object may take the address, and a collection may move objects there,   *)
(* if all of them stay apart and refer to each other as before.  Every     *)
(* object has one pointer field.                                           *)
(***************************************************************************)
CONSTANTS
    Slot,       \* the variables of the program
    Address,
    Null

VARIABLES
    root,       \* root[s]: the object that variable s refers to
    next        \* next[a]: the object that the object at a refers to

\* A set with all objects that the variables and its own objects refer to
Closed(S) ==
    /\ \A s \in Slot : root[s] \in S \cup {Null}
    /\ \A a \in S : next[a] \in S \cup {Null}

Reachable == {a \in Address : \A S \in SUBSET Address : Closed(S) => a \in S}

Init ==
    /\ root = [s \in Slot |-> Null]
    /\ next = [a \in Address |-> Null]

-----------------------------------------------------------------------------
ObjectsKept == \A a \in Reachable : next'[a] = next[a]

Assign(s, p) == root' = [root EXCEPT ![s] = p] /\ ObjectsKept

\* s := t, s := NULL, s := the field of t, and the field of s := t
Copy(s, t) == Assign(s, root[t])
Drop(s) == Assign(s, Null)
Read(s, t) == root[t] # Null /\ Assign(s, next[root[t]])

Write(s, t) ==
    /\ root[s] # Null
    /\ root' = root
    /\ \A a \in Reachable : next'[a] = IF a = root[s] THEN root[t] ELSE next[a]

\* s := a new object whose field is the value of t
New(s, t) ==
    \E a \in Address \ Reachable :
        /\ root' = [root EXCEPT ![s] = a]
        /\ next'[a] = root[t]
        /\ ObjectsKept

\* The objects are at other addresses
Move ==
    \E new \in [Reachable -> Address] :
        LET to(p) == IF p = Null THEN Null ELSE new[p]
        IN  /\ \A a, b \in Reachable : new[a] = new[b] => a = b
            /\ root' = [s \in Slot |-> to(root[s])]
            /\ \A a \in Reachable : next'[new[a]] = to(next[a])

Next ==
    \/ \E s, t \in Slot :
          Copy(s, t) \/ Drop(s) \/ Read(s, t) \/ Write(s, t) \/ New(s, t)
    \/ Move

Spec == Init /\ [][Next]_<<root, next>>

=============================================================================
