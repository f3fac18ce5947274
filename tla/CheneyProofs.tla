---------------------------- MODULE CheneyProofs ----------------------------
(***************************************************************************)
(* The copying collector keeps the graph of objects that the program sees, *)
(* for every size of the spaces and every set of variables.                *)
(***************************************************************************)
EXTENDS CheneyInv, FiniteSetTheorems, TLAPS

-----------------------------------------------------------------------------
\* What follows from the invariant about addresses.
LEMMA Spaces ==
    ASSUME IInv
    PROVE  /\ from_space \in {1, 2} /\ to_space \in {1, 2} /\ to_space # from_space
           /\ to_space = 1 <=> from_space = 2
           /\ free[from_space] \in 1 .. SpaceSize + 1
           /\ free[to_space] \in 1 .. SpaceSize + 1
           /\ Old \subseteq CheneyAddr /\ New \subseteq CheneyAddr
           /\ Old \cap New = {} /\ forwarded \subseteq Old
           /\ SpaceSize \in Nat \ {0}
BY SpaceAssumption DEF IInv, TypeOK, Old, New, to_space

\* There are as many objects as the free pointer says.
LEMMA OldCount ==
    ASSUME IInv
    PROVE  IsFiniteSet(Old) /\ Cardinality(Old) = free[from_space] - 1
<1> DEFINE k == free[from_space] - 1
           f == [i \in 1 .. k |-> <<from_space, i>>]
<1>1. k \in Nat /\ k <= SpaceSize
  BY Spaces
<1>2. f \in Bijection(1 .. k, Old)
  <2>1. \A i \in 1 .. k : <<from_space, i>> \in Old
    BY <1>1, Spaces DEF Old, CheneyAddr
  <2>2. \A a \in Old : a[2] \in 1 .. k /\ a = <<from_space, a[2]>>
    BY <1>1, Spaces DEF Old, CheneyAddr
  <2>3. f \in [1 .. k -> Old]
    BY <2>1
  <2>4. \A i, j \in 1 .. k : f[i] = f[j] => i = j
    OBVIOUS
  <2>5. \A a \in Old : \E i \in 1 .. k : f[i] = a
    BY <2>2
  <2>6. DOMAIN f = 1 .. k
    OBVIOUS
  <2> HIDE DEF f, k
  <2> QED BY <2>3, <2>4, <2>5, <2>6 DEF Bijection, Injection, Surjection, IsInjective
<1>3. ExistsBijection(1 .. k, Old)
  BY <1>2 DEF ExistsBijection
<1> HIDE DEF k, f
<1>4. IsFiniteSet(1 .. k) /\ Cardinality(1 .. k) = k
  <2>1. k \in Int /\ 1 \in Int /\ IF 1 > k THEN k = 0 ELSE k - 1 + 1 = k
    BY <1>1
  <2>2. IsFiniteSet(1 .. k) /\ Cardinality(1 .. k) = IF 1 > k THEN 0 ELSE k - 1 + 1
    BY <2>1, FS_Interval
  <2> QED BY <2>1, <2>2
<1>5. IsFiniteSet(Old) /\ Cardinality(Old) = k
  BY <1>3, <1>4, FS_Bijection
<1> QED BY <1>5 DEF k

\* To-space has room for the copy of an object that has not been forwarded.
LEMMA Room ==
    ASSUME IInv, NEW p \in Old \ forwarded
    PROVE  /\ free[to_space] < free[from_space] /\ free[to_space] <= SpaceSize
           /\ <<to_space, free[to_space]>> \in CheneyAddr \ (Old \cup New)
           /\ Cardinality(forwarded \cup {p}) = free[to_space]
<1>1. IsFiniteSet(Old) /\ Cardinality(Old) = free[from_space] - 1
  BY OldCount
<1>2. forwarded \in SUBSET Old /\ forwarded # Old
  BY Spaces
<1>3. IsFiniteSet(forwarded) /\ Cardinality(forwarded) < Cardinality(Old)
  <2>1. /\ IsFiniteSet(forwarded) /\ Cardinality(forwarded) <= Cardinality(Old)
        /\ Cardinality(forwarded) # Cardinality(Old)
    BY <1>1, <1>2, FS_Subset
  <2> QED BY <2>1, <1>1, FS_CardinalityType
<1>4. Cardinality(forwarded) = free[to_space] - 1
  BY DEF IInv, Copies
<1>5. free[to_space] < free[from_space] /\ free[to_space] <= SpaceSize
  BY <1>1, <1>3, <1>4, Spaces
<1>6. <<to_space, free[to_space]>> \in CheneyAddr \ (Old \cup New)
  BY <1>5, Spaces DEF CheneyAddr, Old, New
<1>7. Cardinality(forwarded \cup {p}) = free[to_space]
  <2>1. Cardinality(forwarded \cup {p}) = Cardinality(forwarded) + 1
    BY <1>3, FS_AddElement
  <2> QED BY <2>1, <1>4, Spaces
<1> QED BY <1>5, <1>6, <1>7

-----------------------------------------------------------------------------
\* What forward returns for an object that has not been forwarded ...
LEMMA ForwardOld ==
    ASSUME IInv, Collecting, NEW p \in Old \ forwarded
    PROVE  forward(p) = Copied(p, <<to_space, free[to_space]>>)
BY Spaces, NullAssumption DEF forward, Old

\* ... and for any other pointer: it changes nothing but the slot.
LEMMA ForwardOther ==
    ASSUME IInv, Collecting, NEW p \in Old \cup New \cup {Null}, p \notin Old \ forwarded
    PROVE  /\ forward(p) = [to |-> CheneyObject(p), field |-> field, free |-> free,
                            forwarded |-> forwarded]
           /\ CheneyObject(p) \in New \cup {Null}
<1>1. CASE p = Null
  BY <1>1, Spaces, NullAssumption DEF forward, CheneyObject
<1>2. CASE p \in New
  BY <1>2, Spaces DEF forward, CheneyObject, New
<1>3. CASE p \in forwarded
  BY <1>3, Spaces, NullAssumption DEF forward, CheneyObject, Old, IInv, Fields
<1> QED BY <1>1, <1>2, <1>3

-----------------------------------------------------------------------------
\* The objects that a pointer can stand for: those of to-space, and those of
\* from-space that have not been copied
Live == (Old \ forwarded) \cup New

\* What the program reaches is among them.
LEMMA ReachableLive ==
    ASSUME IInv
    PROVE  Graph!Closed(Live) /\ Graph!Reachable \subseteq Live /\ Live \subseteq CheneyAddr
<1>1. Live \subseteq CheneyAddr
  BY Spaces DEF Live
<1>2. \A p \in Old \cup New \cup {Null} : CheneyObject(p) \in Live \cup {Null}
  BY Spaces, NullAssumption DEF Live, CheneyObject, IInv, Fields
<1>3. Graph!Closed(Live)
  <2>1. \A s \in Slot : root[s] \in Live \cup {Null}
    BY <1>2 DEF root, IInv, Variables
  <2>2. \A a \in Live : next[a] \in Live \cup {Null}
    BY <1>1, <1>2, Spaces DEF next, IInv, Fields, Live
  <2> QED BY <2>1, <2>2 DEF Graph!Closed
<1> QED BY <1>1, <1>3 DEF Graph!Reachable

\* Variables refer to objects that the program reaches, and so do these.
LEMMA ReachableClosed ==
    ASSUME IInv
    PROVE  Graph!Closed(Graph!Reachable)
<1>1. Graph!Closed(Live) /\ Live \subseteq CheneyAddr
  BY ReachableLive
<1>2. ASSUME NEW s \in Slot PROVE root[s] \in Graph!Reachable \cup {Null}
  BY <1>1 DEF Graph!Closed, Graph!Reachable
<1>3. ASSUME NEW a \in Graph!Reachable PROVE next[a] \in Graph!Reachable \cup {Null}
  BY <1>1 DEF Graph!Closed, Graph!Reachable
<1> QED BY <1>2, <1>3 DEF Graph!Closed

\* A step of a collection that copies the object at p to q, and stores q in slots
\* that held p, moves one object of the graph.
LEMMA CopyMoves ==
    ASSUME IInv, NEW p \in Old \ forwarded, NEW q \in CheneyAddr \ (Old \cup New),
           forwarded' = forwarded \cup {p},
           \A s \in Slot : slot'[s] = slot[s] \/ (slot[s] = p /\ slot'[s] = q),
           field'[p] = q, field'[q] = field[p],
           \A a \in forwarded : field'[a] = field[a],
           \A a \in Live \ {p} : field'[a] = field[a] \/ (field[a] = p /\ field'[a] = q)
    PROVE  Graph!Move
<1> DEFINE moved(x) == IF x = p THEN q ELSE x
           m == [a \in Graph!Reachable |-> moved(a)]
           to(x) == IF x = Null THEN Null ELSE m[x]
           after(x) == IF x \in forwarded' THEN field'[x] ELSE x
<1>1. Graph!Reachable \subseteq Live /\ q \notin Live /\ p \in CheneyAddr /\ q # Null
      /\ p # Null /\ Live \subseteq CheneyAddr /\ q \notin forwarded' /\ Old \subseteq CheneyAddr
  BY ReachableLive, Spaces, NullAssumption DEF Live
<1>2. ASSUME NEW x \in Old \cup New \cup {Null}
      PROVE  after(x) = moved(CheneyObject(x))
  <2>1. CASE x \in forwarded
    BY <2>1, Spaces DEF CheneyObject, IInv, Fields
  <2>2. CASE x = p
    BY <2>2 DEF CheneyObject
  <2>3. CASE x \notin forwarded /\ x # p
    BY <2>3 DEF CheneyObject
  <2> QED BY <2>1, <2>2, <2>3
<1>3. \A x \in Graph!Reachable \cup {Null} : to(x) = moved(x)
  BY <1>1
<1>4. m \in [Graph!Reachable -> CheneyAddr]
  BY <1>1
<1>5. \A a, b \in Graph!Reachable : m[a] = m[b] => a = b
  BY <1>1
<1>6. root' = [s \in Slot |-> to(root[s])]
  <2>1. ASSUME NEW s \in Slot PROVE after(slot'[s]) = to(root[s])
    <3>1. root[s] \in Graph!Reachable \cup {Null} /\ root[s] = CheneyObject(slot[s])
      BY ReachableClosed DEF Graph!Closed, root
    <3>2. to(root[s]) = moved(CheneyObject(slot[s]))
      BY <3>1, <1>3
    <3>3. CASE slot'[s] = slot[s]
      <4>1. slot[s] \in Old \cup New \cup {Null}
        BY DEF IInv, Variables
      <4> QED BY <4>1, <3>2, <3>3, <1>2
    <3>4. CASE slot[s] = p /\ slot'[s] = q
      BY <3>4, <3>2, <1>1 DEF CheneyObject
    <3> QED BY <3>3, <3>4
  <2>2. root' = [s \in Slot |-> after(slot'[s])]
    BY DEF root, CheneyObject
  <2> HIDE DEF to, after
  <2> QED BY <2>1, <2>2
<1>7. ASSUME NEW a \in Graph!Reachable PROVE next'[m[a]] = to(next[a])
  <2>1. next[a] \in Graph!Reachable \cup {Null} /\ next[a] = CheneyObject(field[a])
    BY ReachableClosed, <1>1 DEF Graph!Closed, next
  <2>2. to(next[a]) = moved(CheneyObject(field[a]))
    BY <2>1, <1>3
  <2>3. a \in Live /\ field[a] \in Old \cup New \cup {Null}
    BY <1>1, Spaces DEF IInv, Fields, Live
  <2>4. next'[m[a]] = after(field'[m[a]])
    <3>1. m[a] \in CheneyAddr
      BY <1>4
    <3>2. next' = [b \in CheneyAddr |-> after(field'[b])]
      BY DEF next, CheneyObject
    <3> HIDE DEF m, after
    <3> QED BY <3>1, <3>2
  <2>5. CASE a = p
    <3>1. m[a] = q
      BY <2>5
    <3>2. after(field[p]) = moved(CheneyObject(field[p]))
      BY <2>3, <2>5, <1>2
    <3> HIDE DEF m, to, moved, after
    <3> QED BY <3>1, <3>2, <2>2, <2>4, <2>5
  <2>6. CASE a # p
    <3>1. m[a] = a
      BY <2>6
    <3>2. CASE field'[a] = field[a]
      <4>1. after(field[a]) = moved(CheneyObject(field[a]))
        BY <2>3, <1>2, <3>2
      <4> HIDE DEF m, to, moved, after
      <4> QED BY <4>1, <3>1, <3>2, <2>2, <2>4
    <3>3. CASE field[a] = p /\ field'[a] = q
      <4>1. after(q) = q /\ CheneyObject(p) = p
        BY <1>1 DEF CheneyObject
      <4>2. moved(p) = q
        OBVIOUS
      <4> HIDE DEF m, to, moved, after
      <4> QED BY <4>1, <4>2, <3>1, <3>3, <2>2, <2>4
    <3> QED BY <3>2, <3>3, <2>3, <2>6
  <2> QED BY <2>5, <2>6
<1> HIDE DEF m
<1> QED BY <1>4, <1>5, <1>6, <1>7 DEF Graph!Move

\* A step that copies nothing, but stores what pointers stand for in slots, does
\* not change the graph.
LEMMA SameGraph ==
    ASSUME IInv, forwarded' = forwarded,
           \A s \in Slot : slot'[s] = slot[s] \/ slot'[s] = CheneyObject(slot[s]),
           \A a \in CheneyAddr :
               field'[a] = field[a]
               \/ (/\ a \notin forwarded /\ field[a] \in Old \cup New \cup {Null}
                   /\ field'[a] = CheneyObject(field[a]))
    PROVE  UNCHANGED <<root, next>>
<1>1. \A a \in forwarded : field'[a] = field[a]
  BY Spaces
<1> DEFINE after(x) == IF x \in forwarded' THEN field'[x] ELSE x
<1>2. \A x : after(x) = CheneyObject(x)
  BY <1>1 DEF CheneyObject
<1>3. \A x \in Old \cup New \cup {Null} : CheneyObject(CheneyObject(x)) = CheneyObject(x)
  BY Spaces, NullAssumption DEF CheneyObject, IInv, Fields
<1>4. root' = [s \in Slot |-> after(slot'[s])] /\ next' = [a \in CheneyAddr |-> after(field'[a])]
  BY DEF root, next, CheneyObject
<1> HIDE DEF after
<1>5. ASSUME NEW s \in Slot PROVE after(slot'[s]) = CheneyObject(slot[s])
  <2>1. slot[s] \in Old \cup New \cup {Null}
    BY DEF IInv, Variables
  <2> QED BY <2>1, <1>2, <1>3
<1>6. ASSUME NEW a \in CheneyAddr PROVE after(field'[a]) = CheneyObject(field[a])
  BY <1>2, <1>3
<1> QED BY <1>4, <1>5, <1>6 DEF root, next

-----------------------------------------------------------------------------
\* What a step of a collection leaves alone
Frame == UNCHANGED <<barriered, request, from_space>>

\* A step of a collection that copies the object at p to q keeps the invariant if
\* the roots it takes from todo, and the fields it passes, become q.
LEMMA CopyKeeps ==
    ASSUME IInv, Collecting, NEW p \in Old \ forwarded,
           NEW q, q = <<to_space, free[to_space]>>, Frame,
           free' = [free EXCEPT ![to_space] = @ + 1], forwarded' = forwarded \cup {p},
           slot' \in [Slot -> CheneyAddr \cup {Null}],
           \A s \in Slot : IF s \in todo \ todo' THEN slot'[s] = q ELSE slot'[s] = slot[s],
           field' \in [CheneyAddr -> CheneyAddr \cup {Null}],
           field'[p] = q, field'[q] = field[p],
           \A a \in Old \ {p} : field'[a] = field[a],
           \A a \in New : field'[a] = IF a[2] = cur /\ cur' # cur THEN q ELSE field[a],
           cur' \in {cur, cur + 1}, cur' # cur => cur < free[to_space],
           todo' \subseteq todo, mode' \in {"roots", "region"},
           mode' = "roots" => cur' = 1 /\ todo' # {}, mode' = "region" => todo' = {}
    PROVE  IInv'
<1>1. /\ free[to_space] < free[from_space] /\ free[to_space] <= SpaceSize
      /\ q \in CheneyAddr \ (Old \cup New)
      /\ Cardinality(forwarded \cup {p}) = free[to_space]
  BY Room
<1>2. /\ to_space' = to_space /\ from_space' = from_space
      /\ free'[from_space] = free[from_space] /\ free'[to_space] = free[to_space] + 1
      /\ free' \in [{1, 2} -> 1 .. SpaceSize + 1]
  BY <1>1, Spaces DEF Frame, to_space, IInv, TypeOK
<1>3. Old' = Old
  BY <1>2 DEF Old
<1>4. New' = New \cup {q}
  <2>1. ASSUME NEW a \in CheneyAddr
        PROVE  a \in New' <=> a \in New \cup {q}
    <3>1. a = <<a[1], a[2]>> /\ a[2] \in Nat
      BY DEF CheneyAddr
    <3> QED BY <3>1, <1>2, Spaces DEF New
  <2> QED BY <2>1, <1>1, Spaces DEF New
<1>5. cur \in 1 .. SpaceSize + 1 /\ cur <= free[to_space] /\ cur' <= free[to_space]
  BY Spaces DEF IInv, TypeOK, Copies
<1>6. TypeOK'
  <2>1. cur' \in 1 .. SpaceSize + 1
    BY <1>1, <1>5, Spaces
  <2>2. barriered' = barriered /\ request' = request /\ Roots' = Roots
    BY DEF Frame, Roots
  <2> QED BY <2>1, <2>2, <1>2, <1>3, Spaces DEF IInv, TypeOK
<1>7. Variables'
  <2>1. barriered' = barriered /\ Collecting'
    BY DEF Frame, Collecting
  <2>2. \A s \in Slot : slot'[s] \in IF s \notin todo' THEN New' \cup {Null} ELSE Old' \cup {Null}
    BY <1>3, <1>4 DEF IInv, Variables
  <2>3. \A g \in Global \ barriered : g \in Slot /\ g \notin todo
    BY SlotAssumption DEF IInv, TypeOK, Roots, Slot
  <2> QED BY <2>1, <2>2, <2>3 DEF IInv, Variables
<1>8. Fields'
  <2>1. \A a \in Old : field'[a] \in IF a \in forwarded' THEN New' ELSE Old \cup {Null}
    BY <1>4, Spaces DEF IInv, Fields
  <2>2. ASSUME NEW a \in New
        PROVE  field'[a] \in IF a[2] < cur' THEN New' \cup {Null} ELSE Old \cup {Null}
    <3>1. a[2] \in Nat /\ cur \in Nat
      BY <1>5, Spaces DEF CheneyAddr
    <3>2. field[a] \in IF a[2] < cur THEN New \cup {Null} ELSE Old \cup {Null}
      BY DEF IInv, Fields
    <3>3. CASE a[2] = cur /\ cur' # cur
      BY <3>1, <3>3, <1>4
    <3>4. CASE ~(a[2] = cur /\ cur' # cur)
      <4>1. field'[a] = field[a] /\ (a[2] < cur' <=> a[2] < cur)
        BY <3>1, <3>4
      <4> QED BY <4>1, <3>2, <1>4
    <3> QED BY <3>3, <3>4
  <2>3. field'[q] \in Old \cup {Null} /\ ~(q[2] < cur')
    BY <1>5, Spaces DEF IInv, Fields
  <2> QED BY <2>1, <2>2, <2>3, <1>3, <1>4 DEF Fields
<1>9. Copies'
  BY <1>1, <1>2, <1>5, Spaces DEF Copies
<1>10. Stages'
  BY DEF Stages, Collecting
<1> QED BY <1>6, <1>7, <1>8, <1>9, <1>10 DEF IInv

\* The same if nothing is copied and the pointers become v, the object that the
\* slot of a root s or the field that is passed stood for.
LEMMA OtherKeeps ==
    ASSUME IInv, Collecting, NEW v \in New \cup {Null}, Frame,
           UNCHANGED <<free, forwarded>>,
           slot' \in [Slot -> CheneyAddr \cup {Null}],
           \A s \in Slot : IF s \in todo \ todo' THEN slot'[s] = v ELSE slot'[s] = slot[s],
           field' \in [CheneyAddr -> CheneyAddr \cup {Null}],
           \A a \in Old : field'[a] = field[a],
           \A a \in New : field'[a] = IF a[2] = cur /\ cur' # cur THEN v ELSE field[a],
           cur' \in {cur, cur + 1}, cur' # cur => cur < free[to_space],
           todo' \subseteq todo, mode' \in {"roots", "region"},
           mode' = "roots" => cur' = 1 /\ todo' # {}, mode' = "region" => todo' = {}
    PROVE  IInv'
<1>1. to_space' = to_space /\ from_space' = from_space /\ Old' = Old /\ New' = New
      /\ Roots' = Roots /\ barriered' = barriered /\ request' = request /\ Collecting'
  BY DEF Frame, to_space, Old, New, Roots, Collecting
<1>2. cur \in 1 .. SpaceSize + 1 /\ cur <= free[to_space] /\ cur' <= free[to_space]
  BY Spaces DEF IInv, TypeOK, Copies
<1>3. TypeOK'
  <2>1. cur' \in 1 .. SpaceSize + 1
    BY <1>2, Spaces
  <2> QED BY <2>1, <1>1 DEF IInv, TypeOK
<1>4. Variables'
  <2>1. \A g \in Global \ barriered : g \in Slot /\ g \notin todo
    BY SlotAssumption DEF IInv, TypeOK, Roots, Slot
  <2> QED BY <2>1, <1>1 DEF IInv, Variables
<1>5. Fields'
  <2>1. ASSUME NEW a \in New
        PROVE  field'[a] \in IF a[2] < cur' THEN New \cup {Null} ELSE Old \cup {Null}
    <3>1. a[2] \in Nat /\ cur \in Nat
      BY <1>2, Spaces DEF CheneyAddr
    <3>2. field[a] \in IF a[2] < cur THEN New \cup {Null} ELSE Old \cup {Null}
      BY DEF IInv, Fields
    <3>3. CASE a[2] = cur /\ cur' # cur
      BY <3>1, <3>3
    <3>4. CASE ~(a[2] = cur /\ cur' # cur)
      BY <3>1, <3>2, <3>4
    <3> QED BY <3>3, <3>4
  <2> QED BY <2>1, <1>1 DEF IInv, Fields
<1>6. Copies'
  BY <1>1, <1>2 DEF IInv, Copies
<1>7. Stages'
  BY DEF Stages, Collecting
<1> QED BY <1>3, <1>4, <1>5, <1>6, <1>7 DEF IInv

-----------------------------------------------------------------------------
\* What a step does to the graph, and that it keeps the invariant
Good == IInv' /\ [Graph!Next]_<<root, next>>

\* A root is forwarded.
LEMMA RootStep ==
    ASSUME IInv, forward_root
    PROVE  Good
<1> DEFINE s == CHOOSE r \in todo : TRUE
           x == slot[s]
           q == <<to_space, free[to_space]>>
<1>1. /\ mode = "roots" /\ Collecting /\ cur = 1 /\ s \in todo /\ s \in Slot
      /\ x \in Old \cup {Null} /\ todo' = todo \ {s}
      /\ mode' = IF todo = {s} THEN "region" ELSE "roots"
      /\ slot' = [slot EXCEPT ![s] = forward(x).to] /\ field' = forward(x).field
      /\ free' = forward(x).free /\ forwarded' = forward(x).forwarded
      /\ cur' = cur /\ Frame
  <2>1. s \in todo /\ mode = "roots" /\ cur = 1 /\ Collecting
    BY DEF forward_root, IInv, Stages, Collecting
  <2>2. s \in Slot
    BY <2>1 DEF IInv, TypeOK, Roots, Slot
  <2>3. x \in Old \cup {Null}
    BY <2>1, <2>2 DEF IInv, Variables
  <2> QED BY <2>1, <2>2, <2>3 DEF forward_root, Frame
<1>2. /\ slot \in [Slot -> CheneyAddr \cup {Null}]
      /\ field \in [CheneyAddr -> CheneyAddr \cup {Null}]
      /\ todo' \subseteq todo /\ todo \ todo' = {s}
      /\ mode' \in {"roots", "region"}
      /\ mode' = "roots" => cur' = 1 /\ todo' # {}
      /\ mode' = "region" => todo' = {}
  BY <1>1 DEF IInv, TypeOK
<1> HIDE DEF s, q
<1>3. CASE x \in Old \ forwarded
  <2>1. q \in CheneyAddr \ (Old \cup New) /\ x \in CheneyAddr /\ q # x
    BY <1>3, Room, Spaces DEF q
  <2>2. /\ forward(x).to = q
        /\ forward(x).field = [field EXCEPT ![q] = field[x], ![x] = q]
        /\ forward(x).free = [free EXCEPT ![to_space] = @ + 1]
        /\ forward(x).forwarded = forwarded \cup {x}
    <3>1. forward(x) = Copied(x, q)
      BY <1>1, <1>3, ForwardOld DEF q
    <3> QED BY <3>1 DEF Copied
  <2>3. /\ slot' \in [Slot -> CheneyAddr \cup {Null}]
        /\ slot'[s] = q /\ \A r \in Slot : r # s => slot'[r] = slot[r]
    BY <1>1, <1>2, <2>1, <2>2
  <2>4. /\ field' \in [CheneyAddr -> CheneyAddr \cup {Null}]
        /\ field'[x] = q /\ field'[q] = field[x]
        /\ \A a \in CheneyAddr : a # x /\ a # q => field'[a] = field[a]
    BY <1>1, <1>2, <2>1, <2>2
  <2>5. free' = [free EXCEPT ![to_space] = @ + 1] /\ forwarded' = forwarded \cup {x}
    BY <1>1, <2>2
  <2> DEFINE p == x
  <2>6. p \in Old \ forwarded
    BY <1>3
  <2>7. \A r \in Slot : slot'[r] = slot[r] \/ (slot[r] = p /\ slot'[r] = q)
    BY <2>3
  <2>8. \A a \in Old \cup New : a # p => field'[a] = field[a]
    BY <2>4, <2>1, Spaces
  <2>9. \A r \in Slot : IF r \in todo \ todo' THEN slot'[r] = q ELSE slot'[r] = slot[r]
    BY <2>3, <1>2
  <2>10. p \notin New /\ p \notin forwarded
    BY <2>6, Spaces
  <2>11. field'[p] = q /\ field'[q] = field[p] /\ forwarded' = forwarded \cup {p}
    BY <2>4, <2>5
  <2>12. q = <<to_space, free[to_space]>>
    BY DEF q
  <2> HIDE DEF p
  <2>13. IInv'
    BY <1>1, <1>2, <2>1, <2>3, <2>4, <2>5, <2>6, <2>8, <2>9, <2>10, <2>11, <2>12, CopyKeeps
  <2>14. \A a \in Live \ {p} : field'[a] = field[a]
    BY <2>8 DEF Live
  <2>15. \A a \in forwarded : field'[a] = field[a]
    BY <2>8, <2>10, Spaces
  <2>16. Graph!Move
    BY <2>1, <2>6, <2>7, <2>11, <2>14, <2>15, CopyMoves
  <2> QED BY <2>13, <2>16 DEF Good, Graph!Next
<1>4. CASE x \notin Old \ forwarded
  <2> DEFINE v == CheneyObject(x)
  <2>1. /\ forward(x).to = v /\ forward(x).field = field /\ forward(x).free = free
        /\ forward(x).forwarded = forwarded /\ v \in New \cup {Null}
    BY <1>1, <1>4, ForwardOther
  <2>2. /\ slot'[s] = v /\ \A r \in Slot : r # s => slot'[r] = slot[r]
        /\ slot' \in [Slot -> CheneyAddr \cup {Null}]
    BY <1>1, <1>2, <2>1, Spaces
  <2>3. UNCHANGED <<field, free, forwarded>>
    BY <1>1, <2>1
  <2>4. \A r \in Slot : IF r \in todo \ todo' THEN slot'[r] = v ELSE slot'[r] = slot[r]
    BY <2>2, <1>2
  <2>5. \A r \in Slot : slot'[r] = slot[r] \/ slot'[r] = CheneyObject(slot[r])
    BY <2>2
  <2> HIDE DEF v
  <2>6. IInv'
    BY <1>1, <1>2, <2>1, <2>2, <2>3, <2>4, OtherKeeps
  <2>7. UNCHANGED <<root, next>>
    BY <2>3, <2>5, SameGraph
  <2> QED BY <2>6, <2>7 DEF Good
<1> QED BY <1>3, <1>4

\* The next object of to-space is passed, and its field is forwarded.
LEMMA RegionStep ==
    ASSUME IInv, forward_region
    PROVE  Good
<1> DEFINE b == <<to_space, cur>>
           x == field[b]
           q == <<to_space, free[to_space]>>
<1>1. /\ mode = "region" /\ Collecting /\ todo = {} /\ cur < free[to_space]
      /\ field' = [forward(x).field EXCEPT ![b] = forward(x).to]
      /\ free' = forward(x).free /\ forwarded' = forward(x).forwarded
      /\ cur' = cur + 1 /\ todo' = todo /\ slot' = slot /\ mode' = mode /\ Frame
  BY DEF forward_region, IInv, Stages, Collecting, Frame
<1>2. /\ slot \in [Slot -> CheneyAddr \cup {Null}]
      /\ field \in [CheneyAddr -> CheneyAddr \cup {Null}]
      /\ cur \in Nat /\ cur # cur + 1
  BY Spaces DEF IInv, TypeOK
<1>3. b \in New /\ b \in CheneyAddr /\ b[2] = cur /\ x \in Old \cup {Null}
      /\ \A a \in New : a[2] = cur <=> a = b
  <2>1. b \in New
    BY <1>1, <1>2, Spaces DEF New, CheneyAddr, IInv, TypeOK
  <2>2. x \in Old \cup {Null}
    BY <2>1, <1>2 DEF IInv, Fields
  <2>3. \A a \in New : a[2] = cur <=> a = b
    BY DEF New, CheneyAddr
  <2> QED BY <2>1, <2>2, <2>3, Spaces
<1>4. /\ mode' \in {"roots", "region"} /\ cur' \in {cur, cur + 1}
      /\ \A r \in Slot : slot'[r] = slot[r] /\ r \notin todo \ todo'
      /\ mode' = "roots" => cur' = 1 /\ todo' # {}
      /\ mode' = "region" => todo' = {}
      /\ todo' \subseteq todo
  BY <1>1
<1> HIDE DEF b, q
<1>5. CASE x \in Old \ forwarded
  <2>1. /\ q \in CheneyAddr \ (Old \cup New) /\ x \in CheneyAddr /\ q # x /\ b # q /\ b # x
        /\ b \notin Old
    BY <1>3, <1>5, Room, Spaces DEF q
  <2>2. /\ forward(x).to = q
        /\ forward(x).field = [field EXCEPT ![q] = field[x], ![x] = q]
        /\ forward(x).free = [free EXCEPT ![to_space] = @ + 1]
        /\ forward(x).forwarded = forwarded \cup {x}
    <3>1. forward(x) = Copied(x, q)
      BY <1>1, <1>5, ForwardOld DEF q
    <3> QED BY <3>1 DEF Copied
  <2>3. /\ field' \in [CheneyAddr -> CheneyAddr \cup {Null}]
        /\ field'[x] = q /\ field'[q] = field[x] /\ field'[b] = q
        /\ \A a \in CheneyAddr : a # x /\ a # q /\ a # b => field'[a] = field[a]
    <3> DEFINE g == [field EXCEPT ![q] = field[x], ![x] = q]
    <3>1. /\ g \in [CheneyAddr -> CheneyAddr \cup {Null}] /\ g[x] = q /\ g[q] = field[x]
          /\ \A a \in CheneyAddr : a # x /\ a # q => g[a] = field[a]
      BY <1>2, <2>1
    <3>2. field' = [g EXCEPT ![b] = q]
      BY <1>1, <2>2
    <3> HIDE DEF g
    <3> QED BY <3>1, <3>2, <2>1, <1>3
  <2>4. free' = [free EXCEPT ![to_space] = @ + 1]
    BY <1>1, <2>2
  <2> DEFINE p == x
  <2>5. p \in Old \ forwarded /\ p \notin New /\ p # b /\ field[b] = p
    BY <1>3, <1>5, Spaces
  <2>6. /\ field'[p] = q /\ field'[q] = field[p] /\ forwarded' = forwarded \cup {p}
        /\ \A a \in CheneyAddr : a # p /\ a # q /\ a # b => field'[a] = field[a]
    BY <1>1, <2>2, <2>3
  <2>7. q = <<to_space, free[to_space]>>
    BY DEF q
  <2> HIDE DEF p
  <2>8. \A a \in Old \ {p} : field'[a] = field[a]
    BY <2>1, <2>6, Spaces
  <2>9. \A a \in New : field'[a] = IF a[2] = cur /\ cur' # cur THEN q ELSE field[a]
    BY <1>1, <1>2, <1>3, <2>1, <2>3, <2>5, <2>6, Spaces
  <2>10. slot' \in [Slot -> CheneyAddr \cup {Null}]
    BY <1>1, <1>2
  <2>11. IInv'
    BY <1>1, <1>4, <2>3, <2>4, <2>5, <2>6, <2>7, <2>8, <2>9, <2>10, CopyKeeps
  <2>12. \A a \in Live \ {p} : field'[a] = field[a] \/ (field[a] = p /\ field'[a] = q)
    BY <2>1, <2>3, <2>5, <2>6, Spaces DEF Live
  <2>13. \A a \in forwarded : field'[a] = field[a]
    BY <2>5, <2>8, Spaces
  <2>14. Graph!Move
    BY <2>1, <1>4, <2>5, <2>6, <2>12, <2>13, CopyMoves
  <2> QED BY <2>11, <2>14 DEF Good, Graph!Next
<1>6. CASE x \notin Old \ forwarded
  <2> DEFINE v == CheneyObject(x)
  <2>1. /\ forward(x).to = v /\ forward(x).field = field /\ forward(x).free = free
        /\ forward(x).forwarded = forwarded /\ v \in New \cup {Null}
    BY <1>1, <1>3, <1>6, ForwardOther
  <2>2. v = CheneyObject(field[b])
    OBVIOUS
  <2> HIDE DEF v
  <2>3. /\ field' \in [CheneyAddr -> CheneyAddr \cup {Null}] /\ field'[b] = v
        /\ \A a \in CheneyAddr : a # b => field'[a] = field[a]
    BY <1>1, <1>2, <1>3, <2>1, Spaces
  <2>4. UNCHANGED <<slot, free, forwarded>> /\ slot' \in [Slot -> CheneyAddr \cup {Null}]
    BY <1>1, <1>2, <2>1
  <2>5. \A a \in Old : field'[a] = field[a]
    BY <2>3, <1>3, Spaces
  <2>6. \A a \in New : field'[a] = IF a[2] = cur /\ cur' # cur THEN v ELSE field[a]
    BY <1>1, <1>2, <1>3, <2>3, Spaces
  <2>7. IInv'
    BY <1>1, <1>4, <2>1, <2>3, <2>4, <2>5, <2>6, OtherKeeps
  <2>8. b \notin forwarded /\ field[b] \in Old \cup New \cup {Null}
    BY <1>3, Spaces
  <2>9. UNCHANGED <<root, next>>
    BY <2>2, <2>3, <2>4, <2>8, SameGraph
  <2> QED BY <2>7, <2>9 DEF Good
<1> QED BY <1>5, <1>6

\* An object that something outside of the heap needs is copied.
LEMMA DeepStep ==
    ASSUME IInv, forward_deep
    PROVE  Good
<1>1. PICK i \in 1 .. free[from_space] - 1 :
         LET p == <<from_space, i>>
         IN  /\ p \notin forwarded
             /\ field' = forward(p).field /\ free' = forward(p).free
             /\ forwarded' = forward(p).forwarded
             /\ UNCHANGED <<slot, barriered, request, mode, from_space, todo, cur>>
  BY DEF forward_deep
<1> DEFINE p == <<from_space, i>>
           q == <<to_space, free[to_space]>>
<1>2. /\ mode = "region" /\ Collecting /\ todo = {} /\ p \notin forwarded
      /\ field' = forward(p).field
      /\ free' = forward(p).free /\ forwarded' = forward(p).forwarded
      /\ cur' = cur /\ todo' = todo /\ slot' = slot /\ mode' = mode /\ Frame
  BY <1>1 DEF forward_deep, IInv, Stages, Collecting, Frame
<1>3. /\ slot \in [Slot -> CheneyAddr \cup {Null}]
      /\ field \in [CheneyAddr -> CheneyAddr \cup {Null}]
  BY DEF IInv, TypeOK
<1>4. p \in Old \ forwarded /\ p \notin New
  BY <1>2, Spaces DEF Old, New, CheneyAddr
<1> HIDE DEF q, p
<1>5. /\ mode' \in {"roots", "region"} /\ cur' \in {cur, cur + 1}
      /\ \A r \in Slot : slot'[r] = slot[r] /\ r \notin todo \ todo'
      /\ mode' = "roots" => cur' = 1 /\ todo' # {}
      /\ mode' = "region" => todo' = {}
      /\ todo' \subseteq todo
  BY <1>2
<1>6. q \in CheneyAddr \ (Old \cup New) /\ p \in CheneyAddr /\ q # p
  BY <1>4, Room, Spaces DEF q
<1>7. /\ forward(p).field = [field EXCEPT ![q] = field[p], ![p] = q]
      /\ free' = [free EXCEPT ![to_space] = @ + 1]
      /\ forwarded' = forwarded \cup {p}
  BY <1>2, <1>4, ForwardOld DEF Copied, q
<1>8. /\ field' \in [CheneyAddr -> CheneyAddr \cup {Null}]
      /\ field'[p] = q /\ field'[q] = field[p]
      /\ \A a \in CheneyAddr : a # p /\ a # q => field'[a] = field[a]
  BY <1>2, <1>3, <1>6, <1>7
<1>9. \A a \in Old \cup New : a # p => field'[a] = field[a]
  BY <1>6, <1>8, Spaces
<1>10. q = <<to_space, free[to_space]>>
  BY DEF q
<1>11. slot' \in [Slot -> CheneyAddr \cup {Null}]
  BY <1>2, <1>3
<1>12. IInv'
  <2>1. \A a \in Old \ {p} : field'[a] = field[a]
    BY <1>9
  <2>2. \A a \in New : field'[a] = IF a[2] = cur /\ cur' # cur THEN q ELSE field[a]
    BY <1>2, <1>4, <1>9
  <2>3. \A r \in Slot : IF r \in todo \ todo' THEN slot'[r] = q ELSE slot'[r] = slot[r]
    BY <1>5
  <2>4. Collecting /\ Frame /\ (cur' # cur => cur < free[to_space])
    BY <1>2
  <2> QED BY <2>1, <2>2, <2>3, <2>4, <1>4, <1>5, <1>7, <1>8, <1>10, <1>11, CopyKeeps
<1>13. \A a \in Live \ {p} : field'[a] = field[a]
  BY <1>9 DEF Live
<1>14. \A a \in forwarded : field'[a] = field[a]
  BY <1>9, <1>4, Spaces
<1>15. Graph!Move
  BY <1>4, <1>5, <1>6, <1>7, <1>8, <1>13, <1>14, CopyMoves
<1> QED BY <1>12, <1>15 DEF Good, Graph!Next

\* The collection ends: whatever the program reaches has been copied, so nothing
\* of it is in from-space, which is cleared.
LEMMA EndStep ==
    ASSUME IInv, do_gc_end
    PROVE  Good
<1>1. /\ mode = "region" /\ Collecting /\ todo = {} /\ cur = free[to_space]
      /\ field' = heap_space_clear(from_space) /\ free' = [free EXCEPT ![from_space] = 1]
      /\ from_space' = to_space /\ forwarded' = {} /\ cur' = 1 /\ todo' = {}
      /\ mode' = IF request = <<>> THEN "run" ELSE "retry"
      /\ UNCHANGED <<slot, barriered, request>>
  BY DEF do_gc_end, IInv, Stages, Collecting
<1>2. /\ slot \in [Slot -> CheneyAddr \cup {Null}]
      /\ field \in [CheneyAddr -> CheneyAddr \cup {Null}]
      /\ free \in [{1, 2} -> 1 .. SpaceSize + 1]
  BY DEF IInv, TypeOK
<1>3. \A s \in Slot : slot[s] \in New \cup {Null}
  BY <1>1 DEF IInv, Variables
<1>4. \A a \in New : field[a] \in New \cup {Null}
  BY <1>1, Spaces DEF New, CheneyAddr, IInv, Fields
<1>5. \A x \in New \cup {Null} : CheneyObject(x) = x
  BY Spaces, NullAssumption DEF CheneyObject
<1>6. Graph!Closed(New) /\ Graph!Reachable \subseteq New
  <2>1. \A s \in Slot : root[s] = slot[s]
    BY <1>3, <1>5 DEF root
  <2>2. \A a \in New : next[a] = field[a]
    BY <1>4, <1>5, Spaces DEF next
  <2>3. Graph!Closed(New)
    BY <2>1, <2>2, <1>3, <1>4 DEF Graph!Closed
  <2> QED BY <2>3, Spaces DEF Graph!Reachable
<1>7. \A a \in New : field'[a] = field[a]
  BY <1>1, Spaces DEF heap_space_clear, New
<1>8. /\ to_space' = from_space /\ free'[from_space] = 1 /\ free'[to_space] = free[to_space]
      /\ free' \in [{1, 2} -> 1 .. SpaceSize + 1]
  BY <1>1, <1>2, Spaces DEF to_space
<1>9. Old' = New /\ New' = {}
  BY <1>1, <1>8, Spaces DEF Old, New, CheneyAddr
<1>10. IInv'
  <2>1. ~Collecting' /\ barriered' = barriered /\ Roots' = Roots
    BY <1>1 DEF Collecting, Roots
  <2>2. TypeOK'
    <3>1. field' \in [CheneyAddr -> CheneyAddr \cup {Null}]
      BY <1>1, <1>2 DEF heap_space_clear
    <3>2. 1 \in 1 .. SpaceSize + 1
      BY Spaces
    <3> QED BY <3>1, <3>2, <2>1, <1>1, <1>8, Spaces DEF IInv, TypeOK
  <2>3. Variables'
    BY <2>1, <1>1, <1>3, <1>9 DEF IInv, Variables
  <2>4. Fields'
    BY <1>1, <1>4, <1>7, <1>9 DEF Fields
  <2>5. Copies'
    BY <1>1, <1>8, FS_EmptySet, Spaces DEF Copies
  <2>6. Stages'
    BY <1>1 DEF Stages, Collecting
  <2> QED BY <2>2, <2>3, <2>4, <2>5, <2>6 DEF IInv
<1>11. Graph!Move
  <2> DEFINE m == [a \in Graph!Reachable |-> a]
             to(x) == IF x = Null THEN Null ELSE m[x]
  <2>1. \A x \in Graph!Reachable \cup {Null} : to(x) = x
    OBVIOUS
  <2>2. m \in [Graph!Reachable -> CheneyAddr] /\ \A a \in Graph!Reachable : m[a] = a
    BY ReachableLive
  <2>3. /\ \A s \in Slot : root[s] \in Graph!Reachable \cup {Null}
        /\ \A a \in Graph!Reachable : next[a] \in Graph!Reachable \cup {Null}
    BY ReachableClosed DEF Graph!Closed
  <2> HIDE DEF m
  <2>4. root' = root
    BY <1>1, <1>3, <1>5 DEF root, CheneyObject
  <2>5. \A s \in Slot : to(root[s]) = root[s]
    BY <2>1, <2>3
  <2>6. root' = [s \in Slot |-> to(root[s])]
    BY <2>4, <2>5 DEF root
  <2>7. ASSUME NEW a \in Graph!Reachable PROVE next'[m[a]] = to(next[a])
    <3>1. a \in New /\ a \in CheneyAddr /\ m[a] = a
      BY <1>6, <2>2, Spaces
    <3>2. next[a] = field[a]
      BY <3>1, <1>4, <1>5 DEF next
    <3>3. next'[a] = field'[a]
      BY <3>1, <1>1 DEF next, CheneyObject
    <3>4. to(next[a]) = next[a]
      BY <2>1, <2>3
    <3> HIDE DEF to
    <3> QED BY <3>1, <3>2, <3>3, <3>4, <1>7
  <2>8. \A a, b \in Graph!Reachable : m[a] = m[b] => a = b
    BY <2>2
  <2> QED BY <2>2, <2>6, <2>7, <2>8 DEF Graph!Move
<1> QED BY <1>10, <1>11 DEF Good, Graph!Next

-----------------------------------------------------------------------------
\* Outside of a collection a pointer stands for itself.
LEMMA Identity ==
    ASSUME IInv, ~Collecting
    PROVE  /\ root = slot /\ next = field /\ forwarded = {} /\ cur = 1 /\ todo = {}
           /\ New = {} /\ free[to_space] = 1
           /\ \A s \in Slot : slot[s] \in Old \cup {Null}
           /\ \A a \in Old : field[a] \in Old \cup {Null}
           /\ Graph!Reachable \subseteq Old
<1>1. forwarded = {} /\ cur = 1 /\ todo = {}
  BY DEF IInv, Stages, Collecting
<1>2. root = slot /\ next = field
  BY <1>1 DEF root, next, CheneyObject, IInv, TypeOK
<1>3. free[to_space] = 1
  BY <1>1, FS_EmptySet, Spaces DEF IInv, Copies
<1>4. New = {}
  BY <1>3, Spaces DEF New, CheneyAddr
<1>5. \A s \in Slot : slot[s] \in Old \cup {Null}
  BY <1>1 DEF IInv, Variables
<1>6. \A a \in Old : field[a] \in Old \cup {Null}
  BY <1>1 DEF IInv, Fields
<1>7. Graph!Reachable \subseteq Old
  BY <1>4, ReachableLive DEF Live
<1> QED BY <1>1, <1>2, <1>3, <1>4, <1>5, <1>6, <1>7

\* ... also after a step.
LEMMA IdentityNext ==
    ASSUME forwarded' = {}, slot' \in [Slot -> CheneyAddr \cup {Null}],
           field' \in [CheneyAddr -> CheneyAddr \cup {Null}]
    PROVE  root' = slot' /\ next' = field'
BY DEF root, next, CheneyObject

\* A step of the program that is no allocation: it assigns an object that can be
\* reached to a variable, or to the field of one.
LEMMA AssignKeeps ==
    ASSUME IInv, ~Collecting, mode' = mode,
           UNCHANGED <<request, cheneyVars>>, barriered' \in {barriered} \cup {barriered \cup {g} : g \in Global},
           \A s \in Slot : slot'[s] \in Old \cup {Null}, slot' \in [Slot -> CheneyAddr \cup {Null}],
           \A g \in Global \ barriered' : slot'[g] = slot[g],
           barriered \subseteq barriered',
           field' \in [CheneyAddr -> CheneyAddr \cup {Null}],
           \A a \in Old : field'[a] \in Old \cup {Null}
    PROVE  IInv' /\ root' = slot' /\ next' = field'
<1>1. /\ Old' = Old /\ New' = New /\ to_space' = to_space /\ ~Collecting'
      /\ forwarded' = {} /\ forwarded = {} /\ cur' = 1 /\ todo' = {} /\ New = {} /\ free' = free
      /\ from_space' = from_space
  BY Identity DEF cheneyVars, Old, New, to_space, Collecting
<1>2. TypeOK'
  BY <1>1 DEF IInv, TypeOK, cheneyVars
<1>3. Variables'
  BY <1>1 DEF IInv, Variables
<1>4. Fields'
  BY <1>1 DEF Fields
<1>5. Copies'
  <2>1. forwarded' = forwarded /\ cur' = cur
    BY DEF cheneyVars
  <2> QED BY <2>1, <1>1 DEF IInv, Copies
<1>6. Stages'
  BY <1>1 DEF IInv, Stages, Collecting
<1> QED BY <1>1, <1>2, <1>3, <1>4, <1>5, <1>6, IdentityNext DEF IInv

\* Steps of compiled code.
LEMMA CompiledStep ==
    ASSUME IInv, compiled_code, UNCHANGED cheneyVars
    PROVE  Good
<1>1. ~Collecting /\ mode' = mode /\ barriered' = barriered /\ field' = field
      /\ UNCHANGED <<request, cheneyVars>>
  BY DEF compiled_code, Collecting
<1>2. PICK s \in Var, p \in Old \cup {Null} :
         /\ slot' = [slot EXCEPT ![s] = p]
         /\ \/ p = Null
            \/ \E t \in Slot : slot[t] # Null /\ (p = slot[t] \/ p = field[slot[t]])
  <2>1. PICK s, t \in Var : drop(s) \/ read(s, t) \/ \E g \in Global : copy(s, g)
    BY DEF compiled_code
  <2>2. CASE drop(s)
    BY <2>2 DEF drop
  <2>3. CASE read(s, t)
    <3>1. slot[t] \in Old /\ t \in Slot
      BY <2>3, <1>1, Identity DEF read, Slot
    <3>2. field[slot[t]] \in Old \cup {Null}
      BY <3>1, <1>1, Identity
    <3> QED BY <3>1, <3>2, <2>3, NullAssumption, Spaces DEF read
  <2>4. ASSUME NEW g \in Global, copy(s, g)
        PROVE  \E p \in Old \cup {Null} :
                   /\ slot' = [slot EXCEPT ![s] = p]
                   /\ \E t0 \in Slot : slot[t0] # Null /\ (p = slot[t0] \/ p = field[slot[t0]])
    <3>1. slot[g] \in Old \cup {Null} /\ g \in Slot
      BY <1>1, Identity DEF Slot
    <3> QED BY <3>1, <2>4 DEF copy
  <2> QED BY <2>1, <2>2, <2>3, <2>4
<1>3. /\ slot \in [Slot -> CheneyAddr \cup {Null}] /\ s \in Slot /\ s \notin Global
      /\ field \in [CheneyAddr -> CheneyAddr \cup {Null}]
      /\ p \in CheneyAddr \cup {Null}
  BY Spaces, SlotAssumption DEF IInv, TypeOK, Slot
<1>4. /\ slot' \in [Slot -> CheneyAddr \cup {Null}]
      /\ slot'[s] = p /\ \A r \in Slot : r # s => slot'[r] = slot[r]
  BY <1>2, <1>3
<1>5. /\ \A r \in Slot : slot'[r] \in Old \cup {Null}
      /\ \A g \in Global \ barriered' : slot'[g] = slot[g]
      /\ \A a \in Old : field'[a] \in Old \cup {Null}
  BY <1>1, <1>3, <1>4, Identity DEF Slot
<1>6. IInv' /\ root' = slot' /\ next' = field'
  BY <1>1, <1>3, <1>4, <1>5, AssignKeeps
<1>7. root = slot /\ next = field
  BY <1>1, Identity
<1>8. Graph!Assign(s, p)
  BY <1>1, <1>2, <1>6, <1>7 DEF Graph!Assign, Graph!ObjectsKept
<1>9. Graph!Next
  <2>1. CASE p = Null
    BY <1>3, <1>8, <2>1 DEF Graph!Next, Graph!Drop
  <2>2. CASE p # Null
    <3>1. PICK t \in Slot : slot[t] # Null /\ (p = slot[t] \/ p = field[slot[t]])
      BY <1>2, <2>2
    <3> QED BY <3>1, <1>3, <1>7, <1>8 DEF Graph!Next, Graph!Copy, Graph!Read
  <2> QED BY <2>1, <2>2
<1> QED BY <1>6, <1>9 DEF Good

\* sml_write.
LEMMA WriteStep ==
    ASSUME IInv, NEW s \in Slot, NEW t \in Var, cheney_write(s, t)
    PROVE  Good
<1>1. ~Collecting /\ mode' = mode /\ UNCHANGED <<request, cheneyVars>> /\ t \in Slot
  BY DEF cheney_write, Collecting, Slot
<1>2. /\ slot \in [Slot -> CheneyAddr \cup {Null}] /\ barriered \subseteq Global
      /\ field \in [CheneyAddr -> CheneyAddr \cup {Null}]
      /\ root = slot /\ next = field
      /\ \A r \in Slot : slot[r] \in Old \cup {Null}
      /\ \A a \in Old : field[a] \in Old \cup {Null}
      /\ Graph!Reachable \subseteq Old
  BY <1>1, Identity DEF IInv, TypeOK
<1>3. CASE s \in Global
  <2>1. /\ slot' = [slot EXCEPT ![s] = slot[t]] /\ barriered' = barriered \cup {s}
        /\ field' = field
    BY <1>3 DEF cheney_write
  <2>2. /\ slot' \in [Slot -> CheneyAddr \cup {Null}]
        /\ \A r \in Slot : slot'[r] \in Old \cup {Null}
        /\ \A g \in Global \ barriered' : slot'[g] = slot[g]
    BY <1>1, <1>2, <2>1, Spaces DEF Slot
  <2>3. IInv' /\ root' = slot' /\ next' = field'
    BY <1>1, <1>2, <1>3, <2>1, <2>2, AssignKeeps
  <2>4. Graph!Copy(s, t)
    BY <1>2, <2>1, <2>3 DEF Graph!Copy, Graph!Assign, Graph!ObjectsKept
  <2> QED BY <1>1, <2>3, <2>4 DEF Good, Graph!Next
<1>4. CASE s \notin Global
  <2>1. /\ slot[s] # Null /\ field' = [field EXCEPT ![slot[s]] = slot[t]]
        /\ slot' = slot /\ barriered' = barriered
    BY <1>4 DEF cheney_write
  <2>2. slot[s] \in Old /\ slot[s] \in CheneyAddr /\ slot[t] \in CheneyAddr \cup {Null}
    BY <1>1, <1>2, <2>1, Spaces
  <2>3. /\ field' \in [CheneyAddr -> CheneyAddr \cup {Null}]
        /\ \A a \in CheneyAddr : field'[a] = IF a = slot[s] THEN slot[t] ELSE field[a]
        /\ \A a \in Old : field'[a] \in Old \cup {Null}
    BY <1>1, <1>2, <2>1, <2>2, Spaces
  <2>4. IInv' /\ root' = slot' /\ next' = field'
    BY <1>1, <1>2, <2>1, <2>3, AssignKeeps
  <2>5. Graph!Write(s, t)
    BY <1>2, <2>1, <2>3, <2>4, Spaces DEF Graph!Write
  <2> QED BY <1>1, <2>4, <2>5 DEF Good, Graph!Next
<1> QED BY <1>3, <1>4

\* An object is allocated, at once or after a collection: nothing is there.
LEMMA AllocStep ==
    ASSUME IInv, NEW s \in Var, NEW t \in Var, ~Collecting, HEAP_REST(from_space) >= 1,
           Initialise(<<from_space, free[from_space]>>, s, t),
           free' = [free EXCEPT ![from_space] = @ + 1],
           UNCHANGED <<barriered, from_space, forwarded, todo, cur>>
    PROVE  Good
<1> DEFINE b == <<from_space, free[from_space]>>
<1>1. /\ slot \in [Slot -> CheneyAddr \cup {Null}] /\ barriered \subseteq Global
      /\ field \in [CheneyAddr -> CheneyAddr \cup {Null}]
      /\ free \in [{1, 2} -> 1 .. SpaceSize + 1]
      /\ root = slot /\ next = field /\ forwarded = {} /\ cur = 1 /\ todo = {}
      /\ \A r \in Slot : slot[r] \in Old \cup {Null}
      /\ \A a \in Old : field[a] \in Old \cup {Null}
      /\ Graph!Reachable \subseteq Old /\ New = {} /\ free[to_space] = 1
      /\ s \in Slot /\ t \in Slot /\ s \notin Global
  BY Identity, SlotAssumption DEF IInv, TypeOK, Slot
<1>2. free[from_space] \in 1 .. SpaceSize
  BY Spaces DEF HEAP_REST
<1>3. b \in CheneyAddr \ Old
  BY <1>2, Spaces DEF CheneyAddr, Old
<1>4. /\ field' = [field EXCEPT ![b] = slot[t]] /\ slot' = [slot EXCEPT ![s] = b]
      /\ request' = <<>> /\ mode' = "run"
  BY DEF Initialise
<1> HIDE DEF b
<1>5. /\ slot' \in [Slot -> CheneyAddr \cup {Null}]
      /\ field' \in [CheneyAddr -> CheneyAddr \cup {Null}]
      /\ slot'[s] = b /\ \A r \in Slot : r # s => slot'[r] = slot[r]
      /\ field'[b] = slot[t] /\ \A a \in CheneyAddr : a # b => field'[a] = field[a]
  BY <1>1, <1>3, <1>4
<1>6. /\ to_space' = to_space /\ free'[from_space] = free[from_space] + 1
      /\ free'[to_space] = 1 /\ free' \in [{1, 2} -> 1 .. SpaceSize + 1]
  BY <1>1, <1>2, Spaces DEF to_space
<1>7. Old' = Old \cup {b} /\ New' = {}
  <2>1. ASSUME NEW a \in CheneyAddr
        PROVE  (a[1] = from_space /\ a[2] < free[from_space] + 1) <=> a \in Old \cup {b}
    <3>1. a = <<a[1], a[2]>> /\ a[2] \in Nat
      BY DEF CheneyAddr
    <3> QED BY <3>1, <1>2 DEF Old, b
  <2>2. New' = {}
    BY <1>6, Spaces DEF New, CheneyAddr
  <2> QED BY <2>1, <2>2, <1>3, <1>6, Spaces DEF Old
<1>8. IInv'
  <2>1. ~Collecting' /\ Roots' = Roots
    BY <1>4 DEF Collecting, Roots
  <2>2. TypeOK'
    BY <2>1, <1>1, <1>4, <1>5, <1>6 DEF IInv, TypeOK
  <2>3. Variables'
    <3>1. \A r \in Slot : slot'[r] \in Old' \cup {Null}
      BY <1>1, <1>5, <1>7
    <3>2. \A g \in Global \ barriered : slot'[g] = Null
      BY <1>1, <1>5 DEF IInv, Variables, Slot
    <3> QED BY <2>1, <3>1, <3>2 DEF Variables
  <2>4. Fields'
    BY <1>1, <1>5, <1>7, Spaces DEF Fields
  <2>5. Copies'
    BY <1>1, <1>6, FS_EmptySet DEF Copies
  <2>6. Stages'
    BY <2>1, <1>1, <1>4 DEF Stages
  <2> QED BY <2>2, <2>3, <2>4, <2>5, <2>6 DEF IInv
<1>9. root' = slot' /\ next' = field'
  BY <1>1, <1>5, IdentityNext
<1>10. Graph!New(s, t)
  <2>1. b \in CheneyAddr \ Graph!Reachable
    BY <1>1, <1>3
  <2>2. root' = [root EXCEPT ![s] = b] /\ next'[b] = root[t]
    BY <1>1, <1>4, <1>5, <1>9
  <2>3. Graph!ObjectsKept
    BY <1>1, <1>3, <1>5, <1>9, Spaces DEF Graph!ObjectsKept
  <2> QED BY <2>1, <2>2, <2>3 DEF Graph!New
<1> QED BY <1>1, <1>8, <1>10 DEF Good, Graph!Next

\* A collection starts.
LEMMA StartStep ==
    ASSUME IInv, ~Collecting, NEW r \in (Var \X Var) \cup {<<>>}, Start(r)
    PROVE  Good
<1>1. /\ mode' = "roots" /\ todo' = Roots /\ request' = r
      /\ UNCHANGED <<slot, field, barriered, from_space, free, forwarded, cur>>
  BY DEF Start
<1>2. /\ Old' = Old /\ New' = New /\ to_space' = to_space /\ Collecting' /\ Roots' = Roots
      /\ New = {} /\ forwarded = {} /\ cur = 1
  BY <1>1, Identity DEF Old, New, to_space, Collecting, Roots
<1>3. TypeOK'
  BY <1>1, <1>2 DEF IInv, TypeOK
<1>4. Variables'
  <2>1. \A s \in Slot : slot[s] \in Old \cup {Null}
    BY Identity
  <2>2. \A s \in Slot \ Roots : slot[s] = Null
    BY DEF IInv, Variables, Slot, Roots
  <2> QED BY <2>1, <2>2, <1>1, <1>2 DEF IInv, Variables
<1>5. Fields' /\ Copies'
  BY <1>1, <1>2 DEF IInv, Fields, Copies
<1>6. Stages'
  BY <1>1, <1>2, SlotAssumption DEF Stages, Roots
<1>7. UNCHANGED <<root, next>>
  BY <1>1 DEF root, next, CheneyObject
<1> QED BY <1>3, <1>4, <1>5, <1>6, <1>7 DEF Good, IInv

-----------------------------------------------------------------------------
\* The invariant holds at the start, where the program has no objects.
LEMMA InitGood == Init => IInv /\ Graph!Init
<1> SUFFICES ASSUME Init PROVE IInv /\ Graph!Init
  OBVIOUS
<1> USE DEF Init, MutatorInit, CheneyInit
<1>1. /\ slot = [s \in Slot |-> Null] /\ field = [a \in CheneyAddr |-> Null]
      /\ from_space = 1 /\ to_space = 2 /\ free[1] = 1 /\ free[2] = 1
      /\ free \in [{1, 2} -> 1 .. SpaceSize + 1] /\ 1 \in 1 .. SpaceSize + 1
      /\ ~Collecting /\ Old = {} /\ New = {} /\ forwarded = {}
  BY SpaceAssumption DEF to_space, Collecting, Slot, Old, New, CheneyAddr
<1>2. TypeOK
  BY <1>1 DEF TypeOK
<1>3. Variables /\ Fields
  BY <1>1 DEF Variables, Fields, Slot
<1>4. Copies
  BY <1>1, FS_EmptySet DEF Copies
<1>5. Stages
  BY DEF Stages, Collecting
<1>6. Graph!Init
  BY <1>1 DEF Graph!Init, root, next, CheneyObject
<1> QED BY <1>2, <1>3, <1>4, <1>5, <1>6 DEF IInv

\* Every step keeps the invariant and is a step of the graph.
LEMMA StepGood == IInv /\ [CheneyNext]_vars => Good
<1> SUFFICES ASSUME IInv, [CheneyNext]_vars PROVE Good
  OBVIOUS
<1>1. CASE UNCHANGED vars
  <2>1. /\ Old' = Old /\ New' = New /\ to_space' = to_space /\ Collecting' = Collecting
        /\ Roots' = Roots
    BY <1>1 DEF vars, mutator, cheneyVars, Old, New, to_space, Collecting, Roots
  <2>2. IInv'
    BY <1>1, <2>1 DEF vars, mutator, cheneyVars, IInv, TypeOK, Variables, Fields, Copies, Stages
  <2>3. UNCHANGED <<root, next>>
    BY <1>1 DEF vars, mutator, cheneyVars, root, next, CheneyObject
  <2> QED BY <2>2, <2>3 DEF Good
<1>2. CASE compiled_code /\ UNCHANGED cheneyVars
  BY <1>2, CompiledStep
<1>3. ASSUME NEW s \in Slot, NEW t \in Var, cheney_write(s, t)
      PROVE  Good
  BY <1>3, WriteStep
<1>4. ASSUME NEW s \in Var, NEW t \in Var, cheney_alloc(s, t)
      PROVE  Good
  <2>1. ~Collecting
    BY <1>4 DEF cheney_alloc, Collecting
  <2>2. CASE HEAP_REST(from_space) >= 1
    BY <1>4, <2>1, <2>2, AllocStep DEF cheney_alloc
  <2>3. CASE ~(HEAP_REST(from_space) >= 1)
    <3>1. Start(<<s, t>>)
      BY <1>4, <2>3 DEF cheney_alloc
    <3> QED BY <2>1, <3>1, StartStep
  <2> QED BY <2>2, <2>3
<1>5. CASE cheney_gc
  <2>1. ~Collecting /\ Start(<<>>)
    BY <1>5 DEF cheney_gc, Collecting
  <2> QED BY <2>1, StartStep
<1>6. CASE slow_alloc
  <2>1. mode = "retry" /\ ~Collecting /\ request \in Var \X Var
    BY <1>6 DEF slow_alloc, Collecting, IInv, TypeOK, Stages
  <2>2. CASE HEAP_REST(from_space) >= 1
    <3>1. request[1] \in Var /\ request[2] \in Var
      BY <2>1
    <3> QED BY <3>1, <1>6, <2>1, <2>2, AllocStep DEF slow_alloc
  <2>3. CASE ~(HEAP_REST(from_space) >= 1)
    <3>1. /\ mode' = "over"
          /\ UNCHANGED <<slot, field, request, barriered, free, from_space, forwarded, todo, cur>>
      BY <1>6, <2>3 DEF slow_alloc
    <3>2. /\ Old' = Old /\ New' = New /\ to_space' = to_space /\ ~Collecting'
          /\ Roots' = Roots
      BY <3>1 DEF Old, New, to_space, Collecting, Roots
    <3>3. TypeOK' /\ Variables' /\ Fields' /\ Copies' /\ Stages'
      BY <2>1, <3>1, <3>2 DEF IInv, TypeOK, Variables, Fields, Copies, Stages
    <3>4. UNCHANGED <<root, next>>
      BY <3>1 DEF root, next, CheneyObject
    <3> QED BY <3>3, <3>4 DEF Good, IInv
  <2> QED BY <2>2, <2>3
<1> QED BY <1>1, <1>2, <1>3, <1>4, <1>5, <1>6, RootStep, RegionStep, DeepStep, EndStep
        DEF CheneyNext, Slot

\* The invariant: among other things, in a collection every object has at most one
\* copy, and pointers lead from objects to objects.
THEOREM CheneyInvariant == Spec => []IInv
<1>1. Init => IInv
  BY InitGood
<1>2. IInv /\ [CheneyNext]_vars => IInv'
  BY StepGood DEF Good
<1> QED BY <1>1, <1>2, PTL DEF Spec

\* forward asserts that to-space has room for the copy it makes (a release build
\* does not test it), and it has.
THEOREM CheneyCopyHasRoom == Spec => []CopyHasRoom
<1>1. ASSUME IInv, NEW p \in Old \ forwarded
      PROVE  HEAP_REST(to_space) >= 1
  <2>1. free[to_space] \in 1 .. SpaceSize + 1 /\ SpaceSize \in Nat
    BY <1>1, Spaces
  <2>2. free[to_space] <= SpaceSize
    BY <1>1, Room
  <2> QED BY <2>1, <2>2 DEF HEAP_REST
<1>2. IInv => CopyHasRoom
  BY <1>1 DEF CopyHasRoom
<1> QED BY <1>2, CheneyInvariant, PTL

\* What the program sees of its heap changes by what the program does, never by a
\* step of a collection: no object that can be reached is lost, copied twice,
\* overwritten by a new one, or reached through an old address.
THEOREM CheneyKeepsGraph == Spec => Graph!Spec
<1>1. Init => Graph!Init
  BY InitGood
<1>2. IInv /\ [CheneyNext]_vars => [Graph!Next]_<<root, next>>
  BY StepGood DEF Good
<1> QED BY <1>1, <1>2, CheneyInvariant, PTL DEF Spec, Graph!Spec

=============================================================================
