---------------------------- MODULE ReppyProofs -----------------------------
(***************************************************************************)
(* The generational copying collector of heap_reppy.c keeps the graph of   *)
(* objects that the program sees, for any number of generations and every  *)
(* size of their spaces.                                                   *)
(***************************************************************************)
EXTENDS ReppyInv, WellFoundedInduction, TLAPS

-----------------------------------------------------------------------------
\* A set of naturals that is not empty has a minimum ...
LEMMA MinOf ==
    ASSUME NEW S \in SUBSET Nat, S # {}
    PROVE  Min(S) \in S /\ \A x \in S : Min(S) <= x
<1>1. PICK x \in S : \A y \in S : ~(<<y, x>> \in OpToRel(<, Nat))
  BY NatLessThanWellFounded, WFMin
<1>2. \A y \in S : ~(y < x)
  BY <1>1 DEF OpToRel
<1>3. \A y \in S : x <= y
  BY <1>2
<1> QED BY <1>3 DEF Min

\* ... and a maximum, if there is a bound.
LEMMA MaxOf ==
    ASSUME NEW n \in Nat, NEW S \in SUBSET (0 .. n), S # {}
    PROVE  Max(S) \in S /\ \A x \in S : Max(S) >= x
<1> DEFINE T == {k \in Nat : \A x \in S : x <= k}
<1>1. n \in T
  OBVIOUS
<1>2. Min(T) \in T /\ \A k \in T : Min(T) <= k
  <2> HIDE DEF T
  <2> QED BY <1>1, MinOf DEF T
<1> DEFINE m == Min(T)
<1> HIDE DEF m
<1>3. m \in Nat /\ (\A x \in S : x <= m) /\ \A k \in Nat : (\A x \in S : x <= k) => m <= k
  BY <1>2 DEF m
<1>4. m \in S
  <2> SUFFICES ASSUME m \notin S PROVE FALSE
    OBVIOUS
  <2>1. \A x \in S : x < m /\ x \in Nat
    BY <1>3
  <2>2. m - 1 \in Nat /\ \A x \in S : x <= m - 1
    <3>1. PICK x \in S : TRUE
      OBVIOUS
    <3>2. x < m /\ x \in Nat /\ m \in Nat
      BY <2>1, <1>3
    <3>3. \A y \in S : y \in Nat /\ y < m
      BY <2>1
    <3> QED BY <3>2, <3>3
  <2> QED BY <2>2, <1>3
<1> QED BY <1>3, <1>4 DEF Max

-----------------------------------------------------------------------------
\* What the types say of addresses and spaces.
LEMMA Addresses ==
    /\ Null \notin ReppyAddr /\ <<>> \notin ReppyAddr /\ <<>> # Null
    /\ GenSize \in Nat \ {0} /\ NumGenerations \in Nat \ {0, 1}
    /\ Oldest \in Nat /\ Oldest \in Generation /\ 0 \in Generation
    /\ Generation = 0 .. Oldest
    /\ \A a \in ReppyAddr : /\ a[1] \in Generation /\ a[2] \in {1, 2} /\ a[3] \in 1 .. GenSize
                            /\ a = <<a[1], a[2], a[3]>>
    /\ \A i \in Generation, h \in {1, 2}, k \in 1 .. GenSize :
          /\ <<i, h, k>> \in ReppyAddr
          /\ <<i, h, k>>[1] = i /\ <<i, h, k>>[2] = h /\ <<i, h, k>>[3] = k
BY GenerationAssumption, ReppyNullAssumption DEF ReppyAddr, Generation, Oldest

LEMMA Halves ==
    ASSUME TypeOK
    PROVE  \A i \in Generation :
              /\ From(i) \in {1, 2} /\ To(i) \in {1, 2} /\ From(i) # To(i)
              /\ Space(i) \in {1, 2}
              /\ \A h \in {1, 2} : /\ top[i][h] \in 1 .. GenSize + 1
                                   /\ remember[i][h] \subseteq ReppyAddr
                                   /\ h = From(i) \/ h = To(i)
BY DEF TypeOK, From, To, Space

\* Objects of from-space and those that stay are apart.
LEMMA Apart ==
    ASSUME TypeOK
    PROVE  /\ Old \subseteq ReppyAddr /\ New \subseteq ReppyAddr /\ Old \cap New = {}
           /\ Waiting \subseteq New /\ Pre \subseteq Old \cup New \cup {Null}
           /\ gc_level \in Nat
           /\ \A a \in Old : Collected(a[1]) /\ a[1] <= gc_level /\ Collecting
           /\ ~Collecting => Old = {} /\ Waiting = {} /\ Pre = New \cup {Null}
<1>1. /\ Old \subseteq ReppyAddr /\ New \subseteq ReppyAddr
      /\ Waiting \subseteq New /\ Pre \subseteq Old \cup New \cup {Null}
  BY DEF Old, New, Waiting, Pre
<1>2. Old \cap New = {}
  BY Addresses, Halves DEF Old, New, Space
<1>3. gc_level \in Nat
  BY Addresses DEF TypeOK
<1>4. \A a \in Old : Collected(a[1]) /\ a[1] <= gc_level /\ Collecting
  BY DEF Old, Collected
<1>5. ~Collecting => Old = {} /\ Waiting = {} /\ Pre = New \cup {Null}
  BY DEF Old, Waiting, Pre, Collected
<1> QED BY <1>1, <1>2, <1>3, <1>4, <1>5

\* Pointers lead to objects.
LEMMA Pointers ==
    ASSUME IInv, mode # "over"
    PROVE  /\ moved \subseteq Old
           /\ \A s \in Slot : slot[s] \in Old \cup New \cup {Null}
           /\ \A a \in moved : field[a] \in New
           /\ \A a \in (Old \ moved) \cup New : field[a] \in Old \cup New \cup {Null}
<1>1. TypeOK /\ Spaces /\ Variables /\ Fields
  BY DEF IInv
<1>2. \A s \in Slot : slot[s] \in Old \cup New \cup {Null}
  BY <1>1, Apart DEF Variables
<1>3. \A a \in (Old \ moved) \cup New : field[a] \in Old \cup New \cup {Null}
  BY <1>1, Apart DEF Fields
<1> QED BY <1>1, <1>2, <1>3 DEF Spaces, Fields

-----------------------------------------------------------------------------
\* The objects that a pointer can stand for: those that stay, and those of
\* from-space that have not been copied
Live == (Old \ moved) \cup New

\* What the program reaches is among them.
LEMMA ReachableLive ==
    ASSUME IInv, mode # "over"
    PROVE  Graph!Closed(Live) /\ Graph!Reachable \subseteq Live /\ Live \subseteq ReppyAddr
<1>1. TypeOK
  BY DEF IInv
<1>2. Live \subseteq ReppyAddr
  BY <1>1, Apart DEF Live
<1>3. \A p \in Old \cup New \cup {Null} : ReppyObject(p) \in Live \cup {Null}
  BY <1>1, Pointers DEF Live, ReppyObject
<1>4. Graph!Closed(Live)
  <2>1. \A s \in Slot : root[s] \in Live \cup {Null}
    BY <1>3, Pointers DEF root
  <2>2. \A a \in Live : next[a] \in Live \cup {Null}
    BY <1>2, <1>3, Pointers DEF next, Live
  <2> QED BY <2>1, <2>2 DEF Graph!Closed
<1> QED BY <1>2, <1>4 DEF Graph!Reachable

\* Variables refer to objects that the program reaches, and so do these.
LEMMA ReachableClosed ==
    ASSUME IInv, mode # "over"
    PROVE  Graph!Closed(Graph!Reachable)
<1>1. Graph!Closed(Live) /\ Live \subseteq ReppyAddr
  BY ReachableLive
<1>2. ASSUME NEW s \in Slot PROVE root[s] \in Graph!Reachable \cup {Null}
  BY <1>1 DEF Graph!Closed, Graph!Reachable
<1>3. ASSUME NEW a \in Graph!Reachable PROVE next[a] \in Graph!Reachable \cup {Null}
  BY <1>1 DEF Graph!Closed, Graph!Reachable
<1> QED BY <1>2, <1>3 DEF Graph!Closed

\* A step of a collection that copies the object at p to q, and stores q in slots
\* that held p, moves one object of the graph.
LEMMA CopyMoves ==
    ASSUME IInv, mode # "over", NEW p \in Old \ moved, NEW q \in ReppyAddr \ (Old \cup New),
           moved' = moved \cup {p},
           \A s \in Slot : slot'[s] = slot[s] \/ (slot[s] = p /\ slot'[s] = q),
           field'[p] = q, field'[q] = field[p],
           \A a \in moved : field'[a] = field[a],
           \A a \in Live \ {p} : field'[a] = field[a] \/ (field[a] = p /\ field'[a] = q)
    PROVE  Graph!Move
<1> DEFINE carried(x) == IF x = p THEN q ELSE x
           m == [a \in Graph!Reachable |-> carried(a)]
           to(x) == IF x = Null THEN Null ELSE m[x]
           after(x) == IF x \in moved' THEN field'[x] ELSE x
<1>1. /\ Graph!Reachable \subseteq Live /\ q \notin Live /\ p \in ReppyAddr /\ q # Null
      /\ p # Null /\ Live \subseteq ReppyAddr /\ q \notin moved' /\ Old \subseteq ReppyAddr
      /\ moved \subseteq Old /\ New \subseteq ReppyAddr /\ Old \cap New = {}
  BY ReachableLive, Apart, Addresses, Pointers DEF Live, IInv
<1>2. ASSUME NEW x \in Old \cup New \cup {Null}
      PROVE  after(x) = carried(ReppyObject(x))
  <2>1. CASE x \in moved
    BY <2>1, <1>1, Pointers DEF ReppyObject
  <2>2. CASE x = p
    BY <2>2 DEF ReppyObject
  <2>3. CASE x \notin moved /\ x # p
    BY <2>3 DEF ReppyObject
  <2> QED BY <2>1, <2>2, <2>3
<1>3. \A x \in Graph!Reachable \cup {Null} : to(x) = carried(x)
  BY <1>1
<1>4. m \in [Graph!Reachable -> ReppyAddr]
  BY <1>1
<1>5. \A a, b \in Graph!Reachable : m[a] = m[b] => a = b
  BY <1>1
<1>6. root' = [s \in Slot |-> to(root[s])]
  <2>1. ASSUME NEW s \in Slot PROVE after(slot'[s]) = to(root[s])
    <3>1. root[s] \in Graph!Reachable \cup {Null} /\ root[s] = ReppyObject(slot[s])
      BY ReachableClosed DEF Graph!Closed, root
    <3>2. to(root[s]) = carried(ReppyObject(slot[s]))
      BY <3>1, <1>3
    <3>3. CASE slot'[s] = slot[s]
      <4>1. slot[s] \in Old \cup New \cup {Null}
        BY Pointers
      <4> QED BY <4>1, <3>2, <3>3, <1>2
    <3>4. CASE slot[s] = p /\ slot'[s] = q
      BY <3>4, <3>2, <1>1 DEF ReppyObject
    <3> QED BY <3>3, <3>4
  <2>2. root' = [s \in Slot |-> after(slot'[s])]
    BY DEF root, ReppyObject
  <2> HIDE DEF to, after
  <2> QED BY <2>1, <2>2
<1>7. ASSUME NEW a \in Graph!Reachable PROVE next'[m[a]] = to(next[a])
  <2>1. next[a] \in Graph!Reachable \cup {Null} /\ next[a] = ReppyObject(field[a])
    BY ReachableClosed, <1>1 DEF Graph!Closed, next
  <2>2. to(next[a]) = carried(ReppyObject(field[a]))
    BY <2>1, <1>3
  <2>3. a \in Live /\ field[a] \in Old \cup New \cup {Null}
    BY <1>1, Pointers DEF Live
  <2>4. next'[m[a]] = after(field'[m[a]])
    <3>1. m[a] \in ReppyAddr
      BY <1>4
    <3>2. next' = [b \in ReppyAddr |-> after(field'[b])]
      BY DEF next, ReppyObject
    <3> HIDE DEF m, after
    <3> QED BY <3>1, <3>2
  <2>5. CASE a = p
    <3>1. m[a] = q
      BY <2>5
    <3>2. after(field[p]) = carried(ReppyObject(field[p]))
      BY <2>3, <2>5, <1>2
    <3> HIDE DEF m, to, carried, after
    <3> QED BY <3>1, <3>2, <2>2, <2>4, <2>5
  <2>6. CASE a # p
    <3>1. m[a] = a
      BY <2>6
    <3>2. CASE field'[a] = field[a]
      <4>1. after(field[a]) = carried(ReppyObject(field[a]))
        BY <2>3, <1>2
      <4> HIDE DEF m, to, carried, after
      <4> QED BY <4>1, <3>1, <3>2, <2>2, <2>4
    <3>3. CASE field[a] = p /\ field'[a] = q
      <4>1. ReppyObject(field[a]) = p /\ after(q) = q
        BY <3>3, <1>1 DEF ReppyObject
      <4>2. carried(p) = q
        OBVIOUS
      <4> HIDE DEF m, to, carried, after
      <4> QED BY <4>1, <4>2, <3>1, <3>3, <2>2, <2>4
    <3> QED BY <3>2, <3>3, <2>3, <2>6
  <2> QED BY <2>5, <2>6
<1> HIDE DEF m
<1> QED BY <1>4, <1>5, <1>6, <1>7 DEF Graph!Move

\* A step that copies nothing, but stores what pointers stand for in slots, does
\* not change the graph.
LEMMA SameGraph ==
    ASSUME IInv, mode # "over", moved' = moved,
           \A s \in Slot : slot'[s] = slot[s] \/ slot'[s] = ReppyObject(slot[s]),
           \A a \in ReppyAddr :
               field'[a] = field[a]
               \/ (/\ a \notin moved /\ field[a] \in Old \cup New \cup {Null}
                   /\ field'[a] = ReppyObject(field[a]))
    PROVE  UNCHANGED <<root, next>>
<1>1. \A a \in moved : field'[a] = field[a]
  BY Pointers, Apart DEF IInv
<1> DEFINE after(x) == IF x \in moved' THEN field'[x] ELSE x
<1>2. \A x : after(x) = ReppyObject(x)
  BY <1>1 DEF ReppyObject
<1>3. \A x \in Old \cup New \cup {Null} : ReppyObject(ReppyObject(x)) = ReppyObject(x)
  BY Pointers, Addresses, Apart DEF ReppyObject, IInv
<1>4. root' = [s \in Slot |-> after(slot'[s])] /\ next' = [a \in ReppyAddr |-> after(field'[a])]
  BY DEF root, next, ReppyObject
<1> HIDE DEF after
<1>5. ASSUME NEW s \in Slot PROVE after(slot'[s]) = ReppyObject(slot[s])
  <2>1. slot[s] \in Old \cup New \cup {Null}
    BY Pointers
  <2> QED BY <2>1, <1>2, <1>3
<1>6. ASSUME NEW a \in ReppyAddr PROVE after(field'[a]) = ReppyObject(field[a])
  BY <1>2, <1>3
<1> QED BY <1>4, <1>5, <1>6 DEF root, next

-----------------------------------------------------------------------------
\* The generations are the same after a step of a collection that is not its last.
LEMMA SameSpaces ==
    ASSUME Collecting, Collecting', half' = half, gc_level' = gc_level
    PROVE  \A i : /\ From(i)' = From(i) /\ To(i)' = To(i) /\ Space(i)' = Space(i)
                  /\ Collected(i)' <=> Collected(i)
BY DEF From, To, Space, Collected

\* An object is copied to the free pointer of space j.
LEMMA Grows ==
    ASSUME TypeOK, Spaces, Collecting, Collecting', half' = half, gc_level' = gc_level,
           NEW j \in Generation, j <= gc_level + 1, top[j][Space(j)] <= GenSize,
           NEW q, q = <<j, Space(j), top[j][Space(j)]>>,
           top' = [top EXCEPT ![j][Space(j)] = @ + 1]
    PROVE  /\ q \in ReppyAddr \ (Old \cup New) /\ HOW_OLD(q) = j
           /\ Old' = Old /\ New' = New \cup {q}
           /\ top' \in [Generation -> [{1, 2} -> 1 .. GenSize + 1]]
           /\ \A i \in Generation : ~Collected(i) => top'[i][To(i)] = top[i][To(i)]
           /\ \A i \in Generation : top[i][Space(i)] <= top'[i][Space(i)]
           /\ scan.start[j] <= q[3]
<1>1. /\ top \in [Generation -> [{1, 2} -> 1 .. GenSize + 1]]
      /\ \A i \in Generation : From(i) \in {1, 2} /\ To(i) \in {1, 2} /\ From(i) # To(i)
                               /\ Space(i) \in {1, 2}
      /\ GenSize \in Nat
  BY Halves, Addresses DEF TypeOK
<1>2. top[j][Space(j)] \in 1 .. GenSize
  BY <1>1
<1>3. /\ q \in ReppyAddr /\ HOW_OLD(q) = j /\ q[2] = Space(j) /\ q[3] = top[j][Space(j)]
      /\ q[1] = j
  BY <1>1, <1>2, Addresses DEF HOW_OLD
<1>4. q \notin New
  BY <1>2, <1>3 DEF New, InUse
<1>5. q \notin Old
  BY <1>1, <1>3 DEF Old, Space
<1>6. /\ top' \in [Generation -> [{1, 2} -> 1 .. GenSize + 1]]
      /\ \A i \in Generation, h \in {1, 2} :
            top'[i][h] = IF i = j /\ h = Space(j) THEN top[i][h] + 1 ELSE top[i][h]
  BY <1>1, <1>2
<1>7. \A i \in Generation : ~Collected(i) => top'[i][To(i)] = top[i][To(i)]
  BY <1>1, <1>6 DEF Space
<1>8. \A i \in Generation : top[i][Space(i)] <= top'[i][Space(i)]
  BY <1>1, <1>6
<1>9. \A i : /\ From(i)' = From(i) /\ Space(i)' = Space(i) /\ (Collected(i)' <=> Collected(i))
  BY SameSpaces
<1>10. ASSUME NEW a \in ReppyAddr, Collected(a[1]), a[2] = From(a[1])
       PROVE  InUse(a)' <=> InUse(a)
  <2>1. a[1] \in Generation /\ a[2] \in {1, 2}
    BY Addresses
  <2>2. top'[a[1]][a[2]] = top[a[1]][a[2]]
    BY <2>1, <1>1, <1>6, <1>10 DEF Space
  <2> QED BY <2>2 DEF InUse
<1>11. Old' = Old
  <2>1. Old' = {a \in ReppyAddr : Collected(a[1])' /\ a[2] = From(a[1])' /\ InUse(a)'}
    BY DEF Old
  <2> QED BY <2>1, <1>9, <1>10 DEF Old
<1>12. ASSUME NEW a \in ReppyAddr, a[2] = Space(a[1])
       PROVE  InUse(a)' <=> InUse(a) \/ a = q
  <2>1. a[1] \in Generation /\ a[2] \in {1, 2} /\ a[3] \in Nat /\ a = <<a[1], a[2], a[3]>>
    BY Addresses
  <2>2. CASE a[1] = j
    <3>1. top'[a[1]][a[2]] = top[j][Space(j)] + 1
      BY <2>1, <2>2, <1>6, <1>12
    <3> QED BY <3>1, <2>1, <2>2, <1>2, <1>3, <1>12 DEF InUse
  <2>3. CASE a[1] # j
    <3>1. top'[a[1]][a[2]] = top[a[1]][a[2]]
      BY <2>1, <2>3, <1>6
    <3> QED BY <3>1, <2>3, <1>3 DEF InUse
  <2> QED BY <2>2, <2>3
<1>13. New' = New \cup {q}
  <2>1. New' = {a \in ReppyAddr : a[2] = Space(a[1])' /\ InUse(a)'}
    BY DEF New
  <2> QED BY <2>1, <1>3, <1>9, <1>12 DEF New
<1>14. scan.start[j] <= q[3]
  BY <1>3 DEF Spaces
<1> QED BY <1>3, <1>4, <1>5, <1>6, <1>7, <1>8, <1>11, <1>13, <1>14

\* Nothing is copied.
LEMMA Stays ==
    ASSUME Collecting, Collecting', half' = half, gc_level' = gc_level, top' = top
    PROVE  Old' = Old /\ New' = New
<1>1. \A i : /\ From(i)' = From(i) /\ Space(i)' = Space(i) /\ (Collected(i)' <=> Collected(i))
  BY SameSpaces
<1>2. \A a : InUse(a)' <=> InUse(a)
  BY DEF InUse
<1>3. Old' = {a \in ReppyAddr : Collected(a[1])' /\ a[2] = From(a[1])' /\ InUse(a)'}
  BY DEF Old
<1>4. New' = {a \in ReppyAddr : a[2] = Space(a[1])' /\ InUse(a)'}
  BY DEF New
<1> QED BY <1>1, <1>2, <1>3, <1>4 DEF Old, New

-----------------------------------------------------------------------------
\* forward of an object that has not been copied: there is no room, or it is copied
\* to a space that objects are copied to, of its generation or the next one ...
LEMMA ForwardOld ==
    ASSUME IInv, Collecting, NEW p \in Old \ moved, Forward(p).to # Full
    PROVE  \E j \in Generation : \E q \in {<<j, Space(j), top[j][Space(j)]>>} :
              /\ j \in {HOW_OLD(p), HOW_OLD(p) + 1} /\ j <= gc_level + 1
              /\ top[j][Space(j)] <= GenSize
              /\ Forward(p) = [to |-> q, field |-> [field EXCEPT ![q] = field[p], ![p] = q],
                               top |-> [top EXCEPT ![j][Space(j)] = @ + 1],
                               moved |-> moved \cup {p}]
<1> DEFINE i == p[1]
           place(j, h) == IF Rest(j, h) >= 1 THEN <<j, h, top[j][h]>> ELSE Full
<1>1. TypeOK /\ mode # "over"
  BY DEF IInv, Collecting
<1>2. /\ p \in ReppyAddr /\ i \in Generation /\ i <= gc_level /\ gc_level \in Generation
      /\ gc_level \in Int /\ i \in Int /\ p # Null /\ HOW_OLD(p) = i /\ Oldest \in Int
      /\ Generation = 0 .. Oldest
  <2>1. p \in ReppyAddr /\ p[1] <= gc_level
    BY <1>1, Apart
  <2>2. p[1] \in Generation /\ p # Null /\ Generation = 0 .. Oldest /\ Oldest \in Nat
    BY <2>1, Addresses
  <2>3. gc_level \in Generation
    BY <1>1 DEF TypeOK
  <2>4. gc_level \in Int /\ p[1] \in Int
    BY <2>2, <2>3
  <2> QED BY <2>1, <2>2, <2>3, <2>4 DEF HOW_OLD
<1>3. \A j \in Generation : j <= gc_level => Space(j) = To(j)
  BY DEF Space, Collected
<1>4. \A j \in Generation : ~(j <= gc_level) => Space(j) = From(j)
  BY DEF Space, Collected
<1>5. Forward(p) = IF Place(p) = Full THEN [to |-> Full, field |-> field, top |-> top, moved |-> moved]
                   ELSE [to |-> Place(p), field |-> [field EXCEPT ![Place(p)] = field[p], ![p] = Place(p)],
                         top |-> [top EXCEPT ![Place(p)[1]][Place(p)[2]] = @ + 1],
                         moved |-> moved \cup {p}]
  BY <1>2 DEF Forward
<1>6. Place(p) # Full
  BY <1>5
<1>7. \E j \in Generation : /\ Place(p) = place(j, Space(j))
                            /\ j \in {i, i + 1} /\ j <= gc_level + 1
  <2>1. CASE ~Promotes(p)
    BY <2>1, <1>2, <1>3 DEF Place
  <2>2. CASE Promotes(p)
    <3>1. i < Oldest /\ i + 1 \in Generation /\ i <= i + 1
      BY <2>2, <1>2 DEF Promotes
    <3>2. CASE i + 1 > gc_level
      BY <2>2, <3>1, <3>2, <1>2, <1>4 DEF Place
    <3>3. CASE ~(i + 1 > gc_level)
      <4>1. Space(i + 1) = To(i + 1) /\ Space(i) = To(i) /\ i + 1 <= gc_level + 1 /\ i <= gc_level + 1
        BY <3>1, <3>3, <1>2, <1>3
      <4>2. CASE Rest(i + 1, To(i + 1)) >= 1
        BY <4>1, <4>2, <3>1, <3>3, <2>2 DEF Place
      <4>3. CASE ~(Rest(i + 1, To(i + 1)) >= 1)
        BY <4>1, <4>3, <3>3, <2>2, <1>2 DEF Place
      <4> QED BY <4>2, <4>3
    <3> QED BY <3>2, <3>3
  <2> QED BY <2>1, <2>2
<1>8. PICK j \in Generation : Place(p) = place(j, Space(j)) /\ j \in {i, i + 1} /\ j <= gc_level + 1
  BY <1>7
<1>9. Place(p) = <<j, Space(j), top[j][Space(j)]>> /\ Rest(j, Space(j)) >= 1
  BY <1>6, <1>8
<1>10. top[j][Space(j)] <= GenSize
  <2>1. top[j][Space(j)] \in Int /\ GenSize \in Int
    <3>1. Space(j) \in {1, 2} /\ \A h \in {1, 2} : top[j][h] \in 1 .. GenSize + 1
      BY <1>1, Halves
    <3>2. top[j][Space(j)] \in 1 .. GenSize + 1 /\ GenSize \in Nat
      BY <3>1, Addresses
    <3> QED BY <3>2
  <2> QED BY <2>1, <1>9 DEF Rest
<1> DEFINE q == <<j, Space(j), top[j][Space(j)]>>
<1>11. q[1] = j /\ q[2] = Space(j) /\ Place(p) = q
  BY <1>9
<1> HIDE DEF q
<1>12. Forward(p) = [to |-> q, field |-> [field EXCEPT ![q] = field[p], ![p] = q],
                     top |-> [top EXCEPT ![j][Space(j)] = @ + 1], moved |-> moved \cup {p}]
  BY <1>5, <1>6, <1>11
<1> QED BY <1>2, <1>8, <1>10, <1>12 DEF q

\* ... and of any other pointer: it changes nothing but the slot.
LEMMA ForwardOther ==
    ASSUME IInv, Collecting, NEW p \in Pre, p \notin Old \ moved
    PROVE  /\ Forward(p) = [to |-> ReppyObject(p), field |-> field, top |-> top, moved |-> moved]
           /\ ReppyObject(p) \in New \cup {Null}
           /\ p \in Old => /\ ReppyObject(p) \in New
                           /\ HOW_OLD(ReppyObject(p)) \in {HOW_OLD(p), HOW_OLD(p) + 1}
<1>1. TypeOK /\ mode # "over" /\ moved \subseteq Old /\ Fields /\ Null \notin Old
  BY Addresses, Apart DEF IInv, Collecting, Spaces
<1>2. CASE p = Null
  BY <1>1, <1>2 DEF Forward, ReppyObject
<1>3. CASE p \in New /\ ~Collected(p[1])
  <2>1. p[1] > gc_level /\ p \notin Old /\ p # Null
    <3>1. p[1] \in Int /\ gc_level \in Int /\ p \in ReppyAddr /\ p \notin Old
      BY <1>1, <1>3, Apart, Addresses
    <3> QED BY <3>1, <1>3, Addresses DEF Collected
  <2> QED BY <1>1, <1>3, <2>1 DEF Forward, ReppyObject, HOW_OLD
<1>4. CASE p \in moved
  <2>1. p # Null /\ ~(HOW_OLD(p) > gc_level)
    <3>1. p[1] \in Int /\ gc_level \in Int /\ p[1] <= gc_level
      BY <1>1, <1>4, Apart, Addresses
    <3> QED BY <3>1, <1>1, <1>4 DEF HOW_OLD
  <2> QED BY <1>1, <1>4, <2>1 DEF Forward, ReppyObject, Fields
<1> QED BY <1>2, <1>3, <1>4 DEF Pre

-----------------------------------------------------------------------------
\* The slots of the objects in B become v, and C are the copies that are made of the
\* objects in P.
Passes(v, P, C, B) ==
    /\ P \subseteq Old \ moved /\ C \subseteq {v} /\ B \subseteq New
    /\ Old' = Old /\ New' = New \cup C /\ C \cap (Old \cup New) = {}
    /\ v \in New \cup C \cup {Null} /\ moved' = moved \cup P
    /\ \A a \in P : field'[a] = v /\ v \in C /\ HOW_OLD(v) \in {HOW_OLD(a), HOW_OLD(a) + 1}
    /\ \A a \in C : field'[a] \in Pre
    /\ \A a \in Old \ P : field'[a] = field[a]
    /\ \A a \in New : field'[a] = IF a \in B THEN v ELSE field[a]

\* A step of a collection keeps the invariant if the slots that it forwards, those of
\* the roots that it takes from left and of the objects in B, become v.
LEMMA Keeps ==
    ASSUME IInv, Collecting, Collecting', TypeOK',
           half' = half, gc_level' = gc_level, barriered' = barriered,
           NEW v, NEW P, NEW C, NEW B, Passes(v, P, C, B),
           Waiting' = (Waiting \ B) \cup C,
           left' \subseteq left,
           \A s \in Slot : slot'[s] = IF s \in left \ left' THEN v ELSE slot[s],
           \A i \in Generation :
              /\ ~Collected(i) => /\ top'[i][To(i)] = top[i][To(i)]
                                  /\ remember'[i][To(i)] = remember[i][To(i)]
              /\ i <= gc_level + 1 => scan.start'[i] <= top'[i][Space(i)]
              /\ remember[i][Space(i)] \subseteq remember'[i][Space(i)]
              /\ \A a \in remember'[i][Space(i)] \ remember[i][Space(i)] : a \in B /\ HOW_OLD(a) >= i,
           \A a \in B : v \in New \cup C /\ HOW_OLD(a) > HOW_OLD(v)
                        => v \in ReppyAddr /\ a \in remember'[HOW_OLD(v)][Space(HOW_OLD(v))],
           entries' \subseteq entries, \A e \in entries \ entries' : e[2] \in B,
           \A e \in entries' : e[2] \in B /\ HOW_OLD(e[2]) > gc_level /\ v \in New \cup C
                               => e[1] < HOW_OLD(v),
           mode' = "scan" => entries' = {} /\ left' = {}
    PROVE  IInv'
<1> USE DEF Passes
<1>1. TypeOK /\ Spaces /\ Variables /\ Fields /\ Remembered /\ mode # "over"
  BY DEF IInv, Collecting
<1>2. \A i : /\ From(i)' = From(i) /\ To(i)' = To(i) /\ Space(i)' = Space(i)
             /\ Collected(i)' <=> Collected(i)
  BY SameSpaces
<1>3. /\ Old \cap New = {} /\ Null \notin Old \cup New \cup C /\ Pre \subseteq Old \cup New \cup {Null}
      /\ Waiting \subseteq New /\ moved \subseteq Old /\ left \subseteq Slot
      /\ New \subseteq ReppyAddr
  <2>1. New' \subseteq ReppyAddr
    BY DEF New
  <2>2. left \subseteq Slot
    BY <1>1 DEF TypeOK, Roots, Slot
  <2> QED BY <2>1, <2>2, <1>1, Apart, Addresses DEF Spaces
<1>4. Pre \subseteq Pre'
  BY <1>2 DEF Pre
<1>5. Spaces'
  <2>1. \A i \in Generation : ~Collected(i)' => top'[i][To(i)'] = 1 /\ remember'[i][To(i)'] = {}
    BY <1>1, <1>2 DEF Spaces
  <2>2. \A i \in Generation : i <= gc_level' + 1 => scan.start'[i] <= top'[i][Space(i)']
    BY <1>2
  <2>3. moved' \subseteq Old'
    BY <1>3
  <2> QED BY <2>1, <2>2, <2>3 DEF Spaces
<1>6. Variables'
  <2>1. \A s \in left' : slot'[s] \in Pre'
    BY <1>1, <1>3, <1>4 DEF Variables
  <2>2. \A s \in Slot \ left' : slot'[s] \in New' \cup {Null}
    BY <1>1, <1>3 DEF Variables
  <2>3. \A g \in Global \ barriered' : slot'[g] = Null
    <3>1. \A g \in Global \ barriered : g \in Slot /\ g \notin left
      BY <1>1, SlotAssumption DEF TypeOK, Roots, Slot
    <3> QED BY <3>1, <1>1 DEF Variables
  <2> QED BY <2>1, <2>2, <2>3 DEF Variables
<1>7. \A a \in New \ Waiting : a \notin B => a \in New' \ Waiting' /\ field'[a] = field[a]
  OBVIOUS
<1>8. \A a \in New' \ Waiting' : a \in New /\ (a \in B \/ a \in New \ Waiting)
  OBVIOUS
<1>9. Fields'
  <2>1. \A a \in moved' : field'[a] \in New' /\ HOW_OLD(field'[a]) \in {HOW_OLD(a), HOW_OLD(a) + 1}
    BY <1>1, <1>3 DEF Fields
  <2>2. \A a \in (Old' \ moved') \cup Waiting' : field'[a] \in Pre'
    <3>1. \A a \in Old \ moved' : field'[a] = field[a] /\ field[a] \in Pre
      BY <1>1 DEF Fields
    <3>2. \A a \in Waiting \ B : field'[a] = field[a] /\ field[a] \in Pre
      BY <1>1, <1>3 DEF Fields
    <3> QED BY <3>1, <3>2, <1>4
  <2>3. ASSUME NEW a \in New' \ Waiting'
        PROVE  \/ field'[a] \in New' \cup {Null}
               \/ /\ field'[a] \in Old' /\ HOW_OLD(a) > gc_level'
                  /\ <<HOW_OLD(field'[a]), a>> \in entries'
    <3>1. CASE a \in B
      BY <3>1
    <3>2. CASE a \notin B
      <4>1. field'[a] = field[a] /\ a \in New \ Waiting
        BY <3>2, <1>8
      <4>2. \/ field[a] \in New \cup {Null}
            \/ /\ field[a] \in Old /\ HOW_OLD(a) > gc_level
               /\ <<HOW_OLD(field[a]), a>> \in entries
        BY <4>1, <1>1 DEF Fields
      <4>3. ASSUME NEW e \in entries, e[2] = a PROVE e \in entries'
        BY <4>3, <3>2
      <4>4. <<HOW_OLD(field[a]), a>>[2] = a
        OBVIOUS
      <4> QED BY <4>1, <4>2, <4>3, <4>4
    <3> QED BY <3>1, <3>2
  <2> QED BY <2>1, <2>2, <2>3 DEF Fields
<1>10. Remembered'
  <2>1. ASSUME NEW i \in Generation, NEW a \in remember'[i][Space(i)]
        PROVE  a \in New' /\ HOW_OLD(a) >= i
    BY <1>1 DEF Remembered
  <2>2. ASSUME NEW a \in New' \ Waiting', field'[a] \in New', HOW_OLD(a) > HOW_OLD(field'[a])
        PROVE  a \in remember'[HOW_OLD(field'[a])][Space(HOW_OLD(field'[a]))]
    <3>1. CASE a \in B
      BY <2>2, <3>1, <1>8
    <3>2. CASE a \notin B
      <4>1. field'[a] = field[a] /\ a \in New \ Waiting
        BY <3>2, <1>8
      <4>2. field[a] \in New
        <5>1. field[a] \in New \cup {Null} \cup Old
          BY <4>1, <1>1 DEF Fields
        <5>2. field[a] \in New \cup C
          BY <4>1, <2>2
        <5> QED BY <5>1, <5>2, <1>3
      <4>3. a \in remember[HOW_OLD(field[a])][Space(HOW_OLD(field[a]))]
        BY <4>1, <4>2, <2>2, <1>1 DEF Remembered
      <4>4. HOW_OLD(field[a]) \in Generation
        BY <4>2, <1>3, Addresses DEF HOW_OLD
      <4> QED BY <4>1, <4>3, <4>4
    <3> QED BY <3>1, <3>2
  <2>3. ASSUME NEW e \in entries'
        PROVE  /\ e[1] <= gc_level
               /\ HOW_OLD(e[2]) > gc_level =>
                     /\ e[2] \in New' \ Waiting'
                     /\ field'[e[2]] \in New' => e[1] < HOW_OLD(field'[e[2]])
    <3>1. e \in entries /\ e[1] <= gc_level
      BY <1>1 DEF Remembered
    <3>2. CASE HOW_OLD(e[2]) > gc_level
      <4>1. /\ e[2] \in New \ Waiting
            /\ field[e[2]] \in New => e[1] < HOW_OLD(field[e[2]])
        BY <3>1, <3>2, <1>1 DEF Remembered
      <4>2. e[2] \in New' \ Waiting'
        BY <4>1
      <4>3. CASE e[2] \in B
        BY <3>1, <3>2, <4>1, <4>2, <4>3
      <4>4. CASE e[2] \notin B
        <5>1. field'[e[2]] = field[e[2]]
          BY <4>1, <4>4
        <5>2. field[e[2]] \in New \cup Old \cup {Null}
          BY <4>1, <1>1 DEF Fields
        <5> QED BY <3>1, <4>1, <4>2, <5>1, <5>2, <1>3
      <4> QED BY <4>3, <4>4
    <3> QED BY <3>1, <3>2
  <2> QED BY <2>1, <2>2, <2>3, <1>2 DEF Remembered
<1>11. Stages'
  BY DEF Stages, Collecting
<1> QED BY <1>5, <1>6, <1>9, <1>10, <1>11 DEF IInv

-----------------------------------------------------------------------------
\* What forward does to a slot that holds x: it becomes v, the other fields become g,
\* and C are the copies that are made of the objects in P.
Effect(x, v, g, P, C) ==
    /\ \/ P = {x} /\ C = {v} /\ x \in Old \ moved
       \/ P = {} /\ C = {} /\ v = ReppyObject(x)
    /\ P \subseteq Old \ moved /\ moved' = moved \cup P
    /\ Old' = Old /\ New' = New \cup C
    /\ C \subseteq ReppyAddr /\ C \cap (Old \cup New) = {}
    /\ v \in New \cup C \cup {Null} /\ v \in ReppyAddr \cup {Null}
    /\ x \in Old => v \in New \cup C /\ HOW_OLD(v) \in {HOW_OLD(x), HOW_OLD(x) + 1}
    /\ g \in [ReppyAddr -> ReppyAddr \cup {Null}]
    /\ \A a \in P : g[a] = v
    /\ \A a \in C : g[a] = field[x] /\ g[a] \in Pre
    /\ \A a \in ReppyAddr \ (P \cup C) : g[a] = field[a]
    /\ top' \in [Generation -> [{1, 2} -> 1 .. GenSize + 1]]
    /\ \A i \in Generation : /\ top[i][Space(i)] <= top'[i][Space(i)]
                             /\ ~Collected(i) => top'[i][To(i)] = top[i][To(i)]
    /\ \A a \in C : a[1] <= gc_level + 1 /\ scan.start[a[1]] <= a[3]

LEMMA Forwards ==
    ASSUME IInv, Collecting, Collecting', half' = half, gc_level' = gc_level,
           NEW x \in Pre, Forward(x).to # Full,
           top' = Forward(x).top, moved' = Forward(x).moved
    PROVE  \E P, C : Effect(x, Forward(x).to, Forward(x).field, P, C)
<1>1. /\ TypeOK /\ Spaces /\ Variables /\ Fields /\ Remembered /\ mode # "over"
      /\ field \in [ReppyAddr -> ReppyAddr \cup {Null}] /\ moved \subseteq Old
      /\ Old \subseteq ReppyAddr /\ New \subseteq ReppyAddr
      /\ top \in [Generation -> [{1, 2} -> 1 .. GenSize + 1]]
  <2>1. TypeOK /\ Spaces /\ Variables /\ Fields /\ Remembered /\ mode # "over"
    BY DEF IInv, Collecting
  <2> QED BY <2>1, Apart DEF TypeOK, Spaces
<1>2. CASE x \in Old \ moved
  <2>1. PICK j \in Generation : \E q \in {<<j, Space(j), top[j][Space(j)]>>} :
              /\ j \in {HOW_OLD(x), HOW_OLD(x) + 1} /\ j <= gc_level + 1
              /\ top[j][Space(j)] <= GenSize
              /\ Forward(x) = [to |-> q, field |-> [field EXCEPT ![q] = field[x], ![x] = q],
                               top |-> [top EXCEPT ![j][Space(j)] = @ + 1],
                               moved |-> moved \cup {x}]
    BY <1>2, ForwardOld
  <2>2. PICK q : /\ q = <<j, Space(j), top[j][Space(j)]>>
                 /\ Forward(x) = [to |-> q, field |-> [field EXCEPT ![q] = field[x], ![x] = q],
                                  top |-> [top EXCEPT ![j][Space(j)] = @ + 1],
                                  moved |-> moved \cup {x}]
    BY <2>1
  <2> DEFINE g == [field EXCEPT ![q] = field[x], ![x] = q]
  <2>3. /\ Forward(x).to = q /\ Forward(x).field = g
        /\ top' = [top EXCEPT ![j][Space(j)] = @ + 1] /\ moved' = moved \cup {x}
    BY <2>2
  <2>4. /\ q \in ReppyAddr \ (Old \cup New) /\ HOW_OLD(q) = j
        /\ Old' = Old /\ New' = New \cup {q}
        /\ top' \in [Generation -> [{1, 2} -> 1 .. GenSize + 1]]
        /\ \A i \in Generation : ~Collected(i) => top'[i][To(i)] = top[i][To(i)]
        /\ \A i \in Generation : top[i][Space(i)] <= top'[i][Space(i)]
        /\ scan.start[j] <= q[3]
    BY <1>1, <2>1, <2>2, <2>3, Grows
  <2>5. /\ x \in ReppyAddr /\ q # x /\ q \in ReppyAddr
        /\ field[x] \in Pre
    BY <1>1, <1>2, <2>4 DEF Fields
  <2>6. /\ g \in [ReppyAddr -> ReppyAddr \cup {Null}] /\ g[x] = q /\ g[q] = field[x]
        /\ \A a \in ReppyAddr : a # x /\ a # q => g[a] = field[a]
    BY <2>5, <1>1
  <2>7. q[1] = j
    BY <2>4 DEF HOW_OLD
  <2> HIDE DEF g
  <2>8. Effect(x, q, g, {x}, {q})
    BY <1>1, <1>2, <2>1, <2>3, <2>4, <2>5, <2>6, <2>7 DEF Effect
  <2> QED BY <2>3, <2>8
<1>3. CASE x \notin Old \ moved
  <2> DEFINE v == ReppyObject(x)
  <2>1. /\ Forward(x).to = v /\ Forward(x).field = field /\ top' = top /\ moved' = moved
        /\ v \in New \cup {Null}
        /\ x \in Old => v \in New /\ HOW_OLD(v) \in {HOW_OLD(x), HOW_OLD(x) + 1}
    BY <1>3, ForwardOther
  <2>2. Old' = Old /\ New' = New
    BY <2>1, Stays
  <2>3. \A i \in Generation : top[i][Space(i)] \in Int
    BY <1>1, Halves
  <2> HIDE DEF v
  <2>4. v = ReppyObject(x)
    BY DEF v
  <2>5. Effect(x, v, field, {}, {})
    BY <1>1, <2>1, <2>2, <2>3, <2>4 DEF Effect
  <2> QED BY <2>1, <2>5
<1> QED BY <1>2, <1>3

\* What the program sees does not change but for the address of an object.
LEMMA Sees ==
    ASSUME IInv, Collecting, NEW x, NEW v, NEW g, NEW P, NEW C, Effect(x, v, g, P, C),
           \A s \in Slot : slot'[s] = slot[s] \/ (slot[s] = x /\ slot'[s] = v),
           NEW B, B \subseteq New, \A a \in B : field[a] = x, x \in Pre,
           \A a \in ReppyAddr : field'[a] = IF a \in B THEN v ELSE g[a]
    PROVE  [Graph!Next]_<<root, next>>
<1>1. /\ mode # "over" /\ Old \subseteq ReppyAddr /\ New \subseteq ReppyAddr
      /\ Old \cap New = {} /\ moved \subseteq Old /\ Pre \subseteq Old \cup New \cup {Null}
  BY Apart DEF IInv, Collecting, Spaces
<1>2. CASE P = {x} /\ C = {v} /\ x \in Old \ moved
  <2>1. v \in ReppyAddr \ (Old \cup New) /\ moved' = moved \cup {x} /\ x \in ReppyAddr
        /\ x \notin B /\ v \notin B /\ v # x
    BY <1>1, <1>2 DEF Effect
  <2>2. field'[x] = v /\ field'[v] = field[x]
    BY <1>2, <2>1 DEF Effect
  <2>3. \A a \in moved : field'[a] = field[a]
    BY <1>1, <1>2, <2>1 DEF Effect
  <2>4. \A a \in Live \ {x} : field'[a] = field[a] \/ (field[a] = x /\ field'[a] = v)
    <3>1. \A a \in Live \ {x} : a \in ReppyAddr /\ a # v /\ a # x
      BY <1>1, <2>1 DEF Live
    <3> QED BY <3>1, <1>2 DEF Effect
  <2>5. Graph!Move
    BY <1>1, <1>2, <2>1, <2>2, <2>3, <2>4, CopyMoves
  <2> QED BY <2>5 DEF Graph!Next
<1>3. CASE P = {} /\ C = {} /\ v = ReppyObject(x)
  <2>1. moved' = moved /\ \A a \in ReppyAddr : g[a] = field[a]
    BY <1>3 DEF Effect
  <2>2. \A s \in Slot : slot'[s] = slot[s] \/ slot'[s] = ReppyObject(slot[s])
    BY <1>3
  <2>3. \A a \in ReppyAddr :
               field'[a] = field[a]
               \/ (/\ a \notin moved /\ field[a] \in Old \cup New \cup {Null}
                   /\ field'[a] = ReppyObject(field[a]))
    BY <1>1, <1>3, <2>1
  <2>4. UNCHANGED <<root, next>>
    BY <1>1, <2>1, <2>2, <2>3, SameGraph
  <2> QED BY <2>4
<1> QED BY <1>2, <1>3 DEF Effect

\* The loop of do_gc does not pass the free pointer of a space.
LEMMA BelowTop ==
    ASSUME IInv, Collecting, NEW x, NEW v, NEW g, NEW P, NEW C, Effect(x, v, g, P, C),
           NEW i \in Generation, i <= gc_level + 1
    PROVE  scan.start[i] <= top'[i][Space(i)]
<1>1. TypeOK /\ Spaces
  BY DEF IInv, Collecting
<1>2. scan.start[i] <= top[i][Space(i)]
  BY <1>1 DEF Spaces
<1>3. top[i][Space(i)] <= top'[i][Space(i)] /\ Space(i) \in {1, 2}
  BY <1>1, Halves DEF Effect
<1>4. scan.start \in [Generation -> 1 .. GenSize + 1]
  BY <1>1 DEF TypeOK
<1>5. scan.start[i] \in Int /\ top[i][Space(i)] \in Int
  BY <1>1, <1>4, Halves
<1>6. top' \in [Generation -> [{1, 2} -> 1 .. GenSize + 1]]
  BY DEF Effect
<1>7. top'[i][Space(i)] \in Int
  BY <1>3, <1>6
<1> QED BY <1>2, <1>3, <1>5, <1>7

\* The rest of a step of a collection: it stores v, the new place of the object that it
\* forwards, in the slots of the roots that it takes from left and of the objects in B,
\* and remembers those that are older than v.
Stores(v, g, C, B) ==
    /\ half' = half /\ gc_level' = gc_level /\ barriered' = barriered
    /\ B \subseteq New
    /\ \A a \in ReppyAddr : field'[a] = IF a \in B THEN v ELSE g[a]
    /\ Waiting' = (Waiting \ B) \cup C
    /\ left' \subseteq left
    /\ \A s \in Slot : slot'[s] = IF s \in left \ left' THEN v ELSE slot[s]
    /\ \A i \in Generation :
          /\ i <= gc_level + 1 => scan'.start[i] <= top'[i][Space(i)]
          /\ ~Collected(i) => remember'[i][To(i)] = remember[i][To(i)]
          /\ remember[i][Space(i)] \subseteq remember'[i][Space(i)]
          /\ \A a \in remember'[i][Space(i)] \ remember[i][Space(i)] : a \in B /\ HOW_OLD(a) >= i
    /\ \A a \in B : v \in New \cup C /\ HOW_OLD(a) > HOW_OLD(v)
                    => a \in remember'[HOW_OLD(v)][Space(HOW_OLD(v))]
    /\ entries' \subseteq entries
    /\ \A e \in entries \ entries' : e[2] \in B
    /\ \A e \in entries' : e[2] \in B /\ HOW_OLD(e[2]) > gc_level /\ v \in New \cup C
                           => e[1] < HOW_OLD(v)
    /\ mode' = "scan" => entries' = {} /\ left' = {}

\* A step that forwards the object in x keeps the invariant.
LEMMA ForwardKeeps ==
    ASSUME IInv, Collecting, Collecting', TypeOK',
           NEW x, NEW v, NEW g, NEW P, NEW C, Effect(x, v, g, P, C), NEW B, Stores(v, g, C, B)
    PROVE  IInv'
<1> USE DEF Stores
<1>1. /\ Old \subseteq ReppyAddr /\ New \subseteq ReppyAddr /\ Old \cap New = {}
  BY Apart DEF IInv
<1>2. /\ P \subseteq Old \ moved /\ C \subseteq {v} /\ B \subseteq New
      /\ Old' = Old /\ New' = New \cup C /\ C \cap (Old \cup New) = {}
      /\ C \subseteq ReppyAddr
      /\ v \in New \cup C \cup {Null} /\ moved' = moved \cup P
  BY DEF Effect
<1>3. \A a \in P : field'[a] = v /\ v \in C /\ HOW_OLD(v) \in {HOW_OLD(a), HOW_OLD(a) + 1}
  <2>1. \A a \in P : a = x /\ C = {v} /\ a \in Old /\ a \notin B /\ a \in ReppyAddr
    BY <1>1, <1>2 DEF Effect
  <2>2. \A a \in P : g[a] = v
    BY DEF Effect
  <2>3. \A a \in P : HOW_OLD(v) \in {HOW_OLD(x), HOW_OLD(x) + 1}
    BY <2>1 DEF Effect
  <2> QED BY <2>1, <2>2, <2>3
<1>4. \A a \in C : field'[a] \in Pre
  <2>1. \A a \in C : a \in ReppyAddr /\ a \notin B /\ g[a] \in Pre
    BY <1>2 DEF Effect
  <2> QED BY <2>1
<1>5. \A a \in ReppyAddr \ (P \cup C) : g[a] = field[a]
  BY DEF Effect
<1>6. \A a \in Old \ P : field'[a] = field[a]
  <2>1. \A a \in Old \ P : a \in ReppyAddr \ (P \cup C) /\ a \notin B
    BY <1>1, <1>2
  <2> QED BY <2>1, <1>5
<1>7. \A a \in New : field'[a] = IF a \in B THEN v ELSE field[a]
  <2>1. \A a \in New : a \in ReppyAddr \ (P \cup C)
    BY <1>1, <1>2
  <2> QED BY <2>1, <1>5
<1>8. \A i \in Generation :
         /\ ~Collected(i) => /\ top'[i][To(i)] = top[i][To(i)]
                             /\ remember'[i][To(i)] = remember[i][To(i)]
         /\ i <= gc_level + 1 => scan.start'[i] <= top'[i][Space(i)]
         /\ remember[i][Space(i)] \subseteq remember'[i][Space(i)]
         /\ \A a \in remember'[i][Space(i)] \ remember[i][Space(i)] : a \in B /\ HOW_OLD(a) >= i
  <2>1. \A i \in Generation : ~Collected(i) => top'[i][To(i)] = top[i][To(i)]
    BY DEF Effect
  <2> QED BY <2>1
<1>9. \A a \in B : v \in New \cup C /\ HOW_OLD(a) > HOW_OLD(v)
                   => v \in ReppyAddr /\ a \in remember'[HOW_OLD(v)][Space(HOW_OLD(v))]
  BY <1>1, <1>2
<1>10. Passes(v, P, C, B)
  BY <1>2, <1>3, <1>4, <1>6, <1>7 DEF Passes
<1> QED BY <1>8, <1>9, <1>10, Keeps

-----------------------------------------------------------------------------
\* What a step does to the graph, and that it keeps the invariant
Good == IInv' /\ [Graph!Next]_<<root, next>>

\* The program stops, and nothing else changes.
LEMMA OverStep ==
    ASSUME IInv, Over
    PROVE  Good
<1>1. TypeOK'
  <2>1. mode' = "over" /\ Roots' = Roots
    BY DEF Over, Roots
  <2> QED BY <2>1 DEF IInv, TypeOK, Over
<1>2. UNCHANGED <<root, next>>
  BY DEF Over, root, next, ReppyObject
<1> QED BY <1>1, <1>2 DEF Over, Good, IInv

\* An object is the last one of its space, or one of those that wait.
LEMMA WaitingNext ==
    ASSUME Collecting, Collecting', half' = half, gc_level' = gc_level,
           NEW C, New' = New \cup C, New \subseteq ReppyAddr, C \subseteq ReppyAddr,
           scan' = scan, \A a \in C : a[1] <= gc_level + 1 /\ scan.start[a[1]] <= a[3]
    PROVE  Waiting' = Waiting \cup C
<1>1. Waiting' = {a \in New \cup C : a[1] <= gc_level + 1 /\ scan.start[a[1]] <= a[3]}
  BY DEF Waiting
<1>2. Waiting = {a \in New : a[1] <= gc_level + 1 /\ scan.start[a[1]] <= a[3]}
  BY DEF Waiting
<1> QED BY <1>1, <1>2

\* A root is forwarded.
LEMMA RootStep ==
    ASSUME IInv, forward_variable
    PROVE  Good
<1> DEFINE s == CHOOSE r \in left : TRUE
           x == slot[s]
           v == Forward(x).to
           g == Forward(x).field
<1>1. CASE v = Full
  BY <1>1, OverStep DEF forward_variable
<1>2. CASE v # Full
  <2>1. /\ mode = "remembered" /\ entries = {} /\ s \in left /\ Collecting /\ mode # "over"
        /\ slot' = [slot EXCEPT ![s] = v] /\ left' = left \ {s}
        /\ field' = g /\ top' = Forward(x).top /\ moved' = Forward(x).moved
        /\ mode' = IF left = {s} THEN "scan" ELSE mode
        /\ UNCHANGED <<barriered, request, half, water_mark, remember, gc_level, entries, scan>>
    BY <1>2 DEF forward_variable, Done, Collecting
  <2>2. /\ Collecting' /\ s \in Slot /\ x \in Pre /\ left \subseteq Slot
        /\ slot \in [Slot -> ReppyAddr \cup {Null}]
        /\ New \subseteq ReppyAddr
    <3>1. left \subseteq Slot
      BY DEF IInv, TypeOK, Roots, Slot
    <3> QED BY <2>1, <3>1, Apart DEF Collecting, IInv, Variables, TypeOK
  <2> HIDE DEF s, v, g
  <2> HIDE DEF x
  <2>3. PICK P, C : Effect(x, v, g, P, C)
    BY <1>2, <2>1, <2>2, Forwards DEF v, g
  <2>4. Waiting' = Waiting \cup C
    BY <2>1, <2>2, <2>3, WaitingNext DEF Effect
  <2>5. /\ slot' \in [Slot -> ReppyAddr \cup {Null}]
        /\ slot'[s] = v /\ \A r \in Slot : r # s => slot'[r] = slot[r]
        /\ field' \in [ReppyAddr -> ReppyAddr \cup {Null}]
        /\ moved' \subseteq ReppyAddr
        /\ top' \in [Generation -> [{1, 2} -> 1 .. GenSize + 1]]
    <3>1. v \in ReppyAddr \cup {Null} /\ g \in [ReppyAddr -> ReppyAddr \cup {Null}]
          /\ moved' \subseteq ReppyAddr /\ top' \in [Generation -> [{1, 2} -> 1 .. GenSize + 1]]
      BY <2>3, Apart DEF Effect, IInv, TypeOK
    <3> QED BY <3>1, <2>1, <2>2
  <2>6. TypeOK'
    <3>1. Roots' = Roots /\ left' \subseteq left
      BY <2>1 DEF Roots
    <3> QED BY <3>1, <2>1, <2>5 DEF IInv, TypeOK
  <2>7. IInv'
    <3> DEFINE B == {}
    <3>1. B \subseteq New /\ \A a \in ReppyAddr : field'[a] = IF a \in B THEN v ELSE g[a]
      BY <2>1
    <3>2. Waiting' = (Waiting \ B) \cup C
      BY <2>4
    <3>3. left' \subseteq left
          /\ \A r \in Slot : slot'[r] = IF r \in left \ left' THEN v ELSE slot[r]
      BY <2>1, <2>2, <2>5
    <3>4. \A i \in Generation : i <= gc_level + 1 => scan.start'[i] <= top'[i][Space(i)]
      BY <2>1, <2>3, BelowTop
    <3>5. /\ entries' = {} /\ entries = {} /\ (mode' = "scan" => left' = {}) /\ remember' = remember
          /\ half' = half /\ gc_level' = gc_level /\ barriered' = barriered
      BY <2>1
    <3>6. B = {}
      OBVIOUS
    <3> HIDE DEF B
    <3>7. /\ entries' \subseteq entries /\ \A e \in entries \ entries' : e[2] \in B
          /\ \A e \in entries' : e[2] \in B /\ HOW_OLD(e[2]) > gc_level /\ v \in New \cup C
                                  => e[1] < HOW_OLD(v)
          /\ mode' = "scan" => entries' = {} /\ left' = {}
      BY <3>5
    <3>8. /\ \A i \in Generation :
              /\ ~Collected(i) => remember'[i][To(i)] = remember[i][To(i)]
              /\ remember[i][Space(i)] \subseteq remember'[i][Space(i)]
              /\ \A a \in remember'[i][Space(i)] \ remember[i][Space(i)] : a \in B /\ HOW_OLD(a) >= i
          /\ \A a \in B : v \in New \cup C /\ HOW_OLD(a) > HOW_OLD(v)
                           => a \in remember'[HOW_OLD(v)][Space(HOW_OLD(v))]
      BY <3>5, <3>6
    <3>9. Stores(v, g, C, B)
      BY <3>1, <3>2, <3>3, <3>4, <3>5, <3>7, <3>8 DEF Stores
    <3>10. IInv /\ Collecting /\ Collecting' /\ TypeOK' /\ Effect(x, v, g, P, C)
      BY <2>1, <2>2, <2>3, <2>6
    <3> QED BY <3>9, <3>10, ForwardKeeps
  <2>8. [Graph!Next]_<<root, next>>
    <3>1. \A r \in Slot : slot'[r] = slot[r] \/ (slot[r] = x /\ slot'[r] = v)
      BY <2>5 DEF x
    <3>2. \A a \in ReppyAddr : field'[a] = IF a \in {} THEN v ELSE g[a]
      BY <2>1
    <3> QED BY <2>1, <2>2, <2>3, <3>1, <3>2, Sees
  <2> QED BY <2>7, <2>8 DEF Good
<1> QED BY <1>1, <1>2

\* A slot of a remembered set is looked at.
LEMMA EntryStep ==
    ASSUME IInv, forward_remembered
    PROVE  Good
<1> DEFINE i == Max({e[1] : e \in entries})
           a == (CHOOSE e \in entries : e[1] = i)[2]
           x == field[a]
           v == Forward(x).to
           g == Forward(x).field
           j == HOW_OLD(v)
<1>1. /\ mode = "remembered" /\ entries # {} /\ Collecting /\ mode # "over"
      /\ IF HOW_OLD(a) <= gc_level \/ x = Null \/ HOW_OLD(x) # i
         THEN /\ entries' = entries \ {<<i, a>>}
              /\ UNCHANGED <<slot, field, barriered, request, mode, half, top, water_mark,
                             remember, moved, gc_level, left, scan>>
         ELSE IF v = Full THEN Over
         ELSE /\ entries' = entries \ {<<i, a>>}
              /\ Done([Forward(x) EXCEPT !.field[a] = v])
              /\ IF j <= gc_level THEN Push(j, To(j), a)
                 ELSE IF j < Oldest THEN Push(j, From(j), a) ELSE UNCHANGED remember
              /\ UNCHANGED <<slot, barriered, request, mode, half, water_mark, gc_level, left, scan>>
  BY DEF forward_remembered, Collecting
<1>2. /\ TypeOK /\ Spaces /\ Variables /\ Fields /\ Remembered
      /\ entries \subseteq Generation \X ReppyAddr /\ gc_level \in Generation
      /\ Old \subseteq ReppyAddr /\ New \subseteq ReppyAddr /\ Old \cap New = {}
  BY <1>1, Apart DEF IInv, TypeOK
<1>3. i \in Generation /\ a \in ReppyAddr /\ <<i, a>> \in entries /\ \A e \in entries : e[1] <= i
  <2> DEFINE S == {e[1] : e \in entries}
  <2>1. S \subseteq 0 .. Oldest /\ Oldest \in Nat /\ S # {}
    <3>1. Oldest \in Nat /\ Generation = 0 .. Oldest
      BY Addresses
    <3>2. S \subseteq Generation
      BY <1>2
    <3>3. entries # {}
      BY <1>1
    <3> QED BY <3>1, <3>2, <3>3
  <2>2. Max(S) \in S /\ \A k \in S : Max(S) >= k
    <3> HIDE DEF S
    <3> QED BY <2>1, MaxOf
  <2>3. \E e \in entries : e[1] = i
    BY <2>2
  <2>4. \A e \in entries : e[1] <= i
    <3>1. \A e \in entries : i >= e[1] /\ e[1] \in 0 .. Oldest
      BY <2>2, <2>1
    <3>2. i \in 0 .. Oldest
      BY <2>1, <2>2
    <3> HIDE DEF i
    <3> QED BY <3>1, <3>2, <2>1
  <2> HIDE DEF i
  <2> DEFINE e == CHOOSE c \in entries : c[1] = i
  <2>5. e \in entries /\ e[1] = i
    BY <2>3
  <2>6. e = <<e[1], e[2]>> /\ e[2] \in ReppyAddr /\ e[1] \in Generation
    BY <2>5, <1>2
  <2> QED BY <2>4, <2>5, <2>6
<1> HIDE DEF i
<1> HIDE DEF a
<1>4. CASE HOW_OLD(a) <= gc_level \/ x = Null \/ HOW_OLD(x) # i
  <2>1. /\ entries' = entries \ {<<i, a>>} /\ entries' \subseteq entries
        /\ UNCHANGED <<slot, field, barriered, request, mode, half, top, water_mark,
                       remember, moved, gc_level, left, scan>>
        /\ Collecting'
    BY <1>1, <1>4 DEF Collecting
  <2>2. Old' = Old /\ New' = New /\ Waiting' = Waiting /\ Pre' = Pre /\ Roots' = Roots
    BY <1>1, <2>1 DEF Old, New, Waiting, Pre, Roots, Collected, Collecting, Space, From, To, InUse
  <2>3. TypeOK'
    BY <1>2, <2>1, <2>2 DEF TypeOK
  <2>4. Spaces' /\ Variables'
    BY <1>2, <2>1, <2>2 DEF Spaces, Variables, Collected, Collecting, Space, From, To
  <2>5. Fields'
    <3>1. \A b \in moved : field[b] \in New /\ HOW_OLD(field[b]) \in {HOW_OLD(b), HOW_OLD(b) + 1}
      BY <1>2 DEF Fields
    <3>2. \A b \in (Old \ moved) \cup Waiting : field[b] \in Pre
      BY <1>2 DEF Fields
    <3>3. ASSUME NEW b \in New \ Waiting
          PROVE  \/ field[b] \in New \cup {Null}
                 \/ /\ field[b] \in Old /\ HOW_OLD(b) > gc_level
                    /\ <<HOW_OLD(field[b]), b>> \in entries'
      <4>1. \/ field[b] \in New \cup {Null}
            \/ /\ field[b] \in Old /\ HOW_OLD(b) > gc_level
               /\ <<HOW_OLD(field[b]), b>> \in entries
        BY <1>2 DEF Fields
      <4>2. CASE b = a /\ HOW_OLD(a) > gc_level
        <5>1. ~(HOW_OLD(a) <= gc_level)
          <6>1. HOW_OLD(a) \in Int /\ gc_level \in Int
            BY <1>2, <1>3, Addresses DEF HOW_OLD
          <6> QED BY <6>1, <4>2
        <5>2. x = Null \/ HOW_OLD(x) # i
          BY <5>1, <1>4
        <5>3. <<HOW_OLD(x), a>> # <<i, a>> \/ x = Null
          BY <5>2
        <5>4. Null \notin Old
          BY <1>2, Addresses
        <5> QED BY <4>1, <4>2, <5>3, <5>4, <2>1
      <4>3. CASE b # a
        BY <4>1, <4>3, <2>1
      <4> QED BY <4>1, <4>2, <4>3
    <3> QED BY <3>1, <3>2, <3>3, <2>1, <2>2 DEF Fields
  <2>6. Remembered'
    <3>1. \A k : Space(k)' = Space(k)
      BY <2>1, <1>1, SameSpaces
    <3> QED BY <3>1, <1>2, <2>1, <2>2 DEF Remembered
  <2>7. Stages'
    BY <1>1, <2>1 DEF Stages
  <2>8. UNCHANGED <<root, next>>
    BY <2>1 DEF root, next, ReppyObject
  <2> QED BY <2>3, <2>4, <2>5, <2>6, <2>7, <2>8 DEF Good, IInv
<1>5. CASE ~(HOW_OLD(a) <= gc_level \/ x = Null \/ HOW_OLD(x) # i) /\ v = Full
  BY <1>1, <1>5, OverStep
<1>6. CASE ~(HOW_OLD(a) <= gc_level \/ x = Null \/ HOW_OLD(x) # i) /\ v # Full
  <2>1. /\ entries' = entries \ {<<i, a>>}
        /\ Done([Forward(x) EXCEPT !.field[a] = v])
        /\ IF j <= gc_level THEN Push(j, To(j), a)
           ELSE IF j < Oldest THEN Push(j, From(j), a) ELSE UNCHANGED remember
        /\ UNCHANGED <<slot, barriered, request, mode, half, water_mark, gc_level, left, scan>>
        /\ Collecting' /\ HOW_OLD(a) > gc_level /\ x # Null /\ HOW_OLD(x) = i
    <3>1. HOW_OLD(a) \in Int /\ gc_level \in Int
      BY <1>2, <1>3, Addresses DEF HOW_OLD
    <3> QED BY <1>1, <1>6, <3>1 DEF Collecting
  <2>2. /\ a \in New \ Waiting /\ i <= gc_level
        /\ field[a] \in New => i < HOW_OLD(field[a])
    <3>1. /\ <<i, a>>[1] <= gc_level /\ <<i, a>>[1] = i /\ <<i, a>>[2] = a
          /\ HOW_OLD(<<i, a>>[2]) > gc_level =>
                /\ <<i, a>>[2] \in New \ Waiting
                /\ field[<<i, a>>[2]] \in New => <<i, a>>[1] < HOW_OLD(field[<<i, a>>[2]])
      BY <1>2, <1>3 DEF Remembered
    <3> QED BY <3>1, <2>1
  <2>3. x \in Old /\ x \in Pre
    <3>1. x \in New \cup {Null} \/ x \in Old
      BY <1>2, <2>2 DEF Fields
    <3>2. x \notin New
      <4>1. i \in Int
        BY <1>3, Addresses
      <4> QED BY <4>1, <2>1, <2>2
    <3> QED BY <3>1, <3>2, <2>1 DEF Pre
  <2>4. top' = Forward(x).top /\ moved' = Forward(x).moved /\ field' = [g EXCEPT ![a] = v]
    <3>1. DOMAIN Forward(x) = {"to", "field", "top", "moved"}
      BY DEF Forward
    <3>2. /\ [Forward(x) EXCEPT !.field[a] = v].top = Forward(x).top
          /\ [Forward(x) EXCEPT !.field[a] = v].moved = Forward(x).moved
          /\ [Forward(x) EXCEPT !.field[a] = v].field = [g EXCEPT ![a] = v]
      BY <3>1
    <3> QED BY <3>2, <2>1 DEF Done
  <2> HIDE DEF v, g
  <2>5. v # Full /\ Forward(x).to = v /\ Forward(x).field = g
    BY <1>6 DEF v, g
  <2> HIDE DEF x
  <2>6. PICK P, C : Effect(x, v, g, P, C)
    BY <1>1, <2>1, <2>3, <2>4, <2>5, Forwards
  <2>7. /\ g \in [ReppyAddr -> ReppyAddr \cup {Null}] /\ v \in ReppyAddr \cup {Null}
        /\ v \in New \cup C /\ C \subseteq ReppyAddr /\ C \cap (Old \cup New) = {}
        /\ j \in {i, i + 1} /\ Old' = Old /\ New' = New \cup C
        /\ top' \in [Generation -> [{1, 2} -> 1 .. GenSize + 1]]
        /\ moved' \subseteq ReppyAddr
    <3>1. moved \subseteq ReppyAddr
      BY <1>2 DEF TypeOK
    <3> QED BY <2>1, <2>3, <2>6, <3>1, <1>2 DEF Effect
  <2>8. v \in ReppyAddr /\ j \in Generation /\ i <= j /\ j <= gc_level + 1 /\ HOW_OLD(a) >= j
        /\ HOW_OLD(a) \in Generation
    <3>1. v \in ReppyAddr /\ j \in Generation /\ HOW_OLD(a) \in Generation
      BY <2>7, <1>2, <1>3, Addresses DEF HOW_OLD
    <3>2. i \in Int /\ gc_level \in Int /\ HOW_OLD(a) \in Int
      BY <3>1, <1>2, <1>3, Addresses
    <3> QED BY <3>1, <3>2, <2>1, <2>2, <2>7
  <2>9. /\ field' \in [ReppyAddr -> ReppyAddr \cup {Null}]
        /\ \A b \in ReppyAddr : field'[b] = IF b \in {a} THEN v ELSE g[b]
    BY <2>4, <2>7, <1>3
  <2> HIDE DEF j
  <2>10. /\ remember' \in [Generation -> [{1, 2} -> SUBSET ReppyAddr]]
         /\ \A k \in Generation :
              /\ ~Collected(k) => remember'[k][To(k)] = remember[k][To(k)]
              /\ remember[k][Space(k)] \subseteq remember'[k][Space(k)]
              /\ \A b \in remember'[k][Space(k)] \ remember[k][Space(k)] : b \in {a} /\ HOW_OLD(b) >= k
         /\ HOW_OLD(a) > j => a \in remember'[j][Space(j)]
    <3>1. /\ remember \in [Generation -> [{1, 2} -> SUBSET ReppyAddr]]
          /\ \A k \in Generation : From(k) \in {1, 2} /\ To(k) \in {1, 2} /\ From(k) # To(k)
                                   /\ Space(k) \in {1, 2}
      BY <1>2, Halves DEF TypeOK
    <3>2. j \in Int /\ HOW_OLD(a) \in Int /\ gc_level \in Int /\ Oldest \in Int
          /\ \A k \in Generation : k \in Int /\ k <= Oldest
      BY <2>8, <1>2, Addresses
    <3>3. CASE j <= gc_level \/ j < Oldest
      <4>1. remember' = [remember EXCEPT ![j][Space(j)] = @ \cup {a}]
        BY <2>1, <3>2, <3>3, <1>1 DEF Push, Space, Collected
      <4>2. /\ remember' \in [Generation -> [{1, 2} -> SUBSET ReppyAddr]]
            /\ \A k \in Generation, h \in {1, 2} :
                  remember'[k][h] = IF k = j /\ h = Space(j) THEN remember[k][h] \cup {a}
                                    ELSE remember[k][h]
        BY <4>1, <3>1, <2>8, <1>3
      <4>3. \A k \in Generation : ~Collected(k) => To(k) # Space(k)
        BY <3>1 DEF Space
      <4>4. \A k \in Generation : ~Collected(k) => remember'[k][To(k)] = remember[k][To(k)]
        BY <4>2, <4>3, <3>1
      <4>5. \A k \in Generation : remember'[k][Space(k)] = IF k = j THEN remember[k][Space(k)] \cup {a}
                                                           ELSE remember[k][Space(k)]
        BY <4>2, <3>1
      <4> QED BY <4>2, <4>4, <4>5, <2>8
    <3>4. CASE ~(j <= gc_level \/ j < Oldest)
      <4>1. remember' = remember
        BY <2>1, <3>4
      <4>2. ~(HOW_OLD(a) > j)
        BY <3>2, <3>4, <2>8
      <4> QED BY <4>1, <4>2, <3>1
    <3> QED BY <3>3, <3>4
  <2>11. TypeOK'
    <3>1. Roots' = Roots /\ left' = left /\ entries' \subseteq entries
      BY <2>1 DEF Roots
    <3> QED BY <3>1, <2>1, <2>7, <2>9, <2>10, <1>2 DEF TypeOK
  <2>12. Waiting' = (Waiting \ {a}) \cup C
    <3>1. Waiting' = Waiting \cup C
      BY <1>1, <1>2, <2>1, <2>6, <2>7, WaitingNext DEF Effect
    <3> QED BY <3>1, <2>2
  <2>13. IInv'
    <3> DEFINE B == {a}
    <3>1. /\ B \subseteq New /\ \A b \in ReppyAddr : field'[b] = IF b \in B THEN v ELSE g[b]
          /\ Waiting' = (Waiting \ B) \cup C
      BY <2>2, <2>9, <2>12
    <3>2. left' \subseteq left
          /\ \A r \in Slot : slot'[r] = IF r \in left \ left' THEN v ELSE slot[r]
      BY <2>1
    <3>3. \A k \in Generation : k <= gc_level + 1 => scan.start'[k] <= top'[k][Space(k)]
      BY <1>1, <2>1, <2>6, BelowTop
    <3>4. /\ entries' \subseteq entries /\ \A e \in entries \ entries' : e[2] \in B
          /\ \A e \in entries' : e[2] \in B /\ HOW_OLD(e[2]) > gc_level /\ v \in New \cup C
                                  => e[1] < HOW_OLD(v)
          /\ mode' = "scan" => entries' = {} /\ left' = {}
      <4>1. ASSUME NEW e \in entries', e[2] = a PROVE e[1] < HOW_OLD(v)
        <5>1. e = <<e[1], e[2]>> /\ e[1] \in Int /\ i \in Int /\ j \in Int /\ e \in entries
          BY <2>1, <1>2, <1>3, <2>8, Addresses
        <5>2. e[1] <= i /\ e[1] # i
          BY <5>1, <4>1, <2>1, <1>3
        <5> QED BY <5>1, <5>2, <2>8 DEF j
      <4>2. \A e \in entries \ entries' : e[2] \in B
        BY <2>1
      <4> QED BY <4>1, <4>2, <1>1, <2>1
    <3>5. /\ \A k \in Generation :
              /\ ~Collected(k) => remember'[k][To(k)] = remember[k][To(k)]
              /\ remember[k][Space(k)] \subseteq remember'[k][Space(k)]
              /\ \A b \in remember'[k][Space(k)] \ remember[k][Space(k)] : b \in B /\ HOW_OLD(b) >= k
          /\ \A b \in B : v \in New \cup C /\ HOW_OLD(b) > HOW_OLD(v)
                           => b \in remember'[HOW_OLD(v)][Space(HOW_OLD(v))]
      BY <2>10 DEF j
    <3>6. half' = half /\ gc_level' = gc_level /\ barriered' = barriered
      BY <2>1
    <3> HIDE DEF B
    <3>7. Stores(v, g, C, B)
      BY <3>1, <3>2, <3>3, <3>4, <3>5, <3>6 DEF Stores
    <3>8. IInv /\ Collecting /\ Collecting' /\ TypeOK' /\ Effect(x, v, g, P, C)
      BY <1>1, <2>1, <2>6, <2>11
    <3> QED BY <3>7, <3>8, ForwardKeeps
  <2>14. [Graph!Next]_<<root, next>>
    <3>1. \A r \in Slot : slot'[r] = slot[r] \/ (slot[r] = x /\ slot'[r] = v)
      BY <2>1
    <3> DEFINE B == {a}
    <3>2. /\ B \subseteq New /\ \A b \in B : field[b] = x
          /\ \A b \in ReppyAddr : field'[b] = IF b \in B THEN v ELSE g[b]
      BY <2>2, <2>9 DEF x
    <3> HIDE DEF B
    <3> QED BY <1>1, <2>3, <2>6, <3>1, <3>2, Sees
  <2> QED BY <2>13, <2>14 DEF Good
<1> QED BY <1>4, <1>5, <1>6

\* The loop of do_gc goes on with a generation that has objects that wait.
LEMMA AtUnscanned ==
    ASSUME TypeOK, Collecting, Unscanned # {}
    PROVE  /\ At \in Generation /\ At <= gc_level + 1
           /\ scan.start[At] < top[At][Space(At)] /\ Scanned(At) = Space(At)
<1>1. gc_level \in Generation /\ Oldest \in Nat /\ Generation = 0 .. Oldest
  BY Addresses DEF TypeOK
<1>2. Unscanned \subseteq 0 .. Oldest
  <2>1. gc_level + 1 \in Nat
    BY <1>1
  <2>2. Min({gc_level + 1, Oldest}) <= Oldest
    BY <1>1, <2>1, MinOf
  <2>3. Min({gc_level + 1, Oldest}) \in Nat
    BY <1>1, <2>1, MinOf
  <2> QED BY <1>1, <2>2, <2>3 DEF Unscanned
<1>3. At \in Unscanned
  <2> DEFINE below == {i \in Unscanned : i < scan.at}
             S == IF below # {} THEN below ELSE Unscanned
  <2>1. S \subseteq Unscanned /\ S # {}
    OBVIOUS
  <2>2. Max(S) \in S
    <3> HIDE DEF S
    <3> QED BY <2>1, <1>1, <1>2, MaxOf
  <2>3. (At = scan.at /\ scan.at \in Unscanned) \/ At = Max(S)
    BY DEF At
  <2> HIDE DEF S
  <2> QED BY <2>1, <2>2, <2>3
<1>4. At <= gc_level + 1 /\ scan.start[At] < top[At][Scanned(At)]
  <2>1. At \in 0 .. Min({gc_level + 1, Oldest}) /\ scan.start[At] < top[At][Scanned(At)]
    BY <1>3 DEF Unscanned
  <2>2. Min({gc_level + 1, Oldest}) <= gc_level + 1 /\ Min({gc_level + 1, Oldest}) \in Nat
    <3>1. gc_level + 1 \in Nat
      BY <1>1
    <3> QED BY <1>1, <3>1, MinOf
  <2> QED BY <1>1, <2>1, <2>2
<1>5. Scanned(At) = Space(At)
  BY DEF Scanned, Space, Collected
<1> QED BY <1>1, <1>2, <1>3, <1>4, <1>5

\* An object that waits is scanned.
LEMMA ScanStep ==
    ASSUME IInv, scan_object
    PROVE  Good
<1> DEFINE t == At
           a == <<t, Scanned(t), scan.start[t]>>
           x == field[a]
           v == Forward(x).to
           g == Forward(x).field
           j == HOW_OLD(v)
<1>1. /\ mode = "scan" /\ Unscanned # {} /\ Collecting /\ mode # "over"
      /\ IF v = Full THEN Over
         ELSE /\ Done([Forward(x) EXCEPT !.field[a] = v])
              /\ scan' = [start |-> [scan.start EXCEPT ![t] = @ + 1], at |-> t]
              /\ IF Remembers(a, v) THEN Push(j, To(j), a) ELSE UNCHANGED remember
              /\ UNCHANGED <<slot, barriered, request, mode, half, water_mark, gc_level, entries, left>>
  BY DEF scan_object, Collecting
<1>2. /\ TypeOK /\ Spaces /\ Variables /\ Fields /\ Remembered /\ entries = {} /\ left = {}
      /\ gc_level \in Generation
      /\ Old \subseteq ReppyAddr /\ New \subseteq ReppyAddr /\ Old \cap New = {}
  BY <1>1, Apart DEF IInv, TypeOK, Stages
<1>3. /\ t \in Generation /\ t <= gc_level + 1
      /\ scan.start[t] < top[t][Space(t)] /\ Scanned(t) = Space(t)
      /\ scan.start \in [Generation -> 1 .. GenSize + 1]
      /\ scan.start[t] \in 1 .. GenSize + 1 /\ Space(t) \in {1, 2}
      /\ top[t][Space(t)] \in 1 .. GenSize + 1 /\ GenSize \in Nat
  <2>1. /\ t \in Generation /\ t <= gc_level + 1
        /\ scan.start[t] < top[t][Space(t)] /\ Scanned(t) = Space(t)
    BY <1>1, <1>2, AtUnscanned
  <2>2. scan.start \in [Generation -> 1 .. GenSize + 1]
    BY <1>2 DEF TypeOK
  <2> QED BY <2>1, <2>2, <1>2, Halves, Addresses
<1> HIDE DEF t
<1>4. /\ a \in ReppyAddr /\ a[1] = t /\ a[2] = Space(t) /\ a[3] = scan.start[t] /\ HOW_OLD(a) = t
  <2>1. scan.start[t] \in 1 .. GenSize
    BY <1>3
  <2>2. a = <<t, Space(t), scan.start[t]>>
    BY <1>3
  <2>3. <<t, Space(t), scan.start[t]>> \in ReppyAddr
    BY <1>3, <2>1, Addresses
  <2> QED BY <2>2, <2>3 DEF HOW_OLD
<1> HIDE DEF a
<1>5. a \in Waiting /\ a \in New /\ x \in Pre
  <2>1. a \in New
    BY <1>3, <1>4 DEF New, InUse
  <2>2. a \in Waiting
    BY <2>1, <1>1, <1>3, <1>4 DEF Waiting
  <2> QED BY <2>1, <2>2, <1>2 DEF Fields
<1>6. CASE v = Full
  BY <1>1, <1>6, OverStep
<1>7. CASE v # Full
  <2>1. /\ Done([Forward(x) EXCEPT !.field[a] = v])
        /\ scan' = [start |-> [scan.start EXCEPT ![t] = @ + 1], at |-> t]
        /\ IF Remembers(a, v) THEN Push(j, To(j), a) ELSE UNCHANGED remember
        /\ UNCHANGED <<slot, barriered, request, mode, half, water_mark, gc_level, entries, left>>
        /\ Collecting'
    BY <1>1, <1>7 DEF Collecting
  <2>4. top' = Forward(x).top /\ moved' = Forward(x).moved /\ field' = [g EXCEPT ![a] = v]
    <3>1. DOMAIN Forward(x) = {"to", "field", "top", "moved"}
      BY DEF Forward
    <3>2. /\ [Forward(x) EXCEPT !.field[a] = v].top = Forward(x).top
          /\ [Forward(x) EXCEPT !.field[a] = v].moved = Forward(x).moved
          /\ [Forward(x) EXCEPT !.field[a] = v].field = [g EXCEPT ![a] = v]
      BY <3>1
    <3> QED BY <3>2, <2>1 DEF Done
  <2> HIDE DEF v, g
  <2>5. v # Full /\ Forward(x).to = v /\ Forward(x).field = g
    BY <1>7 DEF v, g
  <2> HIDE DEF x
  <2>6. PICK P, C : Effect(x, v, g, P, C)
    BY <1>1, <1>5, <2>1, <2>4, <2>5, Forwards
  <2>7. /\ g \in [ReppyAddr -> ReppyAddr \cup {Null}] /\ v \in ReppyAddr \cup {Null}
        /\ v \in New \cup C \cup {Null} /\ C \subseteq ReppyAddr /\ C \cap (Old \cup New) = {}
        /\ Old' = Old /\ New' = New \cup C
        /\ top' \in [Generation -> [{1, 2} -> 1 .. GenSize + 1]]
        /\ moved' \subseteq ReppyAddr
        /\ \A c \in C : c[1] <= gc_level + 1 /\ scan.start[c[1]] <= c[3]
    <3>1. moved \subseteq ReppyAddr
      BY <1>2 DEF TypeOK
    <3> QED BY <2>1, <2>6, <3>1, <1>2 DEF Effect
  <2>9. /\ field' \in [ReppyAddr -> ReppyAddr \cup {Null}]
        /\ \A b \in ReppyAddr : field'[b] = IF b \in {a} THEN v ELSE g[b]
    BY <2>4, <2>7, <1>4
  <2> HIDE DEF j
  <2>10. /\ remember' \in [Generation -> [{1, 2} -> SUBSET ReppyAddr]]
         /\ \A k \in Generation :
              /\ ~Collected(k) => remember'[k][To(k)] = remember[k][To(k)]
              /\ remember[k][Space(k)] \subseteq remember'[k][Space(k)]
              /\ \A b \in remember'[k][Space(k)] \ remember[k][Space(k)] : b \in {a} /\ HOW_OLD(b) >= k
         /\ v # Null /\ HOW_OLD(a) > j => a \in remember'[j][Space(j)]
    <3>1. /\ remember \in [Generation -> [{1, 2} -> SUBSET ReppyAddr]]
          /\ \A k \in Generation : From(k) \in {1, 2} /\ To(k) \in {1, 2} /\ From(k) # To(k)
                                   /\ Space(k) \in {1, 2}
      BY <1>2, Halves DEF TypeOK
    <3>3. CASE Remembers(a, v)
      <4>0. v # Null /\ t > j /\ j \in Generation /\ j \in Int /\ t \in Int /\ gc_level \in Int
        <5>1. v \in ReppyAddr /\ t > j
          BY <3>3, <2>7, <1>4 DEF Remembers, j
        <5> QED BY <5>1, <1>2, <1>3, Addresses DEF j, HOW_OLD
      <4>1. remember' = [remember EXCEPT ![j][Space(j)] = @ \cup {a}]
        <5>1. Space(j) = To(j)
          <6>1. j <= gc_level
            BY <4>0, <1>3
          <6> QED BY <6>1, <1>1 DEF Space, Collected
        <5> QED BY <2>1, <3>3, <5>1 DEF Push
      <4>2. /\ remember' \in [Generation -> [{1, 2} -> SUBSET ReppyAddr]]
            /\ \A k \in Generation, h \in {1, 2} :
                  remember'[k][h] = IF k = j /\ h = Space(j) THEN remember[k][h] \cup {a}
                                    ELSE remember[k][h]
        BY <4>0, <4>1, <3>1, <1>4
      <4>3. \A k \in Generation : ~Collected(k) => To(k) # Space(k)
        BY <3>1 DEF Space
      <4>4. \A k \in Generation : ~Collected(k) => remember'[k][To(k)] = remember[k][To(k)]
        BY <4>2, <4>3, <3>1
      <4>5. \A k \in Generation : remember'[k][Space(k)] = IF k = j THEN remember[k][Space(k)] \cup {a}
                                                           ELSE remember[k][Space(k)]
        BY <4>2, <3>1
      <4>6. HOW_OLD(a) >= j
        BY <4>0, <1>4
      <4> QED BY <4>0, <4>2, <4>4, <4>5, <4>6
    <3>4. CASE ~Remembers(a, v)
      <4>1. remember' = remember
        BY <2>1, <3>4
      <4>2. ~(v # Null /\ HOW_OLD(a) > j)
        BY <3>4 DEF Remembers, j
      <4> QED BY <4>1, <4>2, <3>1
    <3> QED BY <3>3, <3>4
  <2>11. /\ scan'.start \in [Generation -> 1 .. GenSize + 1]
         /\ scan' \in [start : [Generation -> 1 .. GenSize + 1], at : Generation]
         /\ \A k \in Generation : scan'.start[k] = IF k = t THEN scan.start[k] + 1 ELSE scan.start[k]
    <3>1. scan.start[t] + 1 \in 1 .. GenSize + 1
      BY <1>3
    <3>2. [scan.start EXCEPT ![t] = @ + 1] \in [Generation -> 1 .. GenSize + 1]
      BY <1>3, <3>1
    <3>3. scan'.start = [scan.start EXCEPT ![t] = @ + 1] /\ scan'.at = t
      BY <2>1
    <3> QED BY <1>3, <2>1, <3>2, <3>3
  <2>12. TypeOK'
    <3>1. Roots' = Roots
      BY <2>1 DEF Roots
    <3> QED BY <3>1, <2>1, <2>7, <2>9, <2>10, <2>11, <1>2 DEF TypeOK
  <2>13. Waiting' = (Waiting \ {a}) \cup C
    <3>1. ASSUME NEW b \in New \cup C
          PROVE  (b[1] <= gc_level + 1 /\ scan'.start[b[1]] <= b[3])
                 <=> (b # a /\ b[1] <= gc_level + 1 /\ scan.start[b[1]] <= b[3])
      <4>1. b \in ReppyAddr /\ b[2] = Space(b[1])
        <5>1. b \in New' /\ Space(b[1])' = Space(b[1])
          BY <1>1, <2>1, <2>7, SameSpaces
        <5> QED BY <5>1 DEF New
      <4>2. b[1] \in Generation /\ b[3] \in Int /\ b = <<b[1], b[2], b[3]>>
        BY <4>1, Addresses
      <4>3. a = <<a[1], a[2], a[3]>>
        BY <1>4, Addresses
      <4>4. CASE b[1] = t
        <5>1. b = a <=> b[3] = scan.start[t]
          BY <4>1, <4>2, <4>3, <4>4, <1>4
        <5>2. scan'.start[b[1]] = scan.start[t] + 1
          BY <4>4, <2>11, <1>3
        <5> QED BY <4>2, <4>4, <5>1, <5>2, <1>3
      <4>5. CASE b[1] # t
        BY <4>2, <4>5, <1>4, <2>11
      <4> QED BY <4>4, <4>5
    <3>2. Waiting' = {b \in New \cup C : b[1] <= gc_level + 1 /\ scan'.start[b[1]] <= b[3]}
      BY <2>1, <2>7 DEF Waiting
    <3>3. Waiting = {b \in New : b[1] <= gc_level + 1 /\ scan.start[b[1]] <= b[3]}
      BY <1>1 DEF Waiting
    <3>4. a \notin C
      BY <1>5, <2>7
    <3> QED BY <3>1, <3>2, <3>3, <3>4, <2>7
  <2>14. IInv'
    <3> DEFINE B == {a}
    <3>1. /\ B \subseteq New /\ \A b \in ReppyAddr : field'[b] = IF b \in B THEN v ELSE g[b]
          /\ Waiting' = (Waiting \ B) \cup C
      BY <1>5, <2>9, <2>13
    <3>2. left' \subseteq left
          /\ \A r \in Slot : slot'[r] = IF r \in left \ left' THEN v ELSE slot[r]
      BY <2>1
    <3>3. \A k \in Generation : k <= gc_level + 1 => scan'.start[k] <= top'[k][Space(k)]
      <4>1. ASSUME NEW k \in Generation, k <= gc_level + 1
            PROVE  scan'.start[k] <= top'[k][Space(k)]
        <5>1. scan.start[k] <= top'[k][Space(k)]
          BY <1>1, <2>6, <4>1, BelowTop
        <5>2. top[t][Space(t)] <= top'[t][Space(t)]
          BY <2>6, <1>3 DEF Effect
        <5>3. top'[t][Space(t)] \in Int /\ top[t][Space(t)] \in Int /\ scan.start[t] \in Int
          BY <2>7, <1>3
        <5>4. CASE k = t
          BY <5>2, <5>3, <5>4, <1>3, <2>11
        <5>5. CASE k # t
          BY <5>1, <5>5, <2>11
        <5> QED BY <5>4, <5>5
      <4> QED BY <4>1
    <3>4. /\ entries' \subseteq entries /\ \A e \in entries \ entries' : e[2] \in B
          /\ \A e \in entries' : e[2] \in B /\ HOW_OLD(e[2]) > gc_level /\ v \in New \cup C
                                  => e[1] < HOW_OLD(v)
          /\ mode' = "scan" => entries' = {} /\ left' = {}
      BY <1>2, <2>1
    <3>5. /\ \A k \in Generation :
              /\ ~Collected(k) => remember'[k][To(k)] = remember[k][To(k)]
              /\ remember[k][Space(k)] \subseteq remember'[k][Space(k)]
              /\ \A b \in remember'[k][Space(k)] \ remember[k][Space(k)] : b \in B /\ HOW_OLD(b) >= k
          /\ \A b \in B : v \in New \cup C /\ HOW_OLD(b) > HOW_OLD(v)
                           => b \in remember'[HOW_OLD(v)][Space(HOW_OLD(v))]
      <4>1. v \in New \cup C => v # Null
        BY <1>2, <2>7, Addresses
      <4> QED BY <4>1, <2>10 DEF j
    <3>6. half' = half /\ gc_level' = gc_level /\ barriered' = barriered
      BY <2>1
    <3> HIDE DEF B
    <3>7. Stores(v, g, C, B)
      BY <3>1, <3>2, <3>3, <3>4, <3>5, <3>6 DEF Stores
    <3>8. IInv /\ Collecting /\ Collecting' /\ TypeOK' /\ Effect(x, v, g, P, C)
      BY <1>1, <2>1, <2>6, <2>12
    <3> QED BY <3>7, <3>8, ForwardKeeps
  <2>15. [Graph!Next]_<<root, next>>
    <3>1. \A r \in Slot : slot'[r] = slot[r] \/ (slot[r] = x /\ slot'[r] = v)
      BY <2>1
    <3> DEFINE B == {a}
    <3>2. /\ B \subseteq New /\ \A b \in B : field[b] = x
          /\ \A b \in ReppyAddr : field'[b] = IF b \in B THEN v ELSE g[b]
      BY <1>5, <2>9 DEF x
    <3> HIDE DEF B
    <3> QED BY <1>1, <1>5, <2>6, <3>1, <3>2, Sees
  <2> QED BY <2>14, <2>15 DEF Good
<1> QED BY <1>6, <1>7

-----------------------------------------------------------------------------
\* Outside of a collection every object is in from-space, and a pointer stands for
\* itself ...
LEMMA Identity ==
    ASSUME IInv, mode \in {"run", "retry"}
    PROVE  /\ ~Collecting /\ moved = {} /\ entries = {} /\ left = {} /\ Old = {} /\ Waiting = {}
           /\ TypeOK /\ New \subseteq ReppyAddr /\ root = slot /\ next = field
           /\ \A i \in Generation : Space(i) = From(i) /\ top[i][To(i)] = 1 /\ remember[i][To(i)] = {}
           /\ \A s \in Slot : slot[s] \in New \cup {Null}
           /\ \A a \in New : field[a] \in New \cup {Null}
           /\ \A i \in Generation : \A a \in remember[i][From(i)] : a \in New /\ HOW_OLD(a) >= i
           /\ \A a \in New : field[a] \in New /\ HOW_OLD(a) > HOW_OLD(field[a])
                             => a \in remember[HOW_OLD(field[a])][From(HOW_OLD(field[a]))]
           /\ \A g \in Global \ barriered : slot[g] = Null
           /\ Graph!Reachable \subseteq New
<1>1. /\ ~Collecting /\ mode # "over" /\ TypeOK /\ Spaces /\ Variables /\ Fields /\ Remembered
      /\ entries = {} /\ left = {}
  BY DEF IInv, Collecting, Stages
<1>2. Old = {} /\ Waiting = {} /\ New \subseteq ReppyAddr
  BY <1>1, Apart
<1>3. moved = {}
  BY <1>1, <1>2 DEF Spaces
<1>4. root = slot /\ next = field
  BY <1>1, <1>3 DEF root, next, ReppyObject, TypeOK
<1>5. \A i : Space(i) = From(i) /\ ~Collected(i)
  BY <1>1 DEF Space, Collected
<1>6. \A i \in Generation : top[i][To(i)] = 1 /\ remember[i][To(i)] = {}
  BY <1>1, <1>5 DEF Spaces
<1>7. \A s \in Slot : slot[s] \in New \cup {Null}
  BY <1>1 DEF Variables
<1>8. \A a \in New : field[a] \in New \cup {Null}
  BY <1>1, <1>2 DEF Fields
<1>9. /\ \A i \in Generation : \A a \in remember[i][From(i)] : a \in New /\ HOW_OLD(a) >= i
      /\ \A a \in New : field[a] \in New /\ HOW_OLD(a) > HOW_OLD(field[a])
                        => a \in remember[HOW_OLD(field[a])][From(HOW_OLD(field[a]))]
  BY <1>1, <1>2, <1>5 DEF Remembered
<1>10. \A g \in Global \ barriered : slot[g] = Null
  BY <1>1 DEF Variables
<1>11. Graph!Reachable \subseteq New
  BY <1>1, <1>2, ReachableLive DEF Live
<1> QED BY <1>1, <1>2, <1>3, <1>4, <1>5, <1>6, <1>7, <1>8, <1>9, <1>10, <1>11

\* ... and that is all that the invariant says of such a state.  The objects after a
\* step are those in N.
Settles(N) ==
    /\ mode' \in {"run", "retry"} /\ (mode' = "retry" => request' # <<>>)
    /\ moved' = {} /\ entries' = {} /\ left' = {}
    /\ \A i \in Generation : top'[i][To(i)'] = 1 /\ remember'[i][To(i)'] = {}
    /\ N = {a \in ReppyAddr : a[2] = half'[a[1]] /\ a[3] < top'[a[1]][a[2]]}
    /\ \A s \in Slot : slot'[s] \in N \cup {Null}
    /\ \A g \in Global \ barriered' : slot'[g] = Null
    /\ \A a \in N : field'[a] \in N \cup {Null}
    /\ \A i \in Generation : \A a \in remember'[i][half'[i]] : a \in N /\ HOW_OLD(a) >= i
    /\ \A a \in N : field'[a] \in N /\ HOW_OLD(a) > HOW_OLD(field'[a])
                     => a \in remember'[HOW_OLD(field'[a])][half'[HOW_OLD(field'[a])]]

LEMMA Outside ==
    ASSUME TypeOK', NEW N, Settles(N)
    PROVE  IInv' /\ root' = slot' /\ next' = field'
<1> USE DEF Settles
<1>1. ~Collecting' /\ \A i : Space(i)' = half'[i] /\ ~Collected(i)'
  BY DEF Collecting, Space, From, Collected
<1>2. Old' = {} /\ Waiting' = {}
  BY <1>1 DEF Old, Waiting
<1>3. New' = N
  <2>1. New' = {a \in ReppyAddr : a[2] = Space(a[1])' /\ InUse(a)'}
    BY DEF New
  <2>2. \A a : InUse(a)' <=> a[3] < top'[a[1]][a[2]]
    BY DEF InUse
  <2> QED BY <2>1, <2>2, <1>1
<1>4. root' = slot' /\ next' = field'
  <2>1. slot' \in [Slot -> ReppyAddr \cup {Null}] /\ field' \in [ReppyAddr -> ReppyAddr \cup {Null}]
    BY DEF TypeOK
  <2> QED BY <2>1 DEF root, next, ReppyObject
<1>5. Spaces'
  BY <1>1 DEF Spaces
<1>6. Variables'
  BY <1>3 DEF Variables
<1>7. Fields'
  BY <1>2, <1>3 DEF Fields
<1>8. Remembered'
  <2>1. \A i \in Generation : \A a \in remember'[i][Space(i)'] : a \in New' /\ HOW_OLD(a) >= i
    BY <1>1, <1>3
  <2>2. \A a \in New' \ Waiting' :
          field'[a] \in New' /\ HOW_OLD(a) > HOW_OLD(field'[a])
          => a \in remember'[HOW_OLD(field'[a])][Space(HOW_OLD(field[a]))']
    <3>1. \A a : Space(HOW_OLD(field[a]))' = half'[HOW_OLD(field'[a])]
      BY <1>1 DEF Space, From, Collected
    <3> QED BY <3>1, <1>3
  <2> QED BY <2>1, <2>2 DEF Remembered
<1>9. Stages'
  BY DEF Stages
<1> QED BY <1>4, <1>5, <1>6, <1>7, <1>8, <1>9 DEF IInv

\* When no generation is left for the loop of do_gc, no copy waits.
LEMMA NoneWaits ==
    ASSUME TypeOK, Collecting, Unscanned = {}
    PROVE  Waiting = {}
<1> SUFFICES ASSUME NEW a \in Waiting PROVE FALSE
  OBVIOUS
<1> DEFINE i == a[1]
<1>1. /\ a \in ReppyAddr /\ a[2] = Space(i) /\ a[3] < top[i][a[2]]
      /\ i <= gc_level + 1 /\ scan.start[i] <= a[3]
  BY DEF Waiting, New, InUse
<1>2. /\ i \in Generation /\ i \in Nat /\ i <= Oldest /\ gc_level + 1 \in Nat /\ Oldest \in Nat
      /\ a[3] \in Int /\ Space(i) \in {1, 2} /\ top[i][Space(i)] \in Int /\ scan.start[i] \in Int
  <2>1. i \in Generation /\ a[3] \in Int /\ Generation = 0 .. Oldest /\ Oldest \in Nat
    BY <1>1, Addresses
  <2>2. gc_level \in Generation /\ scan.start \in [Generation -> 1 .. GenSize + 1]
    BY DEF TypeOK
  <2>3. Space(i) \in {1, 2} /\ top[i][Space(i)] \in 1 .. GenSize + 1
    BY <2>1, Halves
  <2> QED BY <2>1, <2>2, <2>3
<1>3. Scanned(i) = Space(i)
  BY DEF Scanned, Space, Collected
<1>4. scan.start[i] < top[i][Scanned(i)]
  BY <1>1, <1>2, <1>3
<1> HIDE DEF i
<1>5. Min({gc_level + 1, Oldest}) \in {gc_level + 1, Oldest}
  BY <1>2, MinOf
<1>6. i \in 0 .. Min({gc_level + 1, Oldest})
  BY <1>1, <1>2, <1>5
<1> QED BY <1>4, <1>6 DEF Unscanned

\* The collection ends: nothing that the program reaches is in the from-spaces that
\* are cleared.
LEMMA EndStep ==
    ASSUME IInv, reppy_end
    PROVE  Good
<1>1. /\ mode = "scan" /\ Collecting /\ mode # "over" /\ Unscanned = {}
      /\ field' = [a \in ReppyAddr |->
                      IF a[1] \in 0 .. gc_level /\ a[2] = From(a[1]) THEN Null ELSE field[a]]
      /\ top' = [i \in Generation |->
                    IF i \in 0 .. gc_level THEN [top[i] EXCEPT ![From(i)] = 1] ELSE top[i]]
      /\ remember' = [i \in Generation |->
                         IF i \in 0 .. gc_level THEN [remember[i] EXCEPT ![From(i)] = {}]
                         ELSE remember[i]]
      /\ half' = [i \in Generation |-> IF i \in 0 .. gc_level THEN To(i) ELSE From(i)]
      /\ water_mark' = [i \in Generation |->
                           IF i <= gc_level + 1 THEN top'[i][half'[i]] ELSE water_mark[i]]
      /\ moved' = {} /\ gc_level' = 0
      /\ scan' = [start |-> [i \in Generation |-> 1], at |-> 0]
      /\ mode' = IF request = <<>> THEN "run" ELSE "retry"
      /\ UNCHANGED <<slot, barriered, request, entries, left>>
  BY DEF reppy_end, Collecting
<1>2. /\ TypeOK /\ Spaces /\ Variables /\ Fields /\ Remembered /\ entries = {} /\ left = {}
      /\ Old \subseteq ReppyAddr /\ New \subseteq ReppyAddr /\ Old \cap New = {} /\ moved \subseteq Old
      /\ Null \notin ReppyAddr
  BY <1>1, Apart, Addresses DEF IInv, Stages, Spaces
<1>3. Waiting = {}
  BY <1>1, <1>2, NoneWaits
<1>4. /\ \A s \in Slot : slot[s] \in New \cup {Null}
      /\ \A a \in New : field[a] \in New \cup {Null}
      /\ \A g \in Global \ barriered : slot[g] = Null
  BY <1>2, <1>3 DEF Variables, Fields
<1>5. \A i \in Generation : /\ i \in 0 .. gc_level <=> Collected(i)
                            /\ Space(i) = IF i \in 0 .. gc_level THEN To(i) ELSE From(i)
                            /\ From(i) \in {1, 2} /\ To(i) \in {1, 2} /\ From(i) # To(i)
                            /\ top[i] \in [{1, 2} -> 1 .. GenSize + 1]
                            /\ remember[i] \in [{1, 2} -> SUBSET ReppyAddr]
                            /\ half'[i] = Space(i)
  <2>1. Generation = 0 .. Oldest /\ Oldest \in Nat
    BY Addresses
  <2>2. gc_level \in Generation
    BY <1>2 DEF TypeOK
  <2>3. \A i \in Generation : i \in 0 .. gc_level <=> i <= gc_level
    BY <2>1, <2>2
  <2>4. \A i \in Generation : i \in 0 .. gc_level <=> Collected(i)
    BY <2>3, <1>1 DEF Collected
  <2>5. \A i \in Generation : Space(i) = IF i \in 0 .. gc_level THEN To(i) ELSE From(i)
    BY <2>4 DEF Space
  <2>6. \A i \in Generation : /\ top[i] \in [{1, 2} -> 1 .. GenSize + 1]
                              /\ remember[i] \in [{1, 2} -> SUBSET ReppyAddr]
    BY <1>2 DEF TypeOK
  <2> QED BY <2>4, <2>5, <2>6, <1>1, <1>2, Halves
<1>6. ASSUME NEW i \in Generation
      PROVE  /\ top'[i][Space(i)] = top[i][Space(i)] /\ remember'[i][Space(i)] = remember[i][Space(i)]
             /\ To(i)' \in {1, 2} /\ To(i)' # Space(i)
             /\ top'[i][To(i)'] = 1 /\ remember'[i][To(i)'] = {}
             /\ top'[i] \in [{1, 2} -> 1 .. GenSize + 1]
             /\ remember'[i] \in [{1, 2} -> SUBSET ReppyAddr]
  <2>1. To(i)' = 3 - Space(i)
    BY <1>5 DEF To
  <2>2. Space(i) \in {1, 2}
    BY <1>5
  <2>3. 1 \in 1 .. GenSize + 1
    BY Addresses
  <2>4. CASE i \in 0 .. gc_level
    <3>1. top'[i] = [top[i] EXCEPT ![From(i)] = 1] /\ remember'[i] = [remember[i] EXCEPT ![From(i)] = {}]
      BY <1>1, <2>4
    <3>2. Space(i) = To(i) /\ To(i)' = From(i)
      BY <2>1, <2>4, <1>5 DEF To
    <3> QED BY <3>1, <3>2, <2>3, <1>5
  <2>5. CASE i \notin 0 .. gc_level
    <3>1. top'[i] = top[i] /\ remember'[i] = remember[i]
      BY <1>1, <2>5
    <3>2. Space(i) = From(i) /\ To(i)' = To(i)
      BY <2>1, <2>5, <1>5 DEF To
    <3>3. top[i][To(i)] = 1 /\ remember[i][To(i)] = {}
      BY <1>2, <1>5, <2>5 DEF Spaces
    <3> QED BY <3>1, <3>2, <3>3, <1>5
  <2> QED BY <2>4, <2>5
<1>7. New = {a \in ReppyAddr : a[2] = half'[a[1]] /\ a[3] < top'[a[1]][a[2]]}
  <2>1. \A a \in ReppyAddr : a[1] \in Generation
    BY Addresses
  <2>2. ASSUME NEW a \in ReppyAddr
        PROVE  a \in New <=> a[2] = half'[a[1]] /\ a[3] < top'[a[1]][a[2]]
    <3>1. half'[a[1]] = Space(a[1]) /\ top'[a[1]][Space(a[1])] = top[a[1]][Space(a[1])]
      BY <2>1, <1>5, <1>6
    <3> QED BY <3>1 DEF New, InUse
  <2> QED BY <2>2, <1>2
<1>8. \A a \in New : field'[a] = field[a]
  <2>1. ASSUME NEW a \in New PROVE ~(a[1] \in 0 .. gc_level /\ a[2] = From(a[1]))
    <3>1. a[1] \in Generation /\ a[2] = Space(a[1])
      BY <1>2, Addresses DEF New
    <3> QED BY <3>1, <1>5
  <2> QED BY <2>1, <1>1, <1>2
<1>9. TypeOK'
  <2>1. field' \in [ReppyAddr -> ReppyAddr \cup {Null}]
    BY <1>1, <1>2 DEF TypeOK
  <2>2. top' \in [Generation -> [{1, 2} -> 1 .. GenSize + 1]]
    BY <1>1, <1>6
  <2>3. remember' \in [Generation -> [{1, 2} -> SUBSET ReppyAddr]]
    BY <1>1, <1>6
  <2>4. half' \in [Generation -> {1, 2}]
    BY <1>1, <1>5
  <2>5. water_mark' \in [Generation -> 1 .. GenSize + 1]
    <3>1. \A i \in Generation : top'[i][half'[i]] \in 1 .. GenSize + 1
      BY <1>6, <1>5
    <3>2. water_mark \in [Generation -> 1 .. GenSize + 1]
      BY <1>2 DEF TypeOK
    <3> QED BY <3>1, <3>2, <1>1
  <2>6. scan' \in [start : [Generation -> 1 .. GenSize + 1], at : Generation] /\ gc_level' \in Generation
    <3>1. 1 \in 1 .. GenSize + 1 /\ 0 \in Generation
      BY Addresses
    <3> QED BY <3>1, <1>1
  <2>7. Roots' = Roots
    BY <1>1 DEF Roots
  <2> QED BY <2>1, <2>2, <2>3, <2>4, <2>5, <2>6, <2>7, <1>1, <1>2 DEF TypeOK
<1>10. /\ \A i \in Generation : \A a \in remember'[i][half'[i]] : a \in New /\ HOW_OLD(a) >= i
       /\ \A a \in New : field'[a] \in New /\ HOW_OLD(a) > HOW_OLD(field'[a])
                         => a \in remember'[HOW_OLD(field'[a])][half'[HOW_OLD(field'[a])]]
  <2>1. \A i \in Generation : remember'[i][half'[i]] = remember[i][Space(i)]
    BY <1>5, <1>6
  <2>2. \A a \in New : HOW_OLD(a) \in Generation
    BY <1>2, Addresses DEF HOW_OLD
  <2> QED BY <2>1, <2>2, <1>2, <1>3, <1>8 DEF Remembered
<1>11. IInv' /\ root' = slot' /\ next' = field'
  <2> DEFINE N == New
  <2>1. N = {a \in ReppyAddr : a[2] = half'[a[1]] /\ a[3] < top'[a[1]][a[2]]}
    BY <1>7
  <2>2. /\ \A s \in Slot : slot'[s] \in N \cup {Null}
        /\ \A g \in Global \ barriered' : slot'[g] = Null
        /\ \A a \in N : field'[a] \in N \cup {Null}
    BY <1>1, <1>4, <1>8
  <2>3. \A i \in Generation : top'[i][To(i)'] = 1 /\ remember'[i][To(i)'] = {}
    BY <1>6
  <2>4. /\ mode' \in {"run", "retry"} /\ (mode' = "retry" => request' # <<>>)
        /\ moved' = {} /\ entries' = {} /\ left' = {}
    BY <1>1, <1>2
  <2>5. /\ \A i \in Generation : \A a \in remember'[i][half'[i]] : a \in N /\ HOW_OLD(a) >= i
        /\ \A a \in N : field'[a] \in N /\ HOW_OLD(a) > HOW_OLD(field'[a])
                        => a \in remember'[HOW_OLD(field'[a])][half'[HOW_OLD(field'[a])]]
    BY <1>10
  <2> HIDE DEF N
  <2>6. Settles(N)
    BY <2>1, <2>2, <2>3, <2>4, <2>5 DEF Settles
  <2> QED BY <2>6, <1>9, Outside
<1>12. Graph!Reachable \subseteq New
  <2>1. \A x \in New \cup {Null} : ReppyObject(x) = x
    BY <1>2 DEF ReppyObject
  <2>2. Graph!Closed(New)
    <3>1. \A s \in Slot : root[s] = slot[s]
      BY <1>4, <2>1 DEF root
    <3>2. \A a \in New : next[a] = field[a]
      BY <1>2, <1>4, <2>1 DEF next
    <3> QED BY <3>1, <3>2, <1>4 DEF Graph!Closed
  <2> QED BY <2>2, <1>2 DEF Graph!Reachable
<1>13. Graph!Move
  <2> DEFINE m == [a \in Graph!Reachable |-> a]
             to(x) == IF x = Null THEN Null ELSE m[x]
  <2>1. \A x \in Graph!Reachable \cup {Null} : to(x) = x
    OBVIOUS
  <2>2. m \in [Graph!Reachable -> ReppyAddr] /\ \A a \in Graph!Reachable : m[a] = a
    BY <1>2, <1>12
  <2>3. /\ \A s \in Slot : root[s] \in Graph!Reachable \cup {Null}
        /\ \A a \in Graph!Reachable : next[a] \in Graph!Reachable \cup {Null}
    BY <1>1, ReachableClosed DEF Graph!Closed
  <2>4. \A x \in New \cup {Null} : ReppyObject(x) = x
    BY <1>2 DEF ReppyObject
  <2> HIDE DEF m
  <2>5. \A s \in Slot : slot'[s] = to(root[s])
    BY <2>1, <2>3, <2>4, <1>1, <1>4 DEF root
  <2>6. root' = [s \in Slot |-> to(root[s])]
    <3>1. DOMAIN slot = Slot /\ slot' = slot /\ slot = [s \in Slot |-> slot[s]]
      BY <1>1, <1>2 DEF TypeOK
    <3> HIDE DEF to
    <3>2. slot = [s \in Slot |-> to(root[s])]
      BY <3>1, <2>5
    <3> QED BY <3>1, <3>2, <1>11
  <2>7. ASSUME NEW a \in Graph!Reachable PROVE next'[m[a]] = to(next[a])
    <3>1. a \in New /\ a \in ReppyAddr /\ m[a] = a
      BY <1>2, <1>12, <2>2
    <3>2. next[a] = field[a]
      BY <3>1, <1>4, <2>4 DEF next
    <3>3. to(next[a]) = next[a]
      BY <2>1, <2>3
    <3> HIDE DEF to
    <3> QED BY <3>1, <3>2, <3>3, <1>8, <1>11
  <2>8. \A a, b \in Graph!Reachable : m[a] = m[b] => a = b
    BY <2>2
  <2> QED BY <2>2, <2>6, <2>7, <2>8 DEF Graph!Move
<1> QED BY <1>11, <1>13 DEF Good, Graph!Next

-----------------------------------------------------------------------------
\* A step of the program that is no allocation: it assigns an object that can be
\* reached to a variable, or to the field of one, and may add that to a remembered set.
LEMMA AssignKeeps ==
    ASSUME IInv, mode = "run", mode' = mode, barriered' \subseteq Global, barriered \subseteq barriered',
           UNCHANGED <<request, half, top, water_mark, moved, gc_level, entries, left, scan>>,
           slot' \in [Slot -> ReppyAddr \cup {Null}],
           field' \in [ReppyAddr -> ReppyAddr \cup {Null}],
           remember' \in [Generation -> [{1, 2} -> SUBSET ReppyAddr]],
           \A s \in Slot : slot'[s] \in New \cup {Null},
           \A g \in Global \ barriered' : slot'[g] = slot[g],
           \A a \in New : field'[a] \in New \cup {Null},
           \A i \in Generation : /\ remember'[i][To(i)] = {}
                                 /\ \A a \in remember'[i][From(i)] : a \in New /\ HOW_OLD(a) >= i,
           \A a \in New : field'[a] \in New /\ HOW_OLD(a) > HOW_OLD(field'[a])
                          => a \in remember'[HOW_OLD(field'[a])][From(HOW_OLD(field'[a]))]
    PROVE  IInv' /\ root' = slot' /\ next' = field'
<1>1. /\ moved = {} /\ entries = {} /\ left = {} /\ TypeOK
      /\ \A i \in Generation : Space(i) = From(i) /\ top[i][To(i)] = 1
      /\ \A g \in Global \ barriered : slot[g] = Null
      /\ New \subseteq ReppyAddr
  BY Identity
<1>2. TypeOK'
  <2>1. left' = {} /\ mode' = "run"
    BY <1>1
  <2> QED BY <2>1, <1>1 DEF TypeOK
<1>3. \A i : To(i)' = To(i) /\ From(i) = half'[i]
  BY DEF To, From
<1>4. New = {a \in ReppyAddr : a[2] = half'[a[1]] /\ a[3] < top'[a[1]][a[2]]}
  <2>1. \A a \in ReppyAddr : a \in New <=> a[2] = half'[a[1]] /\ a[3] < top'[a[1]][a[2]]
    BY <1>1, <1>3, Addresses DEF New, InUse
  <2> QED BY <2>1, <1>1
<1>5. \A i \in Generation : top'[i][To(i)'] = 1 /\ remember'[i][To(i)'] = {}
  BY <1>1, <1>3
<1> DEFINE N == New
<1>6. N = {a \in ReppyAddr : a[2] = half'[a[1]] /\ a[3] < top'[a[1]][a[2]]}
  BY <1>4
<1>7. /\ \A s \in Slot : slot'[s] \in N \cup {Null}
      /\ \A g \in Global \ barriered' : slot'[g] = Null
      /\ \A a \in N : field'[a] \in N \cup {Null}
  BY <1>1
<1>8. /\ \A i \in Generation : \A a \in remember'[i][half'[i]] : a \in N /\ HOW_OLD(a) >= i
      /\ \A a \in N : field'[a] \in N /\ HOW_OLD(a) > HOW_OLD(field'[a])
                      => a \in remember'[HOW_OLD(field'[a])][half'[HOW_OLD(field'[a])]]
  BY <1>3
<1>9. /\ mode' \in {"run", "retry"} /\ (mode' = "retry" => request' # <<>>)
      /\ moved' = {} /\ entries' = {} /\ left' = {}
  BY <1>1
<1> HIDE DEF N
<1>10. Settles(N)
  BY <1>5, <1>6, <1>7, <1>8, <1>9 DEF Settles
<1> QED BY <1>2, <1>10, Outside

\* Steps of compiled code.
LEMMA CompiledStep ==
    ASSUME IInv, compiled_code, UNCHANGED reppyVars
    PROVE  Good
<1>1. /\ mode = "run" /\ mode' = mode /\ barriered' = barriered /\ field' = field
      /\ remember' = remember
      /\ UNCHANGED <<request, half, top, water_mark, moved, gc_level, entries, left, scan>>
  BY DEF compiled_code, reppyVars
<1>2. PICK s \in Var, p \in New \cup {Null} :
         /\ slot' = [slot EXCEPT ![s] = p]
         /\ \/ p = Null
            \/ \E t \in Slot : slot[t] # Null /\ (p = slot[t] \/ p = field[slot[t]])
  <2>1. PICK s, t \in Var : drop(s) \/ read(s, t) \/ \E g \in Global : copy(s, g)
    BY DEF compiled_code
  <2>2. CASE drop(s)
    BY <2>2 DEF drop
  <2>3. CASE read(s, t)
    <3>1. slot[t] \in New /\ t \in Slot
      BY <2>3, <1>1, Identity DEF read, Slot
    <3>2. field[slot[t]] \in New \cup {Null}
      BY <3>1, <1>1, Identity
    <3> QED BY <3>1, <3>2, <2>3 DEF read
  <2>4. ASSUME NEW g \in Global, copy(s, g)
        PROVE  \E p \in New \cup {Null} :
                   /\ slot' = [slot EXCEPT ![s] = p]
                   /\ \E t0 \in Slot : slot[t0] # Null /\ (p = slot[t0] \/ p = field[slot[t0]])
    <3>1. slot[g] \in New \cup {Null} /\ g \in Slot
      BY <1>1, Identity DEF Slot
    <3> QED BY <3>1, <2>4 DEF copy
  <2> QED BY <2>1, <2>2, <2>3, <2>4
<1>3. /\ TypeOK /\ s \in Slot /\ s \notin Global /\ root = slot /\ next = field
      /\ New \subseteq ReppyAddr
  BY <1>1, Identity, SlotAssumption DEF Slot
<1>4. /\ slot \in [Slot -> ReppyAddr \cup {Null}] /\ field \in [ReppyAddr -> ReppyAddr \cup {Null}]
      /\ remember \in [Generation -> [{1, 2} -> SUBSET ReppyAddr]] /\ barriered \subseteq Global
      /\ p \in ReppyAddr \cup {Null}
  BY <1>3 DEF TypeOK
<1>5. /\ slot' \in [Slot -> ReppyAddr \cup {Null}]
      /\ slot'[s] = p /\ \A r \in Slot : r # s => slot'[r] = slot[r]
  BY <1>2, <1>3, <1>4
<1>6. /\ \A r \in Slot : slot'[r] \in New \cup {Null}
      /\ \A g \in Global \ barriered' : slot'[g] = slot[g]
  <2>1. \A r \in Slot : slot[r] \in New \cup {Null}
    BY <1>1, Identity
  <2> QED BY <2>1, <1>3, <1>5 DEF Slot
<1>7. /\ \A a \in New : field'[a] \in New \cup {Null}
      /\ \A i \in Generation : /\ remember'[i][To(i)] = {}
                               /\ \A a \in remember'[i][From(i)] : a \in New /\ HOW_OLD(a) >= i
      /\ \A a \in New : field'[a] \in New /\ HOW_OLD(a) > HOW_OLD(field'[a])
                        => a \in remember'[HOW_OLD(field'[a])][From(HOW_OLD(field'[a]))]
  BY <1>1, Identity
<1>8. IInv' /\ root' = slot' /\ next' = field'
  BY <1>1, <1>4, <1>5, <1>6, <1>7, AssignKeeps
<1>9. Graph!Assign(s, p)
  BY <1>1, <1>2, <1>3, <1>8 DEF Graph!Assign, Graph!ObjectsKept
<1>10. Graph!Next
  <2>1. CASE p = Null
    BY <1>3, <1>9, <2>1 DEF Graph!Next, Graph!Drop
  <2>2. CASE p # Null
    <3>1. PICK t \in Slot : slot[t] # Null /\ (p = slot[t] \/ p = field[slot[t]])
      BY <1>2, <2>2
    <3> QED BY <3>1, <1>3, <1>9 DEF Graph!Next, Graph!Copy, Graph!Read
  <2> QED BY <2>1, <2>2
<1> QED BY <1>8, <1>10 DEF Good

\* sml_write: a slot that points to a younger object is remembered.
LEMMA WriteStep ==
    ASSUME IInv, NEW s \in Slot, NEW t \in Var, reppy_write(s, t)
    PROVE  Good
<1>1. /\ mode = "run" /\ mode' = mode /\ t \in Slot
      /\ UNCHANGED <<request, half, top, water_mark, moved, gc_level, entries, left, scan>>
  BY DEF reppy_write, Slot
<1>2. /\ TypeOK /\ root = slot /\ next = field /\ New \subseteq ReppyAddr
      /\ \A r \in Slot : slot[r] \in New \cup {Null}
      /\ \A a \in New : field[a] \in New \cup {Null}
      /\ Graph!Reachable \subseteq New
      /\ \A i \in Generation : /\ remember[i][To(i)] = {}
                               /\ \A a \in remember[i][From(i)] : a \in New /\ HOW_OLD(a) >= i
      /\ \A a \in New : field[a] \in New /\ HOW_OLD(a) > HOW_OLD(field[a])
                        => a \in remember[HOW_OLD(field[a])][From(HOW_OLD(field[a]))]
  BY <1>1, Identity
<1>3. /\ slot \in [Slot -> ReppyAddr \cup {Null}] /\ field \in [ReppyAddr -> ReppyAddr \cup {Null}]
      /\ remember \in [Generation -> [{1, 2} -> SUBSET ReppyAddr]] /\ barriered \subseteq Global
  BY <1>2 DEF TypeOK
<1>4. CASE s \in Global
  <2>1. /\ slot' = [slot EXCEPT ![s] = slot[t]] /\ barriered' = barriered \cup {s}
        /\ field' = field /\ remember' = remember
    BY <1>4 DEF reppy_write
  <2>2. /\ slot' \in [Slot -> ReppyAddr \cup {Null}]
        /\ \A r \in Slot : slot'[r] \in New \cup {Null}
        /\ \A g \in Global \ barriered' : slot'[g] = slot[g]
    BY <1>1, <1>2, <1>3, <2>1 DEF Slot
  <2>3. IInv' /\ root' = slot' /\ next' = field'
    BY <1>1, <1>2, <1>3, <1>4, <2>1, <2>2, AssignKeeps
  <2>4. Graph!Copy(s, t)
    BY <1>2, <2>1, <2>3 DEF Graph!Copy, Graph!Assign, Graph!ObjectsKept
  <2> QED BY <1>1, <2>3, <2>4 DEF Good, Graph!Next
<1>5. CASE s \notin Global
  <2> DEFINE a == slot[s]
             p == slot[t]
             i == HOW_OLD(p)
  <2>1. /\ a # Null /\ field' = [field EXCEPT ![a] = p] /\ slot' = slot /\ barriered' = barriered
        /\ remember' = IF p # Null /\ HOW_OLD(a) > i
                       THEN [remember EXCEPT ![i][From(i)] = @ \cup {a}] ELSE remember
    BY <1>5 DEF reppy_write, Barriered
  <2>2. a \in New /\ a \in ReppyAddr /\ p \in New \cup {Null} /\ p \in ReppyAddr \cup {Null}
    BY <1>1, <1>2, <2>1
  <2>3. /\ field' \in [ReppyAddr -> ReppyAddr \cup {Null}]
        /\ \A b \in ReppyAddr : field'[b] = IF b = a THEN p ELSE field[b]
    BY <1>3, <2>1, <2>2
  <2>4. \A b \in New : field'[b] \in New \cup {Null}
    BY <1>2, <2>2, <2>3
  <2>5. /\ remember' \in [Generation -> [{1, 2} -> SUBSET ReppyAddr]]
        /\ \A k \in Generation : /\ remember'[k][To(k)] = {}
                                 /\ remember[k][From(k)] \subseteq remember'[k][From(k)]
                                 /\ \A b \in remember'[k][From(k)] : b \in New /\ HOW_OLD(b) >= k
        /\ p # Null /\ HOW_OLD(a) > i => a \in remember'[i][From(i)]
    <3>1. \A k \in Generation : From(k) \in {1, 2} /\ To(k) \in {1, 2} /\ From(k) # To(k)
      BY <1>2, Halves
    <3>2. CASE p # Null /\ HOW_OLD(a) > i
      <4>1. i \in Generation /\ HOW_OLD(a) >= i
        <5>1. p \in ReppyAddr /\ p[1] \in Generation /\ a[1] \in Generation /\ Generation = 0 .. Oldest
          BY <2>2, <3>2, Addresses
        <5>2. i \in Int /\ HOW_OLD(a) \in Int
          BY <5>1, Addresses DEF HOW_OLD
        <5> QED BY <5>1, <5>2, <3>2 DEF HOW_OLD
      <4> HIDE DEF a, p, i
      <4>2. remember' = [remember EXCEPT ![i][From(i)] = @ \cup {a}]
        BY <2>1, <3>2
      <4>3. /\ remember' \in [Generation -> [{1, 2} -> SUBSET ReppyAddr]]
            /\ \A k \in Generation, h \in {1, 2} :
                  remember'[k][h] = IF k = i /\ h = From(i) THEN remember[k][h] \cup {a}
                                    ELSE remember[k][h]
        BY <4>1, <4>2, <3>1, <2>2, <1>3
      <4>4. \A k \in Generation : /\ remember'[k][To(k)] = remember[k][To(k)]
                                  /\ remember'[k][From(k)] = IF k = i THEN remember[k][From(k)] \cup {a}
                                                             ELSE remember[k][From(k)]
        BY <4>3, <3>1
      <4>5. \A k \in Generation : remember'[k][To(k)] = {}
        BY <4>4, <1>2
      <4>6. \A k \in Generation : remember[k][From(k)] \subseteq remember'[k][From(k)]
        BY <4>4
      <4>7. ASSUME NEW k \in Generation, NEW b \in remember'[k][From(k)]
            PROVE  b \in New /\ HOW_OLD(b) >= k
        <5>1. CASE b = a /\ k = i
          BY <5>1, <4>1, <2>2
        <5>2. CASE ~(b = a /\ k = i)
          <6>1. b \in remember[k][From(k)]
            BY <5>2, <4>4, <4>7
          <6> QED BY <6>1, <1>2
        <5> QED BY <5>1, <5>2
      <4>8. a \in remember'[i][From(i)]
        BY <4>1, <4>4
      <4> QED BY <4>3, <4>5, <4>6, <4>7, <4>8
    <3>3. CASE ~(p # Null /\ HOW_OLD(a) > i)
      <4>1. remember' = remember
        BY <2>1, <3>3
      <4> QED BY <4>1, <3>3, <1>2, <1>3
    <3> QED BY <3>2, <3>3
  <2>6. ASSUME NEW b \in New, field'[b] \in New, HOW_OLD(b) > HOW_OLD(field'[b])
        PROVE  b \in remember'[HOW_OLD(field'[b])][From(HOW_OLD(field'[b]))]
    <3>1. Null \notin New /\ b \in ReppyAddr
      BY <1>2, Addresses
    <3>2. CASE b = a
      <4>1. field'[b] = p
        BY <2>3, <3>1, <3>2
      <4> QED BY <4>1, <3>1, <3>2, <2>5, <2>6
    <3>3. CASE b # a
      <4>1. field'[b] = field[b]
        BY <2>3, <3>1, <3>3
      <4>2. HOW_OLD(field[b]) \in Generation
        BY <4>1, <2>6, <1>2, Addresses DEF HOW_OLD
      <4> QED BY <4>1, <4>2, <2>5, <2>6, <1>2
    <3> QED BY <3>2, <3>3
  <2>7. IInv' /\ root' = slot' /\ next' = field'
    <3>1. \A g \in Global \ barriered' : slot'[g] = slot[g]
      BY <2>1
    <3> QED BY <1>1, <1>2, <1>3, <2>1, <2>3, <2>4, <2>5, <2>6, <3>1, AssignKeeps
  <2>8. Graph!Write(s, t)
    BY <1>2, <2>1, <2>3, <2>7 DEF Graph!Write
  <2> QED BY <1>1, <2>7, <2>8 DEF Good, Graph!Next
<1> QED BY <1>4, <1>5

\* An object is allocated, at once or after a collection, in the youngest generation:
\* nothing is there, and no slot has to be remembered.
LEMMA AllocStep ==
    ASSUME IInv, NEW s \in Var, NEW t \in Var, mode \in {"run", "retry"}, Rest(0, From(0)) >= 1,
           Initialise(<<0, From(0), top[0][From(0)]>>, s, t),
           top' = [top EXCEPT ![0][From(0)] = @ + 1],
           UNCHANGED <<barriered, half, water_mark, remember, moved, gc_level, entries, left, scan>>
    PROVE  Good
<1> DEFINE b == <<0, From(0), top[0][From(0)]>>
           N == New \cup {b}
<1>1. /\ TypeOK /\ root = slot /\ next = field /\ New \subseteq ReppyAddr
      /\ moved = {} /\ entries = {} /\ left = {}
      /\ \A r \in Slot : slot[r] \in New \cup {Null}
      /\ \A a \in New : field[a] \in New \cup {Null}
      /\ \A g \in Global \ barriered : slot[g] = Null
      /\ Graph!Reachable \subseteq New
      /\ \A i \in Generation : /\ top[i][To(i)] = 1 /\ remember[i][To(i)] = {} /\ Space(i) = From(i)
                               /\ \A a \in remember[i][From(i)] : a \in New /\ HOW_OLD(a) >= i
      /\ \A a \in New : field[a] \in New /\ HOW_OLD(a) > HOW_OLD(field[a])
                        => a \in remember[HOW_OLD(field[a])][From(HOW_OLD(field[a]))]
  BY Identity
<1>2. /\ slot \in [Slot -> ReppyAddr \cup {Null}] /\ field \in [ReppyAddr -> ReppyAddr \cup {Null}]
      /\ top \in [Generation -> [{1, 2} -> 1 .. GenSize + 1]]
      /\ s \in Slot /\ t \in Slot /\ s \notin Global
  BY <1>1, SlotAssumption DEF TypeOK, Slot
<1>3. /\ 0 \in Generation /\ \A i \in Generation : From(i) \in {1, 2} /\ To(i) \in {1, 2} /\ From(i) # To(i)
      /\ top[0][From(0)] \in 1 .. GenSize /\ GenSize \in Nat
  <2>1. 0 \in Generation /\ GenSize \in Nat
    BY Addresses
  <2>2. From(0) \in {1, 2} /\ top[0][From(0)] \in 1 .. GenSize + 1
    BY <2>1, <1>1, Halves
  <2> QED BY <2>1, <2>2, <1>1, Halves DEF Rest
<1>4. b \in ReppyAddr /\ b[1] = 0 /\ b[2] = From(0) /\ b[3] = top[0][From(0)] /\ HOW_OLD(b) = 0
  BY <1>3, Addresses DEF HOW_OLD
<1>5. /\ field' = [field EXCEPT ![b] = slot[t]] /\ slot' = [slot EXCEPT ![s] = b]
      /\ request' = <<>> /\ mode' = "run"
  BY DEF Initialise
<1>6. /\ top' \in [Generation -> [{1, 2} -> 1 .. GenSize + 1]]
      /\ \A i \in Generation, h \in {1, 2} :
            top'[i][h] = IF i = 0 /\ h = From(0) THEN top[i][h] + 1 ELSE top[i][h]
  BY <1>2, <1>3
<1>7. b \notin New /\ b # Null /\ Null \notin New
  <2>1. ~(top[0][From(0)] < top[0][From(0)])
    BY <1>3
  <2> QED BY <2>1, <1>1, <1>4, Addresses DEF New, InUse
<1>8. N = {a \in ReppyAddr : a[2] = half'[a[1]] /\ a[3] < top'[a[1]][a[2]]}
  <2>1. ASSUME NEW a \in ReppyAddr
        PROVE  a[2] = half'[a[1]] /\ a[3] < top'[a[1]][a[2]] <=> a \in New \/ a = b
    <3>1. /\ a[1] \in Generation /\ a[2] \in {1, 2} /\ a[3] \in Int /\ a = <<a[1], a[2], a[3]>>
          /\ b = <<b[1], b[2], b[3]>>
      BY <1>4, Addresses
    <3>2. a \in New <=> a[2] = From(a[1]) /\ a[3] < top[a[1]][a[2]]
      BY <3>1, <1>1 DEF New, InUse
    <3>3. half'[a[1]] = From(a[1])
      BY DEF From
    <3>4. CASE a[1] = 0 /\ a[2] = From(0)
      <4>1. top'[a[1]][a[2]] = top[0][From(0)] + 1
        BY <3>1, <3>4, <1>6
      <4>2. a = b <=> a[3] = top[0][From(0)]
        BY <3>1, <3>4, <1>4
      <4> HIDE DEF b
      <4> QED BY <3>1, <3>2, <3>3, <3>4, <4>1, <4>2, <1>3
    <3>5. CASE ~(a[1] = 0 /\ a[2] = From(0))
      <4>1. top'[a[1]][a[2]] = top[a[1]][a[2]]
        BY <3>1, <3>5, <1>6
      <4>2. a # b
        BY <3>5, <1>4
      <4> QED BY <3>2, <3>3, <4>1, <4>2
    <3> QED BY <3>4, <3>5
  <2> HIDE DEF b
  <2> QED BY <2>1, <1>1, <1>4
<1> HIDE DEF b
<1>9. /\ slot' \in [Slot -> ReppyAddr \cup {Null}]
      /\ field' \in [ReppyAddr -> ReppyAddr \cup {Null}]
      /\ slot'[s] = b /\ \A r \in Slot : r # s => slot'[r] = slot[r]
      /\ field'[b] = slot[t] /\ \A a \in ReppyAddr : a # b => field'[a] = field[a]
  BY <1>2, <1>4, <1>5
<1>10. TypeOK'
  <2>1. Roots' = Roots
    BY DEF Roots
  <2> QED BY <2>1, <1>1, <1>5, <1>6, <1>9 DEF TypeOK
<1>11. IInv' /\ root' = slot' /\ next' = field'
  <2>1. \A i \in Generation : top'[i][To(i)'] = 1 /\ remember'[i][To(i)'] = {}
    <3>1. \A i : To(i)' = To(i)
      BY DEF To
    <3> QED BY <3>1, <1>1, <1>3, <1>6
  <2>2. \A r \in Slot : slot'[r] \in N \cup {Null}
    BY <1>1, <1>9
  <2>3. \A g \in Global \ barriered' : slot'[g] = Null
    BY <1>1, <1>2, <1>9 DEF Slot
  <2>4. /\ \A a \in New : field'[a] = field[a]
        /\ \A a \in N : field'[a] \in New \cup {Null}
    BY <1>1, <1>2, <1>7, <1>9
  <2>5. /\ \A i : half'[i] = From(i)
        /\ \A i \in Generation : \A a \in remember'[i][half'[i]] : a \in N /\ HOW_OLD(a) >= i
    BY <1>1 DEF From
  <2>6. ASSUME NEW a \in N, field'[a] \in N, HOW_OLD(a) > HOW_OLD(field'[a])
        PROVE  a \in remember'[HOW_OLD(field'[a])][half'[HOW_OLD(field'[a])]]
    <3>1. field'[a] \in New
      BY <2>4, <2>6, <1>4, <1>7, Addresses
    <3>2. HOW_OLD(field'[a]) \in Nat
      <4>1. field'[a] \in ReppyAddr
        BY <3>1, <1>1
      <4> QED BY <4>1, Addresses DEF HOW_OLD
    <3>3. a \in New
      BY <2>6, <3>2, <1>4
    <3> QED BY <3>1, <3>3, <2>4, <2>5, <2>6, <1>1
  <2>7. /\ mode' \in {"run", "retry"} /\ (mode' = "retry" => request' # <<>>)
        /\ moved' = {} /\ entries' = {} /\ left' = {}
    BY <1>1, <1>5
  <2>8. \A a \in N : field'[a] \in N \cup {Null}
    BY <2>4
  <2> HIDE DEF N
  <2>9. Settles(N)
    BY <2>1, <2>2, <2>3, <2>5, <2>6, <2>7, <2>8, <1>8 DEF Settles
  <2> QED BY <2>9, <1>10, Outside
<1>12. Graph!New(s, t)
  <2>1. b \in ReppyAddr \ Graph!Reachable
    BY <1>1, <1>4, <1>7
  <2>2. root' = [root EXCEPT ![s] = b] /\ next'[b] = root[t]
    BY <1>1, <1>5, <1>9, <1>11
  <2>3. Graph!ObjectsKept
    BY <1>1, <1>7, <1>9, <1>11 DEF Graph!ObjectsKept
  <2> QED BY <2>1, <2>2, <2>3 DEF Graph!New
<1> QED BY <1>2, <1>11, <1>12 DEF Good, Graph!Next

\* A collection starts: the objects of the generations up to its level are to be
\* copied. Older objects that point to them are in their remembered sets.
LEMMA CollectStep ==
    ASSUME IInv, mode = "run", NEW level \in Generation, NEW r \in (Var \X Var) \cup {<<>>},
           Collect(level, r)
    PROVE  Good
<1>1. /\ request' = r /\ mode' = "remembered" /\ gc_level' = level
      /\ entries' = UNION {{<<i, a>> : a \in remember[i][From(i)]} : i \in 0 .. Min({level, Oldest - 1})}
      /\ left' = Roots
      /\ scan' = [start |-> [i \in Generation |-> IF i = level + 1 THEN top[i][From(i)] ELSE 1],
                  at |-> Min({level + 1, Oldest})]
      /\ UNCHANGED <<slot, field, barriered, half, top, water_mark, remember, moved>>
  BY DEF Collect
<1>2. /\ TypeOK /\ New \subseteq ReppyAddr /\ moved = {}
      /\ \A s \in Slot : slot[s] \in New \cup {Null}
      /\ \A a \in New : field[a] \in New \cup {Null}
      /\ \A g \in Global \ barriered : slot[g] = Null
      /\ \A i \in Generation : /\ top[i][To(i)] = 1 /\ remember[i][To(i)] = {} /\ Space(i) = From(i)
                               /\ \A a \in remember[i][From(i)] : a \in New /\ HOW_OLD(a) >= i
      /\ \A a \in New : field[a] \in New /\ HOW_OLD(a) > HOW_OLD(field[a])
                        => a \in remember[HOW_OLD(field[a])][From(HOW_OLD(field[a]))]
  BY Identity
<1>3. /\ Generation = 0 .. Oldest /\ Oldest \in Nat \ {0} /\ level \in Nat /\ level <= Oldest
      /\ Null \notin New
      /\ \A i \in Generation : /\ From(i) \in {1, 2} /\ To(i) \in {1, 2} /\ From(i) # To(i)
                               /\ top[i][From(i)] \in 1 .. GenSize + 1
                               /\ remember[i][From(i)] \subseteq ReppyAddr
      /\ 1 \in 1 .. GenSize + 1
  <2>1. Generation = 0 .. Oldest /\ Oldest \in Nat \ {0} /\ 1 \in 1 .. GenSize + 1
    BY Addresses, GenerationAssumption DEF Oldest
  <2>2. level \in Nat /\ level <= Oldest
    BY <2>1
  <2> QED BY <2>1, <2>2, <1>2, Halves, Addresses
<1>4. /\ Min({level, Oldest - 1}) \in {level, Oldest - 1}
      /\ Min({level, Oldest - 1}) <= level /\ Min({level, Oldest - 1}) <= Oldest - 1
      /\ Min({level + 1, Oldest}) \in Generation
  <2>1. level \in Nat /\ Oldest - 1 \in Nat /\ level + 1 \in Nat /\ Oldest \in Nat
    BY <1>3
  <2>2. /\ Min({level, Oldest - 1}) \in {level, Oldest - 1}
        /\ Min({level, Oldest - 1}) <= level /\ Min({level, Oldest - 1}) <= Oldest - 1
    BY <2>1, MinOf
  <2>3. Min({level + 1, Oldest}) \in {level + 1, Oldest} /\ Min({level + 1, Oldest}) <= Oldest
    BY <2>1, MinOf
  <2> QED BY <2>2, <2>3, <1>3
<1>5. /\ \A e \in entries' : /\ e[1] \in Generation /\ e[1] <= level /\ e = <<e[1], e[2]>>
                             /\ e[2] \in remember[e[1]][From(e[1])]
      /\ \A i \in Generation : \A a \in remember[i][From(i)] :
            i <= level /\ i < Oldest => <<i, a>> \in entries'
  <2> DEFINE n == Min({level, Oldest - 1})
  <2>1. entries' = UNION {{<<i, a>> : a \in remember[i][From(i)]} : i \in 0 .. n}
    BY <1>1
  <2>2. n \in {level, Oldest - 1} /\ n <= level /\ n <= Oldest - 1
    BY <1>4
  <2> HIDE DEF n
  <2>3. n \in Nat
    BY <2>2, <1>3
  <2>4. \A i \in 0 .. n : i \in Generation /\ i <= level
    BY <2>2, <2>3, <1>3
  <2>5. \A i \in Generation : i <= level /\ i < Oldest => i \in 0 .. n
    BY <2>2, <2>3, <1>3
  <2> QED BY <2>1, <2>4, <2>5
<1>6. /\ Collecting' /\ mode' # "over"
      /\ \A i : /\ Collected(i)' <=> i <= level
                /\ From(i)' = From(i) /\ To(i)' = To(i)
                /\ Space(i)' = IF i <= level THEN To(i) ELSE From(i)
  BY <1>1 DEF Collecting, Collected, From, To, Space
<1>7. \A a : InUse(a)' <=> InUse(a)
  BY <1>1 DEF InUse
<1>8. \A a \in ReppyAddr : /\ a[1] \in Generation /\ a[1] \in Int /\ a[3] \in Int /\ a[3] >= 1
                           /\ HOW_OLD(a) = a[1]
  BY <1>3, Addresses DEF HOW_OLD
<1>9. Old' = {a \in New : a[1] <= level} /\ New' = {a \in New : ~(a[1] <= level)}
  <2>1. \A a \in ReppyAddr : a \in New <=> a[2] = From(a[1]) /\ InUse(a)
    BY <1>2, <1>8 DEF New
  <2>2. \A a \in ReppyAddr : ~(a[2] = To(a[1]) /\ InUse(a))
    BY <1>2, <1>8 DEF InUse
  <2>3. Old' = {a \in ReppyAddr : Collected(a[1])' /\ a[2] = From(a[1])' /\ InUse(a)'}
    BY DEF Old
  <2>4. New' = {a \in ReppyAddr : a[2] = Space(a[1])' /\ InUse(a)'}
    BY DEF New
  <2>5. Old' = {a \in New : a[1] <= level}
    BY <2>1, <2>3, <1>2, <1>6, <1>7
  <2>6. New' = {a \in New : ~(a[1] <= level)}
    BY <2>1, <2>2, <2>4, <1>2, <1>6, <1>7
  <2> QED BY <2>5, <2>6
<1>10. Waiting' = {}
  <2> SUFFICES ASSUME NEW a \in Waiting' PROVE FALSE
    OBVIOUS
  <2>1. a \in New' /\ a[1] <= level + 1 /\ scan'.start[a[1]] <= a[3]
    BY <1>1 DEF Waiting
  <2>2. a \in New /\ a \in ReppyAddr /\ ~(a[1] <= level) /\ a[1] \in Generation /\ a[1] \in Int /\ a[3] \in Int
    BY <2>1, <1>2, <1>8, <1>9
  <2>3. a[1] = level + 1
    BY <2>1, <2>2, <1>3
  <2>4. scan'.start[a[1]] = top[a[1]][From(a[1])]
    BY <2>2, <2>3, <1>1
  <2>5. a[3] < top[a[1]][From(a[1])]
    BY <2>2, <1>2 DEF New, InUse
  <2> QED BY <2>1, <2>2, <2>4, <2>5, <1>3
<1>11. Pre' = New \cup {Null}
  <2>1. Pre' = Old' \cup {a \in New' : ~Collected(a[1])'} \cup {Null}
    BY DEF Pre
  <2> QED BY <2>1, <1>6, <1>9
<1>12. TypeOK'
  <2>1. entries' \subseteq Generation \X ReppyAddr
    BY <1>3, <1>5
  <2>2. Roots' = Roots
    BY <1>1 DEF Roots
  <2>3. scan' \in [start : [Generation -> 1 .. GenSize + 1], at : Generation]
    BY <1>1, <1>3, <1>4
  <2> QED BY <2>1, <2>2, <2>3, <1>1, <1>2 DEF TypeOK
<1>13. Spaces'
  <2>1. \A i \in Generation : ~Collected(i)' => top'[i][To(i)'] = 1 /\ remember'[i][To(i)'] = {}
    BY <1>1, <1>2, <1>6
  <2>2. ASSUME NEW i \in Generation, i <= gc_level' + 1
        PROVE  scan'.start[i] <= top'[i][Space(i)']
    <3>1. top[i][From(i)] \in 1 .. GenSize + 1 /\ top[i][To(i)] = 1 /\ i \in Int
      BY <1>2, <1>3
    <3>2. scan'.start[i] = IF i = level + 1 THEN top[i][From(i)] ELSE 1
      BY <1>1
    <3>3. CASE i = level + 1
      <4>1. Space(i)' = From(i)
        BY <3>3, <1>3, <1>6
      <4> QED BY <3>1, <3>2, <3>3, <4>1, <1>1
    <3>4. CASE i # level + 1
      <4>1. Space(i)' = To(i)
        BY <3>1, <3>4, <2>2, <1>1, <1>3, <1>6
      <4> QED BY <3>1, <3>2, <3>4, <4>1, <1>1
    <3> QED BY <3>3, <3>4
  <2> QED BY <2>1, <2>2, <1>1, <1>2 DEF Spaces
<1>14. Variables'
  <2>1. \A s \in Slot \ Roots : slot[s] = Null
    BY <1>2 DEF Slot, Roots
  <2>2. \A s \in Roots : s \in Slot
    BY <1>2 DEF Slot, Roots, TypeOK
  <2>3. \A s \in left' : slot'[s] \in Pre'
    BY <2>2, <1>1, <1>2, <1>11
  <2> QED BY <2>1, <2>3, <1>1, <1>2 DEF Variables
<1>15. Fields'
  <2>1. \A a \in (Old' \ moved') \cup Waiting' : field'[a] \in Pre'
    BY <1>1, <1>2, <1>9, <1>10, <1>11
  <2>2. ASSUME NEW a \in New' \ Waiting'
        PROVE  \/ field'[a] \in New' \cup {Null}
               \/ /\ field'[a] \in Old' /\ HOW_OLD(a) > gc_level'
                  /\ <<HOW_OLD(field'[a]), a>> \in entries'
    <3> DEFINE p == field[a]
    <3>1. a \in New /\ a \in ReppyAddr /\ ~(a[1] <= level) /\ p \in New \cup {Null} /\ field'[a] = p
      BY <1>1, <1>2, <1>9
    <3>2. CASE p \in New /\ p[1] <= level
      <4>1. /\ p \in ReppyAddr /\ HOW_OLD(p) = p[1] /\ HOW_OLD(a) = a[1]
            /\ p[1] \in Generation /\ a[1] \in Generation
            /\ p[1] \in Int /\ a[1] \in Int /\ level \in Int /\ Oldest \in Int
        BY <3>1, <3>2, <1>2, <1>3, <1>8
      <4>2. HOW_OLD(a) > HOW_OLD(p) /\ HOW_OLD(a) > level /\ p[1] < Oldest
        BY <3>1, <3>2, <4>1, <1>3
      <4>3. a \in remember[HOW_OLD(p)][From(HOW_OLD(p))]
        BY <3>1, <3>2, <4>2, <1>2
      <4> HIDE DEF p
      <4>4. <<HOW_OLD(p), a>> \in entries'
        BY <3>2, <4>1, <4>2, <4>3, <1>5
      <4> QED BY <3>1, <3>2, <4>2, <4>4, <1>1, <1>9
    <3>3. CASE ~(p \in New /\ p[1] <= level)
      BY <3>1, <3>3, <1>9
    <3> QED BY <3>2, <3>3
  <2>3. moved' = {}
    BY <1>1, <1>2
  <2> QED BY <2>1, <2>2, <2>3 DEF Fields
<1>16. Remembered'
  <2>1. ASSUME NEW i \in Generation, NEW a \in remember'[i][Space(i)']
        PROVE  a \in New' /\ HOW_OLD(a) >= i
    <3>1. CASE i <= level
      BY <2>1, <3>1, <1>1, <1>2, <1>6
    <3>2. CASE ~(i <= level)
      <4>1. a \in New /\ HOW_OLD(a) >= i
        BY <2>1, <3>2, <1>1, <1>2, <1>6
      <4>2. a[1] \in Int /\ HOW_OLD(a) = a[1] /\ i \in Int
        BY <4>1, <1>2, <1>3, <1>8
      <4> QED BY <3>2, <4>1, <4>2, <1>3, <1>9
    <3> QED BY <3>1, <3>2
  <2>2. ASSUME NEW a \in New' \ Waiting', field'[a] \in New', HOW_OLD(a) > HOW_OLD(field'[a])
        PROVE  a \in remember'[HOW_OLD(field'[a])][Space(HOW_OLD(field[a]))']
    <3>1. /\ a \in New /\ field'[a] = field[a] /\ field[a] \in New /\ ~(field[a][1] <= level)
      BY <2>2, <1>1, <1>9
    <3>2. HOW_OLD(field[a]) = field[a][1]
      BY <3>1, <1>2, <1>8
    <3>3. Space(HOW_OLD(field[a]))' = From(HOW_OLD(field[a]))
      <4>1. Space(HOW_OLD(field[a]))' = IF HOW_OLD(field'[a]) <= level THEN To(HOW_OLD(field[a]))'
                                        ELSE From(HOW_OLD(field[a]))'
        BY <1>1, <1>6 DEF Space, Collected
      <4> QED BY <3>1, <3>2, <4>1, <1>1 DEF From, HOW_OLD
    <3> QED BY <2>2, <3>1, <3>3, <1>1, <1>2
  <2>3. ASSUME NEW e \in entries'
        PROVE  /\ e[1] <= gc_level'
               /\ HOW_OLD(e[2]) > gc_level' =>
                     /\ e[2] \in New' \ Waiting'
                     /\ field'[e[2]] \in New' => e[1] < HOW_OLD(field'[e[2]])
    <3>1. e[1] <= level /\ e[1] \in Int /\ e[2] \in New
      BY <1>2, <1>3, <1>5
    <3>2. HOW_OLD(e[2]) > level => e[2] \in New' \ Waiting'
      BY <3>1, <1>2, <1>3, <1>8, <1>9, <1>10
    <3>3. field[e[2]] \in New' => e[1] < HOW_OLD(field[e[2]])
      <4>1. ASSUME field[e[2]] \in New' PROVE e[1] < HOW_OLD(field[e[2]])
        <5>1. field[e[2]] \in New /\ ~(field[e[2]][1] <= level)
          BY <4>1, <1>9
        <5>2. HOW_OLD(field[e[2]]) = field[e[2]][1] /\ field[e[2]][1] \in Int
          BY <5>1, <1>2, <1>8
        <5> QED BY <3>1, <5>1, <5>2, <1>3
      <4> QED BY <4>1
    <3> QED BY <3>1, <3>2, <3>3, <1>1
  <2> QED BY <2>1, <2>2, <2>3 DEF Remembered
<1>17. Stages'
  BY <1>1 DEF Stages
<1>18. UNCHANGED <<root, next>>
  BY <1>1 DEF root, next, ReppyObject
<1> QED BY <1>6, <1>12, <1>13, <1>14, <1>15, <1>16, <1>17, <1>18 DEF Good, IInv

-----------------------------------------------------------------------------
\* The level of a minor collection is a generation.
LEMMA LevelIn == Level \in Generation
<1> DEFINE S == {i \in Generation : i < Oldest => Rest(i + 1, From(i + 1)) > water_mark[i] - 1}
<1>1. Oldest \in S
  BY Addresses
<1>2. S \subseteq Nat /\ S \subseteq Generation
  BY Addresses
<1> HIDE DEF S
<1>3. Min(S) \in S
  BY <1>1, <1>2, MinOf
<1> QED BY <1>2, <1>3 DEF S, Level

\* The invariant holds at the start, where the program has no objects.
LEMMA InitGood == Init => IInv /\ Graph!Init
<1> SUFFICES ASSUME Init PROVE IInv /\ Graph!Init
  OBVIOUS
<1>1. /\ slot = [s \in Slot |-> Null] /\ field = [a \in ReppyAddr |-> Null]
      /\ barriered = {} /\ request = <<>> /\ mode = "run"
      /\ half = [i \in Generation |-> 1] /\ top = [i \in Generation |-> <<1, 1>>]
      /\ water_mark = [i \in Generation |-> 1] /\ remember = [i \in Generation |-> <<{}, {}>>]
      /\ moved = {} /\ gc_level = 0 /\ entries = {} /\ left = {}
      /\ scan = [start |-> [i \in Generation |-> 1], at |-> 0]
  BY DEF Init, MutatorInit, ReppyInit, Slot
<1>2. 1 \in 1 .. GenSize + 1 /\ 0 \in Generation
  BY Addresses
<1>3. TypeOK
  BY <1>1, <1>2 DEF TypeOK
<1>4. /\ ~Collecting /\ \A i : ~Collected(i) /\ Space(i) = From(i)
      /\ \A i \in Generation : From(i) = 1 /\ To(i) = 2
  BY <1>1 DEF Collecting, Collected, Space, From, To
<1>5. New = {} /\ Old = {} /\ Waiting = {}
  <2>1. ASSUME NEW a \in ReppyAddr PROVE ~(a[2] = Space(a[1]) /\ InUse(a))
    <3>1. a[1] \in Generation /\ a[3] \in 1 .. GenSize
      BY Addresses
    <3>2. top[a[1]][Space(a[1])] = 1
      BY <3>1, <1>1, <1>4
    <3>3. ~(a[3] < 1)
      BY <3>1, Addresses
    <3> QED BY <3>2, <3>3 DEF InUse
  <2>2. New = {}
    BY <2>1 DEF New
  <2> QED BY <2>2, <1>4 DEF Old, Waiting
<1>6. Spaces
  BY <1>1, <1>4 DEF Spaces
<1>7. Variables /\ Fields
  BY <1>1, <1>5 DEF Variables, Fields, Slot
<1>8. Remembered
  BY <1>1, <1>4, <1>5 DEF Remembered
<1>9. Stages
  BY <1>1 DEF Stages
<1>10. Graph!Init
  BY <1>1 DEF Graph!Init, root, next, ReppyObject
<1> QED BY <1>3, <1>6, <1>7, <1>8, <1>9, <1>10 DEF IInv

\* Every step keeps the invariant and is a step of the graph.
LEMMA StepGood == IInv /\ [ReppyNext]_vars => Good
<1> SUFFICES ASSUME IInv, [ReppyNext]_vars PROVE Good
  OBVIOUS
<1>1. CASE UNCHANGED vars
  <2>1. /\ UNCHANGED <<slot, field, barriered, request, mode, half, top, water_mark, remember>>
        /\ UNCHANGED <<moved, gc_level, entries, left, scan>>
    BY <1>1 DEF vars, mutator, reppyVars
  <2>2. UNCHANGED <<root, next>>
    BY <2>1 DEF root, next, ReppyObject
  <2>3. IInv'
    <3>1. (Collecting' <=> Collecting) /\ Roots' = Roots
      BY <2>1 DEF Collecting, Roots
    <3>2. \A i : /\ From(i)' = From(i) /\ To(i)' = To(i) /\ Space(i)' = Space(i)
                 /\ Collected(i)' <=> Collected(i)
      BY <2>1, <3>1 DEF From, To, Space, Collected
    <3>3. \A a : InUse(a)' <=> InUse(a)
      BY <2>1 DEF InUse
    <3>4. Old' = Old /\ New' = New
      <4>1. Old' = {a \in ReppyAddr : Collected(a[1])' /\ a[2] = From(a[1])' /\ InUse(a)'}
        BY DEF Old
      <4>2. New' = {a \in ReppyAddr : a[2] = Space(a[1])' /\ InUse(a)'}
        BY DEF New
      <4> QED BY <4>1, <4>2, <3>2, <3>3 DEF Old, New
    <3>5. Waiting' = Waiting /\ Pre' = Pre
      BY <2>1, <3>1, <3>2, <3>4 DEF Waiting, Pre
    <3>6. TypeOK'
      BY <2>1, <3>1 DEF IInv, TypeOK
    <3>7. CASE mode # "over"
      <4>1. Spaces' /\ Variables' /\ Fields' /\ Stages'
        BY <2>1, <3>1, <3>2, <3>4, <3>5, <3>7 DEF IInv, Spaces, Variables, Fields, Stages
      <4>2. Remembered'
        BY <2>1, <3>1, <3>2, <3>4, <3>5, <3>7 DEF IInv, Remembered, Space, From, To, Collected
      <4> QED BY <4>1, <4>2, <3>6 DEF IInv
    <3>8. CASE mode = "over"
      BY <2>1, <3>6, <3>8 DEF IInv
    <3> QED BY <3>7, <3>8
  <2> QED BY <2>2, <2>3 DEF Good
<1>2. CASE compiled_code /\ UNCHANGED reppyVars
  BY <1>2, CompiledStep
<1>3. ASSUME NEW s \in Slot, NEW t \in Var, reppy_write(s, t)
      PROVE  Good
  BY <1>3, WriteStep
<1>4. ASSUME NEW s \in Var, NEW t \in Var, reppy_alloc(s, t)
      PROVE  Good
  <2>1. mode = "run"
    BY <1>4 DEF reppy_alloc
  <2>2. CASE Rest(0, From(0)) >= 1
    BY <1>4, <2>1, <2>2, AllocStep DEF reppy_alloc
  <2>3. CASE ~(Rest(0, From(0)) >= 1)
    <3>1. Collect(Level, <<s, t>>)
      BY <1>4, <2>3 DEF reppy_alloc
    <3> QED BY <2>1, <3>1, LevelIn, CollectStep
  <2> QED BY <2>2, <2>3
<1>5. CASE reppy_gc
  <2>1. mode = "run" /\ Collect(Oldest, <<>>) /\ Oldest \in Generation
    BY <1>5, Addresses DEF reppy_gc
  <2> QED BY <2>1, CollectStep
<1>6. CASE reppy_retry
  <2>1. mode = "retry" /\ request \in Var \X Var
    BY <1>6 DEF reppy_retry, IInv, TypeOK, Stages
  <2>2. CASE Rest(0, From(0)) >= 1
    <3>1. request[1] \in Var /\ request[2] \in Var
      BY <2>1
    <3> QED BY <3>1, <1>6, <2>1, <2>2, AllocStep DEF reppy_retry
  <2>3. CASE ~(Rest(0, From(0)) >= 1)
    BY <1>6, <2>3, OverStep DEF reppy_retry
  <2> QED BY <2>2, <2>3
<1> QED BY <1>1, <1>2, <1>3, <1>4, <1>5, <1>6, RootStep, EntryStep, ScanStep, EndStep
        DEF ReppyNext, Slot

\* The invariant: among other things, every slot of an old object that points to a
\* young one is remembered, or is still to be looked at, and promotion keeps that so.
THEOREM ReppyInvariant == Spec => []IInv
<1>1. Init => IInv
  BY InitGood
<1>2. IInv /\ [ReppyNext]_vars => IInv'
  BY StepGood DEF Good
<1> QED BY <1>1, <1>2, PTL DEF Spec

\* A minor collection does not look at old objects. It need not: those that point to
\* young ones are in their remembered sets.
THEOREM ReppyOldToYoung == Spec => []SlotsRemembered
<1>1. IInv => SlotsRemembered
  <2> SUFFICES ASSUME IInv, mode = "run", NEW a \in ReppyAddr, a[2] = From(a[1]), InUse(a),
                      field[a] # Null, HOW_OLD(a) > HOW_OLD(field[a])
               PROVE  a \in remember[HOW_OLD(field[a])][From(HOW_OLD(field[a]))]
    BY DEF SlotsRemembered, InUse
  <2>1. a \in New
    BY Identity, Addresses DEF New
  <2>2. field[a] \in New
    BY <2>1, Identity
  <2> QED BY <2>1, <2>2, Identity
<1> QED BY <1>1, ReppyInvariant, PTL

\* What the program sees of its heap changes by what the program does, never by a
\* step of a minor or a full collection: no object that can be reached is lost, copied
\* twice, or reached through an old address.
THEOREM ReppyKeepsGraph == Spec => Graph!Spec
<1>1. Init => Graph!Init
  BY InitGood
<1>2. IInv /\ [ReppyNext]_vars => [Graph!Next]_<<root, next>>
  BY StepGood DEF Good
<1> QED BY <1>1, <1>2, ReppyInvariant, PTL DEF Spec, Graph!Spec

=============================================================================
