-------------------------- MODULE BitmapHeapProofs --------------------------
(***************************************************************************)
(* The two collectors with mark bits.  The generational one of             *)
(* heap_bitmap.c keeps the graph of objects that the program sees, for any *)
(* number of segments and blocks.  The first part is about lists of        *)
(* segments.  heap_otomo.c follows at the end: what is named after it is   *)
(* about the program with that collector.                                  *)
(***************************************************************************)
EXTENDS BitmapHeapInv, OtomoInv, WellFoundedInduction, SequenceTheorems, FiniteSetTheorems, TLAPS

-----------------------------------------------------------------------------
\* A set of naturals that is not empty has a minimum.
LEMMA MinOf ==
    ASSUME NEW S \in SUBSET Nat, S # {}
    PROVE  Min(S) \in S /\ \A x \in S : Min(S) <= x
<1>1. PICK x \in S : \A y \in S : ~(<<y, x>> \in OpToRel(<, Nat))
  BY NatLessThanWellFounded, WFMin
<1>2. \A y \in S : ~(y < x)
  BY <1>1 DEF OpToRel
<1>3. \A y \in S : x <= y
  BY <1>2
<1> QED BY <1>3 DEF Min

\* An element is added to a list.
LEMMA AppendElements ==
    ASSUME NEW S, NEW list \in Seq(S), NEW e \in S
    PROVE  /\ Append(list, e) \in Seq(S) /\ ToSet(Append(list, e)) = ToSet(list) \cup {e}
           /\ IsInjective(list) /\ e \notin ToSet(list) => IsInjective(Append(list, e))
<1> DEFINE l == Append(list, e)
           n == Len(list)
<1>1. n \in Nat /\ DOMAIN list = 1 .. n
  OBVIOUS
<1>2. /\ l \in Seq(S) /\ DOMAIN l = 1 .. n + 1
      /\ l[n + 1] = e /\ \A i \in 1 .. n : l[i] = list[i]
  BY AppendProperties
<1> HIDE DEF l, n
<1>3. \A i \in 1 .. n + 1 : i = n + 1 \/ i \in 1 .. n
  BY <1>1
<1>4. n + 1 \in 1 .. n + 1 /\ \A i \in 1 .. n : i \in 1 .. n + 1
  BY <1>1
<1>5. ToSet(l) = ToSet(list) \cup {e}
  BY <1>1, <1>2, <1>3, <1>4 DEF ToSet
<1>6. ASSUME IsInjective(list), e \notin ToSet(list) PROVE IsInjective(l)
  <2>1. \A i, j \in 1 .. n : list[i] = list[j] => i = j
    BY <1>1, <1>6 DEF IsInjective
  <2>2. \A i \in 1 .. n : list[i] # e
    BY <1>1, <1>6 DEF ToSet
  <2>3. \A i, j \in 1 .. n + 1 : l[i] = l[j] => i = j
    BY <1>2, <1>3, <2>1, <2>2
  <2> QED BY <2>3, <1>2 DEF IsInjective
<1> QED BY <1>2, <1>5, <1>6 DEF l

\* What Those computes for the first n elements, if first is what it has computed
\* for fewer.
After(list, set, first, n) ==
    IF n = 0 THEN <<>>
    ELSE IF list[n] \in set THEN Append(first[n - 1], list[n])
    ELSE first[n - 1]

\* The definition of Those is not circular: there is such a function.
LEMMA ThoseDefined ==
    ASSUME NEW list, NEW set, NEW m \in Nat
    PROVE  \E f : f = [n \in 0 .. m |-> After(list, set, f, n)]
<1> DEFINE Bad == {k \in Nat : ~\E f : f = [n \in 0 .. k |-> After(list, set, f, n)]}
<1> SUFFICES ASSUME Bad # {} PROVE FALSE
  OBVIOUS
<1> DEFINE k == Min(Bad)
<1>1. Bad \subseteq Nat
  OBVIOUS
<1> HIDE DEF Bad
<1>2. k \in Bad /\ \A x \in Bad : k <= x
  BY <1>1, MinOf
<1>3. k \in Nat /\ ~\E f : f = [n \in 0 .. k |-> After(list, set, f, n)]
  BY <1>2 DEF Bad
<1> HIDE DEF k
<1>4. CASE k = 0
  <2> DEFINE f == [n \in 0 .. k |-> <<>>]
  <2>1. f = [n \in 0 .. k |-> After(list, set, f, n)]
    BY <1>4 DEF After
  <2> QED BY <2>1, <1>3
<1>5. CASE k # 0
  <2>1. k - 1 \in Nat /\ k - 1 \notin Bad
    BY <1>2, <1>3, <1>5
  <2>2. PICK g : g = [n \in 0 .. k - 1 |-> After(list, set, g, n)]
    BY <2>1 DEF Bad
  <2> DEFINE f == [n \in 0 .. k |-> After(list, set, g, n)]
  <2>3. \A n \in 0 .. k - 1 : g[n] = After(list, set, g, n)
    BY <2>2
  <2>4. ASSUME NEW n \in 0 .. k PROVE After(list, set, f, n) = After(list, set, g, n)
    <3>1. CASE n = 0
      BY <3>1 DEF After
    <3>2. CASE n # 0
      <4>1. n - 1 \in 0 .. k - 1 /\ n - 1 \in 0 .. k
        BY <1>3, <3>2
      <4>2. f[n - 1] = g[n - 1]
        BY <4>1, <2>3
      <4> QED BY <4>2, <3>2 DEF After
    <3> QED BY <3>1, <3>2
  <2>5. f = [n \in 0 .. k |-> After(list, set, f, n)]
    BY <2>4
  <2> QED BY <2>5, <1>3
<1> QED BY <1>4, <1>5

\* Those takes the elements of a list that are in a set, each one once if the list
\* has it once.
LEMMA ThoseElements ==
    ASSUME NEW S, NEW list \in Seq(S), NEW set
    PROVE  /\ Those(list, set) \in Seq(S)
           /\ ToSet(Those(list, set)) = ToSet(list) \cap set
           /\ IsInjective(list) => IsInjective(Those(list, set))
<1> DEFINE m == Len(list)
           first == CHOOSE f : f = [n \in 0 .. m |->
                                      IF n = 0 THEN <<>>
                                      ELSE IF list[n] \in set THEN Append(f[n - 1], list[n])
                                      ELSE f[n - 1]]
<1>1. m \in Nat /\ DOMAIN list = 1 .. m /\ \A i \in 1 .. m : list[i] \in S
  OBVIOUS
<1>2. Those(list, set) = first[m]
  BY DEF Those
<1>3. first = [n \in 0 .. m |-> After(list, set, first, n)]
  <2>1. \E f : f = [n \in 0 .. m |-> After(list, set, f, n)]
    BY <1>1, ThoseDefined
  <2> QED BY <2>1 DEF After
<1> HIDE DEF first, m
<1>4. \A n \in 0 .. m : first[n] = After(list, set, first, n)
  BY <1>3
<1> DEFINE Good(n) ==
             /\ first[n] \in Seq(S)
             /\ ToSet(first[n]) = {list[i] : i \in 1 .. n} \cap set
             /\ IsInjective(list) => IsInjective(first[n])
           Bad == {n \in 0 .. m : ~Good(n)}
<1>5. CASE Bad # {}
  <2> DEFINE k == Min(Bad)
  <2>1. Bad \subseteq Nat /\ Bad \subseteq 0 .. m
    BY <1>1
  <2> HIDE DEF Bad
  <2>2. k \in Bad /\ \A x \in Bad : k <= x
    BY <1>5, <2>1, MinOf
  <2>3. k \in 0 .. m /\ ~Good(k)
    BY <2>2 DEF Bad
  <2> HIDE DEF k
  <2>4. CASE k = 0
    <3>1. first[k] = <<>>
      BY <1>4, <2>3, <2>4 DEF After
    <3>2. <<>> \in Seq(S) /\ ToSet(<<>>) = {} /\ IsInjective(<<>>)
      BY DEF ToSet, IsInjective
    <3>3. {list[i] : i \in 1 .. k} = {}
      BY <2>4
    <3> QED BY <3>1, <3>2, <3>3, <2>3
  <2>5. CASE k # 0
    <3>1. k - 1 \in 0 .. m /\ k - 1 \notin Bad /\ k \in 1 .. m
      BY <1>1, <2>2, <2>3, <2>5, <2>1
    <3>2. Good(k - 1)
      BY <3>1 DEF Bad
    <3> DEFINE e == list[k]
               l == first[k - 1]
    <3>3. first[k] = IF e \in set THEN Append(l, e) ELSE l
      BY <1>4, <2>3, <2>5 DEF After
    <3>4. e \in S /\ {list[i] : i \in 1 .. k} = {list[i] : i \in 1 .. k - 1} \cup {e}
      <4>1. \A i \in 1 .. k : i = k \/ i \in 1 .. k - 1
        BY <1>1, <3>1
      <4>2. \A i \in 1 .. k - 1 : i \in 1 .. k
        BY <1>1, <3>1
      <4>3. k \in 1 .. k
        BY <1>1, <3>1
      <4> QED BY <1>1, <3>1, <4>1, <4>2, <4>3
    <3>5. CASE e \notin set
      <4>1. first[k] = l
        BY <3>3, <3>5
      <4> HIDE DEF l
      <4>2. ToSet(first[k]) = {list[i] : i \in 1 .. k} \cap set
        BY <3>2, <3>4, <3>5, <4>1 DEF l
      <4> QED BY <4>1, <4>2, <3>2, <2>3 DEF l
    <3>6. CASE e \in set
      <4>1. first[k] = Append(l, e) /\ l \in Seq(S)
        BY <3>2, <3>3, <3>6
      <4> HIDE DEF l, e
      <4>2. first[k] \in Seq(S) /\ ToSet(first[k]) = ToSet(l) \cup {e}
            /\ (IsInjective(l) /\ e \notin ToSet(l) => IsInjective(first[k]))
        BY <4>1, <3>4, AppendElements
      <4>3. ToSet(first[k]) = {list[i] : i \in 1 .. k} \cap set
        BY <3>2, <3>4, <3>6, <4>2 DEF l
      <4>4. ASSUME IsInjective(list) PROVE IsInjective(first[k])
        <5>1. \A i \in 1 .. k - 1 : list[i] # e
          <6>1. \A i \in 1 .. k - 1 : i \in 1 .. m /\ i # k
            BY <1>1, <3>1
          <6> QED BY <6>1, <4>4, <1>1, <3>1 DEF IsInjective, e
        <5>2. e \notin ToSet(l)
          BY <5>1, <3>2 DEF l
        <5> QED BY <4>2, <4>4, <5>2, <3>2 DEF l
      <4> QED BY <4>2, <4>3, <4>4, <2>3
    <3> QED BY <3>5, <3>6
  <2> QED BY <2>4, <2>5
<1>6. CASE Bad = {}
  <2>1. m \in 0 .. m
    BY <1>1
  <2>2. Good(m)
    BY <1>6, <2>1
  <2>3. ToSet(list) = {list[i] : i \in 1 .. m}
    BY <1>1 DEF ToSet
  <2> QED BY <2>2, <2>3, <1>2
<1> QED BY <1>5, <1>6

\* The elements of two lists in a row, of the parts of a list, and of its rest.
LEMMA ConcatElements ==
    ASSUME NEW S, NEW a \in Seq(S), NEW b \in Seq(S)
    PROVE  /\ a \o b \in Seq(S) /\ Len(a \o b) = Len(a) + Len(b)
           /\ ToSet(a \o b) = ToSet(a) \cup ToSet(b)
           /\ {(a \o b)[i] : i \in 1 .. Len(a)} = ToSet(a)
           /\ {(a \o b)[i] : i \in Len(a) + 1 .. Len(a \o b)} = ToSet(b)
           /\ IsInjective(a) /\ IsInjective(b) /\ ToSet(a) \cap ToSet(b) = {} => IsInjective(a \o b)
<1> DEFINE l == a \o b
           m == Len(a)
           n == Len(b)
<1>1. m \in Nat /\ n \in Nat /\ DOMAIN a = 1 .. m /\ DOMAIN b = 1 .. n
  OBVIOUS
<1>2. /\ l \in Seq(S) /\ Len(l) = m + n /\ DOMAIN l = 1 .. m + n
      /\ \A i \in 1 .. m + n : l[i] = IF i <= m THEN a[i] ELSE b[i - m]
  BY ConcatProperties
<1> HIDE DEF l, m, n
<1>3. \A i \in 1 .. m : i \in 1 .. m + n /\ l[i] = a[i]
  <2> TAKE i \in 1 .. m
  <2>1. i \in 1 .. m + n /\ i <= m
    BY <1>1
  <2> QED BY <2>1, <1>2
<1>4. \A i \in m + 1 .. m + n : i \in 1 .. m + n /\ i - m \in 1 .. n /\ l[i] = b[i - m]
  <2> TAKE i \in m + 1 .. m + n
  <2>1. i \in 1 .. m + n /\ ~(i <= m) /\ i - m \in 1 .. n
    BY <1>1
  <2> QED BY <2>1, <1>2
<1>5. \A i \in 1 .. n : i + m \in m + 1 .. m + n /\ (i + m) - m = i
  BY <1>1
<1>6. \A i \in 1 .. m + n : i \in 1 .. m \/ i \in m + 1 .. m + n
  BY <1>1
<1>7. {l[i] : i \in 1 .. m} = ToSet(a)
  BY <1>1, <1>3 DEF ToSet
<1>8. {l[i] : i \in m + 1 .. m + n} = ToSet(b)
  <2>1. \A i \in m + 1 .. m + n : l[i] \in ToSet(b)
    BY <1>1, <1>4 DEF ToSet
  <2>2. \A i \in 1 .. n : \E j \in m + 1 .. m + n : l[j] = b[i]
    BY <1>4, <1>5
  <2> QED BY <2>1, <2>2, <1>1 DEF ToSet
<1>9. ToSet(l) = {l[i] : i \in 1 .. m} \cup {l[i] : i \in m + 1 .. m + n}
  BY <1>2, <1>3, <1>4, <1>6 DEF ToSet
<1>10. ASSUME IsInjective(a), IsInjective(b), ToSet(a) \cap ToSet(b) = {}
       PROVE  IsInjective(l)
  <2> SUFFICES ASSUME NEW i \in 1 .. m + n, NEW j \in 1 .. m + n, l[i] = l[j] PROVE i = j
    BY <1>2 DEF IsInjective
  <2>1. CASE i \in 1 .. m /\ j \in 1 .. m
    BY <2>1, <1>1, <1>3, <1>10 DEF IsInjective
  <2>2. CASE i \in m + 1 .. m + n /\ j \in m + 1 .. m + n
    <3>1. i - m = j - m
      BY <2>2, <1>1, <1>4, <1>10 DEF IsInjective
    <3> QED BY <3>1, <2>2, <1>1
  <2>3. ASSUME NEW x \in 1 .. m, NEW y \in m + 1 .. m + n PROVE l[x] # l[y]
    BY <1>7, <1>8, <1>10
  <2> QED BY <2>1, <2>2, <2>3, <1>6
<1> QED BY <1>2, <1>7, <1>8, <1>9, <1>10 DEF l, m, n

LEMMA PartElements ==
    ASSUME NEW S, NEW list \in Seq(S), NEW n \in 0 .. Len(list)
    PROVE  LET a == SubSeq(list, 1, n)
               b == SubSeq(list, n + 1, Len(list))
           IN  /\ a \in Seq(S) /\ Len(a) = n /\ b \in Seq(S)
               /\ ToSet(a) = {list[i] : i \in 1 .. n}
               /\ ToSet(b) = {list[i] : i \in n + 1 .. Len(list)}
               /\ ToSet(list) = ToSet(a) \cup ToSet(b)
               /\ IsInjective(list) =>
                     IsInjective(a) /\ IsInjective(b) /\ ToSet(a) \cap ToSet(b) = {}
<1> DEFINE m == Len(list)
           a == SubSeq(list, 1, n)
           b == SubSeq(list, n + 1, m)
<1>1. m \in Nat /\ n \in Nat /\ n <= m /\ DOMAIN list = 1 .. m /\ \A i \in 1 .. m : list[i] \in S
  OBVIOUS
<1>2. /\ a \in Seq(S) /\ Len(a) = n /\ DOMAIN a = 1 .. n /\ \A i \in 1 .. n : a[i] = list[i]
  <2>1. /\ SubSeq(list, 1, n) \in Seq(S)
        /\ Len(SubSeq(list, 1, n)) = IF 1 <= n THEN n - 1 + 1 ELSE 0
        /\ \A i \in 1 .. n - 1 + 1 : SubSeq(list, 1, n)[i] = list[1 + i - 1]
    <3>1. 1 \in 1 .. m + 1 /\ n \in 0 .. m
      BY <1>1
    <3> QED BY <3>1, <1>1, SubSeqProperties
  <2>2. (IF 1 <= n THEN n - 1 + 1 ELSE 0) = n /\ n - 1 + 1 = n
    BY <1>1
  <2>3. Len(a) = n /\ a \in Seq(S)
    BY <2>1, <2>2
  <2>4. \A i \in 1 .. n : 1 + i - 1 = i
    BY <1>1
  <2>5. \A i \in 1 .. n : a[i] = list[i]
    BY <2>1, <2>2, <2>4
  <2> QED BY <2>3, <2>5
<1>3. /\ b \in Seq(S) /\ DOMAIN b = 1 .. m - n /\ \A i \in 1 .. m - n : b[i] = list[n + i]
  <2>1. /\ SubSeq(list, n + 1, m) \in Seq(S)
        /\ Len(SubSeq(list, n + 1, m)) = IF n + 1 <= m THEN m - (n + 1) + 1 ELSE 0
        /\ \A i \in 1 .. m - (n + 1) + 1 : SubSeq(list, n + 1, m)[i] = list[n + 1 + i - 1]
    <3>1. n + 1 \in 1 .. m + 1 /\ m \in n + 1 - 1 .. m
      BY <1>1
    <3> QED BY <3>1, <1>1, SubSeqProperties
  <2>2. (IF n + 1 <= m THEN m - (n + 1) + 1 ELSE 0) = m - n /\ m - (n + 1) + 1 = m - n
    <3> HIDE DEF m
    <3>1. m - (n + 1) + 1 = m - n /\ (~(n + 1 <= m) => m - n = 0)
      BY <1>1
    <3> QED BY <3>1
  <2>3. \A i \in 1 .. m - n : n + 1 + i - 1 = n + i
    <3> HIDE DEF m
    <3> QED BY <1>1
  <2>4. Len(b) = m - n /\ b \in Seq(S)
    BY <2>1, <2>2
  <2>5. \A i \in 1 .. m - n : b[i] = list[n + i]
    BY <2>1, <2>2, <2>3
  <2> QED BY <2>4, <2>5
<1> HIDE DEF m, a, b
<1>4. \A i \in 1 .. n : i \in 1 .. m
  BY <1>1
<1>5. \A i \in 1 .. m - n : n + i \in n + 1 .. m /\ n + i \in 1 .. m
  BY <1>1
<1>6. \A i \in n + 1 .. m : i - n \in 1 .. m - n /\ n + (i - n) = i /\ i \in 1 .. m
  BY <1>1
<1>7. \A i \in 1 .. m : i \in 1 .. n \/ i \in n + 1 .. m
  BY <1>1
<1>8. ToSet(a) = {list[i] : i \in 1 .. n}
  BY <1>2 DEF ToSet
<1>9. ToSet(b) = {list[i] : i \in n + 1 .. m}
  <2>1. \A i \in 1 .. m - n : b[i] \in {list[j] : j \in n + 1 .. m}
    BY <1>3, <1>5
  <2>2. \A j \in n + 1 .. m : \E i \in 1 .. m - n : b[i] = list[j]
    BY <1>3, <1>6
  <2> QED BY <2>1, <2>2, <1>3 DEF ToSet
<1>10. ToSet(list) = ToSet(a) \cup ToSet(b)
  BY <1>1, <1>4, <1>6, <1>7, <1>8, <1>9 DEF ToSet
<1>11. ASSUME IsInjective(list)
       PROVE  IsInjective(a) /\ IsInjective(b) /\ ToSet(a) \cap ToSet(b) = {}
  <2>1. \A i, j \in 1 .. m : list[i] = list[j] => i = j
    BY <1>1, <1>11 DEF IsInjective
  <2>2. IsInjective(a)
    BY <1>2, <1>4, <2>1 DEF IsInjective
  <2>3. \A i, j \in 1 .. m - n : n + i = n + j => i = j
    BY <1>1
  <2>4. \A i, j \in 1 .. m - n : b[i] = b[j] => i = j
    BY <1>3, <1>5, <2>1, <2>3
  <2>5. IsInjective(b)
    BY <1>3, <2>4 DEF IsInjective
  <2>6. \A i \in 1 .. n, j \in n + 1 .. m : list[i] # list[j]
    <3> TAKE i \in 1 .. n, j \in n + 1 .. m
    <3>1. i # j
      BY <1>1
    <3> QED BY <3>1, <1>4, <1>6, <2>1
  <2> QED BY <2>2, <2>5, <2>6, <1>8, <1>9
<1> QED BY <1>2, <1>3, <1>8, <1>9, <1>10, <1>11 DEF m, a, b

LEMMA TailElements ==
    ASSUME NEW S, NEW list \in Seq(S), list # <<>>
    PROVE  /\ Head(list) \in S /\ Tail(list) \in Seq(S)
           /\ ToSet(list) = {Head(list)} \cup ToSet(Tail(list))
           /\ IsInjective(list) => IsInjective(Tail(list)) /\ Head(list) \notin ToSet(Tail(list))
<1> DEFINE t == Tail(list)
           m == Len(list)
<1>1. /\ m \in Nat \ {0} /\ DOMAIN list = 1 .. m /\ Head(list) = list[1]
      /\ Head(list) \in S
      /\ t \in Seq(S) /\ Len(t) = m - 1 /\ \A i \in 1 .. m - 1 : t[i] = list[i + 1]
  BY HeadTailProperties
<1>2. DOMAIN t = 1 .. m - 1
  BY <1>1
<1> HIDE DEF t, m
<1>3. \A i \in 1 .. m : i = 1 \/ (i - 1 \in 1 .. m - 1 /\ (i - 1) + 1 = i)
  BY <1>1
<1>4. 1 \in 1 .. m /\ \A i \in 1 .. m - 1 : i + 1 \in 1 .. m /\ i + 1 # 1
  BY <1>1
<1>5. ToSet(list) = {Head(list)} \cup ToSet(t)
  <2>1. ASSUME NEW i \in 1 .. m PROVE list[i] \in {Head(list)} \cup ToSet(t)
    <3>1. CASE i = 1
      BY <3>1, <1>1
    <3>2. CASE i - 1 \in 1 .. m - 1 /\ (i - 1) + 1 = i
      <4>1. list[i] = t[i - 1]
        BY <3>2, <1>1
      <4> QED BY <4>1, <3>2, <1>2 DEF ToSet
    <3> QED BY <3>1, <3>2, <1>3
  <2>2. \A i \in 1 .. m - 1 : t[i] \in ToSet(list)
    BY <1>1, <1>4 DEF ToSet
  <2>3. Head(list) \in ToSet(list)
    BY <1>1, <1>4 DEF ToSet
  <2> QED BY <2>1, <2>2, <2>3, <1>1, <1>2 DEF ToSet
<1>6. ASSUME IsInjective(list) PROVE IsInjective(t) /\ Head(list) \notin ToSet(t)
  <2>1. \A i, j \in 1 .. m : list[i] = list[j] => i = j
    BY <1>1, <1>6 DEF IsInjective
  <2>2. \A i, j \in 1 .. m - 1 : i + 1 = j + 1 => i = j
    BY <1>1
  <2>3. \A i, j \in 1 .. m - 1 : t[i] = t[j] => i = j
    BY <1>1, <1>4, <2>1, <2>2
  <2>4. \A i \in 1 .. m - 1 : t[i] # Head(list)
    BY <1>1, <1>4, <2>1
  <2> QED BY <2>3, <2>4, <1>2 DEF IsInjective, ToSet
<1> QED BY <1>1, <1>5, <1>6 DEF t

\* An element is put in front of a list.
LEMMA PushElements ==
    ASSUME NEW S, NEW list \in Seq(S), NEW e \in S
    PROVE  <<e>> \o list \in Seq(S) /\ ToSet(<<e>> \o list) = {e} \cup ToSet(list)
<1> DEFINE a == <<e>>
<1>1. a \in Seq(S) /\ ToSet(a) = {e}
  BY DEF ToSet
<1> HIDE DEF a
<1>2. a \o list \in Seq(S) /\ ToSet(a \o list) = ToSet(a) \cup ToSet(list)
  BY <1>1, ConcatElements
<1> QED BY <1>1, <1>2 DEF a

LEMMA EmptyList ==
    ASSUME NEW S
    PROVE  <<>> \in Seq(S) /\ ToSet(<<>>) = {} /\ IsInjective(<<>>) /\ Len(<<>>) = 0
           /\ \A list \in Seq(S) : ToSet(list) = {} \/ Len(list) = 0 => list = <<>>
<1>1. DOMAIN <<>> = {}
  OBVIOUS
<1>2. ASSUME NEW list \in Seq(S), list # <<>> PROVE ToSet(list) # {} /\ Len(list) # 0
  <2>1. 1 \in DOMAIN list
    BY <1>2
  <2> QED BY <2>1, <1>2 DEF ToSet
<1> QED BY <1>1, <1>2 DEF ToSet, IsInjective

-----------------------------------------------------------------------------
\* live_count tells whether a segment has marked blocks, and free ones.
LEMMA Counted ==
    ASSUME NEW g \in Segment, mark \subseteq Block
    PROVE  /\ live_count(g) \in Nat
           /\ live_count(g) = 0 => \A b \in mark : b[1] # g
           /\ live_count(g) >= NumBlocks => \A j \in 1 .. NumBlocks : <<g, j>> \in mark
           /\ live_count(g) < NumBlocks <=> \E j \in 1 .. NumBlocks : <<g, j>> \notin mark
<1> DEFINE C == {b \in mark : b[1] = g}
           T == {<<g, j>> : j \in 1 .. NumBlocks}
           n == NumBlocks
<1>1. n \in Nat /\ \A b \in Block : b = <<b[1], b[2]>> /\ b[2] \in 1 .. n
  BY SegmentAssumption DEF Block
<1>2. IsFiniteSet(T) /\ Cardinality(T) = n
  <2>1. IsFiniteSet(1 .. n) /\ Cardinality(1 .. n) = n
    BY <1>1, FS_Interval
  <2> DEFINE f == [j \in 1 .. n |-> <<g, j>>]
  <2>2. f \in Bijection(1 .. n, T)
    BY DEF Bijection, Injection, Surjection, IsInjective
  <2>3. ExistsBijection(1 .. n, T)
    BY <2>2 DEF ExistsBijection
  <2> HIDE DEF T, n
  <2> QED BY <2>1, <2>3, FS_Bijection
<1>3. C \subseteq T
  BY <1>1
<1>4. /\ IsFiniteSet(C) /\ Cardinality(C) \in Nat /\ Cardinality(C) <= n
      /\ Cardinality(C) = n => C = T
      /\ Cardinality(C) = 0 => C = {}
  <2> HIDE DEF C, T, n
  <2>1. IsFiniteSet(C) /\ Cardinality(C) <= Cardinality(T)
        /\ (Cardinality(T) = Cardinality(C) => T = C)
    BY <1>2, <1>3, FS_Subset
  <2>2. Cardinality(C) \in Nat
    BY <2>1, FS_CardinalityType
  <2>3. Cardinality(C) = 0 => C = {}
    BY <2>1, FS_EmptySet
  <2> QED BY <2>1, <2>2, <2>3, <1>2
<1>5. live_count(g) = Cardinality(C)
  BY DEF live_count
<1>6. C = T <=> \A j \in 1 .. n : <<g, j>> \in mark
  BY <1>3
<1>7. C = T => Cardinality(C) = n
  <2> HIDE DEF C, T, n
  <2> QED BY <1>2
<1>8. Cardinality(C) = 0 => \A b \in mark : b[1] # g
  BY <1>4
<1>9. /\ Cardinality(C) >= n => C = T
      /\ Cardinality(C) < n <=> C # T
  <2> HIDE DEF C, T
  <2> HIDE DEF n
  <2> QED BY <1>1, <1>4, <1>7
<1> QED BY <1>4, <1>5, <1>6, <1>8, <1>9

\* A segment that has no marked block is not filled, and one that is not filled has
\* a free block.
LEMMA Sorted ==
    ASSUME NEW g \in Segment, mark \subseteq Block, gc_mode \in {"MINOR", "MAJOR"}
    PROVE  /\ Filled(g) => live_count(g) # 0
           /\ ~Filled(g) => \E j \in 1 .. NumBlocks : <<g, j>> \notin mark
           /\ Filled(g) /\ gc_mode = "MAJOR" => \A j \in 1 .. NumBlocks : <<g, j>> \in mark
<1> DEFINE c == live_count(g)
           n == NumBlocks
           h == MinorThreshold
<1>1. c \in Nat
  BY Counted
<1>2. n \in Nat \ {0} /\ h \in Nat /\ 1 <= h /\ h <= n
  BY SegmentAssumption
<1>3. c < n => \E j \in 1 .. NumBlocks : <<g, j>> \notin mark
  BY Counted
<1>4. c >= n => \A j \in 1 .. NumBlocks : <<g, j>> \in mark
  BY Counted
<1>5. Filled(g) <=> c >= IF gc_mode = "MINOR" THEN h ELSE n
  BY DEF Filled
<1> HIDE DEF c, n, h
<1>6. /\ Filled(g) => c # 0
      /\ ~Filled(g) => c < n
      /\ Filled(g) /\ gc_mode = "MAJOR" => c >= n
  BY <1>1, <1>2, <1>5
<1> QED BY <1>3, <1>4, <1>6 DEF c

-----------------------------------------------------------------------------
\* What a step of the program or of the collector has to do.
Good == IInv' /\ [Graph!Next]_<<slot, field>>

\* The parts of the segment list.
LEMMA Halves ==
    ASSUME seglist \in Seq(Segment), unreserved \in 0 .. Len(seglist)
    PROVE  /\ ToSet(seglist) = Reserved \cup Unreserved
           /\ IsInjective(seglist) => Reserved \cap Unreserved = {}
           /\ unreserved = Len(seglist) => Unreserved = {}
<1>1. Len(seglist) \in Nat /\ unreserved \in Nat
  OBVIOUS
<1>2. unreserved = Len(seglist) => unreserved + 1 .. Len(seglist) = {}
  BY <1>1
<1>3. /\ ToSet(SubSeq(seglist, 1, unreserved)) = {seglist[i] : i \in 1 .. unreserved}
      /\ ToSet(SubSeq(seglist, unreserved + 1, Len(seglist)))
           = {seglist[i] : i \in unreserved + 1 .. Len(seglist)}
      /\ ToSet(seglist) = ToSet(SubSeq(seglist, 1, unreserved))
                          \cup ToSet(SubSeq(seglist, unreserved + 1, Len(seglist)))
      /\ IsInjective(seglist) =>
           ToSet(SubSeq(seglist, 1, unreserved))
           \cap ToSet(SubSeq(seglist, unreserved + 1, Len(seglist))) = {}
  BY PartElements
<1> QED BY <1>2, <1>3 DEF Reserved, Unreserved

\* What the program reaches has not been reclaimed.
LEMMA ReachableObjects ==
    ASSUME IInv
    PROVE  Graph!Reachable \subseteq objects /\ objects \subseteq Block
<1>1. Graph!Closed(objects) /\ objects \subseteq Block
  BY DEF Graph!Closed, IInv, Objects, TypeOK
<1> QED BY <1>1 DEF Graph!Reachable

\* Variables refer to objects that the program reaches, and so do these.
LEMMA ReachableClosed ==
    ASSUME IInv
    PROVE  Graph!Closed(Graph!Reachable)
<1>1. Graph!Closed(objects) /\ objects \subseteq Block
  BY DEF Graph!Closed, IInv, Objects, TypeOK
<1>2. ASSUME NEW s \in Slot PROVE slot[s] \in Graph!Reachable \cup {Null}
  BY <1>1 DEF Graph!Closed, Graph!Reachable
<1>3. ASSUME NEW a \in Graph!Reachable PROVE field[a] \in Graph!Reachable \cup {Null}
  BY <1>1 DEF Graph!Closed, Graph!Reachable
<1> QED BY <1>2, <1>3 DEF Graph!Closed

\* Objects are taken from and put in a stack.
LEMMA StackSets ==
    /\ <<>> \in Seq(Block) /\ ToSet(<<>>) = {}
    /\ \A list \in Seq(Block) :
          list # <<>> => /\ Head(list) \in Block /\ Tail(list) \in Seq(Block)
                         /\ ToSet(list) = {Head(list)} \cup ToSet(Tail(list))
    /\ \A list \in Seq(Block), b \in Block :
          <<b>> \o list \in Seq(Block) /\ ToSet(<<b>> \o list) = {b} \cup ToSet(list)
    /\ \A list \in Seq(Block), b \in Block : Contains(list, b) <=> b \in ToSet(list)
<1>1. \A list \in Seq(Block), b \in Block : Contains(list, b) <=> b \in ToSet(list)
  <2> TAKE list \in Seq(Block), b \in Block
  <2>1. DOMAIN list = 1 .. Len(list)
    OBVIOUS
  <2> QED BY <2>1 DEF Contains, ToSet
<1>2. \A list \in Seq(Block), b \in Block :
         <<b>> \o list \in Seq(Block) /\ ToSet(<<b>> \o list) = {b} \cup ToSet(list)
  BY PushElements
<1>3. \A list \in Seq(Block) :
          list # <<>> => /\ Head(list) \in Block /\ Tail(list) \in Seq(Block)
                         /\ ToSet(list) = {Head(list)} \cup ToSet(Tail(list))
  BY TailElements
<1> QED BY <1>1, <1>2, <1>3, EmptyList

-----------------------------------------------------------------------------
\* A local variable is assigned, and nothing else changes.
LEMMA CompiledStep ==
    ASSUME IInv, compiled_code, UNCHANGED bitmapVars
    PROVE  Good
<1>1. /\ mode = "run" /\ mode' = mode /\ barriered' = barriered /\ field' = field
      /\ request' = request /\ Roots' = Roots
      /\ objects' = objects /\ mark' = mark /\ stack' = stack /\ seglist' = seglist
      /\ unreserved' = unreserved /\ minor_space' = minor_space /\ freelist' = freelist
      /\ committed' = committed /\ num_committed' = num_committed /\ ptr' = ptr
      /\ gc_mode' = gc_mode /\ unmarked' = unmarked
  BY DEF compiled_code, bitmapVars, Roots
<1>2. /\ slot \in [Slot -> objects \cup {Null}] /\ objects \subseteq Block
      /\ \A b \in objects : field[b] \in objects \cup {Null}
  BY DEF IInv, TypeOK, Objects
<1>3. PICK s \in Var, p \in objects \cup {Null} :
         /\ slot' = [slot EXCEPT ![s] = p]
         /\ \/ p = Null
            \/ \E t \in Slot : slot[t] # Null /\ (p = slot[t] \/ p = field[slot[t]])
  <2>1. PICK s, t \in Var : drop(s) \/ read(s, t) \/ \E g \in Global : copy(s, g)
    BY DEF compiled_code
  <2>2. CASE drop(s)
    BY <2>2 DEF drop
  <2>3. CASE read(s, t)
    <3>1. slot[t] \in objects /\ t \in Slot /\ slot[t] # Null
      BY <2>3, <1>2 DEF read, Slot
    <3>2. field[slot[t]] \in objects \cup {Null}
      BY <3>1, <1>2
    <3> QED BY <3>1, <3>2, <2>3 DEF read
  <2>4. ASSUME NEW g \in Global, copy(s, g)
        PROVE  \E p \in objects \cup {Null} :
                   /\ slot' = [slot EXCEPT ![s] = p]
                   /\ \E t0 \in Slot : slot[t0] # Null /\ (p = slot[t0] \/ p = field[slot[t0]])
    <3>1. slot[g] \in objects \cup {Null} /\ g \in Slot
      BY <1>2 DEF Slot
    <3> QED BY <3>1, <2>4 DEF copy
  <2> QED BY <2>1, <2>2, <2>3, <2>4
<1>4. /\ slot' \in [Slot -> objects \cup {Null}] /\ s \in Slot /\ s \notin Global
      /\ \A r \in Slot : r # s => slot'[r] = slot[r]
  BY <1>2, <1>3, SlotAssumption DEF Slot
<1>5. \A g \in Global : slot'[g] = slot[g]
  BY <1>4 DEF Slot
<1>6. IInv'
  <2>1. TypeOK'
    <3>1. slot' \in [Slot -> Block \cup {Null}]
      BY <1>2, <1>4
    <3> QED BY <3>1, <1>1 DEF IInv, TypeOK
  <2>2. Lists'
    BY <1>1 DEF IInv, Lists
  <2>3. Objects'
    BY <1>1, <1>4, <1>5 DEF IInv, Objects
  <2>4. Marked'
    BY <1>1, <1>5 DEF IInv, TypeOK, Marked
  <2>5. Young' /\ Room' /\ Stages' /\ OverMeansMarked'
    BY <1>1 DEF IInv, Young, Room, Stages, OverMeansMarked, Reserved, Unreserved
  <2> QED BY <2>1, <2>2, <2>3, <2>4, <2>5 DEF IInv
<1>7. Graph!Assign(s, p)
  BY <1>1, <1>3 DEF Graph!Assign, Graph!ObjectsKept
<1>8. Graph!Next
  <2>1. CASE p = Null
    BY <1>4, <1>7, <2>1 DEF Graph!Next, Graph!Drop
  <2>2. CASE p # Null
    <3>1. PICK t \in Slot : slot[t] # Null /\ (p = slot[t] \/ p = field[slot[t]])
      BY <1>3, <2>2
    <3> QED BY <3>1, <1>4, <1>7 DEF Graph!Next, Graph!Copy, Graph!Read
  <2> QED BY <2>1, <2>2
<1> QED BY <1>6, <1>8 DEF Good

\* sml_write: a global has its object marked, and an object that is old is put in
\* the stack.
LEMMA WriteStep ==
    ASSUME IInv, NEW s \in Slot, NEW t \in Var, bitmap_write(s, t)
    PROVE  Good
<1> DEFINE p == slot[t]
           a == slot[s]
<1>1. /\ mode = "run" /\ mode' = mode /\ request' = request /\ objects' = objects
      /\ seglist' = seglist /\ unreserved' = unreserved /\ minor_space' = minor_space
      /\ freelist' = freelist /\ committed' = committed /\ num_committed' = num_committed
      /\ ptr' = ptr /\ gc_mode' = gc_mode /\ unmarked' = unmarked /\ t \in Slot
  BY DEF bitmap_write, Slot
<1>2. /\ slot \in [Slot -> objects \cup {Null}] /\ objects \subseteq Block
      /\ field \in [Block -> Block \cup {Null}] /\ barriered \subseteq Global
      /\ \A b \in objects : field[b] \in objects \cup {Null}
      /\ Graph!Reachable \subseteq objects
      /\ unmarked = {} /\ unmarked' = {} /\ stack \in Seq(Block) /\ mark \subseteq objects
  BY <1>1, ReachableObjects DEF IInv, TypeOK, Objects, Stages
<1>3. /\ ToSet(stack) \subseteq mark
      /\ \A b \in mark : field[b] \in mark \cup {Null} \/ b \in ToSet(stack)
      /\ \A g \in barriered : slot[g] \in mark \cup {Null}
  BY <1>2 DEF IInv, Marked
<1>4. Lists' /\ Stages' /\ OverMeansMarked' /\ Reserved' = Reserved /\ Unreserved' = Unreserved
  BY <1>1 DEF IInv, Lists, Stages, OverMeansMarked, Reserved, Unreserved
<1>5. CASE s \in Global
  <2>1. /\ slot' = [slot EXCEPT ![s] = p] /\ barriered' = barriered \cup {s} /\ field' = field
        /\ \/ p # Null /\ p \notin mark /\ mark' = mark \cup {p} /\ stack' = <<p>> \o stack
           \/ (p = Null \/ p \in mark) /\ mark' = mark /\ stack' = stack
    BY <1>5 DEF bitmap_write
  <2>2. p \in objects \cup {Null}
    BY <1>1, <1>2
  <2>3. /\ mark \subseteq mark' /\ mark' \subseteq objects /\ stack' \in Seq(Block)
        /\ ToSet(stack) \subseteq ToSet(stack') /\ ToSet(stack') \subseteq mark'
        /\ p \in mark' \cup {Null}
        /\ \A b \in mark' : b \in mark \/ (b = p /\ b \in ToSet(stack'))
    <3>1. CASE p # Null /\ p \notin mark /\ mark' = mark \cup {p} /\ stack' = <<p>> \o stack
      <4>1. p \in objects /\ p \in Block
        BY <3>1, <2>2, <1>2
      <4>2. stack' \in Seq(Block) /\ ToSet(stack') = {p} \cup ToSet(stack)
        BY <3>1, <4>1, <1>2, StackSets
      <4> HIDE DEF p
      <4> QED BY <3>1, <4>1, <4>2, <1>2, <1>3
    <3>2. CASE (p = Null \/ p \in mark) /\ mark' = mark /\ stack' = stack
      <4> HIDE DEF p
      <4> QED BY <3>2, <1>2, <1>3
    <3> QED BY <2>1, <3>1, <3>2
  <2>4. /\ slot' \in [Slot -> objects \cup {Null}] /\ slot'[s] = p
        /\ \A r \in Slot : r # s => slot'[r] = slot[r]
    BY <1>2, <2>1, <2>2
  <2> HIDE DEF p
  <2>5. TypeOK'
    <3>1. slot' \in [Slot -> Block \cup {Null}]
      BY <1>2, <2>4
    <3>2. barriered' \subseteq Global
      BY <1>2, <1>5, <2>1
    <3> QED BY <3>1, <3>2, <1>1, <1>2, <2>1, <2>3 DEF IInv, TypeOK
  <2>6. Objects'
    BY <1>1, <1>2, <2>1, <2>4 DEF IInv, Objects, Slot
  <2>7. Marked'
    <3>1. \A b \in mark' : field'[b] \in mark' \cup {Null} \/ b \in ToSet(stack')
      BY <2>1, <2>3, <1>3
    <3>2. \A g \in barriered' : slot'[g] \in mark' \cup {Null}
      BY <2>1, <2>3, <2>4, <1>2, <1>3 DEF Slot
    <3> QED BY <3>1, <3>2, <2>3, <1>1 DEF Marked
  <2>8. Young'
    BY <1>1, <1>4, <2>3 DEF IInv, Young
  <2>9. Room'
    <3>1. p \in mark' /\ p \notin mark => p[1] \notin Unreserved
      <4> SUFFICES ASSUME p \in objects \ mark PROVE p[1] \notin Unreserved
        BY <2>3, <1>2
      <4>1. p[1] \in Reserved
        BY <1>1 DEF IInv, Young
      <4>2. Reserved \cap Unreserved = {}
        BY Halves DEF IInv, Lists, TypeOK
      <4> QED BY <4>1, <4>2
    <3>2. ASSUME NEW g \in Unreserved
          PROVE  \E j \in 1 .. NumBlocks : <<g, j>> \notin mark'
      <4>1. PICK j \in 1 .. NumBlocks : <<g, j>> \notin mark
        BY <3>2, <1>1 DEF IInv, Room
      <4>2. <<g, j>>[1] = g
        OBVIOUS
      <4>3. <<g, j>> \notin mark'
        BY <4>1, <4>2, <3>1, <3>2, <2>3
      <4> QED BY <4>3
    <3> QED BY <3>2, <1>1, <1>4 DEF Room
  <2>10. Graph!Copy(s, t)
    BY <2>1 DEF Graph!Copy, Graph!Assign, Graph!ObjectsKept, p
  <2> QED BY <1>1, <1>4, <2>5, <2>6, <2>7, <2>8, <2>9, <2>10 DEF Good, IInv, Graph!Next
<1>6. CASE s \notin Global
  <2>1. /\ a # Null /\ field' = [field EXCEPT ![a] = p]
        /\ stack' = (IF ObjectBarrier(a) THEN <<a>> \o stack ELSE stack)
        /\ slot' = slot /\ barriered' = barriered /\ mark' = mark
    BY <1>6 DEF bitmap_write
  <2>2. a \in objects /\ a \in Block /\ p \in objects \cup {Null}
    BY <1>1, <1>2, <2>1
  <2>3. /\ field' \in [Block -> Block \cup {Null}]
        /\ \A b \in Block : field'[b] = IF b = a THEN p ELSE field[b]
    BY <1>2, <2>1, <2>2
  <2>4. /\ stack' \in Seq(Block) /\ ToSet(stack) \subseteq ToSet(stack')
        /\ ToSet(stack') \subseteq mark /\ (a \in mark => a \in ToSet(stack'))
    <3> HIDE DEF a
    <3>1. CASE ObjectBarrier(a)
      <4>1. stack' \in Seq(Block) /\ ToSet(stack') = {a} \cup ToSet(stack)
        BY <3>1, <2>1, <2>2, <1>2, StackSets
      <4> QED BY <4>1, <3>1, <1>3 DEF ObjectBarrier
    <3>2. CASE ~ObjectBarrier(a)
      <4>1. stack' = stack /\ (a \in mark => a \in ToSet(stack))
        BY <3>2, <2>1, <2>2, <1>2, StackSets DEF ObjectBarrier
      <4> QED BY <4>1, <1>2, <1>3
    <3> QED BY <3>1, <3>2
  <2>5. Graph!Write(s, t)
    BY <1>2, <2>1, <2>3 DEF Graph!Write
  <2> HIDE DEF a, p
  <2>6. TypeOK'
    BY <1>1, <1>2, <2>1, <2>3, <2>4 DEF IInv, TypeOK
  <2>7. Objects'
    <3>1. \A b \in objects : field'[b] \in objects \cup {Null}
      BY <1>2, <2>2, <2>3
    <3> QED BY <3>1, <1>1, <2>1 DEF IInv, Objects
  <2>8. Marked'
    <3>1. \A b \in mark : field'[b] \in mark \cup {Null} \/ b \in ToSet(stack')
      BY <1>2, <1>3, <2>3, <2>4
    <3> QED BY <3>1, <1>1, <1>2, <1>3, <2>1, <2>4 DEF Marked
  <2>9. Young' /\ Room'
    BY <1>1, <1>4, <2>1 DEF IInv, Young, Room
  <2> QED BY <1>1, <1>4, <2>5, <2>6, <2>7, <2>8, <2>9 DEF Good, IInv, Graph!Next
<1> QED BY <1>5, <1>6

-----------------------------------------------------------------------------
\* The object of an allocation is at a block that has none, in a segment that is
\* reserved, behind the young objects of the segment.
LEMMA AllocKeeps ==
    ASSUME IInv, mode \in {"run", "retry"}, NEW r \in Var \X Var,
           NEW g \in Segment, NEW j \in 1 .. NumBlocks, Allocated(g, j, r),
           <<g, j>> \notin objects, \A b \in objects \ mark : b[1] = g => b[2] < j,
           Lists', g \in ToSet(seglist'), ToSet(seglist) \subseteq ToSet(seglist'),
           unreserved' \in 0 .. Len(seglist'), unreserved <= unreserved',
           num_committed' \in Int,
           g \in Reserved', Reserved \subseteq Reserved', Unreserved' \subseteq Unreserved
    PROVE  Good
<1> DEFINE n == <<g, j>>
           s == r[1]
           t == r[2]
<1>1. /\ field' = [field EXCEPT ![n] = slot[t]] /\ slot' = [slot EXCEPT ![s] = n]
      /\ request' = <<>> /\ mode' = "run" /\ objects' = objects \cup {n}
      /\ ptr' = <<g, j + 1>> /\ barriered' = barriered /\ mark' = mark /\ stack' = stack
      /\ minor_space' = minor_space /\ gc_mode' = gc_mode /\ unmarked' = unmarked
      /\ Roots' = Roots
  BY DEF Allocated, Initialise, Roots
<1>2. n \in Block /\ n \notin objects /\ n[1] = g /\ n[2] = j
  BY DEF Block, Segment
<1>3. /\ slot \in [Slot -> objects \cup {Null}] /\ objects \subseteq Block
      /\ field \in [Block -> Block \cup {Null}] /\ barriered \subseteq Global
      /\ \A b \in objects : field[b] \in objects \cup {Null} /\ b[1] \in ToSet(seglist)
      /\ \A x \in Global \ barriered : slot[x] = Null
      /\ Graph!Reachable \subseteq objects /\ mark \subseteq objects
      /\ s \in Slot /\ t \in Slot /\ s \notin Global
  BY ReachableObjects, SlotAssumption DEF IInv, TypeOK, Objects, Slot
<1>4. slot[t] \in objects \cup {Null}
  BY <1>3
<1> HIDE DEF n, s, t
<1>5. /\ slot' \in [Slot -> objects' \cup {Null}] /\ slot'[s] = n
      /\ \A x \in Slot : x # s => slot'[x] = slot[x]
      /\ field' \in [Block -> Block \cup {Null}]
      /\ field'[n] = slot[t] /\ \A a \in Block : a # n => field'[a] = field[a]
  BY <1>1, <1>2, <1>3, <1>4
<1>6. TypeOK'
  <2>1. objects' \subseteq Block /\ mark' \subseteq objects'
    BY <1>1, <1>2, <1>3
  <2>2. slot' \in [Slot -> Block \cup {Null}]
    BY <2>1, <1>5
  <2>3. ptr' \in (Segment \X (Nat \ {0})) \cup {<<>>}
    <3>1. j + 1 \in Nat \ {0}
      BY SegmentAssumption
    <3> QED BY <3>1, <1>1
  <2>4. minor_space' \in 0 .. unreserved'
    <3>1. minor_space \in Nat /\ minor_space <= unreserved /\ unreserved \in Nat
          /\ unreserved' \in Nat
      <4>1. Len(seglist) \in Nat /\ Len(seglist') \in Nat
        BY DEF IInv, Lists
      <4> QED BY <4>1 DEF IInv, TypeOK
    <3> QED BY <3>1, <1>1
  <2> QED BY <2>1, <2>2, <2>3, <2>4, <1>1, <1>5 DEF IInv, TypeOK
<1>7. Objects'
  <2>1. \A a \in objects' : field'[a] \in objects' \cup {Null}
    BY <1>1, <1>2, <1>3, <1>4, <1>5
  <2>2. \A b \in objects' : b[1] \in ToSet(seglist')
    BY <1>1, <1>2, <1>3
  <2>3. \A x \in Global \ barriered' : slot'[x] = Null
    BY <1>1, <1>3, <1>5 DEF Slot
  <2> QED BY <2>1, <2>2, <2>3, <1>5 DEF Objects
<1>8. Marked'
  <2>1. /\ ToSet(stack) \subseteq mark
        /\ \A b \in mark : field[b] \in mark \cup {Null} \/ b \in ToSet(stack)
        /\ \A x \in barriered \ unmarked : slot[x] \in mark \cup {Null}
    BY DEF IInv, Marked
  <2>2. \A b \in mark' : field'[b] \in mark' \cup {Null} \/ b \in ToSet(stack')
    BY <2>1, <1>1, <1>2, <1>3, <1>5
  <2>3. \A x \in barriered' \ unmarked' : slot'[x] \in mark' \cup {Null}
    BY <2>1, <1>1, <1>3, <1>5 DEF Slot
  <2> QED BY <2>1, <2>2, <2>3, <1>1 DEF Marked
<1>9. Young'
  <2>1. \A b \in objects \ mark : b[1] \in Reserved
    BY DEF IInv, Young
  <2>2. ptr'[1] = g /\ ptr'[2] = j + 1 /\ ptr' # <<>>
    BY <1>1
  <2>3. ASSUME NEW b \in objects' \ mark', b[1] = g PROVE b[2] < j + 1
    <3>1. CASE b = n
      BY <3>1, <1>2, SegmentAssumption
    <3>2. CASE b # n
      <4>1. b \in objects \ mark /\ b \in Block
        BY <3>2, <2>3, <1>1, <1>3
      <4>2. b[2] < j /\ b[2] \in Nat /\ j \in Nat
        BY <4>1, <2>3, SegmentAssumption DEF Block
      <4> QED BY <4>2
    <3> QED BY <3>1, <3>2
  <2>4. \A b \in objects' \ mark' : b[1] \in Reserved'
    BY <2>1, <1>1, <1>2
  <2> QED BY <2>2, <2>3, <2>4 DEF Young
<1>10. Room'
  BY <1>1 DEF IInv, Room
<1>11. Stages' /\ OverMeansMarked'
  BY <1>1 DEF IInv, Stages, OverMeansMarked
<1>12. Graph!New(s, t)
  <2>1. n \in Block \ Graph!Reachable
    BY <1>2, <1>3
  <2>2. Graph!ObjectsKept
    BY <1>2, <1>3, <1>5 DEF Graph!ObjectsKept
  <2> QED BY <2>1, <2>2, <1>1, <1>5 DEF Graph!New
<1> QED BY <1>3, <1>6, <1>7, <1>8, <1>9, <1>10, <1>11, <1>12 DEF Good, IInv, Graph!Next

\* The search of a segment finds a block that is not marked.
LEMMA FirstFree ==
    ASSUME NEW g, NEW i \in Nat \ {0}, FreeFrom(g, i) # {}
    PROVE  /\ Min(FreeFrom(g, i)) \in 1 .. NumBlocks /\ i <= Min(FreeFrom(g, i))
           /\ <<g, Min(FreeFrom(g, i))>> \notin mark
<1>1. FreeFrom(g, i) \subseteq i .. NumBlocks /\ FreeFrom(g, i) \subseteq Nat
  BY SegmentAssumption DEF FreeFrom
<1>2. Min(FreeFrom(g, i)) \in FreeFrom(g, i)
  BY <1>1, MinOf
<1> QED BY <1>1, <1>2, SegmentAssumption DEF FreeFrom

\* HEAP_FAST_ALLOC and the rest of the segment of alloc_ptr.
LEMMA AllocHere ==
    ASSUME IInv, mode = "run", NEW r \in Var \X Var, ptr # <<>>, FreeFrom(ptr[1], ptr[2]) # {},
           Allocated(ptr[1], Min(FreeFrom(ptr[1], ptr[2])), r),
           UNCHANGED <<seglist, unreserved, freelist, committed, num_committed>>
    PROVE  Good
<1> DEFINE g == ptr[1]
           i == ptr[2]
           j == Min(FreeFrom(g, i))
<1>1. g \in Segment /\ i \in Nat \ {0}
  BY DEF IInv, TypeOK
<1>2. j \in 1 .. NumBlocks /\ i <= j /\ <<g, j>> \notin mark
  BY <1>1, FirstFree
<1>3. Allocated(g, j, r)
  OBVIOUS
<1>4. g \in Reserved /\ \A b \in objects \ mark : b[1] = g => b[2] < i
  BY DEF IInv, Young
<1> HIDE DEF g, i, j
<1>5. \A b \in objects \ mark : b[1] = g => b[2] < j
  <2> TAKE b \in objects \ mark
  <2> HAVE b[1] = g
  <2>1. b \in Block /\ b[2] < i
    BY <1>4 DEF IInv, TypeOK
  <2>2. b[2] \in Nat /\ j \in Nat
    BY <2>1, <1>2, SegmentAssumption DEF Block
  <2> QED BY <2>1, <2>2, <1>1, <1>2
<1>6. <<g, j>> \notin objects
  <2> SUFFICES ASSUME <<g, j>> \in objects PROVE FALSE
    OBVIOUS
  <2>1. <<g, j>> \in objects \ mark /\ <<g, j>>[1] = g /\ <<g, j>>[2] = j
    BY <1>2
  <2>2. j < j
    BY <2>1, <1>5
  <2> QED BY <2>2, <1>2
<1>7. /\ Lists' /\ Reserved' = Reserved /\ Unreserved' = Unreserved
      /\ seglist' = seglist /\ unreserved' = unreserved /\ num_committed' = num_committed
  BY DEF IInv, Lists, Reserved, Unreserved
<1>8. /\ unreserved \in 0 .. Len(seglist) /\ num_committed \in Int /\ unreserved <= unreserved
      /\ Reserved \subseteq ToSet(seglist)
  <2>1. unreserved \in 0 .. Len(seglist) /\ num_committed \in Int /\ seglist \in Seq(Segment)
    BY DEF IInv, TypeOK, Lists
  <2> QED BY <2>1, Halves
<1> QED BY <1>1, <1>2, <1>3, <1>4, <1>5, <1>6, <1>7, <1>8, AllocKeeps

\* find_segment: the next segment, or one of the free list.
LEMMA FindStep ==
    ASSUME IInv, mode \in {"run", "retry"}, NEW r \in Var \X Var,
           NEW free \in Seq(Segment), IsInjective(free),
           ToSet(free) \cap ToSet(seglist) = {}, committed' = ToSet(seglist) \cup ToSet(free),
           num_committed' \in Int, find_segment(free, r)
    PROVE  Good
<1>1. /\ seglist \in Seq(Segment) /\ IsInjective(seglist) /\ unreserved \in 0 .. Len(seglist)
      /\ objects \subseteq Block /\ mark \subseteq objects
      /\ \A b \in objects : b[1] \in ToSet(seglist)
      /\ \A b \in objects \ mark : b[1] \in Reserved
  BY DEF IInv, Lists, TypeOK, Objects, Young
<1>2. /\ ToSet(seglist) = Reserved \cup Unreserved /\ Reserved \cap Unreserved = {}
      /\ Len(seglist) \in Nat /\ unreserved \in Nat
  BY <1>1, Halves
<1>3. CASE unreserved < Len(seglist)
  <2> DEFINE g == seglist[unreserved + 1]
             j == Min(FreeFrom(g, 1))
  <2>1. /\ FreeFrom(g, 1) # {} /\ Allocated(g, j, r) /\ unreserved' = unreserved + 1
        /\ freelist' = free /\ seglist' = seglist
    BY <1>2, <1>3 DEF find_segment
  <2>2. unreserved + 1 \in 1 .. Len(seglist)
    BY <1>2, <1>3
  <2>3. g \in Segment /\ g \in Unreserved
    <3>1. g \in Segment
      BY <2>2, <1>1
    <3>2. unreserved + 1 \in unreserved + 1 .. Len(seglist)
      BY <2>2, <1>2
    <3> QED BY <3>1, <3>2 DEF Unreserved
  <2>4. j \in 1 .. NumBlocks /\ <<g, j>> \notin mark
    BY <2>1, FirstFree
  <2>5. g \in Reserved' /\ Reserved \subseteq Reserved' /\ Unreserved' \subseteq Unreserved
    <3>1. Reserved' = {seglist[i] : i \in 1 .. unreserved + 1}
      BY <2>1 DEF Reserved
    <3>2. Unreserved' = {seglist[i] : i \in unreserved + 1 + 1 .. Len(seglist)}
      BY <2>1 DEF Unreserved
    <3>3. \A i \in 1 .. unreserved : i \in 1 .. unreserved + 1
      BY <1>2
    <3>4. unreserved + 1 \in 1 .. unreserved + 1
      BY <1>2
    <3>5. \A i \in unreserved + 1 + 1 .. Len(seglist) : i \in unreserved + 1 .. Len(seglist)
      BY <1>2
    <3>6. g \in Reserved'
      BY <3>1, <3>4
    <3>7. Reserved \subseteq Reserved'
      BY <3>1, <3>3 DEF Reserved
    <3>8. Unreserved' \subseteq Unreserved
      BY <3>2, <3>5 DEF Unreserved
    <3> QED BY <3>6, <3>7, <3>8
  <2> HIDE DEF g, j
  <2>6. /\ Lists' /\ g \in ToSet(seglist') /\ ToSet(seglist) \subseteq ToSet(seglist')
        /\ unreserved' \in 0 .. Len(seglist') /\ unreserved <= unreserved'
    <3>1. Lists'
      BY <2>1, <1>1 DEF Lists
    <3> QED BY <3>1, <2>1, <2>2, <2>3, <1>2
  <2>7. \A b \in objects \ mark : b[1] # g
    BY <1>1, <1>2, <2>3
  <2>8. <<g, j>> \notin objects
    <3>1. <<g, j>>[1] = g
      OBVIOUS
    <3> QED BY <3>1, <2>4, <2>7
  <2> QED BY <2>1, <2>3, <2>4, <2>5, <2>6, <2>7, <2>8, AllocKeeps
<1>4. CASE unreserved = Len(seglist) /\ free # <<>>
  <2> DEFINE g == Head(free)
  <2>1. /\ Allocated(g, 1, r) /\ seglist' = Append(seglist, g)
        /\ unreserved' = unreserved + 1 /\ freelist' = Tail(free)
    BY <1>2, <1>4 DEF find_segment, init_segment
  <2>2. /\ g \in Segment /\ Tail(free) \in Seq(Segment)
        /\ ToSet(free) = {g} \cup ToSet(Tail(free))
        /\ IsInjective(Tail(free)) /\ g \notin ToSet(Tail(free))
    BY <1>4, TailElements
  <2> HIDE DEF g
  <2>3. g \notin ToSet(seglist)
    BY <2>2
  <2>4. /\ seglist' \in Seq(Segment) /\ ToSet(seglist') = ToSet(seglist) \cup {g}
        /\ IsInjective(seglist')
    BY <1>1, <2>1, <2>2, <2>3, AppendElements
  <2>5. /\ Len(seglist') = Len(seglist) + 1 /\ seglist'[Len(seglist) + 1] = g
        /\ \A i \in 1 .. Len(seglist) : seglist'[i] = seglist[i]
    BY <1>1, <2>1, <2>2, AppendProperties
  <2>6. Lists'
    BY <2>1, <2>2, <2>4 DEF Lists
  <2>7. g \in Reserved' /\ Reserved \subseteq Reserved' /\ Unreserved' \subseteq Unreserved
    <3> DEFINE n == Len(seglist)
    <3>1. n \in Nat /\ unreserved = n
      BY <1>2, <1>4
    <3>2. Reserved' = {seglist'[i] : i \in 1 .. n + 1}
      BY <2>1, <1>4 DEF Reserved
    <3>3. Unreserved' = {seglist'[i] : i \in n + 1 + 1 .. n + 1}
      BY <2>1, <2>5, <1>4 DEF Unreserved
    <3>4. seglist'[n + 1] = g /\ \A i \in 1 .. n : seglist'[i] = seglist[i]
      BY <2>5
    <3> HIDE DEF n
    <3>5. n + 1 \in 1 .. n + 1 /\ n + 1 + 1 .. n + 1 = {} /\ \A i \in 1 .. n : i \in 1 .. n + 1
      BY <3>1
    <3>6. g \in Reserved'
      BY <3>2, <3>4, <3>5
    <3>7. Reserved \subseteq Reserved'
      BY <3>1, <3>2, <3>4, <3>5 DEF Reserved
    <3>8. Unreserved' = {}
      BY <3>3, <3>5
    <3> QED BY <3>6, <3>7, <3>8
  <2>8. \A b \in objects : b[1] # g
    BY <1>1, <2>3
  <2>9. <<g, 1>> \notin objects /\ 1 \in 1 .. NumBlocks
    <3>1. <<g, 1>>[1] = g
      OBVIOUS
    <3> QED BY <3>1, <2>8, SegmentAssumption
  <2>10. /\ g \in ToSet(seglist') /\ ToSet(seglist) \subseteq ToSet(seglist')
         /\ unreserved' \in 0 .. Len(seglist') /\ unreserved <= unreserved'
    BY <2>1, <2>4, <2>5, <1>2, <1>4
  <2> QED BY <2>1, <2>2, <2>6, <2>7, <2>8, <2>9, <2>10, AllocKeeps
<1> QED BY <1>3, <1>4 DEF find_segment

\* extend_heap commits segments that are not, and none only if there are none.
LEMMA ExtendHeap ==
    /\ NewSegments \in Seq(Segment) /\ IsInjective(NewSegments)
    /\ ToSet(NewSegments) \cap committed = {} /\ Len(NewSegments) \in Nat
    /\ NewSegments = <<>> => Segment \subseteq committed
<1> DEFINE all == [i \in 1 .. MaxSegments |-> i]
           idle == Those(all, (1 .. MaxSegments) \ committed)
           n == Min({MinSegments, Len(idle)})
<1>1. NewSegments = SubSeq(idle, 1, n)
  BY DEF NewSegments
<1>2. all \in Seq(Segment) /\ IsInjective(all) /\ ToSet(all) = Segment
  BY SegmentAssumption DEF ToSet, IsInjective, Segment
<1> HIDE DEF all
<1>3. /\ idle \in Seq(Segment) /\ ToSet(idle) = Segment \ committed /\ IsInjective(idle)
  <2>1. /\ idle \in Seq(Segment) /\ IsInjective(idle)
        /\ ToSet(idle) = Segment \cap ((1 .. MaxSegments) \ committed)
    BY <1>2, ThoseElements
  <2> QED BY <2>1 DEF Segment
<1> HIDE DEF idle
<1>4. Len(idle) \in Nat
  BY <1>3
<1>5. n \in {MinSegments, Len(idle)} /\ n <= Len(idle)
  <2>1. {MinSegments, Len(idle)} \subseteq Nat /\ {MinSegments, Len(idle)} # {}
    BY <1>4, SegmentAssumption
  <2> QED BY <2>1, MinOf
<1> HIDE DEF n
<1>6. n \in 0 .. Len(idle)
  BY <1>4, <1>5, SegmentAssumption
<1>7. /\ SubSeq(idle, 1, n) \in Seq(Segment) /\ Len(SubSeq(idle, 1, n)) = n
      /\ ToSet(idle) = ToSet(SubSeq(idle, 1, n)) \cup ToSet(SubSeq(idle, n + 1, Len(idle)))
      /\ IsInjective(SubSeq(idle, 1, n))
  BY <1>3, <1>6, PartElements
<1>8. ASSUME NewSegments = <<>> PROVE Segment \subseteq committed
  <2>1. n = 0
    BY <1>1, <1>7, <1>8, EmptyList
  <2>2. Len(idle) = 0
    BY <2>1, <1>5, SegmentAssumption
  <2>3. ToSet(idle) = {}
    BY <2>2, <1>3, EmptyList
  <2> QED BY <2>3, <1>3
<1> QED BY <1>1, <1>3, <1>6, <1>7, <1>8

\* A collection starts.
LEMMA CollectStep ==
    ASSUME IInv, mode \in {"run", "retry"}, NEW m \in {"MINOR", "MAJOR"},
           NEW r \in (Var \X Var) \cup {<<>>}, DoGC(m, r)
    PROVE  Good
<1>1. /\ request' = r /\ mode' = "trace" /\ gc_mode' = m
      /\ unmarked' = IF m = "MINOR" THEN Var ELSE Roots
      /\ \/ m = "MINOR" /\ mark' = mark /\ stack' = stack
         \/ m = "MAJOR" /\ mark' = {} /\ stack' = <<>>
      /\ slot' = slot /\ field' = field /\ barriered' = barriered /\ objects' = objects
      /\ seglist' = seglist /\ unreserved' = unreserved /\ minor_space' = minor_space
      /\ freelist' = freelist /\ committed' = committed /\ num_committed' = num_committed
      /\ ptr' = ptr /\ Roots' = Roots
  BY DEF DoGC, flush_stack, clear_all_bitmaps, Roots
<1>2. mark' \subseteq objects /\ stack' \in Seq(Block) /\ ToSet(stack') \subseteq mark'
  BY <1>1, StackSets DEF IInv, TypeOK, Marked
<1>3. TypeOK'
  BY <1>1, <1>2 DEF IInv, TypeOK, Roots
<1>4. Lists' /\ Objects'
  BY <1>1 DEF IInv, Lists, Objects
<1>5. Marked'
  <2>1. CASE m = "MINOR"
    BY <2>1, <1>1, <1>2 DEF IInv, Marked, Stages
  <2>2. CASE m = "MAJOR"
    BY <2>2, <1>1, <1>2 DEF IInv, Marked, Roots
  <2> QED BY <2>1, <2>2
<1>6. Young' /\ Room' /\ Stages' /\ OverMeansMarked'
  BY <1>1 DEF IInv, Young, Room, Stages, OverMeansMarked
<1> QED BY <1>1, <1>3, <1>4, <1>5, <1>6 DEF Good, IInv

\* sml_alloc.
LEMMA AllocStep ==
    ASSUME IInv, NEW s \in Var, NEW t \in Var, bitmap_alloc(s, t)
    PROVE  Good
<1> DEFINE i == IF ptr = <<>> THEN {} ELSE FreeFrom(ptr[1], ptr[2])
           r == <<s, t>>
<1>1. /\ mode = "run" /\ r \in Var \X Var
      /\ \/ /\ i # {} /\ Allocated(ptr[1], Min(i), r)
            /\ UNCHANGED <<seglist, unreserved, freelist, committed, num_committed>>
         \/ find_segment(freelist, r) /\ UNCHANGED <<committed, num_committed>>
         \/ DoGC("MINOR", r)
  BY DEF bitmap_alloc
<1> HIDE DEF r
<1>2. CASE /\ i # {} /\ Allocated(ptr[1], Min(i), r)
           /\ UNCHANGED <<seglist, unreserved, freelist, committed, num_committed>>
  <2>1. ptr # <<>> /\ i = FreeFrom(ptr[1], ptr[2])
    BY <1>2
  <2> HIDE DEF i
  <2> QED BY <2>1, <1>1, <1>2, AllocHere
<1>3. CASE find_segment(freelist, r) /\ UNCHANGED <<committed, num_committed>>
  BY <1>1, <1>3, FindStep DEF IInv, Lists, TypeOK
<1>4. CASE DoGC("MINOR", r)
  BY <1>1, <1>4, CollectStep
<1> QED BY <1>1, <1>2, <1>3, <1>4

\* sml_alloc goes on after a collection.
LEMMA RetryStep ==
    ASSUME IInv, bitmap_retry
    PROVE  Good
<1>1. mode = "retry" /\ request \in Var \X Var /\ ptr = <<>>
  BY DEF bitmap_retry, IInv, TypeOK, Stages
<1>2. CASE find_segment(freelist, request) /\ UNCHANGED <<committed, num_committed>>
  BY <1>1, <1>2, FindStep DEF IInv, Lists, TypeOK
<1>3. CASE DoGC("MAJOR", request)
  BY <1>1, <1>3, CollectStep
<1>4. CASE /\ NoSegment(freelist) /\ find_segment(NewSegments, request)
           /\ committed' = committed \cup ToSet(NewSegments)
           /\ num_committed' = num_committed + Len(NewSegments)
  <2>1. freelist = <<>> /\ committed = ToSet(seglist) \cup ToSet(freelist)
    BY <1>4 DEF NoSegment, IInv, Lists
  <2>2. committed = ToSet(seglist)
    BY <2>1, EmptyList
  <2>3. num_committed' \in Int
    BY <1>4, ExtendHeap DEF IInv, TypeOK
  <2>4. /\ NewSegments \in Seq(Segment) /\ IsInjective(NewSegments)
        /\ ToSet(NewSegments) \cap ToSet(seglist) = {}
        /\ committed' = ToSet(seglist) \cup ToSet(NewSegments)
    BY <2>2, <1>4, ExtendHeap
  <2> HIDE DEF NewSegments
  <2> QED BY <2>3, <2>4, <1>1, <1>4, FindStep
<1>5. CASE /\ NoSegment(freelist) /\ gc_mode = "MAJOR" /\ NewSegments = <<>>
           /\ mode' = "over" /\ UNCHANGED <<slot, field, barriered, request, bitmapVars>>
  <2>1. /\ slot' = slot /\ field' = field /\ barriered' = barriered /\ request' = request
        /\ objects' = objects /\ mark' = mark /\ stack' = stack /\ seglist' = seglist
        /\ unreserved' = unreserved /\ minor_space' = minor_space /\ freelist' = freelist
        /\ committed' = committed /\ num_committed' = num_committed /\ ptr' = ptr
        /\ gc_mode' = gc_mode /\ unmarked' = unmarked /\ Roots' = Roots /\ mode' = "over"
    BY <1>5 DEF bitmapVars, Roots
  <2>2. Block \subseteq mark
    <3>1. Segment \subseteq committed /\ freelist = <<>> /\ unreserved = Len(seglist)
      BY <1>5, ExtendHeap DEF NoSegment
    <3>2. committed = ToSet(seglist) /\ Unreserved = {} /\ ToSet(seglist) = Reserved \cup Unreserved
      BY <3>1, EmptyList, Halves DEF IInv, Lists, TypeOK
    <3>3. \A g \in Segment : \A j \in 1 .. NumBlocks : <<g, j>> \in mark
      BY <3>1, <3>2, <1>1, <1>5 DEF IInv, Room
    <3> QED BY <3>3 DEF Block, Segment
  <2>3. TypeOK' /\ Lists' /\ Objects'
    BY <2>1 DEF IInv, TypeOK, Lists, Objects
  <2>4. Marked' /\ Room' /\ Stages' /\ OverMeansMarked'
    BY <2>1, <2>2, <1>1 DEF IInv, Marked, Room, Stages, OverMeansMarked
  <2>5. Young'
    BY <2>1, <1>1 DEF IInv, Young, Reserved
  <2> QED BY <2>1, <2>3, <2>4, <2>5 DEF Good, IInv
<1> QED BY <1>2, <1>3, <1>4, <1>5 DEF bitmap_retry

-----------------------------------------------------------------------------
\* A step of a collection that marks p, to which it has been led by the field of an
\* object that it takes from the stack, or by a root.
LEMMA PushStep ==
    ASSUME IInv, mode = "trace", NEW p \in objects \cup {Null}, NEW rest \in Seq(Block),
           push(p, rest), UNCHANGED <<mutator, objects, seglist, unreserved, minor_space,
                                      freelist, committed, num_committed, ptr, gc_mode>>,
           ToSet(rest) \subseteq ToSet(stack),
           \A a \in ToSet(stack) \ ToSet(rest) : field[a] = p,
           unmarked' \subseteq unmarked, \A s \in unmarked \ unmarked' : slot[s] = p
    PROVE  Good
<1>1. /\ slot' = slot /\ field' = field /\ barriered' = barriered /\ request' = request
      /\ mode' = mode /\ objects' = objects /\ seglist' = seglist /\ unreserved' = unreserved
      /\ minor_space' = minor_space /\ freelist' = freelist /\ committed' = committed
      /\ num_committed' = num_committed /\ ptr' = ptr /\ gc_mode' = gc_mode /\ Roots' = Roots
  BY DEF mutator, Roots
<1>2. /\ ToSet(stack) \subseteq mark /\ mark \subseteq objects /\ objects \subseteq Block
      /\ \A b \in mark : field[b] \in mark \cup {Null} \/ b \in ToSet(stack)
      /\ \A g \in barriered \ unmarked : slot[g] \in mark \cup {Null}
      /\ \A s \in Var \ unmarked : slot[s] \in mark \cup {Null}
  BY DEF IInv, TypeOK, Marked
<1>3. /\ mark \subseteq mark' /\ mark' \subseteq objects /\ stack' \in Seq(Block)
      /\ ToSet(rest) \subseteq ToSet(stack') /\ ToSet(stack') \subseteq mark'
      /\ p \in mark' \cup {Null}
      /\ \A b \in mark' : b \in mark \/ b \in ToSet(stack')
  <2>1. CASE p \in objects /\ p \notin mark
    <3>1. mark' = mark \cup {p} /\ stack' = <<p>> \o rest /\ p \in Block
      BY <2>1, <1>2 DEF push
    <3>2. stack' \in Seq(Block) /\ ToSet(stack') = {p} \cup ToSet(rest)
      BY <3>1, StackSets
    <3> QED BY <2>1, <3>1, <3>2, <1>2
  <2>2. CASE ~(p \in objects /\ p \notin mark)
    <3>1. mark' = mark /\ stack' = rest
      BY <2>2 DEF push
    <3> QED BY <2>2, <3>1, <1>2
  <2> QED BY <2>1, <2>2
<1>4. TypeOK'
  BY <1>1, <1>3 DEF IInv, TypeOK
<1>5. Lists' /\ Objects'
  BY <1>1 DEF IInv, Lists, Objects
<1>6. Marked'
  <2>1. \A b \in mark' : field'[b] \in mark' \cup {Null} \/ b \in ToSet(stack')
    BY <1>1, <1>2, <1>3
  <2>2. \A s \in (Var \cup barriered) \ unmarked' : slot'[s] \in mark' \cup {Null}
    BY <1>1, <1>2, <1>3
  <2> QED BY <2>1, <2>2, <1>1, <1>3 DEF Marked
<1>7. Young' /\ Room' /\ Stages' /\ OverMeansMarked'
  BY <1>1 DEF IInv, Young, Room, Stages, OverMeansMarked
<1> QED BY <1>1, <1>4, <1>5, <1>6, <1>7 DEF Good, IInv

\* The three ways in which the collector comes to an object.
LEMMA TraceStep ==
    ASSUME IInv, pop \/ mark_root \/ mark_kept
    PROVE  Good
<1>1. /\ stack \in Seq(Block) /\ unmarked \subseteq Slot
      /\ \A b \in objects : field[b] \in objects \cup {Null}
      /\ \A s \in Slot : slot[s] \in objects \cup {Null}
      /\ ToSet(stack) \subseteq objects
  BY DEF IInv, TypeOK, Objects, Marked, Roots, Slot
<1>2. CASE pop
  <2> DEFINE rest == Tail(stack)
             p == field[Head(stack)]
  <2>1. /\ mode = "trace" /\ push(p, rest) /\ stack # <<>> /\ unmarked' = unmarked
        /\ UNCHANGED <<mutator, objects, seglist, unreserved, minor_space,
                       freelist, committed, num_committed, ptr, gc_mode>>
    BY <1>2 DEF pop
  <2>2. rest \in Seq(Block) /\ ToSet(stack) = {Head(stack)} \cup ToSet(rest)
    BY <1>1, <2>1, StackSets
  <2>3. p \in objects \cup {Null}
    BY <1>1, <2>2
  <2>4. \A a \in ToSet(stack) \ ToSet(rest) : field[a] = p
    BY <2>2
  <2> HIDE DEF p, rest
  <2> QED BY <2>1, <2>2, <2>3, <2>4, PushStep
<1>3. CASE mark_root
  <2> DEFINE s == CHOOSE r \in unmarked : TRUE
  <2>1. /\ mode = "trace" /\ push(slot[s], <<>>) /\ unmarked' = unmarked \ {s}
        /\ stack = <<>> /\ s \in unmarked
        /\ UNCHANGED <<mutator, objects, seglist, unreserved, minor_space,
                       freelist, committed, num_committed, ptr, gc_mode>>
    BY <1>3 DEF mark_root
  <2> HIDE DEF s
  <2>2. /\ slot[s] \in objects \cup {Null}
        /\ \A r \in unmarked \ unmarked' : slot[r] = slot[s]
        /\ unmarked' \subseteq unmarked
    BY <1>1, <2>1
  <2> QED BY <2>1, <2>2, EmptyList, PushStep
<1>4. CASE mark_kept
  <2>1. PICK p \in objects \ mark : push(p, <<>>)
    BY <1>4 DEF mark_kept
  <2>2. /\ mode = "trace" /\ unmarked' = unmarked /\ stack = <<>>
        /\ UNCHANGED <<mutator, objects, seglist, unreserved, minor_space,
                       freelist, committed, num_committed, ptr, gc_mode>>
    BY <1>4 DEF mark_kept
  <2> QED BY <2>1, <2>2, EmptyList, PushStep
<1> QED BY <1>2, <1>3, <1>4

-----------------------------------------------------------------------------
\* The segments that are swept are sorted by how many marked blocks they have.
LEMMA SweepLists ==
    ASSUME IInv, bitmap_sweep
    PROVE  /\ Lists' /\ num_committed' \in Int
           /\ \A b \in mark : b[1] \in ToSet(seglist')
           /\ unreserved' \in 0 .. Len(seglist') /\ minor_space' = unreserved'
           /\ \A g \in Unreserved' : g \in Segment /\ ~Filled(g)
           /\ gc_mode = "MAJOR" => \A g \in Reserved' : g \in Segment /\ Filled(g)
<1> DEFINE k == IF gc_mode = "MINOR" THEN minor_space ELSE 0
           kept == SubSeq(seglist, 1, k)
           swept == SubSeq(seglist, Len(kept) + 1, Len(seglist))
           empty == {g \in ToSet(swept) : live_count(g) = 0}
           full == {g \in ToSet(swept) : Filled(g)}
           unfilled == ToSet(swept) \ (full \cup empty)
           filled == kept \o Those(swept, full)
           free == Those(swept, empty) \o freelist
<1>1. /\ seglist \in Seq(Segment) /\ IsInjective(seglist)
      /\ freelist \in Seq(Segment) /\ IsInjective(freelist)
      /\ ToSet(seglist) \cap ToSet(freelist) = {}
      /\ committed = ToSet(seglist) \cup ToSet(freelist)
      /\ \A b \in objects : b[1] \in ToSet(seglist)
      /\ mark \subseteq objects /\ mark \subseteq Block /\ num_committed \in Int
      /\ gc_mode \in {"MINOR", "MAJOR"} /\ k \in 0 .. Len(seglist)
  BY DEF IInv, Lists, Objects, TypeOK
<1>2. /\ seglist' = filled \o Those(swept, unfilled)
      /\ unreserved' = Len(filled) /\ minor_space' = Len(filled)
      /\ \/ /\ freelist' = free /\ committed' = committed /\ num_committed' = num_committed
         \/ /\ free # <<>> /\ freelist' = Tail(free) /\ committed' = committed \ {Head(free)}
            /\ num_committed' = num_committed - 2
  BY DEF bitmap_sweep, shrink_heap
<1>3. /\ kept \in Seq(Segment) /\ Len(kept) = k /\ IsInjective(kept)
      /\ swept \in Seq(Segment) /\ IsInjective(swept)
      /\ ToSet(seglist) = ToSet(kept) \cup ToSet(swept) /\ ToSet(kept) \cap ToSet(swept) = {}
      /\ gc_mode = "MAJOR" => ToSet(kept) = {}
  <2>1. /\ kept \in Seq(Segment) /\ Len(kept) = k
    BY <1>1, PartElements
  <2>2. swept = SubSeq(seglist, k + 1, Len(seglist))
    BY <2>1
  <2>3. /\ IsInjective(kept) /\ swept \in Seq(Segment) /\ IsInjective(swept)
        /\ ToSet(seglist) = ToSet(kept) \cup ToSet(swept) /\ ToSet(kept) \cap ToSet(swept) = {}
    BY <2>2, <1>1, PartElements
  <2>4. k = 0 => kept = <<>>
    BY <2>1, EmptyList
  <2> QED BY <2>1, <2>3, <2>4, EmptyList
<1> HIDE DEF k, kept, swept
<1>4. /\ ToSet(swept) = empty \cup full \cup unfilled
      /\ empty \cap full = {} /\ empty \cap unfilled = {} /\ full \cap unfilled = {}
      /\ ToSet(swept) \subseteq Segment
  <2>1. ToSet(swept) \subseteq Segment
    BY <1>3 DEF ToSet
  <2>2. \A g \in ToSet(swept) : Filled(g) => live_count(g) # 0
    BY <2>1, <1>1, Sorted
  <2> QED BY <2>1, <2>2
<1>5. /\ \A g \in full : Filled(g)
      /\ \A g \in unfilled : ~Filled(g)
      /\ \A g \in empty : \A b \in mark : b[1] # g
  <2>1. \A g \in empty : \A b \in mark : b[1] # g
    BY <1>1, <1>4, Counted
  <2> QED BY <2>1
<1> HIDE DEF empty, full, unfilled
<1> DEFINE e == Those(swept, empty)
           f == Those(swept, full)
           u == Those(swept, unfilled)
<1>6. /\ e \in Seq(Segment) /\ f \in Seq(Segment) /\ u \in Seq(Segment)
      /\ ToSet(e) = empty /\ ToSet(f) = full /\ ToSet(u) = unfilled
      /\ IsInjective(e) /\ IsInjective(f) /\ IsInjective(u)
  <2>1. e \in Seq(Segment) /\ ToSet(e) = ToSet(swept) \cap empty /\ IsInjective(e)
    BY <1>3, ThoseElements
  <2>2. f \in Seq(Segment) /\ ToSet(f) = ToSet(swept) \cap full /\ IsInjective(f)
    BY <1>3, ThoseElements
  <2>3. u \in Seq(Segment) /\ ToSet(u) = ToSet(swept) \cap unfilled /\ IsInjective(u)
    BY <1>3, ThoseElements
  <2> HIDE DEF e, f, u
  <2> QED BY <2>1, <2>2, <2>3, <1>4
<1>7. filled = kept \o f /\ free = e \o freelist /\ seglist' = filled \o u
  BY <1>2
<1> HIDE DEF e, f, u, filled, free
<1>8. /\ filled \in Seq(Segment) /\ ToSet(filled) = ToSet(kept) \cup full
      /\ IsInjective(filled)
  BY <1>3, <1>4, <1>6, <1>7, ConcatElements
<1>9. ToSet(filled) \cap unfilled = {}
  BY <1>3, <1>4, <1>8
<1>10. /\ seglist' \in Seq(Segment) /\ Len(seglist') = Len(filled) + Len(u)
       /\ ToSet(seglist') = ToSet(filled) \cup unfilled
       /\ {seglist'[i] : i \in 1 .. Len(filled)} = ToSet(filled)
       /\ {seglist'[i] : i \in Len(filled) + 1 .. Len(seglist')} = unfilled
       /\ IsInjective(seglist')
  <2> DEFINE l == filled \o u
  <2>1. /\ l \in Seq(Segment) /\ Len(l) = Len(filled) + Len(u)
        /\ ToSet(l) = ToSet(filled) \cup ToSet(u)
        /\ {l[i] : i \in 1 .. Len(filled)} = ToSet(filled)
        /\ {l[i] : i \in Len(filled) + 1 .. Len(l)} = ToSet(u)
        /\ IsInjective(filled) /\ IsInjective(u) /\ ToSet(filled) \cap ToSet(u) = {}
             => IsInjective(l)
    BY <1>6, <1>8, ConcatElements
  <2>2. seglist' = l
    BY <1>7
  <2> HIDE DEF l
  <2> QED BY <2>1, <2>2, <1>6, <1>8, <1>9
<1>11. /\ free \in Seq(Segment) /\ ToSet(free) = empty \cup ToSet(freelist)
       /\ IsInjective(free)
  <2>1. empty \cap ToSet(freelist) = {}
    BY <1>1, <1>3, <1>4
  <2> QED BY <2>1, <1>1, <1>6, <1>7, ConcatElements
<1>12. /\ ToSet(seglist') \cap ToSet(free) = {}
       /\ committed = ToSet(seglist') \cup ToSet(free)
  BY <1>1, <1>3, <1>4, <1>8, <1>10, <1>11
<1>13. Lists' /\ num_committed' \in Int
  <2>1. CASE freelist' = free /\ committed' = committed /\ num_committed' = num_committed
    BY <2>1, <1>1, <1>10, <1>11, <1>12 DEF Lists
  <2>2. CASE /\ free # <<>> /\ freelist' = Tail(free) /\ committed' = committed \ {Head(free)}
             /\ num_committed' = num_committed - 2
    <3>1. /\ Tail(free) \in Seq(Segment) /\ ToSet(free) = {Head(free)} \cup ToSet(Tail(free))
          /\ IsInjective(Tail(free)) /\ Head(free) \notin ToSet(Tail(free))
      BY <2>2, <1>11, TailElements
    <3>2. /\ ToSet(seglist') \cap ToSet(freelist') = {}
          /\ committed' = ToSet(seglist') \cup ToSet(freelist')
      BY <3>1, <2>2, <1>12
    <3>3. num_committed' \in Int
      BY <2>2, <1>1
    <3> QED BY <3>1, <3>2, <3>3, <2>2, <1>10 DEF Lists
  <2> QED BY <2>1, <2>2, <1>2
<1>14. \A b \in mark : b[1] \in ToSet(seglist')
  BY <1>1, <1>3, <1>4, <1>5, <1>8, <1>10
<1>15. unreserved' \in 0 .. Len(seglist') /\ minor_space' = unreserved'
  <2>1. Len(filled) \in Nat /\ Len(u) \in Nat
    BY <1>6, <1>8
  <2>2. unreserved' = Len(filled) /\ minor_space' = Len(filled)
    BY <1>2
  <2> QED BY <2>1, <2>2, <1>10
<1>16. Unreserved' = unfilled /\ Reserved' = ToSet(kept) \cup full
  BY <1>2, <1>8, <1>10 DEF Unreserved, Reserved
<1>17. full \subseteq Segment /\ unfilled \subseteq Segment
  BY <1>4
<1> QED BY <1>3, <1>5, <1>13, <1>14, <1>15, <1>16, <1>17

\* A collection ends: whatever the program reaches is marked, and a segment that is
\* not reserved has a free block.
LEMMA SweepStep ==
    ASSUME IInv, bitmap_sweep
    PROVE  Good
<1>1. /\ mode = "trace" /\ unmarked = {} /\ stack = <<>> /\ objects' = objects \cap mark
      /\ field' = [b \in Block |-> IF b \in mark THEN field[b] ELSE Null]
      /\ mode' = (IF request = <<>> THEN "run" ELSE "retry")
      /\ ptr' = <<>> /\ slot' = slot /\ barriered' = barriered /\ request' = request
      /\ mark' = mark /\ stack' = stack /\ gc_mode' = gc_mode /\ unmarked' = unmarked
      /\ Roots' = Roots
  BY DEF bitmap_sweep, Roots
<1>2. /\ slot \in [Slot -> objects \cup {Null}] /\ mark \subseteq objects /\ objects \subseteq Block
      /\ field \in [Block -> Block \cup {Null}] /\ gc_mode \in {"MINOR", "MAJOR"}
      /\ \A g \in Global \ barriered : slot[g] = Null
      /\ \A b \in mark : field[b] \in mark \cup {Null}
      /\ \A s \in Var \cup barriered : slot[s] \in mark \cup {Null}
  BY <1>1, EmptyList DEF IInv, TypeOK, Objects, Marked
<1>3. objects' = mark /\ mark \subseteq Block
  BY <1>1, <1>2
<1>4. \A b \in mark : field'[b] = field[b]
  BY <1>1, <1>3
<1>5. \A s \in Slot : slot[s] \in mark \cup {Null}
  BY <1>2 DEF Slot
<1>6. Graph!Reachable \subseteq mark
  <2>1. Graph!Closed(mark)
    BY <1>2, <1>5 DEF Graph!Closed
  <2> QED BY <2>1, <1>3 DEF Graph!Reachable
<1>7. /\ Lists' /\ num_committed' \in Int
      /\ \A b \in mark : b[1] \in ToSet(seglist')
      /\ unreserved' \in 0 .. Len(seglist') /\ minor_space' = unreserved'
      /\ \A g \in Unreserved' : g \in Segment /\ ~Filled(g)
      /\ gc_mode = "MAJOR" => \A g \in Reserved' : g \in Segment /\ Filled(g)
  BY SweepLists
<1>8. TypeOK'
  <2>1. field' \in [Block -> Block \cup {Null}]
    BY <1>1, <1>2
  <2>2. minor_space' \in 0 .. unreserved'
    <3>1. Len(seglist') \in Nat
      BY <1>7 DEF Lists
    <3> QED BY <3>1, <1>7
  <2>3. mode' \in {"run", "trace", "retry", "over"}
    BY <1>1
  <2> QED BY <2>1, <2>2, <2>3, <1>1, <1>3, <1>7 DEF IInv, TypeOK
<1>9. Objects'
  BY <1>1, <1>2, <1>3, <1>4, <1>5, <1>7 DEF Objects
<1>10. Marked'
  <2>1. ToSet(stack') \subseteq mark'
    BY <1>1 DEF IInv, Marked
  <2> QED BY <2>1, <1>1, <1>2, <1>4 DEF Marked
<1>11. Room'
  <2>1. ASSUME NEW g \in Unreserved'
        PROVE  \E j \in 1 .. NumBlocks : <<g, j>> \notin mark
    BY <2>1, <1>2, <1>3, <1>7, Sorted
  <2>2. ASSUME gc_mode = "MAJOR", NEW g \in Reserved', NEW j \in 1 .. NumBlocks
        PROVE  <<g, j>> \in mark
    BY <2>2, <1>2, <1>3, <1>7, Sorted
  <2> QED BY <2>1, <2>2, <1>1 DEF Room
<1>12. Young' /\ Stages' /\ OverMeansMarked'
  BY <1>1, <1>3 DEF Young, Stages, OverMeansMarked
<1>13. Graph!Move
  <2> DEFINE m == [a \in Graph!Reachable |-> a]
             to(x) == IF x = Null THEN Null ELSE m[x]
  <2>1. \A x \in Graph!Reachable \cup {Null} : to(x) = x
    OBVIOUS
  <2>2. m \in [Graph!Reachable -> Block] /\ \A a \in Graph!Reachable : m[a] = a
    BY ReachableObjects
  <2>3. /\ \A s \in Slot : slot[s] \in Graph!Reachable \cup {Null}
        /\ \A a \in Graph!Reachable : field[a] \in Graph!Reachable \cup {Null}
    BY ReachableClosed DEF Graph!Closed
  <2> HIDE DEF m
  <2>4. \A s \in Slot : to(slot[s]) = slot[s]
    BY <2>1, <2>3
  <2>5. slot' = [s \in Slot |-> to(slot[s])]
    BY <1>1, <1>2, <2>4
  <2>6. ASSUME NEW a \in Graph!Reachable PROVE field'[m[a]] = to(field[a])
    <3>1. m[a] = a /\ field'[a] = field[a]
      BY <1>4, <1>6, <2>2
    <3>2. to(field[a]) = field[a]
      BY <2>1, <2>3
    <3> HIDE DEF to
    <3> QED BY <3>1, <3>2
  <2>7. \A a, b \in Graph!Reachable : m[a] = m[b] => a = b
    BY <2>2
  <2> QED BY <2>2, <2>5, <2>6, <2>7 DEF Graph!Move
<1> QED BY <1>7, <1>8, <1>9, <1>10, <1>11, <1>12, <1>13 DEF Good, IInv, Graph!Next

-----------------------------------------------------------------------------
\* The invariant holds at the start, where the program has no objects.
LEMMA InitGood == Init => IInv /\ Graph!Init
<1> SUFFICES ASSUME Init PROVE IInv /\ Graph!Init
  OBVIOUS
<1> USE DEF Init, MutatorInit, BitmapInit
<1>1. slot = [s \in Slot |-> Null] /\ field = [b \in Block |-> Null]
  BY DEF Slot
<1>2. seglist \in Seq(Segment) /\ ToSet(seglist) = {} /\ IsInjective(seglist) /\ Len(seglist) = 0
  BY EmptyList
<1>3. /\ freelist \in Seq(Segment) /\ ToSet(freelist) = 1 .. MinSegments
      /\ IsInjective(freelist)
  <2> DEFINE l == [i \in 1 .. MinSegments |-> i]
  <2>1. l \in Seq(Segment)
    BY SegmentAssumption DEF Segment
  <2>2. ToSet(l) = 1 .. MinSegments /\ IsInjective(l)
    BY DEF ToSet, IsInjective
  <2> QED BY <2>1, <2>2
<1>4. TypeOK
  BY <1>1, <1>2, StackSets, SegmentAssumption DEF TypeOK
<1>5. Lists
  BY <1>2, <1>3 DEF Lists
<1>6. Reserved = {} /\ Unreserved = {}
  BY <1>2 DEF Reserved, Unreserved
<1>7. Objects /\ Marked /\ Young /\ Room /\ Stages /\ OverMeansMarked
  BY <1>1, <1>6, StackSets DEF Objects, Marked, Young, Room, Stages, OverMeansMarked, Slot
<1> QED BY <1>1, <1>4, <1>5, <1>7 DEF IInv, Graph!Init

\* Every step keeps the invariant and is a step of the graph.
LEMMA StepGood == IInv /\ [BitmapNext]_vars => Good
<1> SUFFICES ASSUME IInv, [BitmapNext]_vars PROVE Good
  OBVIOUS
<1>1. CASE UNCHANGED vars
  <2>1. /\ slot' = slot /\ field' = field /\ barriered' = barriered /\ request' = request
        /\ mode' = mode /\ Roots' = Roots
        /\ objects' = objects /\ mark' = mark /\ stack' = stack /\ seglist' = seglist
        /\ unreserved' = unreserved /\ minor_space' = minor_space /\ freelist' = freelist
        /\ committed' = committed /\ num_committed' = num_committed /\ ptr' = ptr
        /\ gc_mode' = gc_mode /\ unmarked' = unmarked
    BY <1>1 DEF vars, mutator, bitmapVars, Roots
  <2>2. TypeOK' /\ Lists' /\ Objects' /\ Marked'
    BY <2>1 DEF IInv, TypeOK, Lists, Objects, Marked
  <2>3. Young' /\ Room' /\ Stages' /\ OverMeansMarked'
    BY <2>1 DEF IInv, Young, Room, Stages, OverMeansMarked, Reserved, Unreserved
  <2> QED BY <2>1, <2>2, <2>3 DEF Good, IInv
<1>2. CASE compiled_code /\ UNCHANGED bitmapVars
  BY <1>2, CompiledStep
<1>3. ASSUME NEW s \in Slot, NEW t \in Var, bitmap_write(s, t)
      PROVE  Good
  BY <1>3, WriteStep
<1>4. ASSUME NEW s \in Var, NEW t \in Var, bitmap_alloc(s, t)
      PROVE  Good
  BY <1>4, AllocStep
<1>5. CASE bitmap_gc
  BY <1>5, CollectStep DEF bitmap_gc
<1> QED BY <1>1, <1>2, <1>3, <1>4, <1>5, TraceStep, SweepStep, RetryStep DEF BitmapNext, Slot

\* The invariant: among other things, what a marked object refers to is marked,
\* unless the object is in the stack, so that a minor collection may take the marks
\* that it finds for reached.
THEOREM BitmapInvariant == Spec => []IInv
<1>1. Init => IInv
  BY InitGood
<1>2. IInv /\ [BitmapNext]_vars => IInv'
  BY StepGood DEF Good
<1> QED BY <1>1, <1>2, PTL DEF Spec

\* Between collections the pointers from old objects, and from globals, to young
\* objects are known to the next minor collection.
THEOREM BitmapOldToYoung == Spec => []WritesKnown
<1>1. IInv => WritesKnown
  <2> SUFFICES ASSUME IInv, mode = "run"
               PROVE  /\ \A a \in mark : field[a] \in mark \cup {Null} \/ Contains(stack, a)
                      /\ \A g \in barriered : slot[g] \in mark \cup {Null}
    BY DEF WritesKnown
  <2>1. stack \in Seq(Block) /\ mark \subseteq Block /\ unmarked = {}
    BY DEF IInv, TypeOK, Stages
  <2>2. \A b \in mark : field[b] \in mark \cup {Null} \/ b \in ToSet(stack)
    BY DEF IInv, Marked
  <2>3. \A g \in barriered : slot[g] \in mark \cup {Null}
    BY <2>1 DEF IInv, Marked
  <2> QED BY <2>1, <2>2, <2>3, StackSets
<1> QED BY <1>1, BitmapInvariant, PTL

\* find_segment may rely on the next unreserved segment to have a free block.
THEOREM BitmapUnreservedHasRoom == Spec => []UnreservedHasRoom
<1>1. IInv => UnreservedHasRoom
  <2> SUFFICES ASSUME IInv, mode \in {"run", "retry"},
                      NEW i \in unreserved + 1 .. Len(seglist)
               PROVE  live_count(seglist[i]) < NumBlocks
    BY DEF UnreservedHasRoom
  <2> DEFINE g == seglist[i]
  <2>1. g \in Unreserved
    BY DEF Unreserved
  <2>2. g \in Segment
    <3>1. i \in 1 .. Len(seglist) /\ seglist \in Seq(Segment)
      BY DEF IInv, TypeOK, Lists
    <3> QED BY <3>1
  <2>3. mark \subseteq Block
    BY DEF IInv, TypeOK
  <2> HIDE DEF g
  <2>4. \E j \in 1 .. NumBlocks : <<g, j>> \notin mark
    BY <2>1 DEF IInv, Room
  <2>5. live_count(g) < NumBlocks
    BY <2>2, <2>3, <2>4, Counted
  <2> QED BY <2>5 DEF g
<1> QED BY <1>1, BitmapInvariant, PTL

\* "heap exceeded" is said only after a major collection that has left no block free.
THEOREM BitmapOverMeansFull == Spec => []OverMeansMarked
<1>1. IInv => OverMeansMarked
  BY DEF IInv
<1> QED BY <1>1, BitmapInvariant, PTL

\* What the program sees of its heap changes by what the program does, never by a
\* step of a collection, minor or major, and no new object takes the block of one
\* that it reaches.
THEOREM BitmapKeepsGraph == Spec => Graph!Spec
<1>1. Init => Graph!Init
  BY InitGood
<1>2. IInv /\ [BitmapNext]_vars => [Graph!Next]_<<slot, field>>
  BY StepGood DEF Good
<1> QED BY <1>1, <1>2, BitmapInvariant, PTL DEF Spec, Graph!Spec

-----------------------------------------------------------------------------
(***************************************************************************)
(* The bitmap collector of heap_otomo.c keeps the graph of objects that    *)
(* the program sees, and overlooks no free block, for every number of      *)
(* blocks and every word size that its assumption allows.  First, the      *)
(* words of the bitmap.                                                    *)
(***************************************************************************)

\* Division by the number of bits of a word.
LEMMA Euclid ==
    ASSUME NEW b \in Nat
    PROVE  /\ b \div WordBits \in Nat
           /\ (b \div WordBits) * WordBits <= b
           /\ b < (b \div WordBits) * WordBits + WordBits
<1> DEFINE w == WordBits
<1>1. w \in Nat \ {0}
  BY LayoutAssumption
<1> HIDE DEF w
<1>2. b \div w \in Nat /\ (b \div w) * w <= b /\ b < (b \div w) * w + w
  BY <1>1
<1> QED BY <1>2 DEF w

\* Words do not overlap.
LEMMA WordOrder ==
    ASSUME NEW i \in Nat, NEW j \in Nat, i < j
    PROVE  i * WordBits \in Nat /\ j * WordBits \in Nat /\ i * WordBits + WordBits <= j * WordBits
<1> DEFINE w == WordBits
<1>1. w \in Nat
  BY LayoutAssumption
<1> HIDE DEF w
<1>2. (i + 1) * w <= j * w
  BY <1>1
<1>3. (i + 1) * w = i * w + w /\ i * w \in Nat /\ j * w \in Nat
  BY <1>1
<1> QED BY <1>2, <1>3 DEF w

\* The bits of word k are those whose quotient is k.
LEMMA InWord ==
    ASSUME NEW b \in Nat, NEW k \in Nat
    PROVE  b \in WordOf(k) <=> b \div WordBits = k
<1>1. /\ b \div WordBits \in Nat /\ (b \div WordBits) * WordBits <= b
      /\ b < (b \div WordBits) * WordBits + WordBits
  BY Euclid
<1>2. WordBits \in Nat /\ k * WordBits \in Nat /\ (k + 1) * WordBits = k * WordBits + WordBits
      /\ (b \div WordBits) * WordBits \in Nat
  BY <1>1, LayoutAssumption
<1>3. b \in WordOf(k) <=> k * WordBits <= b /\ b < k * WordBits + WordBits
  BY <1>2 DEF WordOf
<1>4. CASE b \div WordBits = k
  BY <1>1, <1>3, <1>4
<1>5. CASE b \div WordBits < k
  <2>1. (b \div WordBits) * WordBits + WordBits <= k * WordBits
    BY <1>1, <1>5, WordOrder
  <2> QED BY <2>1, <1>1, <1>2, <1>3, <1>5
<1>6. CASE k < b \div WordBits
  <2>1. k * WordBits + WordBits <= (b \div WordBits) * WordBits
    BY <1>1, <1>6, WordOrder
  <2> QED BY <2>1, <1>1, <1>2, <1>3, <1>6
<1> QED BY <1>1, <1>4, <1>5, <1>6

\* A block does not come before another one by more than its word does.
LEMMA WordsInOrder ==
    ASSUME NEW a \in Nat, NEW b \in Nat, a <= b
    PROVE  a \div WordBits <= b \div WordBits
<1>1. /\ a \div WordBits \in Nat /\ (a \div WordBits) * WordBits <= a
      /\ b \div WordBits \in Nat /\ b < (b \div WordBits) * WordBits + WordBits
  BY Euclid
<1>2. CASE b \div WordBits < a \div WordBits
  <2>1. (b \div WordBits) * WordBits + WordBits <= (a \div WordBits) * WordBits
        /\ (a \div WordBits) * WordBits \in Nat /\ (b \div WordBits) * WordBits \in Nat
    BY <1>1, <1>2, WordOrder
  <2>2. WordBits \in Nat
    BY LayoutAssumption
  <2> QED BY <2>1, <2>2, <1>1
<1> QED BY <1>1, <1>2

\* The words of the bitmap: the last one has a block, and the tree has a bit for
\* each of them in its one word.
LEMMA Sizes ==
    /\ WordBits \in Nat \ {0} /\ BlockCounts \in Nat \ {0}
    /\ Words \in Nat /\ Words < WordBits
    /\ \A b \in Nat : b < BlockCounts => b \div WordBits < Words
    /\ BlockCounts \div WordBits <= Words /\ Words <= BlockCounts \div WordBits + 1
    /\ BlockCounts \in Sentinel(BlockCounts) /\ Sentinel(BlockCounts) \subseteq Nat
    /\ \A x \in Sentinel(BlockCounts) : BlockCounts <= x
    /\ \A x \in Nat : BlockCounts <= x /\ x \div WordBits <= BlockCounts \div WordBits
                      => x \in Sentinel(BlockCounts)
    /\ Sentinel(Words) = Words .. WordBits - 1
    /\ WordOf(0) = 0 .. WordBits - 1
    /\ \A k \in Nat : k < Words => k * WordBits < BlockCounts
<1> DEFINE w == WordBits
           n == BlockCounts
           r == Words
           q == n \div w
<1>1. w \in Nat \ {0} /\ n \in Nat \ {0} /\ r < w
  BY LayoutAssumption DEF Words
<1>2. /\ r \in Nat /\ r * w <= n + w - 1 /\ n + w - 1 < r * w + w
  <2>1. n + w - 1 \in Nat /\ r = (n + w - 1) \div WordBits
    BY <1>1 DEF Words, BITMAP_ROUND
  <2> HIDE DEF n, r
  <2> QED BY <2>1, Euclid
<1>3. q \in Nat /\ q * w <= n /\ n < q * w + w
  BY <1>1, Euclid
<1>4. r * w \in Nat /\ q * w \in Nat
  BY <1>1, <1>2, <1>3
<1>5. ASSUME NEW b \in Nat, b < n PROVE b \div w < r
  <2>1. b \div w \in Nat /\ (b \div w) * w <= b
    BY Euclid
  <2>2. CASE r = b \div w
    BY <2>1, <2>2, <1>1, <1>2, <1>4, <1>5
  <2>3. CASE r < b \div w
    <3>1. r * w + w <= (b \div w) * w /\ (b \div w) * w \in Nat
      BY <2>1, <2>3, <1>2, WordOrder
    <3> HIDE DEF r, w, n
    <3> QED BY <3>1, <2>1, <1>1, <1>2, <1>4, <1>5
  <2> HIDE DEF r, w
  <2> QED BY <2>1, <2>2, <2>3, <1>2
<1>6. q <= r
  <2>1. CASE r < q
    <3>1. r * w + w <= q * w
      BY <2>1, <1>2, <1>3, WordOrder
    <3> HIDE DEF r, w, n, q
    <3> QED BY <3>1, <1>1, <1>2, <1>3, <1>4
  <2> HIDE DEF r, w, n, q
  <2> QED BY <2>1, <1>2, <1>3
<1>7. r <= q + 1
  <2>1. CASE q + 1 < r
    <3>1. (q + 1) * w + w <= r * w /\ (q + 1) * w = q * w + w
      BY <2>1, <1>1, <1>2, <1>3, WordOrder
    <3> HIDE DEF r, w, n, q
    <3> QED BY <3>1, <1>1, <1>2, <1>3, <1>4
  <2> HIDE DEF r, w, n, q
  <2> QED BY <2>1, <1>2, <1>3
<1>8. Sentinel(n) = n .. q * w + w - 1
  <2>1. (q + 1) * w = q * w + w
    BY <1>1, <1>3
  <2>2. Sentinel(n) = n .. (q + 1) * w - 1
    BY DEF Sentinel
  <2>3. (q + 1) * w - 1 = q * w + w - 1
    <3> DEFINE e == (q + 1) * w
               f == q * w
    <3>1. e = f + w /\ f \in Nat
      BY <2>1, <1>4
    <3> HIDE DEF e, f, w
    <3>2. e - 1 = f + (w - 1)
      BY <3>1, <1>1
    <3> QED BY <3>2 DEF e, f
  <2> QED BY <2>2, <2>3
<1>9. ASSUME NEW x \in Nat, n <= x, x \div w <= q
      PROVE  x \in Sentinel(n)
  <2>1. x \div w \in Nat /\ x < (x \div w) * w + w
    BY Euclid
  <2>2. (x \div w) * w <= q * w /\ (x \div w) * w \in Nat
    BY <2>1, <1>1, <1>3, <1>9
  <2>3. x < q * w + w
    <3> HIDE DEF w, n, q
    <3> QED BY <2>1, <2>2, <1>1, <1>4
  <2> HIDE DEF w, n, q
  <2> QED BY <2>3, <1>1, <1>4, <1>8, <1>9
<1>10. Sentinel(r) = r .. w - 1
  <2>1. r \div w \in Nat /\ (r \div w) * w <= r
    BY <1>2, Euclid
  <2>2. r \div w = 0
    BY <2>1, <1>1, <1>2, WordOrder
  <2>3. (0 + 1) * w = w
    BY <1>1
  <2> QED BY <2>2, <2>3 DEF Sentinel
<1>11. WordOf(0) = 0 .. w - 1
  BY <1>1 DEF WordOf
<1>12. n \in Sentinel(n) /\ Sentinel(n) \subseteq Nat /\ \A x \in Sentinel(n) : n <= x
  <2> HIDE DEF w, n, q
  <2> QED BY <1>1, <1>3, <1>4, <1>8
<1>13. ASSUME NEW k \in Nat, k < r PROVE k * w < n
  <2>1. k * w + w <= r * w /\ k * w \in Nat
    BY <1>13, <1>2, WordOrder
  <2> DEFINE e == k * w
             f == r * w
  <2>2. e + w <= f /\ f <= n + w - 1 /\ e \in Nat /\ f \in Nat
    BY <2>1, <1>2, <1>4
  <2> HIDE DEF e, f, w, n, r
  <2>3. e < n
    BY <2>2, <1>1
  <2> QED BY <2>3 DEF e
<1> QED BY <1>1, <1>2, <1>5, <1>6, <1>7, <1>9, <1>10, <1>11, <1>12, <1>13

-----------------------------------------------------------------------------
\* Addresses are blocks, not NULL.
LEMMA Blocks ==
    /\ OtomoAddr = 0 .. BlockCounts - 1
    /\ \A b \in OtomoAddr : /\ b \in Nat /\ b < BlockCounts
                            /\ b \div WordBits \in 0 .. WordBits - 1
                            /\ b \div WordBits < Words /\ b \in WordOf(b \div WordBits)
<1>1. OtomoAddr = 0 .. BlockCounts - 1
  BY DEF OtomoAddr
<1>2. ASSUME NEW b \in OtomoAddr
      PROVE  /\ b \in Nat /\ b < BlockCounts
             /\ b \div WordBits \in 0 .. WordBits - 1
             /\ b \div WordBits < Words /\ b \in WordOf(b \div WordBits)
  <2>1. b \in Nat /\ b < BlockCounts
    BY <1>1, Sizes
  <2>2. b \div WordBits \in Nat /\ b \div WordBits < Words
    BY <2>1, Sizes, Euclid
  <2>3. b \in WordOf(b \div WordBits)
    BY <2>1, <2>2, InWord
  <2>4. b \div WordBits <= WordBits - 1
    <3> DEFINE k == b \div WordBits
    <3>1. k \in Nat /\ k < Words /\ Words < WordBits /\ WordBits \in Nat /\ Words \in Nat
      BY <2>2, Sizes
    <3> HIDE DEF k
    <3>2. k <= WordBits - 1
      BY <3>1
    <3> QED BY <3>2 DEF k
  <2>5. b \div WordBits \in 0 .. WordBits - 1
    BY <2>2, <2>4, Sizes
  <2> QED BY <2>1, <2>2, <2>3, <2>5
<1> QED BY <1>1, <1>2

\* A word whose bit in the tree is set has no free block ...
LEMMA FullWord ==
    ASSUME Bitmaps, NEW b \in OtomoAddr, b \div WordBits \in tree
    PROVE  b \in leaf
<1> DEFINE k == b \div WordBits
<1>1. k \in 0 .. WordBits - 1 /\ b \in WordOf(k) /\ k < Words
  BY Blocks
<1> HIDE DEF k
<1>2. ~(k >= Words)
  BY <1>1, Sizes
<1>3. k \in tree
  BY DEF k
<1> QED BY <1>1, <1>2, <1>3 DEF Bitmaps

\* ... and one whose bit is clear has one.
LEMMA RoomInWord ==
    ASSUME Bitmaps, NEW m \in (0 .. WordBits - 1) \ tree
    PROVE  WordOf(m) \ leaf # {} /\ WordOf(m) \ leaf \subseteq OtomoAddr
<1>1. m \in Nat /\ m < Words /\ ~(WordOf(m) \subseteq leaf)
  BY Sizes DEF Bitmaps
<1>2. ASSUME NEW x \in WordOf(m), x \notin leaf PROVE x \in OtomoAddr
  <2>1. x \in Nat
    <3>1. m * WordBits \in Nat
      BY <1>1, Sizes
    <3> QED BY <3>1 DEF WordOf
  <2>2. x \div WordBits = m
    BY <1>1, <1>2, <2>1, InWord
  <2>3. CASE BlockCounts <= x
    <3>1. m <= BlockCounts \div WordBits
      BY <1>1, Sizes, Euclid
    <3>2. x \in Sentinel(BlockCounts)
      BY <2>1, <2>2, <2>3, <3>1, Sizes
    <3> QED BY <3>2, <1>2 DEF Bitmaps
  <2> QED BY <2>1, <2>3, Sizes DEF OtomoAddr
<1> QED BY <1>1, <1>2

\* The search finds a block that is not marked, at or behind the cursor.
LEMMA NextIsFree ==
    ASSUME Bitmaps, cursor \in 0 .. BlockCounts, NEW b \in NextBlock
    PROVE  b \in OtomoAddr \ leaf /\ cursor <= b
<1> DEFINE k == cursor \div WordBits
<1>1. cursor \in Nat /\ k \in Nat /\ k <= BlockCounts \div WordBits
      /\ BlockCounts \div WordBits \in Nat
  BY Sizes, Euclid, WordsInOrder
<1>2. k \in 0 .. WordBits - 1 /\ k \div WordBits = 0 /\ WordOf(k \div WordBits) = 0 .. WordBits - 1
  <2>1. k \in 0 .. WordBits - 1
    BY <1>1, Sizes
  <2>2. k \in WordOf(0)
    BY <2>1, Sizes
  <2>3. k \div WordBits = 0
    BY <1>1, <2>2, InWord
  <2> QED BY <2>1, <2>3, Sizes
<1>3. CASE cursor \notin leaf
  <2>1. b = cursor
    BY <1>3 DEF NextBlock
  <2>2. cursor # BlockCounts
    BY <1>3, Sizes DEF Bitmaps
  <2> QED BY <1>1, <1>3, <2>1, <2>2, Sizes DEF OtomoAddr
<1>4. CASE cursor \in leaf /\ FreeInWord(cursor) # {}
  <2>1. b = Min(FreeInWord(cursor))
    BY <1>4 DEF NextBlock, search_bitptr
  <2>2. FreeInWord(cursor) \subseteq Nat
    <3>1. k * WordBits \in Nat
      BY <1>1, Sizes
    <3> QED BY <3>1 DEF FreeInWord, WordOf
  <2>3. b \in FreeInWord(cursor) /\ b \in Nat
    BY <1>4, <2>1, <2>2, MinOf
  <2>4. b \in WordOf(k) /\ b > cursor /\ b \notin leaf
    BY <2>3 DEF FreeInWord
  <2>5. b \div WordBits = k
    BY <1>1, <2>3, <2>4, InWord
  <2>6. ~(BlockCounts <= b)
    <3> SUFFICES ASSUME BlockCounts <= b PROVE FALSE
      OBVIOUS
    <3>1. b \in Sentinel(BlockCounts)
      BY <1>1, <2>3, <2>5, Sizes
    <3> QED BY <3>1, <2>4 DEF Bitmaps
  <2> QED BY <1>1, <2>3, <2>4, <2>6, Sizes DEF OtomoAddr
<1>5. CASE cursor \in leaf /\ FreeInWord(cursor) = {}
  <2> DEFINE m == Min(WordsAfter(k))
  <2>1. /\ WordsAfter(k) # {}
        /\ b = Min((WordOf(m) \ leaf) \cup {(m + 1) * WordBits})
    BY <1>5 DEF NextBlock, search_bitptr
  <2>2. WordsAfter(k) \subseteq Nat /\ WordsAfter(k) \subseteq (0 .. WordBits - 1) \ tree
        /\ \A j \in WordsAfter(k) : j > k
    <3>1. WordsAfter(k) = {j \in 0 .. WordBits - 1 : j > k} \ tree
      BY <1>2 DEF WordsAfter
    <3>2. \A j \in 0 .. WordBits - 1 : j \in Nat
      BY Sizes
    <3> HIDE DEF k
    <3> QED BY <3>1, <3>2
  <2>3. m \in (0 .. WordBits - 1) \ tree /\ m > k /\ m \in Nat
    BY <2>1, <2>2, MinOf
  <2> HIDE DEF m
  <2>4. WordOf(m) \ leaf # {} /\ WordOf(m) \ leaf \subseteq OtomoAddr
    BY <2>3, RoomInWord
  <2> DEFINE top == (m + 1) * WordBits
             S == (WordOf(m) \ leaf) \cup {top}
  <2>5. m * WordBits \in Nat /\ top = m * WordBits + WordBits /\ top \in Nat
    BY <2>3, Sizes
  <2>6. S \subseteq Nat /\ S # {} /\ \A x \in WordOf(m) : x < top /\ x >= m * WordBits
    BY <2>5 DEF WordOf
  <2>7. b \in S /\ \A x \in S : b <= x
    BY <2>1, <2>6, MinOf
  <2>8. b \in WordOf(m) \ leaf
    BY <2>4, <2>5, <2>6, <2>7
  <2>9. cursor < k * WordBits + WordBits /\ k * WordBits + WordBits <= m * WordBits
        /\ k * WordBits \in Nat
    BY <1>1, <2>3, Euclid, WordOrder
  <2>10. cursor <= b /\ b \in OtomoAddr
    <3>1. b >= m * WordBits /\ b \in Nat /\ b \in OtomoAddr
      BY <2>4, <2>6, <2>8, Blocks
    <3> DEFINE e == k * WordBits
               f == m * WordBits
    <3>2. e \in Nat /\ f \in Nat /\ WordBits \in Nat /\ cursor \in Nat /\ b \in Nat
          /\ cursor < e + WordBits /\ e + WordBits <= f /\ f <= b
      BY <3>1, <2>9, <2>5, <1>1, Sizes
    <3> HIDE DEF e, f, k
    <3> QED BY <3>1, <3>2
  <2> QED BY <2>8, <2>10
<1> QED BY <1>3, <1>4, <1>5

\* A search from the first block overlooks no free block.
LEMMA NothingFound ==
    ASSUME Bitmaps, cursor = 0, NextBlock = {}
    PROVE  OtomoAddr \subseteq leaf
<1>1. 0 \div WordBits = 0 /\ WordOf(0) = 0 .. WordBits - 1
  <2>1. 0 \in WordOf(0)
    BY Sizes
  <2> QED BY <2>1, Sizes, InWord
<1>2. 0 \in leaf /\ search_bitptr(0) = {}
  BY DEF NextBlock
<1>3. FreeInWord(0) = {} /\ WordsAfter(0) = {}
  BY <1>1, <1>2 DEF search_bitptr
<1>4. \A i \in WordOf(0) : i \in leaf
  <2>1. \A i \in WordOf(0) : i > 0 => i \in leaf
    BY <1>1, <1>3 DEF FreeInWord
  <2>2. \A i \in WordOf(0) : i > 0 \/ i = 0
    BY <1>1, Sizes
  <2> QED BY <2>1, <2>2, <1>2
<1>5. \A m \in 0 .. WordBits - 1 : m # 0 => m \in tree
  <2>1. \A m \in 0 .. WordBits - 1 : m > 0 => m \in tree
    BY <1>1, <1>3 DEF WordsAfter
  <2>2. \A m \in 0 .. WordBits - 1 : m # 0 => m > 0
    BY Sizes
  <2> QED BY <2>1, <2>2
<1>6. ASSUME NEW b \in OtomoAddr PROVE b \in leaf
  <2>1. b \div WordBits \in 0 .. WordBits - 1 /\ b \in WordOf(b \div WordBits)
    BY Blocks
  <2>2. CASE b \div WordBits = 0
    BY <2>1, <2>2, <1>4
  <2>3. CASE b \div WordBits # 0
    <3>1. b \div WordBits \in tree
      BY <2>1, <2>3, <1>5
    <3> QED BY <3>1, FullWord
  <2> QED BY <2>2, <2>3
<1> QED BY <1>6

\* The sentinel does not fill a word that has blocks.
LEMMA WordNotFull ==
    ASSUME NEW k \in 0 .. WordBits - 1, k < Words
    PROVE  ~(WordOf(k) \subseteq Sentinel(BlockCounts))
<1>1. k * WordBits \in Nat /\ k * WordBits \in WordOf(k)
  <2>1. k * WordBits \in Nat /\ (k + 1) * WordBits = k * WordBits + WordBits
    BY Sizes
  <2> QED BY <2>1, Sizes DEF WordOf
<1>2. k * WordBits < BlockCounts
  BY Sizes
<1>3. k * WordBits \notin Sentinel(BlockCounts)
  BY <1>1, <1>2, Sizes
<1> QED BY <1>1, <1>3

\* bitmap_clear makes the tree agree with the bitmap ...
LEMMA ClearKeeps == bitmap_clear => Bitmaps' /\ leaf' \cap OtomoAddr = {}
<1> SUFFICES ASSUME bitmap_clear PROVE Bitmaps' /\ leaf' \cap OtomoAddr = {}
  OBVIOUS
<1>1. leaf' = Sentinel(BlockCounts) /\ tree' = Words .. WordBits - 1
  BY Sizes DEF bitmap_clear, Words
<1>2. leaf' \cap OtomoAddr = {}
  <2>1. \A x \in Sentinel(BlockCounts) : x \in Nat /\ BlockCounts <= x
    BY Sizes
  <2>2. \A b \in OtomoAddr : b \in Nat /\ b < BlockCounts
    BY Blocks
  <2>3. \A x \in Sentinel(BlockCounts) : x \notin OtomoAddr
    BY <2>1, <2>2, Sizes
  <2> QED BY <1>1, <2>3
<1>3. ASSUME NEW k \in 0 .. WordBits - 1, k < Words
      PROVE  ~(WordOf(k) \subseteq leaf')
  BY <1>1, <1>3, WordNotFull
<1>4. \A k \in 0 .. WordBits - 1 : k \in tree' <=> k >= Words
  BY <1>1, Sizes
<1>5. \A k \in 0 .. WordBits - 1 : k >= Words \/ k < Words
  BY Sizes
<1>6. tree' \subseteq 0 .. WordBits - 1
  BY <1>1, Sizes
<1>7. \A k \in 0 .. WordBits - 1 : k \in tree' <=> k >= Words \/ WordOf(k) \subseteq leaf'
  BY <1>3, <1>4, <1>5
<1> QED BY <1>1, <1>2, <1>6, <1>7 DEF Bitmaps

-----------------------------------------------------------------------------
\* What a step of the program or of the collector has to do.
GoodOtomo == IInvOtomo' /\ [GraphOtomo!Next]_<<slot, field>>

\* A block of the heap is an object, not NULL, and the bits of the sentinel are
\* none of them.
LEMMA Apart ==
    /\ Null \notin OtomoAddr
    /\ \A x \in Sentinel(BlockCounts) : x \notin OtomoAddr
    /\ BlockCounts \in Nat /\ 0 \in 0 .. BlockCounts
    /\ \A b \in OtomoAddr : b + 1 \in 0 .. BlockCounts
<1>1. \A x \in Sentinel(BlockCounts) : x \in Nat /\ BlockCounts <= x
  BY Sizes
<1>2. \A b \in OtomoAddr : b \in Nat /\ b < BlockCounts
  BY Blocks
<1>3. \A x \in Sentinel(BlockCounts) : x \notin OtomoAddr
  BY <1>1, <1>2, Sizes
<1>4. ASSUME NEW b \in OtomoAddr PROVE b + 1 \in 0 .. BlockCounts
  <2>1. b \in Nat /\ b < BlockCounts /\ BlockCounts \in Nat
    BY <1>2, Sizes
  <2> QED BY <2>1
<1> QED BY <1>3, <1>4, Sizes, NullIsNoBlock

\* What the program reaches has not been reclaimed.
LEMMA ReachableHeld ==
    ASSUME IInvOtomo
    PROVE  GraphOtomo!Reachable \subseteq held /\ held \subseteq OtomoAddr
<1>1. GraphOtomo!Closed(held) /\ held \subseteq OtomoAddr
  BY DEF GraphOtomo!Closed, IInvOtomo, ObjectsOtomo, TypeOKOtomo
<1> QED BY <1>1 DEF GraphOtomo!Reachable

\* Variables refer to objects that the program reaches, and so do these.
LEMMA ReachableClosedOtomo ==
    ASSUME IInvOtomo
    PROVE  GraphOtomo!Closed(GraphOtomo!Reachable)
<1>1. GraphOtomo!Closed(held) /\ held \subseteq OtomoAddr
  BY DEF GraphOtomo!Closed, IInvOtomo, ObjectsOtomo, TypeOKOtomo
<1>2. ASSUME NEW s \in Slot PROVE slot[s] \in GraphOtomo!Reachable \cup {Null}
  BY <1>1 DEF GraphOtomo!Closed, GraphOtomo!Reachable
<1>3. ASSUME NEW a \in GraphOtomo!Reachable PROVE field[a] \in GraphOtomo!Reachable \cup {Null}
  BY <1>1 DEF GraphOtomo!Closed, GraphOtomo!Reachable
<1> QED BY <1>2, <1>3 DEF GraphOtomo!Closed

\* The elements of a stack.
LEMMA StackProperties ==
    ASSUME NEW list \in Seq(OtomoAddr), list # <<>>
    PROVE  /\ Head(list) \in ToSet(list) /\ Tail(list) \in Seq(OtomoAddr)
           /\ ToSet(list) \subseteq {Head(list)} \cup ToSet(Tail(list))
           /\ ToSet(Tail(list)) \subseteq ToSet(list)
<1>1. /\ Len(list) \in Nat \ {0} /\ DOMAIN list = 1 .. Len(list) /\ Head(list) = list[1]
      /\ Tail(list) \in Seq(OtomoAddr) /\ Len(Tail(list)) = Len(list) - 1
      /\ \A i \in 1 .. Len(list) - 1 : Tail(list)[i] = list[i + 1]
  BY HeadTailProperties
<1>2. DOMAIN Tail(list) = 1 .. Len(list) - 1
  BY <1>1
<1>3. ASSUME NEW i \in 1 .. Len(list)
      PROVE  list[i] \in {Head(list)} \cup ToSet(Tail(list))
  <2>1. CASE i = 1
    BY <1>1, <2>1
  <2>2. CASE i # 1
    <3>1. i - 1 \in 1 .. Len(list) - 1 /\ (i - 1) + 1 = i
      BY <1>1, <2>2
    <3> QED BY <3>1, <1>1, <1>2 DEF ToSet
  <2> QED BY <2>1, <2>2
<1>4. ASSUME NEW i \in 1 .. Len(list) - 1
      PROVE  Tail(list)[i] \in ToSet(list)
  <2>1. i + 1 \in 1 .. Len(list)
    BY <1>1
  <2> QED BY <2>1, <1>1 DEF ToSet
<1>5. Head(list) \in ToSet(list)
  BY <1>1 DEF ToSet
<1> QED BY <1>1, <1>2, <1>3, <1>4, <1>5 DEF ToSet

LEMMA PushProperties ==
    ASSUME NEW list \in Seq(OtomoAddr), NEW b \in OtomoAddr
    PROVE  /\ <<b>> \o list \in Seq(OtomoAddr)
           /\ ToSet(<<b>> \o list) = {b} \cup ToSet(list)
<1> DEFINE s == <<b>> \o list
           n == Len(list)
<1>1. <<b>> \in Seq(OtomoAddr) /\ Len(<<b>>) = 1 /\ <<b>>[1] = b /\ n \in Nat
      /\ DOMAIN list = 1 .. n
  OBVIOUS
<1>2. /\ s \in Seq(OtomoAddr) /\ Len(s) = 1 + n
      /\ \A i \in 1 .. 1 + n : s[i] = IF i <= 1 THEN <<b>>[i] ELSE list[i - 1]
  BY <1>1, ConcatProperties
<1>3. DOMAIN s = 1 .. 1 + n
  BY <1>2
<1> HIDE DEF s, n
<1>4. s[1] = b
  BY <1>1, <1>2
<1>5. \A i \in 1 .. n : i + 1 \in 1 .. 1 + n /\ s[i + 1] = list[i]
  <2> TAKE i \in 1 .. n
  <2>1. i + 1 \in 1 .. 1 + n /\ ~(i + 1 <= 1) /\ (i + 1) - 1 = i
    BY <1>1
  <2> QED BY <1>2, <2>1
<1>6. \A i \in 1 .. 1 + n : i = 1 \/ i - 1 \in 1 .. n
  BY <1>1
<1>7. \A i \in 1 .. 1 + n : i # 1 => s[i] = list[i - 1]
  <2> TAKE i \in 1 .. 1 + n
  <2> HAVE i # 1
  <2>1. ~(i <= 1)
    BY <1>1
  <2> QED BY <1>2, <2>1
<1>8. ToSet(s) \subseteq {b} \cup ToSet(list)
  BY <1>1, <1>3, <1>4, <1>6, <1>7 DEF ToSet
<1>9. {b} \cup ToSet(list) \subseteq ToSet(s)
  <2>1. b \in ToSet(s)
    <3>1. 1 \in 1 .. 1 + n
      BY <1>1
    <3> QED BY <3>1, <1>3, <1>4 DEF ToSet
  <2>2. ToSet(list) \subseteq ToSet(s)
    BY <1>1, <1>3, <1>5 DEF ToSet
  <2> QED BY <2>1, <2>2
<1> QED BY <1>2, <1>8, <1>9 DEF s

LEMMA EmptyStack == <<>> \in Seq(OtomoAddr) /\ ToSet(<<>>) = {}
<1>1. DOMAIN <<>> = {}
  OBVIOUS
<1> QED BY <1>1 DEF ToSet

-----------------------------------------------------------------------------
\* Marking a block changes one word of the bitmap, and sets the bit of the tree if
\* this has filled the word.
LEMMA MarkKeeps ==
    ASSUME IInvOtomo, NEW b \in OtomoAddr \ leaf, leaf' = leaf \cup {b},
           tree' = tree \cup Filling(leaf', b)
    PROVE  Bitmaps'
<1> DEFINE w == b \div WordBits
<1>1. /\ b \in Nat /\ w \in 0 .. WordBits - 1 /\ w < Words /\ b \in WordOf(w)
  BY Blocks
<1>2. /\ Sentinel(BlockCounts) \subseteq leaf
      /\ leaf \subseteq OtomoAddr \cup Sentinel(BlockCounts)
      /\ tree \subseteq 0 .. WordBits - 1
      /\ \A k \in 0 .. WordBits - 1 : k \in tree <=> k >= Words \/ WordOf(k) \subseteq leaf
  BY DEF IInvOtomo, Bitmaps
<1>3. Filling(leaf', b) = IF WordOf(w) \subseteq leaf' THEN {w} ELSE {}
  BY DEF Filling
<1>4. ASSUME NEW k \in 0 .. WordBits - 1
      PROVE  k \in tree' <=> k >= Words \/ WordOf(k) \subseteq leaf'
  <2>1. CASE k = w
    <3>1. w \notin tree
      BY <1>1, FullWord DEF IInvOtomo
    <3>2. k \in tree' <=> WordOf(k) \subseteq leaf'
      BY <3>1, <2>1, <1>3
    <3>3. ~(k >= Words)
      BY <1>1, <2>1, Sizes
    <3> QED BY <3>2, <3>3
  <2>2. CASE k # w
    <3>1. b \notin WordOf(k)
      <4>1. k \in Nat
        BY Sizes
      <4> QED BY <4>1, <1>1, <2>2, InWord
    <3>2. WordOf(k) \subseteq leaf' <=> WordOf(k) \subseteq leaf
      BY <3>1
    <3>3. k \in tree' <=> k \in tree
      BY <2>2, <1>3
    <3> QED BY <3>2, <3>3, <1>2
  <2> QED BY <2>1, <2>2
<1>5. tree' \subseteq 0 .. WordBits - 1
  BY <1>1, <1>2, <1>3
<1> QED BY <1>2, <1>4, <1>5 DEF Bitmaps

\* A step of a collection that marks an object and takes another one, whose field
\* has led to it, or a root from what is left to do.
LEMMA MarkStep ==
    ASSUME IInvOtomo, mode = "trace", NEW p \in held \cup {Null}, NEW rest \in Seq(OtomoAddr),
           MarkBlock(p, rest), UNCHANGED <<mutator, held, cursor>>,
           ToSet(rest) \subseteq ToSet(marking_stack),
           \A a \in ToSet(marking_stack) \ ToSet(rest) : field[a] = p,
           unseen' \subseteq unseen, \A s \in unseen \ unseen' : slot[s] = p
    PROVE  GoodOtomo
<1>1. /\ UNCHANGED <<slot, field, barriered, request, mode, held, cursor>>
      /\ Roots' = Roots
  BY DEF mutator, Roots
<1>2. /\ held \subseteq OtomoAddr /\ leaf \cap OtomoAddr \subseteq held
      /\ ToSet(marking_stack) \subseteq held
      /\ \A b \in leaf \cap OtomoAddr : field[b] \in leaf \cup {Null} \/ b \in ToSet(marking_stack)
      /\ \A s \in Roots \ unseen : slot[s] \in leaf \cup {Null}
      /\ leaf \subseteq OtomoAddr \cup Sentinel(BlockCounts)
  BY DEF IInvOtomo, TypeOKOtomo, Traced, Bitmaps
<1>3. CASE p = Null \/ p \in leaf
  <2>1. marking_stack' = rest /\ leaf' = leaf /\ tree' = tree
    BY <1>3 DEF MarkBlock
  <2>2. Traced'
    BY <1>1, <1>2, <1>3, <2>1 DEF Traced
  <2>3. TypeOKOtomo' /\ Bitmaps' /\ ObjectsOtomo' /\ Behind' /\ StagesOtomo' /\ OverMeansInUse'
    BY <1>1, <2>1 DEF IInvOtomo, TypeOKOtomo, Bitmaps, ObjectsOtomo, Behind, StagesOtomo, OverMeansInUse
  <2> QED BY <2>2, <2>3, <1>1 DEF GoodOtomo, IInvOtomo
<1>4. CASE p # Null /\ p \notin leaf
  <2>1. /\ leaf' = leaf \cup {p} /\ tree' = tree \cup Filling(leaf', p)
        /\ marking_stack' = <<p>> \o rest
    BY <1>4 DEF MarkBlock
  <2>2. p \in OtomoAddr \ leaf /\ p \in held
    BY <1>2, <1>4
  <2>3. Bitmaps'
    BY <2>1, <2>2, MarkKeeps
  <2>4. marking_stack' \in Seq(OtomoAddr) /\ ToSet(marking_stack') = {p} \cup ToSet(rest)
    BY <2>1, <2>2, PushProperties
  <2>5. Traced'
    BY <1>1, <1>2, <2>1, <2>2, <2>4 DEF Traced
  <2>6. TypeOKOtomo' /\ ObjectsOtomo' /\ Behind' /\ StagesOtomo' /\ OverMeansInUse'
    BY <1>1, <2>4 DEF IInvOtomo, TypeOKOtomo, ObjectsOtomo, Behind, StagesOtomo, OverMeansInUse
  <2> QED BY <2>3, <2>5, <2>6, <1>1 DEF GoodOtomo, IInvOtomo
<1> QED BY <1>3, <1>4

\* The three ways in which the collector comes to an object.
LEMMA TraceStepOtomo ==
    ASSUME IInvOtomo, otomo_pop \/ otomo_mark_root \/ mark_all
    PROVE  GoodOtomo
<1>1. /\ marking_stack \in Seq(OtomoAddr) /\ unseen \subseteq Roots
      /\ \A b \in held : field[b] \in held \cup {Null}
      /\ \A s \in Slot : slot[s] \in held \cup {Null}
      /\ Roots \subseteq Slot
  BY DEF IInvOtomo, TypeOKOtomo, ObjectsOtomo, Roots, Slot
<1>2. CASE otomo_pop
  <2> DEFINE rest == Tail(marking_stack)
             p == field[Head(marking_stack)]
  <2>1. mode = "trace" /\ MarkBlock(p, rest) /\ marking_stack # <<>>
        /\ UNCHANGED <<mutator, held, cursor>> /\ unseen' = unseen
    BY <1>2 DEF otomo_pop
  <2>2. Head(marking_stack) \in held
    BY <1>1, <2>1, StackProperties DEF IInvOtomo, Traced
  <2>3. p \in held \cup {Null} /\ rest \in Seq(OtomoAddr)
        /\ ToSet(rest) \subseteq ToSet(marking_stack)
        /\ \A a \in ToSet(marking_stack) \ ToSet(rest) : field[a] = p
    BY <1>1, <2>1, <2>2, StackProperties
  <2> HIDE DEF p, rest
  <2> QED BY <2>1, <2>3, MarkStep
<1>3. CASE otomo_mark_root
  <2> DEFINE s == CHOOSE r \in unseen : TRUE
  <2>1. /\ mode = "trace" /\ MarkBlock(slot[s], marking_stack) /\ unseen' = unseen \ {s}
        /\ UNCHANGED <<mutator, held, cursor>> /\ s \in unseen
    BY <1>3 DEF otomo_mark_root
  <2> HIDE DEF s
  <2>2. slot[s] \in held \cup {Null} /\ \A r \in unseen \ unseen' : slot[r] = slot[s]
    BY <1>1, <2>1
  <2> QED BY <1>1, <2>1, <2>2, MarkStep
<1>4. CASE mark_all
  <2>1. PICK p \in held : MarkBlock(field[p], <<>>)
    BY <1>4 DEF mark_all
  <2>2. /\ mode = "trace" /\ unseen' = unseen /\ marking_stack = <<>>
        /\ UNCHANGED <<mutator, held, cursor>>
    BY <1>4 DEF mark_all
  <2>3. field[p] \in held \cup {Null}
    BY <1>1
  <2> QED BY <2>1, <2>2, <2>3, EmptyStack, MarkStep
<1> QED BY <1>2, <1>3, <1>4

-----------------------------------------------------------------------------
\* A step of the program that is no allocation: it assigns an object that can be
\* reached to a variable, or to the field of one.
LEMMA AssignKeeps ==
    ASSUME IInvOtomo, mode = "run", UNCHANGED <<request, mode, otomoVars>>,
           slot' \in [Slot -> held \cup {Null}], field' \in [OtomoAddr -> OtomoAddr \cup {Null}],
           \A b \in held : field'[b] \in held \cup {Null},
           barriered' \subseteq Global, barriered \subseteq barriered',
           \A g \in Global \ barriered' : slot'[g] = slot[g]
    PROVE  IInvOtomo'
<1>1. /\ held' = held /\ leaf' = leaf /\ tree' = tree /\ cursor' = cursor /\ mode' = "run"
      /\ marking_stack' = marking_stack /\ unseen' = unseen /\ request' = request
      /\ held \subseteq OtomoAddr /\ unseen = {}
  BY DEF otomoVars, IInvOtomo, TypeOKOtomo, StagesOtomo
<1>2. TypeOKOtomo'
  <2>1. slot' \in [Slot -> OtomoAddr \cup {Null}]
    BY <1>1
  <2> QED BY <2>1, <1>1 DEF IInvOtomo, TypeOKOtomo
<1>3. ObjectsOtomo'
  BY <1>1 DEF IInvOtomo, ObjectsOtomo
<1>4. Bitmaps' /\ Behind' /\ Traced' /\ StagesOtomo' /\ OverMeansInUse'
  BY <1>1 DEF IInvOtomo, Bitmaps, Behind, Traced, StagesOtomo, OverMeansInUse
<1> QED BY <1>2, <1>3, <1>4 DEF IInvOtomo

\* Steps of compiled code.
LEMMA CompiledStepOtomo ==
    ASSUME IInvOtomo, compiled_code, UNCHANGED otomoVars
    PROVE  GoodOtomo
<1>1. /\ mode = "run" /\ mode' = mode /\ barriered' = barriered /\ field' = field
      /\ UNCHANGED <<request, mode, otomoVars>>
  BY DEF compiled_code
<1>2. /\ slot \in [Slot -> held \cup {Null}] /\ held \subseteq OtomoAddr
      /\ field \in [OtomoAddr -> OtomoAddr \cup {Null}] /\ barriered \subseteq Global
      /\ \A b \in held : field[b] \in held \cup {Null}
      /\ Null \notin held
  BY Apart DEF IInvOtomo, TypeOKOtomo, ObjectsOtomo
<1>3. PICK s \in Var, p \in held \cup {Null} :
         /\ slot' = [slot EXCEPT ![s] = p]
         /\ \/ p = Null
            \/ \E t \in Slot : slot[t] # Null /\ (p = slot[t] \/ p = field[slot[t]])
  <2>1. PICK s, t \in Var : drop(s) \/ read(s, t) \/ \E g \in Global : copy(s, g)
    BY DEF compiled_code
  <2>2. CASE drop(s)
    BY <2>2 DEF drop
  <2>3. CASE read(s, t)
    <3>1. slot[t] \in held /\ t \in Slot /\ slot[t] # Null
      BY <2>3, <1>2 DEF read, Slot
    <3>2. field[slot[t]] \in held \cup {Null}
      BY <3>1, <1>2
    <3> QED BY <3>1, <3>2, <2>3 DEF read
  <2>4. ASSUME NEW g \in Global, copy(s, g)
        PROVE  \E p \in held \cup {Null} :
                   /\ slot' = [slot EXCEPT ![s] = p]
                   /\ \E t0 \in Slot : slot[t0] # Null /\ (p = slot[t0] \/ p = field[slot[t0]])
    <3>1. slot[g] \in held \cup {Null} /\ g \in Slot
      BY <1>2 DEF Slot
    <3> QED BY <3>1, <2>4 DEF copy
  <2> QED BY <2>1, <2>2, <2>3, <2>4
<1>4. /\ slot' \in [Slot -> held \cup {Null}] /\ s \in Slot /\ s \notin Global
      /\ \A r \in Slot : r # s => slot'[r] = slot[r]
  BY <1>2, <1>3, SlotAssumption DEF Slot
<1>5. \A g \in Global \ barriered' : slot'[g] = slot[g]
  BY <1>4 DEF Slot
<1>6. IInvOtomo'
  BY <1>1, <1>2, <1>4, <1>5, AssignKeeps
<1>7. GraphOtomo!Assign(s, p)
  BY <1>1, <1>3 DEF GraphOtomo!Assign, GraphOtomo!ObjectsKept
<1>8. GraphOtomo!Next
  <2>1. CASE p = Null
    BY <1>4, <1>7, <2>1 DEF GraphOtomo!Next, GraphOtomo!Drop
  <2>2. CASE p # Null
    <3>1. PICK t \in Slot : slot[t] # Null /\ (p = slot[t] \/ p = field[slot[t]])
      BY <1>3, <2>2
    <3> QED BY <3>1, <1>4, <1>7 DEF GraphOtomo!Next, GraphOtomo!Copy, GraphOtomo!Read
  <2> QED BY <2>1, <2>2
<1> QED BY <1>6, <1>8 DEF GoodOtomo

\* sml_write.
LEMMA WriteStepOtomo ==
    ASSUME IInvOtomo, NEW s \in Slot, NEW t \in Var, otomo_write(s, t)
    PROVE  GoodOtomo
<1>1. mode = "run" /\ UNCHANGED <<request, mode, otomoVars>> /\ t \in Slot
  BY DEF otomo_write, Slot
<1>2. /\ slot \in [Slot -> held \cup {Null}] /\ held \subseteq OtomoAddr
      /\ field \in [OtomoAddr -> OtomoAddr \cup {Null}] /\ barriered \subseteq Global
      /\ \A b \in held : field[b] \in held \cup {Null}
      /\ GraphOtomo!Reachable \subseteq held
  BY ReachableHeld DEF IInvOtomo, TypeOKOtomo, ObjectsOtomo
<1>3. CASE s \in Global
  <2>1. /\ slot' = [slot EXCEPT ![s] = slot[t]] /\ barriered' = barriered \cup {s}
        /\ field' = field
    BY <1>3 DEF otomo_write
  <2>2. /\ slot' \in [Slot -> held \cup {Null}]
        /\ \A g \in Global \ barriered' : slot'[g] = slot[g]
    BY <1>1, <1>2, <2>1 DEF Slot
  <2>3. IInvOtomo'
    BY <1>1, <1>2, <1>3, <2>1, <2>2, AssignKeeps
  <2>4. GraphOtomo!Copy(s, t)
    BY <2>1 DEF GraphOtomo!Copy, GraphOtomo!Assign, GraphOtomo!ObjectsKept
  <2> QED BY <1>1, <2>3, <2>4 DEF GoodOtomo, GraphOtomo!Next
<1>4. CASE s \notin Global
  <2>1. /\ slot[s] # Null /\ field' = [field EXCEPT ![slot[s]] = slot[t]]
        /\ slot' = slot /\ barriered' = barriered
    BY <1>4 DEF otomo_write
  <2>2. slot[s] \in held /\ slot[s] \in OtomoAddr /\ slot[t] \in held \cup {Null}
    BY <1>1, <1>2, <2>1
  <2>3. /\ field' \in [OtomoAddr -> OtomoAddr \cup {Null}]
        /\ \A a \in OtomoAddr : field'[a] = IF a = slot[s] THEN slot[t] ELSE field[a]
    BY <1>2, <2>1, <2>2
  <2>4. \A b \in held : field'[b] \in held \cup {Null}
    BY <1>2, <2>2, <2>3
  <2>5. IInvOtomo'
    BY <1>1, <1>2, <2>1, <2>3, <2>4, AssignKeeps
  <2>6. GraphOtomo!Write(s, t)
    BY <1>2, <2>1, <2>3 DEF GraphOtomo!Write
  <2> QED BY <1>1, <2>5, <2>6 DEF GoodOtomo, GraphOtomo!Next
<1> QED BY <1>3, <1>4

\* The block for a new object is free: an object behind the cursor has survived the
\* last collection, and its bit is set.
LEMMA NextIsNew ==
    ASSUME IInvOtomo, mode # "trace", NEW b \in NextBlock
    PROVE  b \in OtomoAddr \ held /\ cursor <= b
<1>1. b \in OtomoAddr \ leaf /\ cursor <= b
  BY NextIsFree DEF IInvOtomo, TypeOKOtomo
<1> QED BY <1>1 DEF IInvOtomo, Behind

\* An object is allocated, at once or after a collection.
LEMMA AllocStepOtomo ==
    ASSUME IInvOtomo, mode \in {"run", "retry"}, NEW r \in Var \X Var, heap_alloc(r)
    PROVE  GoodOtomo
<1> DEFINE s == r[1]
           t == r[2]
<1>1. PICK b \in NextBlock :
         Initialise(b, s, t) /\ held' = held \cup {b} /\ cursor' = b + 1
  BY DEF heap_alloc
<1>2. /\ barriered' = barriered /\ leaf' = leaf /\ tree' = tree
      /\ marking_stack' = marking_stack /\ unseen' = unseen
  BY DEF heap_alloc
<1>3. b \in OtomoAddr \ held /\ cursor <= b
  BY NextIsNew
<1>4. /\ slot \in [Slot -> held \cup {Null}] /\ held \subseteq OtomoAddr
      /\ field \in [OtomoAddr -> OtomoAddr \cup {Null}] /\ barriered \subseteq Global
      /\ \A a \in held : field[a] \in held \cup {Null} /\ (cursor <= a => a \in leaf)
      /\ \A g \in Global \ barriered : slot[g] = Null
      /\ marking_stack = <<>> /\ unseen = {} /\ cursor \in Nat
      /\ s \in Slot /\ t \in Slot /\ s \notin Global
      /\ GraphOtomo!Reachable \subseteq held
  BY ReachableHeld, SlotAssumption, Apart DEF IInvOtomo, TypeOKOtomo, ObjectsOtomo, Behind, StagesOtomo, Slot
<1>5. /\ field' = [field EXCEPT ![b] = slot[t]] /\ slot' = [slot EXCEPT ![s] = b]
      /\ request' = <<>> /\ mode' = "run"
  BY <1>1 DEF Initialise
<1>6. slot[t] \in held \cup {Null}
  BY <1>4
<1>7. /\ slot' \in [Slot -> held' \cup {Null}]
      /\ \A x \in Slot : x # s => slot'[x] = slot[x]
      /\ field' \in [OtomoAddr -> OtomoAddr \cup {Null}]
      /\ field'[b] = slot[t] /\ \A a \in OtomoAddr : a # b => field'[a] = field[a]
  <2> HIDE DEF s, t
  <2> QED BY <1>1, <1>3, <1>4, <1>5, <1>6
<1>8. TypeOKOtomo'
  <2>1. cursor' \in 0 .. BlockCounts
    BY <1>1, <1>3, Apart
  <2>2. held' \subseteq OtomoAddr /\ Roots' = Roots
    BY <1>1, <1>2, <1>3, <1>4 DEF Roots
  <2> QED BY <2>1, <2>2, <1>2, <1>5, <1>7 DEF IInvOtomo, TypeOKOtomo
<1>9. ObjectsOtomo'
  <2>1. \A g \in Global \ barriered' : slot'[g] = Null
    BY <1>2, <1>4, <1>7 DEF Slot
  <2>2. \A a \in held' : field'[a] \in held' \cup {Null}
    BY <1>1, <1>3, <1>4, <1>6, <1>7
  <2> QED BY <2>1, <2>2, <1>7 DEF ObjectsOtomo
<1>10. Behind'
  <2>1. ASSUME NEW a \in held', b + 1 <= a PROVE a \in leaf
    <3>1. a \in Nat /\ b \in Nat
      BY <1>1, <1>3, <1>4, Blocks
    <3>2. a # b /\ cursor <= a
      BY <3>1, <2>1, <1>3, <1>4
    <3> QED BY <3>2, <1>1, <1>4
  <2> QED BY <2>1, <1>1, <1>2 DEF Behind
<1>11. Bitmaps' /\ Traced' /\ StagesOtomo' /\ OverMeansInUse'
  BY <1>2, <1>4, <1>5 DEF IInvOtomo, Bitmaps, Traced, StagesOtomo, OverMeansInUse
<1>12. GraphOtomo!New(s, t)
  <2>1. b \in OtomoAddr \ GraphOtomo!Reachable
    BY <1>3, <1>4
  <2>2. GraphOtomo!ObjectsKept
    BY <1>3, <1>4, <1>7 DEF GraphOtomo!ObjectsKept
  <2> HIDE DEF s, t
  <2> QED BY <2>1, <2>2, <1>5, <1>7 DEF GraphOtomo!New
<1> HIDE DEF s, t
<1>13. GraphOtomo!Next
  BY <1>4, <1>12 DEF GraphOtomo!Next
<1> QED BY <1>8, <1>9, <1>10, <1>11, <1>13 DEF GoodOtomo, IInvOtomo

-----------------------------------------------------------------------------
\* A collection starts.
LEMMA ClearStep ==
    ASSUME IInvOtomo, mode = "run", NEW r \in (Var \X Var) \cup {<<>>}, Clear(r)
    PROVE  GoodOtomo
<1>1. /\ request' = r /\ mode' = "trace" /\ bitmap_clear /\ unseen' = Roots
      /\ cursor' = 0 /\ UNCHANGED <<slot, field, barriered, held, marking_stack>>
  BY DEF Clear, bitmap_clear
<1>2. Bitmaps' /\ leaf' \cap OtomoAddr = {}
  BY <1>1, ClearKeeps
<1>3. marking_stack = <<>> /\ Roots' = Roots
  BY <1>1 DEF IInvOtomo, StagesOtomo, Roots
<1>4. TypeOKOtomo'
  BY <1>1, <1>3, Apart DEF IInvOtomo, TypeOKOtomo
<1>5. Traced'
  BY <1>1, <1>2, <1>3, EmptyStack DEF Traced
<1>6. ObjectsOtomo' /\ Behind' /\ StagesOtomo' /\ OverMeansInUse'
  BY <1>1 DEF IInvOtomo, ObjectsOtomo, Behind, StagesOtomo, OverMeansInUse
<1> QED BY <1>1, <1>2, <1>4, <1>5, <1>6 DEF GoodOtomo, IInvOtomo

\* A collection ends: whatever the program reaches has been marked.
LEMMA EndStep ==
    ASSUME IInvOtomo, otomo_end
    PROVE  GoodOtomo
<1>1. /\ mode = "trace" /\ unseen = {} /\ marking_stack = <<>> /\ held' = held \cap leaf
      /\ field' = [b \in OtomoAddr |-> IF b \in leaf THEN field[b] ELSE Null]
      /\ mode' = IF request = <<>> THEN "run" ELSE "retry"
      /\ UNCHANGED <<slot, barriered, request, leaf, tree, cursor, marking_stack, unseen>>
  BY DEF otomo_end
<1>2. /\ slot \in [Slot -> held \cup {Null}] /\ held \subseteq OtomoAddr
      /\ field \in [OtomoAddr -> OtomoAddr \cup {Null}]
      /\ \A a \in held : field[a] \in held \cup {Null}
      /\ \A g \in Global \ barriered : slot[g] = Null
      /\ \A b \in leaf \cap OtomoAddr : field[b] \in leaf \cup {Null}
      /\ \A s \in Roots : slot[s] \in leaf \cup {Null}
      /\ cursor = 0
  BY <1>1, EmptyStack DEF IInvOtomo, TypeOKOtomo, ObjectsOtomo, Traced, StagesOtomo
<1>3. \A s \in Slot : slot[s] \in held' \cup {Null}
  BY <1>1, <1>2 DEF Roots, Slot
<1>4. \A a \in held' : field[a] \in held' \cup {Null} /\ field'[a] = field[a]
  BY <1>1, <1>2
<1>5. GraphOtomo!Reachable \subseteq held'
  <2>1. held' \subseteq OtomoAddr /\ GraphOtomo!Closed(held')
    BY <1>1, <1>2, <1>3, <1>4 DEF GraphOtomo!Closed
  <2> QED BY <2>1 DEF GraphOtomo!Reachable
<1>6. IInvOtomo'
  <2>1. TypeOKOtomo'
    <3>1. field' \in [OtomoAddr -> OtomoAddr \cup {Null}]
      BY <1>1, <1>2
    <3>2. Roots' = Roots
      BY <1>1 DEF Roots
    <3> QED BY <3>1, <3>2, <1>1, <1>2 DEF IInvOtomo, TypeOKOtomo
  <2>2. ObjectsOtomo'
    BY <1>1, <1>2, <1>3, <1>4 DEF ObjectsOtomo
  <2>3. Behind' /\ Traced' /\ StagesOtomo' /\ OverMeansInUse'
    BY <1>1, <1>2 DEF Behind, Traced, StagesOtomo, OverMeansInUse
  <2>4. Bitmaps'
    BY <1>1 DEF IInvOtomo, Bitmaps
  <2> QED BY <2>1, <2>2, <2>3, <2>4 DEF IInvOtomo
<1>7. GraphOtomo!Move
  <2> DEFINE m == [a \in GraphOtomo!Reachable |-> a]
             to(x) == IF x = Null THEN Null ELSE m[x]
  <2>1. \A x \in GraphOtomo!Reachable \cup {Null} : to(x) = x
    OBVIOUS
  <2>2. m \in [GraphOtomo!Reachable -> OtomoAddr] /\ \A a \in GraphOtomo!Reachable : m[a] = a
    BY ReachableHeld
  <2>3. /\ \A s \in Slot : slot[s] \in GraphOtomo!Reachable \cup {Null}
        /\ \A a \in GraphOtomo!Reachable : field[a] \in GraphOtomo!Reachable \cup {Null}
    BY ReachableClosedOtomo DEF GraphOtomo!Closed
  <2> HIDE DEF m
  <2>4. \A s \in Slot : to(slot[s]) = slot[s]
    BY <2>1, <2>3
  <2>5. slot' = [s \in Slot |-> to(slot[s])]
    BY <1>1, <1>2, <2>4
  <2>6. ASSUME NEW a \in GraphOtomo!Reachable PROVE field'[m[a]] = to(field[a])
    <3>1. m[a] = a /\ field'[a] = field[a]
      BY <1>4, <1>5, <2>2
    <3>2. to(field[a]) = field[a]
      BY <2>1, <2>3
    <3> HIDE DEF to
    <3> QED BY <3>1, <3>2
  <2>7. \A a, b \in GraphOtomo!Reachable : m[a] = m[b] => a = b
    BY <2>2
  <2> QED BY <2>2, <2>5, <2>6, <2>7 DEF GraphOtomo!Move
<1> QED BY <1>6, <1>7 DEF GoodOtomo, GraphOtomo!Next

\* A collection has not helped.
LEMMA OverStep ==
    ASSUME IInvOtomo, mode = "retry", NextBlock = {}, mode' = "over",
           UNCHANGED <<slot, field, barriered, request, otomoVars>>
    PROVE  GoodOtomo
<1>1. OtomoAddr \subseteq leaf
  BY NothingFound DEF IInvOtomo, StagesOtomo
<1>2. /\ leaf' = leaf /\ held' = held /\ tree' = tree /\ cursor' = cursor
      /\ marking_stack' = marking_stack /\ unseen' = unseen /\ Roots' = Roots
  BY DEF otomoVars, Roots
<1>3. TypeOKOtomo' /\ ObjectsOtomo' /\ Bitmaps'
  BY <1>2 DEF IInvOtomo, TypeOKOtomo, ObjectsOtomo, Bitmaps
<1>4. Behind' /\ Traced' /\ StagesOtomo' /\ OverMeansInUse'
  BY <1>1, <1>2 DEF IInvOtomo, Behind, Traced, StagesOtomo, OverMeansInUse
<1> QED BY <1>3, <1>4 DEF GoodOtomo, IInvOtomo

-----------------------------------------------------------------------------
\* The invariant holds at the start, where the program has no objects.
LEMMA InitGoodOtomo == InitOtomo => IInvOtomo /\ GraphOtomo!Init
<1> SUFFICES ASSUME InitOtomo PROVE IInvOtomo /\ GraphOtomo!Init
  OBVIOUS
<1> USE DEF InitOtomo, MutatorInit, OtomoInit
<1>1. slot = [s \in Slot |-> Null] /\ field = [b \in OtomoAddr |-> Null]
  BY DEF Slot
<1>2. TypeOKOtomo
  BY <1>1, Apart, EmptyStack DEF TypeOKOtomo
<1>3. Bitmaps
  <2>1. leaf = Sentinel(BlockCounts) /\ tree = Words .. WordBits - 1
    BY Sizes DEF Words
  <2>2. ASSUME NEW k \in 0 .. WordBits - 1, k < Words
        PROVE  ~(WordOf(k) \subseteq leaf)
    BY <2>1, <2>2, WordNotFull
  <2>3. \A k \in 0 .. WordBits - 1 : k \in tree <=> k >= Words
    BY <2>1, Sizes
  <2>4. \A k \in 0 .. WordBits - 1 : k >= Words \/ k < Words
    BY Sizes
  <2>5. tree \subseteq 0 .. WordBits - 1
    BY <2>1, Sizes
  <2> QED BY <2>1, <2>2, <2>3, <2>4, <2>5 DEF Bitmaps
<1>4. ObjectsOtomo /\ Behind /\ Traced /\ StagesOtomo /\ OverMeansInUse
  BY <1>1 DEF ObjectsOtomo, Behind, Traced, StagesOtomo, OverMeansInUse, Slot
<1> QED BY <1>1, <1>2, <1>3, <1>4 DEF IInvOtomo, GraphOtomo!Init

\* Every step keeps the invariant and is a step of the graph.
LEMMA StepGoodOtomo == IInvOtomo /\ [OtomoNext]_varsOtomo => GoodOtomo
<1> SUFFICES ASSUME IInvOtomo, [OtomoNext]_varsOtomo PROVE GoodOtomo
  OBVIOUS
<1>1. CASE UNCHANGED varsOtomo
  <2>1. /\ slot' = slot /\ field' = field /\ barriered' = barriered /\ request' = request
        /\ mode' = mode /\ held' = held /\ leaf' = leaf /\ tree' = tree /\ cursor' = cursor
        /\ marking_stack' = marking_stack /\ unseen' = unseen /\ Roots' = Roots
    BY <1>1 DEF varsOtomo, mutator, otomoVars, Roots
  <2>2. TypeOKOtomo' /\ Bitmaps' /\ ObjectsOtomo' /\ Behind'
    BY <2>1 DEF IInvOtomo, TypeOKOtomo, Bitmaps, ObjectsOtomo, Behind
  <2>3. Traced' /\ StagesOtomo' /\ OverMeansInUse'
    BY <2>1 DEF IInvOtomo, Traced, StagesOtomo, OverMeansInUse
  <2> QED BY <2>1, <2>2, <2>3 DEF GoodOtomo, IInvOtomo
<1>2. CASE compiled_code /\ UNCHANGED otomoVars
  BY <1>2, CompiledStepOtomo
<1>3. ASSUME NEW s \in Slot, NEW t \in Var, otomo_write(s, t)
      PROVE  GoodOtomo
  BY <1>3, WriteStepOtomo
<1>4. ASSUME NEW s \in Var, NEW t \in Var, otomo_alloc(s, t)
      PROVE  GoodOtomo
  <2>1. mode = "run" /\ <<s, t>> \in Var \X Var
    BY <1>4 DEF otomo_alloc
  <2>2. CASE heap_alloc(<<s, t>>)
    BY <2>1, <2>2, AllocStepOtomo
  <2>3. CASE Clear(<<s, t>>)
    BY <2>1, <2>3, ClearStep
  <2> QED BY <1>4, <2>2, <2>3 DEF otomo_alloc
<1>5. CASE otomo_gc
  BY <1>5, ClearStep DEF otomo_gc
<1>6. CASE otomo_retry
  <2>1. mode = "retry" /\ request \in Var \X Var
    BY <1>6 DEF otomo_retry, IInvOtomo, TypeOKOtomo, StagesOtomo
  <2>2. CASE heap_alloc(request)
    BY <2>1, <2>2, AllocStepOtomo
  <2>3. CASE ~heap_alloc(request)
    <3>1. NextBlock = {} /\ mode' = "over" /\ UNCHANGED <<slot, field, barriered, request, otomoVars>>
      BY <1>6, <2>3 DEF otomo_retry
    <3> QED BY <2>1, <3>1, OverStep
  <2> QED BY <2>2, <2>3
<1> QED BY <1>1, <1>2, <1>3, <1>4, <1>5, <1>6, TraceStepOtomo, EndStep DEF OtomoNext, Slot

\* The invariant: among other things, a bit of the tree says that a word of the
\* bitmap is full, and what a marked object refers to is marked or in the stack.
THEOREM OtomoInvariant == SpecOtomo => []IInvOtomo
<1>1. InitOtomo => IInvOtomo
  BY InitGoodOtomo
<1>2. IInvOtomo /\ [OtomoNext]_varsOtomo => IInvOtomo'
  BY StepGoodOtomo DEF GoodOtomo
<1> QED BY <1>1, <1>2, PTL DEF SpecOtomo

\* HEAP_FAST_ALLOC and search_bitptr find a block of the heap that has no object.
THEOREM OtomoFindsFree == SpecOtomo => []FoundIsFree
<1>1. IInvOtomo => FoundIsFree
  BY NextIsNew DEF FoundIsFree
<1> QED BY <1>1, OtomoInvariant, PTL

\* "heap exceeded" is said only after a search that has found every block in use.
THEOREM OtomoOverMeansFull == SpecOtomo => []OverMeansInUse
<1>1. IInvOtomo => OverMeansInUse
  BY DEF IInvOtomo
<1> QED BY <1>1, OtomoInvariant, PTL

\* What the program sees of its heap changes by what the program does, never by a
\* step of a collection, and no new object takes the block of one that it reaches.
THEOREM OtomoKeepsGraph == SpecOtomo => GraphOtomo!Spec
<1>1. InitOtomo => GraphOtomo!Init
  BY InitGoodOtomo
<1>2. IInvOtomo /\ [OtomoNext]_varsOtomo => [GraphOtomo!Next]_<<slot, field>>
  BY StepGoodOtomo DEF GoodOtomo
<1> QED BY <1>1, <1>2, OtomoInvariant, PTL DEF SpecOtomo, GraphOtomo!Spec

=============================================================================
