--------------------------- MODULE SegmentsProofs ---------------------------
(***************************************************************************)
(* The invariant of SegmentsInv is kept by every step of module Segments,  *)
(* and what follows from it.  The first lemmas, up to FindFirst, are about *)
(* module Bitmap: find_bitmap finds the first free block at or after the   *)
(* one it is asked for, or that there is none, for bitmaps of any length   *)
(* and words of any size, when the two levels agree.                       *)
(***************************************************************************)
EXTENDS SegmentsInv, WellFoundedInduction, FiniteSetTheorems, TLAPS

\* A set of naturals that is not empty has a minimum.
LEMMA MinOf ==
    ASSUME NEW S \in SUBSET Nat, S # {}
    PROVE  Min(S) \in S /\ \A x \in S : Min(S) <= x
<1>1. PICK x \in S : \A y \in S : ~(<<y, x>> \in OpToRel(<, Nat))
  BY NatLessThanWellFounded, WFMin
<1>2. \A y \in S : ~(y < x)
  BY <1>1 DEF OpToRel
<1>3. \A y \in S : x <= y
  BY <1>2
<1> QED BY <1>3 DEF Min

\* ... and it is the minimum of any part that has all that is below.
LEMMA MinOfPart ==
    ASSUME NEW S \in SUBSET Nat, NEW T \in SUBSET S, T # {},
           \A x \in S \ T, y \in T : y <= x
    PROVE  Min(T) = Min(S)
<1>1. Min(S) \in S /\ \A x \in S : Min(S) <= x
  BY MinOf
<1>2. Min(T) \in T /\ \A x \in T : Min(T) <= x
  BY MinOf
<1>3. Min(S) \in Nat /\ Min(T) \in Nat /\ Min(S) <= Min(T)
  BY <1>1, <1>2
<1>4. Min(T) <= Min(S)
  BY <1>1, <1>2
<1> QED BY <1>3, <1>4

\* Division by the number of bits of a word.
LEMMA Euclid ==
    ASSUME NEW k \in Nat, NEW w \in Nat \ {0}
    PROVE  /\ k \div w \in Nat
           /\ (k \div w) * w <= k
           /\ k < (k \div w) * w + w
           /\ k % w = k - (k \div w) * w
OBVIOUS

\* Words do not overlap: what is in word i is below what is in word j.
LEMMA WordOrder ==
    ASSUME NEW i \in Nat, NEW j \in Nat, i < j, NEW w \in Nat \ {0}
    PROVE  i * w + w <= j * w
<1>1. i + 1 <= j
  OBVIOUS
<1>2. (i + 1) * w <= j * w
  BY <1>1
<1>3. (i + 1) * w = i * w + w
  OBVIOUS
<1> QED BY <1>2, <1>3

\* A word is divided by w into its index.
LEMMA WordOf ==
    ASSUME NEW j \in Nat, NEW w \in Nat \ {0}, NEW x \in j * w .. j * w + w - 1
    PROVE  x \in Nat /\ x \div w = j
<1>1. j * w \in Nat
  OBVIOUS
<1>2. x \in Nat
  BY <1>1
<1>3. x \div w \in Nat /\ (x \div w) * w <= x /\ x < (x \div w) * w + w
  BY <1>2, Euclid
<1>4. ~(x \div w < j)
  BY <1>1, <1>2, <1>3, WordOrder
<1>5. ~(j < x \div w)
  BY <1>1, <1>2, <1>3, WordOrder
<1> QED BY <1>2, <1>3, <1>4, <1>5

\* The number of words, with room for a sentinel bit.
LEMMA Sizes ==
    ASSUME NEW n \in Nat, WordBits \in Nat \ {0}
    PROVE  /\ Words(n) = n \div WordBits + 1 /\ Words(n) \in Nat \ {0}
           /\ BitsFor(n) = Words(n) * WordBits
           /\ BitsFor(n) \in Nat /\ n < BitsFor(n)
<1> DEFINE W == WordBits
           q == n \div W
<1>1. q \in Nat /\ q * W <= n /\ n < q * W + W
  BY Euclid
<1>2. q + 1 \in Nat /\ (q + 1) * W = q * W + W /\ q * W \in Nat
  BY <1>1
<1>3. n + W \in (q + 1) * W .. (q + 1) * W + W - 1
  BY <1>1, <1>2
<1>4. (n + W) \div W = q + 1
  BY <1>2, <1>3, WordOf
<1>5. BitsFor(n) = (q + 1) * W
  <2>1. n + 1 + W - 1 = n + W
    OBVIOUS
  <2> QED BY <2>1, <1>4 DEF BitsFor, Ceiling
<1>6. (q + 1) * W \in (q + 1) * W .. (q + 1) * W + W - 1
  BY <1>2
<1>7. ((q + 1) * W) \div W = q + 1
  BY <1>2, <1>6, WordOf
<1>8. Words(n) = q + 1
  BY <1>5, <1>7 DEF Words
<1> QED BY <1>1, <1>2, <1>5, <1>8

\* The bits of the word of bit k, from k on.
LEMMA ZerosOf ==
    ASSUME NEW k \in Nat, WordBits \in Nat \ {0}, NEW bits
    PROVE  \A x : x \in Zeros(bits, k) <=>
                 x \in Nat /\ k <= x /\ x \div WordBits = k \div WordBits /\ x \notin bits
<1> DEFINE W == WordBits
           q == k \div W
<1>1. q \in Nat /\ q * W <= k /\ k < q * W + W /\ q * W \in Nat
  BY Euclid
<1>2. SUFFICES ASSUME NEW x
               PROVE x \in k .. q * W + W - 1 <=> x \in Nat /\ k <= x /\ x \div W = q
  BY <1>2 DEF Zeros
<1>3. ASSUME x \in k .. q * W + W - 1
      PROVE  x \in Nat /\ k <= x /\ x \div W = q
  <2>1. x \in q * W .. q * W + W - 1 /\ k <= x
    BY <1>1, <1>3
  <2> QED BY <2>1, <1>1, WordOf
<1>4. ASSUME x \in Nat, k <= x, x \div W = q
      PROVE  x \in k .. q * W + W - 1
  <2>1. x < (x \div W) * W + W
    BY <1>4, Euclid
  <2>2. x < q * W + W
    BY <2>1, <1>4
  <2> QED BY <2>2, <1>1, <1>4
<1> QED BY <1>3, <1>4

\* All bits of the word with index j.
LEMMA ZerosOfWord ==
    ASSUME NEW j \in Nat, WordBits \in Nat \ {0}, NEW bits
    PROVE  \A x : x \in Zeros(bits, j * WordBits) <=>
                 x \in Nat /\ x \div WordBits = j /\ x \notin bits
<1> DEFINE W == WordBits
<1>1. j * W \in Nat /\ j * W \in j * W .. j * W + W - 1
  OBVIOUS
<1>2. (j * W) \div W = j
  BY <1>1, WordOf
<1>3. \A x \in Nat : x \div W = j => j * W <= x
  BY Euclid
<1> QED BY <1>1, <1>2, <1>3, ZerosOf

\* A later block is in the same word or in a later one.
LEMMA WordMonotone ==
    ASSUME NEW x \in Nat, NEW y \in Nat, NEW w \in Nat \ {0}
    PROVE  /\ x <= y => x \div w <= y \div w
           /\ x \div w < y \div w => x < y
<1>1. /\ x \div w \in Nat /\ (x \div w) * w <= x /\ x < (x \div w) * w + w
      /\ y \div w \in Nat /\ (y \div w) * w <= y /\ y < (y \div w) * w + w
  BY Euclid
<1>2. ASSUME x \div w < y \div w PROVE x < y
  <2>1. (x \div w) * w + w <= (y \div w) * w
    BY <1>1, <1>2, WordOrder
  <2>2. (x \div w) * w \in Nat /\ (y \div w) * w \in Nat
    BY <1>1
  <2> QED BY <2>1, <2>2, <1>1
<1>3. ASSUME y \div w < x \div w PROVE y < x
  <2>1. (y \div w) * w + w <= (x \div w) * w
    BY <1>1, <1>3, WordOrder
  <2>2. (x \div w) * w \in Nat /\ (y \div w) * w \in Nat
    BY <1>1
  <2> QED BY <2>1, <2>2, <1>1
<1> QED BY <1>1, <1>2, <1>3

\* The bits of bitmap[0] that are clear are those of the free blocks.
LEMMA FreeBits ==
    ASSUME NEW n \in Nat \ {0}, WordBits \in Nat \ {0}, NEW used, NEW x \in Nat
    PROVE  x \div WordBits < Words(n) =>
              (x \notin Level0(n, used) <=> x < n /\ x \notin used)
<1> DEFINE W == WordBits
           m == Words(n)
<1>1. ASSUME x \div W < m PROVE x < BitsFor(n)
  <2>1. x \div W \in Nat /\ m \in Nat /\ BitsFor(n) = m * W /\ m * W \in Nat
    BY Sizes, Euclid
  <2>2. (x \div W) * W + W <= m * W
    BY <1>1, <2>1, WordOrder
  <2>3. x < (x \div W) * W + W /\ (x \div W) * W \in Nat
    BY <2>1, Euclid
  <2> QED BY <2>1, <2>2, <2>3
<1>2. BitsFor(n) \in Nat /\ n < BitsFor(n)
  BY Sizes
<1>3. x \in Level0(n, used) <=> x \in used \/ x \in n .. BitsFor(n) - 1
  BY DEF Level0, Sentinel
<1> QED BY <1>1, <1>2, <1>3

\* No word of a segment without used blocks is taken for filled, so init_segment
\* leaves bitmap[1] as copy_collect_bitmap would.
LEMMA NewIsCopied ==
    ASSUME NEW n \in Nat \ {0}, WordBits \in Nat \ {0}, n % WordBits # 0
    PROVE  Level1New(n) = Level1(n, {})
<1> DEFINE W == WordBits
<1> SUFFICES ASSUME NEW j \in 0 .. Words(n) - 1, Zeros(Level0(n, {}), j * W) = {}
             PROVE  FALSE
  BY DEF Level1New, Level1, FilledWords
<1>1. j \in Nat /\ Words(n) = n \div W + 1 /\ n \div W \in Nat
  <2>1. n \in Nat /\ Words(n) = n \div W + 1 /\ Words(n) \in Nat
    BY Sizes
  <2> QED BY <2>1, Euclid
<1>2. j * W \in Nat /\ (n \div W) * W \in Nat /\ j * W \in j * W .. j * W + W - 1
  BY <1>1
<1>3. (j * W) \div W = j
  BY <1>1, <1>2, WordOf
<1>4. j * W < n
  <2>1. (n \div W) * W <= n /\ n % W = n - (n \div W) * W
    BY Euclid
  <2>2. (n \div W) * W < n
    BY <2>1, <1>2
  <2>3. CASE j = n \div W
    BY <2>2, <2>3
  <2>4. CASE j < n \div W
    <3>1. j * W + W <= (n \div W) * W
      BY <2>4, <1>1, WordOrder
    <3> QED BY <3>1, <2>2, <1>2
  <2> QED BY <2>3, <2>4, <1>1
<1>5. j * W \notin Level0(n, {})
  BY <1>1, <1>2, <1>3, <1>4, FreeBits
<1>6. j * W \in Zeros(Level0(n, {}), j * W)
  BY <1>1, <1>2, <1>3, <1>5, ZerosOfWord
<1> QED BY <1>6

\* find_bitmap finds the first free block at or after block k, or none when there
\* is none, for every number of blocks and bits of a word, whatever is used.
LEMMA FindFirst ==
    ASSUME NEW n \in Nat \ {0}, WordBits \in Nat \ {0}, NEW used, NEW k \in 0 .. n
    PROVE  find_bitmap(n, Level0(n, used), Level1(n, used), k) = FirstFree(n, used, k)
<1> DEFINE W == WordBits
           m == Words(n)
           b0 == Level0(n, used)
           b1 == Level1(n, used)
           up == k \div W + 1
           here == Zeros(b0, k)
           near == Zeros(b1, up)
           far == ((up \div W + 1) * W .. BitsFor(m) - 1) \ b1
           word == IF near # {} THEN Min(near) ELSE IF far # {} THEN Min(far) ELSE NotFound
           below == Zeros(b0, word * W)
           free == (k .. n - 1) \ used
           words == {j \in up .. m - 1 : Zeros(b0, j * W) # {}}
<1>1. /\ k \in Nat /\ n \in Nat /\ m \in Nat \ {0} /\ m = n \div W + 1
      /\ k \div W \in Nat /\ k \div W < m /\ up \in Nat \ {0} /\ up <= m
  <2>1. n \in Nat /\ m = n \div W + 1 /\ m \in Nat \ {0}
    BY Sizes
  <2>2. k \in Nat /\ k <= n
    OBVIOUS
  <2>3. k \div W \in Nat /\ n \div W \in Nat /\ k \div W <= n \div W
    BY <2>1, <2>2, Euclid, WordMonotone
  <2> HIDE DEF m
  <2> QED BY <2>1, <2>2, <2>3
<1>2. \A x \in Nat : x \div W < m => (x \notin b0 <=> x < n /\ x \notin used)
  BY FreeBits
<1>3. \A x \in Nat : x < n => x \div W < m /\ x \div W \in Nat
  <2> SUFFICES ASSUME NEW x \in Nat, x < n PROVE x \div W < m /\ x \div W \in Nat
    OBVIOUS
  <2> HIDE DEF m
  <2>1. x \div W \in Nat /\ n \div W \in Nat /\ x \div W <= n \div W
    <3>1. x <= n /\ n \in Nat
      BY <1>1
    <3> QED BY <3>1, Euclid, WordMonotone
  <2> QED BY <1>1, <2>1
<1>4. free \in SUBSET Nat /\ \A x : x \in free <=> x \in Nat /\ k <= x /\ x < n /\ x \notin used
  BY <1>1
<1>5. \A x : x \in here <=> x \in free /\ x \div W = k \div W
  <2>1. \A x : x \in here <=> x \in Nat /\ k <= x /\ x \div W = k \div W /\ x \notin b0
    BY <1>1, ZerosOf
  <2> HIDE DEF here, free, b0, m
  <2> QED BY <2>1, <1>1, <1>2, <1>4
<1>6. \A j \in Nat : j < m =>
        \A x : x \in Zeros(b0, j * W) <=>
                x \in Nat /\ x < n /\ x \notin used /\ x \div W = j
  <2> SUFFICES ASSUME NEW j \in Nat, j < m, NEW x
               PROVE  x \in Zeros(b0, j * W) <=>
                        x \in Nat /\ x < n /\ x \notin used /\ x \div W = j
    OBVIOUS
  <2>1. x \in Zeros(b0, j * W) <=> x \in Nat /\ x \div W = j /\ x \notin b0
    BY ZerosOfWord
  <2> HIDE DEF b0, m
  <2> QED BY <2>1, <1>2
<1>7. find_bitmap(n, b0, b1, k) =
        IF here # {} THEN Min(here)
        ELSE IF word = NotFound \/ below = {} THEN NotFound ELSE Min(below)
  BY DEF find_bitmap, UpIndex
<1>8. FirstFree(n, used, k) = IF free = {} THEN NotFound ELSE Min(free)
  BY DEF FirstFree
<1>9. CASE here # {}
  <2>1. here \subseteq free /\ free # {}
    BY <1>5, <1>9
  <2>2. \A x \in free \ here, y \in here : y <= x
    <3> SUFFICES ASSUME NEW x \in free \ here, NEW y \in here PROVE y <= x
      OBVIOUS
    <3> HIDE DEF here, free
    <3>1. x \in Nat /\ y \in Nat /\ k <= x /\ y \div W = k \div W /\ x \div W # k \div W
      BY <1>4, <1>5
    <3>2. k \div W <= x \div W /\ x \div W \in Nat /\ y \div W \in Nat
      BY <3>1, <1>1, WordMonotone, Euclid
    <3>3. y \div W < x \div W
      BY <3>1, <3>2, <1>1
    <3>4. y < x
      BY <3>1, <3>3, WordMonotone
    <3> QED BY <3>1, <3>4
  <2>3. Min(here) = Min(free)
    <3> HIDE DEF here, free
    <3> QED BY <2>1, <2>2, <1>4, <1>9, MinOfPart
  <2> HIDE DEF here, free, word, below
  <2> QED BY <1>7, <1>8, <1>9, <2>1, <2>3
\* The search goes up: the words it looks at are those with a free block.
<1>10. words \in SUBSET Nat /\ near \in SUBSET words
       /\ far = words \ near /\ \A x \in words \ near, y \in near : y <= x
  <2>1. BitsFor(m) = (m \div W + 1) * W /\ BitsFor(m) \in Nat /\ m < BitsFor(m)
    BY <1>1, Sizes
  <2>2. \A j \in Nat : j < BitsFor(m) => (j \notin b1 <=> j < m /\ Zeros(b0, j * W) # {})
    <3>1. b1 = {i \in 0 .. m - 1 : Zeros(b0, i * W) = {}} \cup (m .. BitsFor(m) - 1)
      BY DEF Level1, FilledWords, Sentinel
    <3> HIDE DEF b0, b1, m
    <3> QED BY <3>1, <2>1, <1>1
  <2>3. \A j : j \in near <=> j \in Nat /\ up <= j /\ j \div W = up \div W /\ j \notin b1
    BY <1>1, ZerosOf
  <2>4. up \div W \in Nat /\ m \div W \in Nat /\ up \div W <= m \div W
    <3> HIDE DEF up, m
    <3> QED BY <1>1, Euclid, WordMonotone
  <2>5. \A j \in Nat : j \div W = up \div W => j < BitsFor(m)
    <3> SUFFICES ASSUME NEW j \in Nat, j \div W = up \div W PROVE j < BitsFor(m)
      OBVIOUS
    <3> HIDE DEF up, m
    <3>1. j < (j \div W) * W + W /\ (j \div W) * W \in Nat
      <4>1. j \div W \in Nat /\ j < (j \div W) * W + W
        BY Euclid
      <4>2. (j \div W) * W \in Nat
        BY <4>1
      <4> QED BY <4>1, <4>2
    <3>2. (up \div W) * W + W <= (m \div W + 1) * W
      BY <2>4, WordOrder
    <3> QED BY <3>1, <3>2, <2>1
  <2>6. \A j : j \in words <=> j \in Nat /\ up <= j /\ j < m /\ Zeros(b0, j * W) # {}
    <3> HIDE DEF b0
    <3> QED BY <1>1
  <2>7. \A j : j \in near <=> j \in words /\ j \div W = up \div W
    <3> HIDE DEF near, words, b0, b1, up, m
    <3> QED BY <2>2, <2>3, <2>5, <2>6
  <2>8. \A j \in Nat : j \in (up \div W + 1) * W .. BitsFor(m) - 1
                        <=> j < BitsFor(m) /\ up \div W < j \div W
    <3> SUFFICES ASSUME NEW j \in Nat
                 PROVE  (up \div W + 1) * W <= j <=> up \div W < j \div W
      BY <2>1, <2>4
    <3> HIDE DEF up, m
    <3>1. j \div W \in Nat /\ (j \div W) * W <= j /\ j < (j \div W) * W + W
          /\ (j \div W) * W \in Nat
      BY Euclid
    <3>2. (up \div W + 1) * W \in Nat
          /\ (up \div W + 1) * W \in (up \div W + 1) * W .. (up \div W + 1) * W + W - 1
      BY <2>4
    <3>3. ((up \div W + 1) * W) \div W = up \div W + 1
      BY <3>2, <2>4, WordOf
    <3>4. ASSUME (up \div W + 1) * W <= j PROVE up \div W < j \div W
      <4>1. ((up \div W + 1) * W) \div W <= j \div W
        BY <3>2, <3>4, WordMonotone
      <4> QED BY <4>1, <3>3, <3>1, <2>4
    <3>5. ASSUME up \div W < j \div W PROVE (up \div W + 1) * W <= j
      <4>1. (up \div W) * W + W <= (j \div W) * W
        BY <3>5, <3>1, <2>4, WordOrder
      <4>2. (up \div W + 1) * W = (up \div W) * W + W
        BY <2>4
      <4> QED BY <4>1, <4>2, <3>1, <3>2
    <3> QED BY <3>4, <3>5
  <2>9. far \subseteq Nat
    <3>1. (up \div W + 1) * W \in Nat
      BY <2>4
    <3> HIDE DEF up, m, b1
    <3> QED BY <3>1, <2>1
  <2>10. \A j \in Nat : j \in far <=> j < BitsFor(m) /\ up \div W < j \div W /\ j \notin b1
    BY <2>8
  <2>11. \A j \in words : j \in Nat /\ up <= j /\ up \div W <= j \div W /\ j \div W \in Nat
    <3> HIDE DEF words, up, b0
    <3> QED BY <2>6, <1>1, WordMonotone, Euclid
  <2>12. \A j \in Nat : up \div W < j \div W => up <= j
    <3> HIDE DEF up
    <3> QED BY <1>1, WordMonotone
  <2>13. \A j : j \in far <=> j \in words /\ j \div W # up \div W
    <3> HIDE DEF far, words, up, b0, b1, m
    <3>1. ASSUME NEW j \in far PROVE j \in words /\ j \div W # up \div W
      <4>1. j \in Nat /\ j < BitsFor(m) /\ up \div W < j \div W /\ j \notin b1
        BY <2>9, <2>10
      <4>2. up <= j /\ j < m /\ Zeros(b0, j * W) # {}
        BY <4>1, <2>2, <2>12
      <4> QED BY <4>1, <4>2, <2>4, <2>6
    <3>2. ASSUME NEW j \in words, j \div W # up \div W PROVE j \in far
      <4>1. j \in Nat /\ j < m /\ Zeros(b0, j * W) # {} /\ up \div W < j \div W
        BY <2>4, <2>6, <2>11, <3>2
      <4>2. j < BitsFor(m)
        BY <4>1, <2>1, <1>1
      <4> QED BY <4>1, <4>2, <2>2, <2>10
    <3> QED BY <3>1, <3>2
  <2>14. \A x \in words \ near, y \in near : y <= x
    <3> SUFFICES ASSUME NEW x \in words \ near, NEW y \in near PROVE y <= x
      OBVIOUS
    <3> HIDE DEF words, near, up
    <3>1. x \in Nat /\ y \in Nat /\ y \div W < x \div W
      BY <2>4, <2>7, <2>11
    <3>2. y < x
      BY <3>1, WordMonotone
    <3> QED BY <3>1, <3>2
  <2> HIDE DEF words, near, far, up, m
  <2> QED BY <2>6, <2>7, <2>13, <2>14
<1>11. word = IF words = {} THEN NotFound ELSE Min(words)
  <2> HIDE DEF words, near, far
  <2>1. CASE near # {}
    <3>1. Min(near) = Min(words) /\ words # {}
      BY <2>1, <1>10, MinOfPart
    <3> QED BY <3>1, <2>1
  <2>2. CASE near = {}
    <3>1. far = words
      BY <2>2, <1>10
    <3> QED BY <3>1, <2>2
  <2> QED BY <2>1, <2>2
<1>12. CASE here = {}
  <2> HIDE DEF word
  <2>1. \A x \in free : x \div W \in words
    <3> SUFFICES ASSUME NEW x \in free PROVE x \div W \in words
      OBVIOUS
    <3> HIDE DEF here, free
    <3>1. x \in Nat /\ k <= x /\ x < n /\ x \notin used /\ x \div W # k \div W
      BY <1>4, <1>5, <1>12
    <3>2. x \div W \in Nat /\ x \div W < m /\ k \div W <= x \div W
      BY <3>1, <1>1, <1>3, WordMonotone
    <3>3. x \in Zeros(b0, (x \div W) * W)
      BY <3>1, <3>2, <1>6
    <3>4. x \div W \in up .. m - 1
      <4> HIDE DEF m
      <4> QED BY <3>1, <3>2, <1>1
    <3> HIDE DEF b0, up, m
    <3> QED BY <3>3, <3>4
  <2>2. CASE words = {}
    <3>1. word = NotFound /\ free = {}
      BY <2>1, <2>2, <1>11
    <3> HIDE DEF here, free, below
    <3> QED BY <3>1, <1>7, <1>8, <1>12
  <2>3. CASE words # {}
    <3> DEFINE j == word
    <3>1. j \in words /\ \A i \in words : j <= i
      <4> HIDE DEF words
      <4> QED BY <2>3, <1>10, <1>11, MinOf
    <3>2. j \in Nat /\ j < m /\ up <= j /\ Zeros(b0, j * W) # {}
      <4> HIDE DEF b0, up, m
      <4> QED BY <3>1, <1>1
    <3>3. below # {} /\ j # NotFound
      BY <3>2 DEF NotFound
    <3>4. \A x : x \in below <=> x \in Nat /\ x < n /\ x \notin used /\ x \div W = j
      BY <3>2, <1>6
    <3> HIDE DEF below, words, j, up
    <3>5. \A x \in below : x \in free
      <4> SUFFICES ASSUME NEW x \in below PROVE x \in free
        OBVIOUS
      <4>1. x \in Nat /\ x < n /\ x \notin used /\ x \div W = j
        BY <3>4
      <4>2. k \div W < x \div W
        BY <4>1, <3>2, <1>1 DEF up
      <4>3. k < x
        BY <4>1, <4>2, <1>1, WordMonotone
      <4> HIDE DEF free
      <4> QED BY <4>1, <4>3, <1>1, <1>4
    <3>6. \A x \in free \ below, y \in below : y <= x
      <4> SUFFICES ASSUME NEW x \in free \ below, NEW y \in below PROVE y <= x
        OBVIOUS
      <4> HIDE DEF free
      <4>1. x \in Nat /\ x < n /\ x \notin used /\ x \div W # j
        BY <1>4, <3>4
      <4>2. y \in Nat /\ y \div W = j
        BY <3>4
      <4>3. j <= x \div W /\ x \div W \in Nat
        BY <2>1, <3>1, <4>1, Euclid
      <4>4. y \div W < x \div W
        BY <4>1, <4>2, <4>3, <3>2
      <4>5. y < x
        BY <4>1, <4>2, <4>4, WordMonotone
      <4> QED BY <4>1, <4>2, <4>5
    <3>7. Min(below) = Min(free) /\ free # {}
      <4> HIDE DEF free
      <4> QED BY <3>3, <3>5, <3>6, <1>4, MinOfPart
    <3> HIDE DEF here, free
    <3>8. find_bitmap(n, b0, b1, k) = Min(below)
      BY <3>3, <1>7, <1>12 DEF j
    <3> QED BY <3>7, <3>8, <1>8
  <2> QED BY <2>2, <2>3
<1> QED BY <1>9, <1>12

-----------------------------------------------------------------------------
\* The hypothesis of every step lemma.
Good == IInv /\ Watch

-----------------------------------------------------------------------------
(***************************************************************************)
(* What happens to a segment                                               *)
(***************************************************************************)

\* The number of blocks and the bits of the bitmaps.
LEMMA Numbers ==
    /\ N \in Nat \ {0, 1} /\ WordBits \in Nat \ {0} /\ N % WordBits # 0
    /\ BitsFor(N) \in Nat /\ N < BitsFor(N) /\ Words(N) \in Nat \ {0}
    /\ BitsFor(Words(N)) \in Nat /\ Words(N) < BitsFor(Words(N))
    /\ Block = 0 .. N - 1
<1>1. N \in Nat /\ WordBits \in Nat \ {0} /\ N \in Nat \ {0, 1} /\ N % WordBits # 0
  BY SizeAssumption
<1>2. Words(N) \in Nat \ {0} /\ BitsFor(N) \in Nat /\ N < BitsFor(N)
  BY <1>1, Sizes
<1>3. BitsFor(Words(N)) \in Nat /\ Words(N) < BitsFor(Words(N))
  BY <1>1, <1>2, Sizes
<1> QED BY <1>1, <1>2, <1>3 DEF Block

\* The bitmaps of a segment whose used blocks are given.
LEMMA Bitmaps ==
    ASSUME NEW used \in SUBSET Block
    PROVE  /\ Level0(N, used) \in SUBSET (0 .. BitsFor(N))
           /\ Level1(N, used) \in SUBSET (0 .. BitsFor(Words(N)))
           /\ Level0(N, used) \cap Block = used
<1>1. Level0(N, used) = used \cup (N .. BitsFor(N) - 1)
  BY DEF Level0, Sentinel
<1>2. Level1(N, used) \subseteq (0 .. Words(N) - 1) \cup (Words(N) .. BitsFor(Words(N)) - 1)
  BY DEF Level1, FilledWords, Sentinel
<1> HIDE DEF Block
<1>3. \A i \in Block : i \in Nat /\ i < N
  BY Numbers
<1>4. \A i \in N .. BitsFor(N) - 1 : i \notin Block
  BY Numbers, <1>3
<1>5. Level0(N, used) \in SUBSET (0 .. BitsFor(N))
  <2>1. N \in Nat /\ BitsFor(N) \in Nat /\ N < BitsFor(N)
    BY Numbers
  <2>2. \A x \in used : x \in 0 .. BitsFor(N)
    BY <1>3, <2>1
  <2>3. \A x \in N .. BitsFor(N) - 1 : x \in 0 .. BitsFor(N)
    BY <2>1
  <2> QED BY <1>1, <2>2, <2>3
<1>6. Level1(N, used) \in SUBSET (0 .. BitsFor(Words(N)))
  BY <1>2, Numbers
<1> QED BY <1>1, <1>4, <1>5, <1>6

\* What the collect bitmap leaves free.
LEMMA Free ==
    ASSUME NEW r \in SegmentType
    PROVE  /\ FreeCount(r) \in 0 .. N
           /\ FreeCount(r) = N <=> r.col = {}
           /\ FreeCount(r) = 0 <=> r.col = Block
<1>1. r.col \in SUBSET Block
  BY DEF SegmentType
<1>2. IsFiniteSet(Block) /\ Cardinality(Block) = N
  BY Numbers, FS_Interval
<1>3. /\ IsFiniteSet(r.col) /\ Cardinality(r.col) <= N
      /\ N = Cardinality(r.col) => Block = r.col
  BY <1>1, <1>2, FS_Subset
<1>4. Cardinality(r.col) \in Nat /\ (Cardinality(r.col) = 0 <=> r.col = {})
  BY <1>3, FS_CardinalityType, FS_EmptySet
<1>5. N \in Nat
  BY Numbers
<1> QED BY <1>2, <1>3, <1>4, <1>5 DEF FreeCount

\* copy_collect_bitmap, with and without the computation of free_count.
LEMMA Copied ==
    ASSUME NEW r \in SegmentType
    PROVE  /\ CopyBits(r) \in SegmentType /\ Counted(r) \in SegmentType
           /\ BitsOK(CopyBits(r)) /\ BitsOK(Counted(r))
           /\ \A c \in {CopyBits(r), Counted(r)} :
                 /\ c.own = r.own /\ c.list = r.list /\ c.snap = r.snap /\ c.col = r.col
                 /\ c.bm0 \cap Block = r.col
           /\ Counted(r).free_count = FreeCount(r)
<1> DEFINE b0 == Level0(N, r.col)
           b1 == Level1(N, r.col)
           c == [r EXCEPT !.bm0 = b0, !.bm1 = b1]
           d == [c EXCEPT !.free_count = FreeCount(r)]
<1>1. r.col \in SUBSET Block
  BY DEF SegmentType
<1>2. b0 \in SUBSET (0 .. BitsFor(N)) /\ b1 \in SUBSET (0 .. BitsFor(Words(N))) /\ b0 \cap Block = r.col
  BY <1>1, Bitmaps
<1>3. FreeCount(r) \in 0 .. N
  BY Free
<1>4. CopyBits(r) = c /\ Counted(r) = d
  BY DEF CopyBits, Counted
<1>5. b0 = Level0(N, b0 \cap Block) /\ b1 = Level1(N, b0 \cap Block)
  BY <1>2
<1> HIDE DEF b0, b1
<1>6. /\ c \in SegmentType /\ c.own = r.own /\ c.list = r.list /\ c.snap = r.snap
      /\ c.col = r.col /\ c.bm0 = b0 /\ c.bm1 = b1
  BY <1>2 DEF SegmentType
<1> HIDE DEF c
<1>7. /\ d \in SegmentType /\ d.own = r.own /\ d.list = r.list /\ d.snap = r.snap
      /\ d.col = r.col /\ d.bm0 = b0 /\ d.bm1 = b1 /\ d.free_count = FreeCount(r)
  BY <1>3, <1>6 DEF SegmentType
<1> HIDE DEF d
<1>8. BitsOK(c) /\ BitsOK(d)
  BY <1>5, <1>6, <1>7 DEF BitsOK
<1> QED BY <1>2, <1>4, <1>6, <1>7, <1>8

\* clear_collect_bitmap.
LEMMA Cleared ==
    ASSUME NEW r \in SegmentType
    PROVE  /\ ClearBits(r) \in SegmentType /\ ClearBits(r).col = {}
           /\ BitsOK(r) => BitsOK(ClearBits(r))
           /\ ClearBits(r).own = r.own /\ ClearBits(r).list = r.list
           /\ ClearBits(r).snap = r.snap /\ ClearBits(r).bm0 = r.bm0
           /\ ClearBits(r).free_count = r.free_count
BY DEF ClearBits, SegmentType, BitsOK

\* A segment moves to another list.
LEMMA Moved ==
    ASSUME NEW r \in SegmentType, NEW l \in {"freelist", "partial", "partial_marked", "filled"}
    PROVE  /\ Put(r, l) \in SegmentType /\ Put(r, l).list = l
           /\ BitsOK(r) => BitsOK(Put(r, l))
           /\ Put(r, l).own = r.own /\ Put(r, l).col = r.col
           /\ Put(r, l).snap = r.snap /\ Put(r, l).bm0 = r.bm0
           /\ Put(r, l).free_count = r.free_count
BY DEF Put, SegmentType, BitsOK

\* allocptr_snapshot is reset.
LEMMA WasReset ==
    ASSUME NEW r \in SegmentType
    PROVE  /\ Reset(r) \in SegmentType /\ Reset(r).snap = 0
           /\ BitsOK(r) => BitsOK(Reset(r))
           /\ Reset(r).own = r.own /\ Reset(r).col = r.col
           /\ Reset(r).list = r.list /\ Reset(r).bm0 = r.bm0
           /\ Reset(r).free_count = r.free_count
<1>1. 0 \in 0 .. N
  BY Numbers
<1> QED BY <1>1 DEF Reset, SegmentType, BitsOK

\* set_alloc_ptr.
LEMMA MadeCurrent ==
    ASSUME NEW r \in SegmentType, NEW w \in Worker, NEW p
    PROVE  LET c == SetCurrent(r, w, p)
           IN  /\ c \in SegmentType /\ c.own = w /\ c.list = "current"
               /\ c.snap = IF BeforeSnapshot(p) THEN N ELSE r.snap
               /\ BitsOK(r) => BitsOK(c)
               /\ c.col = r.col /\ c.bm0 = r.bm0 /\ c.bm1 = r.bm1
<1>1. N \in 0 .. N
  BY Numbers
<1> DEFINE x == IF BeforeSnapshot(p) THEN N ELSE r.snap
<1>2. x \in 0 .. N
  BY <1>1 DEF SegmentType
<1>3. SetCurrent(r, w, p) = [r EXCEPT !.own = w, !.list = "current", !.snap = x]
  BY DEF SetCurrent, SegmentType
<1> HIDE DEF x
<1>4. LET c == SetCurrent(r, w, p)
      IN  /\ c \in SegmentType /\ c.own = w /\ c.list = "current" /\ c.snap = x
          /\ c.col = r.col /\ c.bm0 = r.bm0 /\ c.bm1 = r.bm1
  BY <1>2, <1>3 DEF SegmentType
<1> QED BY <1>4 DEF x, BitsOK

\* release_alloc_ptr.
LEMMA MadeFilled ==
    ASSUME NEW r \in SegmentType, NEW p
    PROVE  LET c == SetFilled(r, p)
           IN  /\ c \in SegmentType /\ c.own = r.own /\ c.list = "filled"
               /\ c.snap = IF BeforeSnapshot(p) THEN N ELSE r.snap
               /\ BitsOK(r) => BitsOK(c)
               /\ c.col = r.col /\ c.bm0 = r.bm0
<1>1. N \in 0 .. N
  BY Numbers
<1> DEFINE x == IF BeforeSnapshot(p) THEN N ELSE r.snap
<1>2. x \in 0 .. N
  BY <1>1 DEF SegmentType
<1>3. SetFilled(r, p) = [r EXCEPT !.list = "filled", !.snap = x]
  BY DEF SetFilled, SegmentType
<1> HIDE DEF x
<1>4. LET c == SetFilled(r, p)
      IN  /\ c \in SegmentType /\ c.own = r.own /\ c.list = "filled" /\ c.snap = x
          /\ c.col = r.col /\ c.bm0 = r.bm0 /\ c.bm1 = r.bm1
  BY <1>2, <1>3 DEF SegmentType
<1> QED BY <1>4 DEF x, BitsOK

-----------------------------------------------------------------------------
(***************************************************************************)
(* What the invariant says of a worker and of its segments                 *)
(***************************************************************************)

\* The parts of the invariant.
LEMMA InvariantParts ==
    ASSUME IInv
    PROVE  /\ TypeOK /\ Signals /\ Workers
           /\ \A s \in Segment :
                 /\ seg[s] \in SegmentType
                 /\ SegmentOK(s) /\ BitsOK(seg[s]) /\ ListOK(s) /\ PoolOK(s)
                 /\ BlocksOK(s) /\ SnapshotOK(s) /\ CollectOK(s)
BY DEF IInv, TypeOK, SegmentOK

\* ... before a step.
LEMMA Parts ==
    ASSUME Good
    PROVE  /\ TypeOK /\ Signals /\ Workers
           /\ \A s \in Segment :
                 /\ seg[s] \in SegmentType
                 /\ SegmentOK(s) /\ BitsOK(seg[s]) /\ ListOK(s) /\ PoolOK(s)
                 /\ BlocksOK(s) /\ SnapshotOK(s) /\ CollectOK(s)
BY InvariantParts DEF Good

\* The history: which segments keep the bits of a collection that is over.
LEMMA History ==
    ASSUME Good, NEW t \in Segment
    PROVE  /\ t \in stale => seg[t].list \in {"current", "filled"}
           /\ t \in stale' => /\ t \in stale \/ TakenLate(t) \/ HeldByNew(t)
                             /\ seg'[t].col # {}
           /\ t \in stale \/ TakenLate(t) \/ HeldByNew(t) => t \in stale' \/ seg'[t].col = {}
           /\ TakenLate(t) => seg[t].list = "popped" /\ seg'[t].list = "current"
           /\ sig' = sig \/ sig' # PREASYNC => ~HeldByNew(t)
           /\ HeldByNew(t) => seg[t].list = "current"
<1>1. CollectOK(t) /\ ListOK(t)
  BY Parts
<1>2. Watch
  BY DEF Good
<1>3. sig' = sig \/ sig' # PREASYNC => ~HeldByNew(t)
  BY DEF HeldByNew, PREMARK, PREASYNC
<1>4. HeldByNew(t) => seg[t].list = "current"
  BY <1>1 DEF HeldByNew, ListOK, Registered
<1> QED BY <1>1, <1>2, <1>3, <1>4 DEF CollectOK, Watch, TakenLate

\* The allocator of a worker is in one segment at most.
LEMMA CurrentIs ==
    ASSUME Good, NEW w \in Worker
    PROVE  /\ HasCurrent(w) <=> \E s \in Segment : seg[s].own = w /\ seg[s].list = "current"
           /\ HasCurrent(w) => /\ Current(w) \in Segment
                               /\ seg[Current(w)].own = w /\ seg[Current(w)].list = "current"
           /\ \A s \in Segment : seg[s].own = w /\ seg[s].list = "current" => s = Current(w)
<1>1. HasCurrent(w) <=> \E s \in Segment : seg[s].own = w /\ seg[s].list = "current"
  BY DEF HasCurrent, In
<1>2. HasCurrent(w) => /\ Current(w) \in Segment
                       /\ seg[Current(w)].own = w /\ seg[Current(w)].list = "current"
  BY <1>1 DEF Current
<1>3. ASSUME NEW s \in Segment, seg[s].own = w, seg[s].list = "current"
      PROVE  s = Current(w)
  BY <1>1, <1>2, <1>3, Parts DEF ListOK
<1> QED BY <1>1, <1>2, <1>3

\* A block that find_bitmap finds is free, and it finds one if there is one.
LEMMA FoundFree ==
    ASSUME NEW r \in SegmentType, BitsOK(r), NEW k \in 0 .. N
    PROVE  LET i == find_bitmap(N, r.bm0, r.bm1, k)
           IN  \/ /\ i = NotFound
                  /\ \A j \in Block : j >= k => j \in r.bm0
               \/ /\ i \in Block /\ i >= k /\ i \notin r.bm0
                  /\ \A j \in Block : j >= k => j \in r.bm0 \/ j >= i
<1> DEFINE used == r.bm0 \cap Block
           free == (k .. N - 1) \ used
           i == find_bitmap(N, r.bm0, r.bm1, k)
<1>1. i = IF free = {} THEN NotFound ELSE Min(free)
  <2>1. r.bm0 = Level0(N, used) /\ r.bm1 = Level1(N, used)
    BY DEF BitsOK
  <2>2. N \in Nat \ {0} /\ WordBits \in Nat \ {0}
    BY Numbers
  <2> HIDE DEF used
  <2>3. find_bitmap(N, Level0(N, used), Level1(N, used), k) = FirstFree(N, used, k)
    BY <2>2, FindFirst
  <2> QED BY <2>1, <2>3 DEF FirstFree
<1>2. k \in Nat /\ N \in Nat
  BY Numbers
<1>3. \A j : j \in free <=> j \in Block /\ j >= k /\ j \notin r.bm0
  BY <1>2 DEF Block
<1>4. free \in SUBSET Nat
  BY <1>2
<1> HIDE DEF free, used, i
<1>5. CASE free = {}
  BY <1>1, <1>3, <1>5 DEF i
<1>6. CASE free # {}
  <2>1. Min(free) \in free /\ \A j \in free : Min(free) <= j
    BY <1>4, <1>6, MinOf
  <2>2. i \in free /\ \A j \in free : i <= j
    BY <1>1, <1>6, <2>1
  <2>3. \A j \in free : j >= i
    BY <1>4, <2>2
  <2> QED BY <1>3, <2>2, <2>3 DEF i
<1> QED BY <1>5, <1>6

\* Where find_segment takes a segment from.
LEMMA SourcesOf ==
    ASSUME Good, NEW w \in Worker, NEW p, NEW s \in Sources(w, p)
    PROVE  /\ s \in Segment
           /\ \/ seg[s].own = w /\ seg[s].list \in {"partial", "freelist"}
              \/ seg[s].own = Pool /\ seg[s].list \in {"partial", "freelist", "partial_marked"}
           /\ (seg[s].own = w /\ seg[s].list = "partial") \/ room[w] > 0
           /\ seg[s].list = "partial_marked" => p \in {MARK, ASYNC, PREASYNC}
<1> DEFINE lists == Lists(w, p)
           some == {i \in DOMAIN lists : lists[i] # {}}
<1>1. /\ DOMAIN lists = 1 .. 5
      /\ lists[1] = In(w, "partial")
      /\ lists[2] = IF room[w] > 0 THEN In(w, "freelist") ELSE {}
      /\ lists[3] = IF room[w] > 0 THEN In(Pool, "partial") ELSE {}
      /\ lists[4] = IF "partial_marked" \in PoolLists(p)
                    THEN IF room[w] > 0 THEN In(Pool, "partial_marked") ELSE {}
                    ELSE {}
      /\ lists[5] = IF room[w] > 0 THEN In(Pool, "freelist") ELSE {}
  BY DEF Lists
<1>2. Sources(w, p) = IF some = {} THEN {} ELSE lists[Min(some)]
  BY DEF Sources
<1> HIDE DEF lists
<1>3. some # {} /\ s \in lists[Min(some)] /\ some \in SUBSET Nat
  BY <1>1, <1>2
<1>4. Min(some) \in 1 .. 5
  BY <1>1, <1>3, MinOf
<1>5. PICK i \in 1 .. 5 : s \in lists[i]
  BY <1>3, <1>4
<1>6. "partial_marked" \in PoolLists(p) => p \in {MARK, ASYNC, PREASYNC}
  BY DEF PoolLists
<1> HIDE DEF some
<1>7. \/ s \in In(w, "partial")
      \/ room[w] > 0 /\ s \in In(w, "freelist")
      \/ room[w] > 0 /\ s \in In(Pool, "partial")
      \/ room[w] > 0 /\ s \in In(Pool, "partial_marked") /\ p \in {MARK, ASYNC, PREASYNC}
      \/ room[w] > 0 /\ s \in In(Pool, "freelist")
  BY <1>1, <1>5, <1>6
<1> QED BY <1>7 DEF In

-----------------------------------------------------------------------------
(***************************************************************************)
(* What a step leaves as it is                                             *)
(***************************************************************************)

\* A segment that stays where it is.
LEMMA KeptList ==
    ASSUME Good, NEW t \in Segment, seg'[t] = seg[t],
           seg[t].own # Pool =>
              /\ users'[seg[t].own] = "none" <=> users[seg[t].own] = "none"
              /\ seg[t].list = "popped" \/ users[seg[t].own] = "none"
                    => pc'[seg[t].own] = pc[seg[t].own],
           seg[t].list \in {"current", "popped"} =>
              \A u \in Segment : seg'[u].list = seg[t].list /\ seg'[u].own = seg[t].own => u = t
    PROVE  ListOK(t)'
<1>1. ListOK(t)
  BY Parts
<1> QED BY <1>1 DEF ListOK, Registered

\* ... of the pool while signals are as they are.
LEMMA KeptPool ==
    ASSUME Good, NEW t \in Segment, seg'[t] = seg[t],
           sig' = sig, owing = {} => owing' = {}, Collecting => Collecting'
    PROVE  PoolOK(t)'
<1>1. PoolOK(t)
  BY Parts
<1> QED BY <1>1 DEF PoolOK

\* ... with objects that were there before, and the pointer where it was or
\* further on.
LEMMA KeptBlocks ==
    ASSUME Good, NEW t \in Segment, seg'[t] = seg[t],
           \A i \in Block : <<t, i>> \in live' => <<t, i>> \in live,
           seg[t].list = "current" => ptr'[seg[t].own] = ptr[seg[t].own]
    PROVE  BlocksOK(t)'
<1>1. BlocksOK(t)
  BY Parts
<1>2. Objects(t)' \subseteq Objects(t)
  BY DEF Objects
<1> QED BY <1>1, <1>2 DEF BlocksOK

\* ... and an owner whose snapshot has been taken, or has not.
LEMMA KeptSnapshot ==
    ASSUME Good, NEW t \in Segment, seg'[t] = seg[t],
           \A i \in Block : <<t, i>> \in live' => <<t, i>> \in live,
           seg[t].own # Pool =>
              /\ users'[seg[t].own] = "none" <=> users[seg[t].own] = "none"
              /\ BeforeSnapshot(phase'[seg[t].own]) <=> BeforeSnapshot(phase[seg[t].own]),
           seg[t].list = "current" => ptr'[seg[t].own] = ptr[seg[t].own]
    PROVE  SnapshotOK(t)'
<1>1. SnapshotOK(t)
  BY Parts
<1>2. Objects(t)' \subseteq Objects(t)
  BY DEF Objects
<1>3. CASE seg[t].own = Pool
  BY <1>1, <1>2, <1>3 DEF SnapshotOK
<1>4. CASE seg[t].own # Pool
  BY <1>1, <1>4 DEF SnapshotOK, Registered
<1> QED BY <1>3, <1>4

\* ... and collect bits that have been reclaimed, or have not.
LEMMA KeptCollect ==
    ASSUME Good, NEW t \in Segment, seg'[t] = seg[t],
           \A i \in Block : <<t, i>> \in live' <=> <<t, i>> \in live,
           Unreclaimed(t)' <=> Unreclaimed(t)
    PROVE  CollectOK(t)'
<1>1. CollectOK(t)
  BY Parts
<1>2. Objects(t)' = Objects(t)
  BY DEF Objects
<1>3. t \in stale' => seg[t].list \in {"current", "filled"}
  BY History
<1>4. t \in stale => t \in stale' \/ seg[t].col = {}
  BY History
<1> QED BY <1>1, <1>2, <1>3, <1>4 DEF CollectOK

\* Whether they have depends on the phase of the owner, while a signal is out.
LEMMA KeptUnreclaimed ==
    ASSUME Good, NEW t \in Segment, seg'[t] = seg[t], sig' = sig,
           Collecting' <=> Collecting,
           seg[t].own # Pool =>
              (phase'[seg[t].own] \in {MARK, PREASYNC} <=> phase[seg[t].own] \in {MARK, PREASYNC})
    PROVE  Unreclaimed(t)' <=> Unreclaimed(t)
BY DEF Unreclaimed

\* A segment that a step of worker w, which changes no phase and sends no
\* signal, leaves alone.
LEMMA KeptSegment ==
    ASSUME Good, NEW t \in Segment, seg'[t] = seg[t],
           sig' = sig, owing' = owing, act' = act,
           \A i \in Block : <<t, i>> \in live' <=> <<t, i>> \in live,
           seg[t].own # Pool =>
              /\ users'[seg[t].own] = "none" <=> users[seg[t].own] = "none"
              /\ phase'[seg[t].own] = phase[seg[t].own]
              /\ seg[t].list = "popped" \/ users[seg[t].own] = "none"
                    => pc'[seg[t].own] = pc[seg[t].own],
           seg[t].list = "current" => ptr'[seg[t].own] = ptr[seg[t].own],
           seg[t].list \in {"current", "popped"} =>
              \A u \in Segment : seg'[u].list = seg[t].list /\ seg'[u].own = seg[t].own => u = t
    PROVE  SegmentOK(t)'
<1>1. Collecting' <=> Collecting
  BY DEF Collecting
<1>2. BitsOK(seg[t])'
  BY Parts DEF BitsOK
<1>3. ListOK(t)'
  BY KeptList
<1>4. PoolOK(t)'
  BY <1>1, KeptPool
<1>5. BlocksOK(t)'
  BY KeptBlocks
<1>6. SnapshotOK(t)'
  BY KeptSnapshot
<1>7. CollectOK(t)'
  BY <1>1, KeptUnreclaimed, KeptCollect
<1> QED BY <1>2, <1>3, <1>4, <1>5, <1>6, <1>7 DEF SegmentOK

\* Nothing that Signals is about changes.
LEMMA KeptSignals ==
    ASSUME Good, UNCHANGED <<sig, unsent, owing, gc_count, act, phase>>,
           \A w \in Worker : /\ users'[w] = "none" <=> users[w] = "none"
                             /\ act[w] = "send" => users'[w] = users[w]
    PROVE  Signals'
<1>1. Signals
  BY Parts
<1> QED BY <1>1 DEF Signals, Registered, Collecting

-----------------------------------------------------------------------------
(***************************************************************************)
(* Allocation                                                              *)
(***************************************************************************)

\* What a block that is given to the program changes.
LEMMA Given ==
    ASSUME Good, NEW w \in Worker, NEW s \in Segment, NEW i \in Block, Give(w, s, i)
    PROVE  /\ live' \subseteq Segment \X Block
           /\ ptr' \in [Worker -> 0 .. N] /\ ptr'[w] = i + 1
           /\ \A v \in Worker : v # w => ptr'[v] = ptr[v]
           /\ \A t \in Segment, j \in Block :
                 <<t, j>> \in live' <=> <<t, j>> \in live \/ (t = s /\ j = i)
<1>1. live \subseteq Segment \X Block /\ ptr \in [Worker -> 0 .. N]
  BY Parts DEF TypeOK
<1>2. i + 1 \in 0 .. N
  BY Numbers
<1>3. live' = live \cup {<<s, i>>} /\ ptr' = [ptr EXCEPT ![w] = i + 1]
  BY DEF Give
<1> HIDE DEF Block
<1> QED BY <1>1, <1>2, <1>3

\* The block that sml_alloc finds.
LEMMA FoundBlock ==
    ASSUME Good, NEW w \in Worker, Found(w) # NotFound
    PROVE  /\ HasCurrent(w) /\ Current(w) \in Segment
           /\ seg[Current(w)].own = w /\ seg[Current(w)].list = "current"
           /\ Found(w) \in Block /\ Found(w) >= ptr[w] /\ Found(w) \notin seg[Current(w)].bm0
<1>1. HasCurrent(w) /\ Found(w) = find_bitmap(N, seg[Current(w)].bm0, seg[Current(w)].bm1, ptr[w])
  BY DEF Found
<1>2. /\ Current(w) \in Segment
      /\ seg[Current(w)].own = w /\ seg[Current(w)].list = "current"
  BY <1>1, CurrentIs
<1>3. seg[Current(w)] \in SegmentType /\ BitsOK(seg[Current(w)]) /\ ptr[w] \in 0 .. N
  BY <1>2, Parts DEF TypeOK
<1> DEFINE r == seg[Current(w)]
           k == ptr[w]
<1> HIDE DEF r, k
<1>4. LET i == find_bitmap(N, r.bm0, r.bm1, k)
      IN  \/ i = NotFound
          \/ i \in Block /\ i >= k /\ i \notin r.bm0
  BY <1>3, FoundFree DEF r, k
<1> QED BY <1>1, <1>2, <1>4 DEF r, k

\* The fast path: the current segment gets an object at or after its pointer.
LEMMA StepAlloc ==
    ASSUME Good, NEW w \in Worker, sml_alloc(w)
    PROVE  IInv'
<1>1. PICK c \in Segment, i \in Block :
         /\ seg[c].own = w /\ seg[c].list = "current"
         /\ i >= ptr[w] /\ i \notin seg[c].bm0 /\ Give(w, c, i)
  BY FoundBlock DEF sml_alloc
<1>2. UNCHANGED <<seg, room, pc, act, want, users, phase, sig, unsent, owing, gc_count>>
  BY DEF sml_alloc, signal
<1>3. /\ live' \subseteq Segment \X Block
      /\ ptr' \in [Worker -> 0 .. N] /\ ptr'[w] = i + 1
      /\ \A v \in Worker : v # w => ptr'[v] = ptr[v]
      /\ \A t \in Segment, j \in Block :
            <<t, j>> \in live' <=> <<t, j>> \in live \/ (t = c /\ j = i)
  BY <1>1, Given
<1>4. TypeOK'
  BY <1>2, <1>3, Parts DEF TypeOK
<1>5. Signals'
  BY <1>2, KeptSignals
<1>6. Workers'
  BY <1>2, Parts DEF Workers, Registered, HasCurrent, In
<1>7. ASSUME NEW t \in Segment, t # c PROVE SegmentOK(t)'
  <2>1. seg[t].list = "current" => seg[t].own \in Worker /\ seg[t].own # w
    BY <1>1, <1>7, Parts DEF ListOK, SegmentType
  <2>2. seg[t].list \in {"current", "popped"} =>
           \A u \in Segment : seg'[u].list = seg[t].list /\ seg'[u].own = seg[t].own => u = t
    BY <1>2, Parts DEF ListOK
  <2> QED BY <1>2, <1>3, <1>7, <2>1, <2>2, KeptSegment
<1>8. SegmentOK(c)'
  <2>1. ptr[w] \in 0 .. N /\ i \in Nat /\ ptr[w] <= i /\ w # Pool
    BY <1>1, Numbers, Parts, PoolAssumption DEF TypeOK
  <2>2. BitsOK(seg[c])' /\ ListOK(c)' /\ PoolOK(c)'
    <3>1. BitsOK(seg[c]) /\ ListOK(c) /\ PoolOK(c)
      BY <1>1, Parts
    <3> QED BY <3>1, <1>2 DEF BitsOK, ListOK, PoolOK, Registered, Collecting
  <2>3. \A j : j \in Objects(c)' <=> j \in Objects(c) \/ j = i
    BY <1>1, <1>3 DEF Objects
  <2>4. BlocksOK(c)'
    <3>1. \A j \in Objects(c) : j \in seg[c].bm0 \/ j < ptr[w]
      BY <1>1, Parts DEF BlocksOK
    <3>2. \A j \in Objects(c) : j \in Nat
      BY Numbers DEF Objects
    <3>3. \A j \in Objects(c)' : j \in seg[c].bm0 \/ j < ptr'[w]
      BY <1>3, <2>1, <2>3, <3>1, <3>2
    <3> QED BY <1>1, <1>2, <3>3 DEF BlocksOK
  <2>5. seg[c].snap <= ptr[w] \/ BeforeSnapshot(phase[w]) \/ ~Registered(w)
    BY <1>1, <2>1, Parts DEF SnapshotOK
  <2>6. SnapshotOK(c)'
    <3>1. SnapshotOK(c)
      BY <1>1, Parts
    <3>2. seg[c].snap \in 0 .. N /\ N \in Nat
      BY <1>1, Numbers, Parts DEF SegmentType
    <3> QED BY <1>1, <1>2, <1>3, <2>1, <3>1, <3>2 DEF SnapshotOK, Registered
  <2>7. Registered(w)
    BY DEF sml_alloc, Registered
  <2>8. Unreclaimed(c)' <=> Unreclaimed(c)
    BY <1>1, <1>2 DEF Unreclaimed, Collecting
  <2>9. Unreclaimed(c) => phase[w] \in {MARK, PREASYNC}
    BY <1>1 DEF Unreclaimed
  <2>10. Unreclaimed(c) => i >= seg[c].snap
    <3>1. seg[c].snap \in 0 .. N /\ N \in Nat
      BY <1>1, Numbers, Parts DEF SegmentType
    <3>2. Unreclaimed(c) => ~BeforeSnapshot(phase[w])
      BY <2>9 DEF BeforeSnapshot, MARK, PREASYNC, ASYNC, PRESYNC2
    <3> QED BY <2>1, <2>5, <2>7, <3>1, <3>2
  <2>11. CollectOK(c)'
    <3>1. CollectOK(c)
      BY <1>1, Parts
    <3>4. c \in stale => c \in stale' \/ seg[c].col = {}
      BY <1>2, History
    <3>2. CASE Unreclaimed(c)
      BY <1>1, <1>2, <2>3, <2>8, <2>10, <3>1, <3>2, <3>4 DEF CollectOK
    <3>3. CASE ~Unreclaimed(c)
      BY <1>1, <1>2, <2>8, <3>1, <3>3, <3>4 DEF CollectOK
    <3> QED BY <3>2, <3>3
  <2> QED BY <2>2, <2>4, <2>6, <2>11 DEF SegmentOK
<1> QED BY <1>4, <1>5, <1>6, <1>7, <1>8 DEF IInv

-----------------------------------------------------------------------------
(***************************************************************************)
(* Taking a segment                                                        *)
(***************************************************************************)

\* release_alloc_ptr is applied to the current segment only.
LEMMA Released ==
    ASSUME Good, NEW w \in Worker
    PROVE  /\ Release(w, phase[w]) \in [Segment -> SegmentType]
           /\ \A t \in Segment :
                 Release(w, phase[w])[t] =
                    IF seg[t].own = w /\ seg[t].list = "current"
                    THEN SetFilled(seg[t], phase[w]) ELSE seg[t]
<1>1. seg \in [Segment -> SegmentType]
  BY Parts DEF TypeOK
<1>2. CASE ~HasCurrent(w)
  BY <1>1, <1>2, CurrentIs DEF Release
<1>3. CASE HasCurrent(w)
  <2>1. PICK c \in Segment : c = Current(w) /\ seg[c].own = w /\ seg[c].list = "current"
    BY <1>3, CurrentIs
  <2>2. \A t \in Segment : seg[t].own = w /\ seg[t].list = "current" => t = c
    BY <2>1, CurrentIs
  <2>3. SetFilled(seg[c], phase[w]) \in SegmentType
    BY <1>1, MadeFilled
  <2>4. Release(w, phase[w]) = [seg EXCEPT ![c] = SetFilled(seg[c], phase[w])]
    BY <1>3, <2>1 DEF Release
  <2> QED BY <1>1, <2>1, <2>2, <2>3, <2>4
<1> QED BY <1>2, <1>3

\* A segment that has been filled: all of its objects are new for the next
\* collection, unless the snapshot of this one has been taken.
LEMMA FilledOK ==
    ASSUME Good, NEW w \in Worker, NEW c \in Segment, Registered(w),
           seg[c].own = w, seg[c].list = "current",
           seg'[c] = SetFilled(seg[c], phase[w]),
           phase'[w] = phase[w], users'[w] = users[w],
           \A i \in Block : <<c, i>> \in live' <=> <<c, i>> \in live
    PROVE  /\ BitsOK(seg[c])' /\ ListOK(c)' /\ BlocksOK(c)' /\ SnapshotOK(c)'
           /\ sig' = sig /\ owing' = owing /\ act' = act => PoolOK(c)' /\ CollectOK(c)'
<1>1. /\ seg[c] \in SegmentType /\ BitsOK(seg[c]) /\ w # Pool
      /\ seg'[c].own = w /\ seg'[c].list = "filled"
      /\ seg'[c].snap = IF BeforeSnapshot(phase[w]) THEN N ELSE seg[c].snap
      /\ seg'[c].col = seg[c].col /\ seg'[c].bm0 = seg[c].bm0 /\ BitsOK(seg'[c])
  BY Parts, MadeFilled, PoolAssumption
<1>2. BitsOK(seg[c])'
  BY <1>1 DEF BitsOK
<1>3. ListOK(c)'
  BY <1>1 DEF ListOK, Registered
<1>4. BlocksOK(c)'
  BY <1>1 DEF BlocksOK
<1>5. SnapshotOK(c)'
  BY <1>1 DEF SnapshotOK, Registered
<1>6. ASSUME sig' = sig, owing' = owing, act' = act PROVE PoolOK(c)' /\ CollectOK(c)'
  <2>1. PoolOK(c)'
    BY <1>1 DEF PoolOK
  <2>2. Unreclaimed(c)' <=> Unreclaimed(c)
    BY <1>1, <1>6 DEF Unreclaimed, Collecting
  <2>3. Unreclaimed(c) => seg'[c].snap = seg[c].snap
    BY <1>1 DEF Unreclaimed, BeforeSnapshot, MARK, PREASYNC, ASYNC, PRESYNC2
  <2>4. Objects(c)' = Objects(c)
    BY DEF Objects
  <2>5. CollectOK(c)
    BY Parts
  <2>6. c \in stale => c \in stale' \/ seg[c].col = {}
    BY <1>1, History
  <2>7. CollectOK(c)'
    BY <1>1, <2>2, <2>3, <2>4, <2>5, <2>6 DEF CollectOK
  <2> QED BY <2>1, <2>7
<1> QED BY <1>2, <1>3, <1>4, <1>5, <1>6

\* What Take changes: r is the segment as it is prepared.
LEMMA Taken ==
    ASSUME Good, NEW w \in Worker, NEW s \in Segment, NEW r \in SegmentType,
           r = Prepared(seg[s], phase[w]), BitsOK(r), ~(Block \subseteq r.bm0),
           Take(w, s, phase[w])
    PROVE  /\ seg' \in [Segment -> SegmentType]
           /\ seg'[s] = SetCurrent(r, w, phase[w])
           /\ \A t \in Segment : t # s =>
                 seg'[t] = IF seg[t].own = w /\ seg[t].list = "current"
                           THEN SetFilled(seg[t], phase[w]) ELSE seg[t]
           /\ \E i \in Block : i \notin r.bm0 /\ Give(w, s, i)
<1> DEFINE new == SetCurrent(r, w, phase[w])
<1>1. /\ seg' = [Release(w, phase[w]) EXCEPT ![s] = new]
      /\ Give(w, s, find_bitmap(N, new.bm0, new.bm1, 0))
  BY DEF Take
<1>2. new \in SegmentType /\ new.bm0 = r.bm0 /\ new.bm1 = r.bm1
  BY MadeCurrent
<1> HIDE DEF new
<1>3. 0 \in 0 .. N
  BY Numbers
<1>4. LET i == find_bitmap(N, r.bm0, r.bm1, 0)
      IN  \/ i = NotFound /\ \A j \in Block : j >= 0 => j \in r.bm0
          \/ i \in Block /\ i \notin r.bm0
  BY <1>3, FoundFree
<1>5. \E j \in Block : j >= 0 /\ j \notin r.bm0
  BY Numbers
<1>6. find_bitmap(N, r.bm0, r.bm1, 0) \in Block /\ find_bitmap(N, r.bm0, r.bm1, 0) \notin r.bm0
  BY <1>4, <1>5
<1>7. \E i \in Block : i \notin r.bm0 /\ Give(w, s, i)
  BY <1>1, <1>2, <1>6
<1>8. seg' \in [Segment -> SegmentType] /\ seg'[s] = new
  BY <1>1, <1>2, Released
<1>9. \A t \in Segment : t # s => seg'[t] = Release(w, phase[w])[t]
  BY <1>1, Released
<1> QED BY <1>7, <1>8, <1>9, Released DEF new

\* The segment that becomes current.
LEMMA CurrentOK ==
    ASSUME Good, NEW w \in Worker, NEW s \in Segment, NEW r \in SegmentType, NEW i \in Block,
           BitsOK(r), r.snap = 0, Objects(s) \subseteq r.bm0, i \notin r.bm0, Give(w, s, i),
           seg'[s] = SetCurrent(r, w, phase[w]),
           phase'[w] = phase[w], users'[w] # "none",
           \A u \in Segment : seg'[u].list = "current" /\ seg'[u].own = w => u = s
    PROVE  /\ BitsOK(seg[s])' /\ ListOK(s)' /\ PoolOK(s)' /\ BlocksOK(s)' /\ SnapshotOK(s)'
           /\ /\ Unreclaimed(s)' => r.col = Objects(s)
              /\ ~Unreclaimed(s)' => r.col = {} \/ s \in stale'
              => CollectOK(s)'
<1>1. /\ w # Pool /\ seg'[s].own = w /\ seg'[s].list = "current"
      /\ seg'[s].snap = IF BeforeSnapshot(phase[w]) THEN N ELSE 0
      /\ seg'[s].col = r.col /\ seg'[s].bm0 = r.bm0 /\ BitsOK(seg'[s])
  BY MadeCurrent, PoolAssumption
<1>2. ptr'[w] = i + 1 /\ \A j : j \in Objects(s)' <=> j \in Objects(s) \/ j = i
  BY Given DEF Objects
<1>3. i \in Nat /\ i + 1 > 0
  BY Numbers
<1>4. BitsOK(seg[s])'
  BY <1>1 DEF BitsOK
<1>5. ListOK(s)' /\ PoolOK(s)'
  BY <1>1 DEF ListOK, PoolOK, Registered
<1>6. BlocksOK(s)'
  <2>1. i < i + 1
    BY <1>3
  <2>2. \A j \in Objects(s)' : j \in seg'[s].bm0 \/ j < ptr'[w]
    BY <1>1, <1>2, <2>1
  <2> QED BY <1>1, <2>2 DEF BlocksOK
<1>7. SnapshotOK(s)'
  BY <1>1, <1>2, <1>3 DEF SnapshotOK, Registered
<1>8. ASSUME Unreclaimed(s)' => r.col = Objects(s), ~Unreclaimed(s)' => r.col = {} \/ s \in stale'
      PROVE  CollectOK(s)'
  <2>1. CASE ~Unreclaimed(s)'
    BY <1>1, <1>8, <2>1 DEF CollectOK
  <2>2. CASE Unreclaimed(s)'
    <3>1. seg'[s].snap = 0
      BY <1>1, <2>2 DEF Unreclaimed, BeforeSnapshot, MARK, PREASYNC, ASYNC, PRESYNC2
    <3>2. i >= 0
      BY <1>3
    <3>3. \A j \in Objects(s)' : j \in r.col \/ (j \notin r.bm0 /\ j >= 0)
      BY <1>2, <1>8, <2>2, <3>2
    <3>4. r.col \subseteq Objects(s)'
      BY <1>2, <1>8, <2>2
    <3> QED BY <1>1, <2>2, <3>1, <3>3, <3>4 DEF CollectOK
  <2> QED BY <2>1, <2>2
<1> QED BY <1>4, <1>5, <1>6, <1>7, <1>8

\* What is left of a segment by the step that starts a collection.
StaysPopped(t) ==
    /\ seg[t].list = "popped" /\ seg'[t] = seg[t]
    /\ \A i \in Block : <<t, i>> \in live' <=> <<t, i>> \in live
StaysClear(t) ==
    /\ seg[t].list # "popped" /\ seg'[t].list \notin {"popped", "partial_marked"}
    /\ seg'[t].col = seg[t].col
    /\ seg[t].list \in {"current", "filled"} => seg'[t].list \in {"current", "filled"}

\* All segments, when one has been taken.
LEMMA TakeOK ==
    ASSUME Good, NEW w \in Worker, NEW s \in Segment, NEW r \in SegmentType, Registered(w),
           r = Prepared(seg[s], phase[w]), BitsOK(r), ~(Block \subseteq r.bm0),
           r.snap = 0, Objects(s) \subseteq r.bm0, seg[s].list # "current",
           Take(w, s, phase[w]), phase' = phase, users' = users,
           \A v \in Worker : v # w => pc'[v] = pc[v],
           \A t \in Segment : seg[t].own = w /\ seg[t].list = "popped" => t = s
    PROVE  /\ seg' \in [Segment -> SegmentType] /\ live' \subseteq Segment \X Block
           /\ ptr' \in [Worker -> 0 .. N]
           /\ HasCurrent(w)' /\ \A v \in Worker : v # w /\ HasCurrent(v) => HasCurrent(v)'
           /\ \A t \in Segment :
                 /\ BitsOK(seg[t])' /\ ListOK(t)' /\ BlocksOK(t)' /\ SnapshotOK(t)'
                 /\ seg'[t].col = IF t = s THEN r.col ELSE seg[t].col
                 /\ seg'[t].list # "partial_marked" \/ seg'[t] = seg[t]
                 /\ seg[s].list # "popped" /\ seg[t].list # "partial_marked"
                       => StaysPopped(t) \/ StaysClear(t)
           /\ /\ sig' = sig /\ owing' = owing /\ act' = act
              /\ Unreclaimed(s)' => r.col = Objects(s)
              /\ ~Unreclaimed(s)' => r.col = {} \/ s \in stale'
              => \A t \in Segment : PoolOK(t)' /\ CollectOK(t)'
<1>1. /\ seg' \in [Segment -> SegmentType]
      /\ seg'[s] = SetCurrent(r, w, phase[w])
      /\ \A t \in Segment : t # s =>
            seg'[t] = IF seg[t].own = w /\ seg[t].list = "current"
                      THEN SetFilled(seg[t], phase[w]) ELSE seg[t]
      /\ \E i \in Block : i \notin r.bm0 /\ Give(w, s, i)
  BY Taken
<1>2. PICK i \in Block : i \notin r.bm0 /\ Give(w, s, i)
  BY <1>1
<1>3. /\ live' \subseteq Segment \X Block
      /\ ptr' \in [Worker -> 0 .. N]
      /\ \A v \in Worker : v # w => ptr'[v] = ptr[v]
      /\ \A t \in Segment, j \in Block :
            <<t, j>> \in live' <=> <<t, j>> \in live \/ (t = s /\ j = i)
  BY <1>2, Given
<1>4. /\ seg'[s].own = w /\ seg'[s].list = "current" /\ seg'[s].col = r.col
  BY <1>1, MadeCurrent
<1>5. \A t \in Segment : /\ seg[t] \in SegmentType
                         /\ seg[t].own = w /\ seg[t].list = "current" /\ t # s =>
                               /\ seg'[t].own = w /\ seg'[t].list = "filled"
                               /\ seg'[t].col = seg[t].col
  BY <1>1, Parts, MadeFilled
<1>6. \A u \in Segment : seg'[u].list = "current" /\ seg'[u].own = w => u = s
  <2> SUFFICES ASSUME NEW u \in Segment, seg'[u].list = "current", seg'[u].own = w, u # s
               PROVE  FALSE
    OBVIOUS
  <2>1. CASE seg[u].own = w /\ seg[u].list = "current"
    BY <1>5, <2>1
  <2>2. CASE ~(seg[u].own = w /\ seg[u].list = "current")
    BY <1>1, <2>2
  <2> QED BY <2>1, <2>2
<1>7. /\ BitsOK(seg[s])' /\ ListOK(s)' /\ PoolOK(s)' /\ BlocksOK(s)' /\ SnapshotOK(s)'
      /\ /\ Unreclaimed(s)' => r.col = Objects(s)
         /\ ~Unreclaimed(s)' => r.col = {} \/ s \in stale'
         => CollectOK(s)'
  BY <1>1, <1>2, <1>6, CurrentOK DEF Registered
<1>8. ASSUME NEW t \in Segment, t # s
      PROVE  /\ BitsOK(seg[t])' /\ ListOK(t)' /\ BlocksOK(t)' /\ SnapshotOK(t)'
             /\ sig' = sig /\ owing' = owing /\ act' = act => PoolOK(t)' /\ CollectOK(t)'
  <2>1. \A j \in Block : <<t, j>> \in live' <=> <<t, j>> \in live
    BY <1>3, <1>8
  <2>2. CASE seg[t].own = w /\ seg[t].list = "current"
    BY <1>1, <1>8, <2>1, <2>2, FilledOK
  <2>3. CASE ~(seg[t].own = w /\ seg[t].list = "current")
    <3>1. seg'[t] = seg[t]
      BY <1>1, <1>8, <2>3
    <3>2. seg[t].own # Pool => seg[t].own \in Worker
      BY Parts DEF SegmentType
    <3>3. seg[t].list = "current" => seg[t].own \in Worker /\ ptr'[seg[t].own] = ptr[seg[t].own]
      BY <1>3, <2>3, <3>2, Parts DEF ListOK
    <3>4. seg[t].own # Pool =>
              /\ users'[seg[t].own] = "none" <=> users[seg[t].own] = "none"
              /\ seg[t].list = "popped" \/ users[seg[t].own] = "none"
                    => pc'[seg[t].own] = pc[seg[t].own]
      BY <1>8, <3>2 DEF Registered
    <3>5. ASSUME seg[t].list \in {"current", "popped"}, NEW u \in Segment,
                 seg'[u].list = seg[t].list, seg'[u].own = seg[t].own
          PROVE  u = t
      <4>1. seg[t].own # w
        BY <1>8, <2>3, <3>5
      <4>2. u # s
        BY <1>4, <3>5, <4>1
      <4>3. seg'[u] = seg[u]
        BY <1>1, <1>5, <3>5, <4>1, <4>2
      <4> QED BY <3>5, <4>3, Parts DEF ListOK
    <3>6. BitsOK(seg[t])'
      BY <3>1, Parts DEF BitsOK
    <3>7. ListOK(t)'
      BY <3>1, <3>4, <3>5, KeptList
    <3>8. BlocksOK(t)'
      BY <2>1, <3>1, <3>3, KeptBlocks
    <3>9. SnapshotOK(t)'
      BY <2>1, <3>1, <3>3, <3>4, KeptSnapshot
    <3>10. ASSUME sig' = sig, owing' = owing, act' = act PROVE PoolOK(t)' /\ CollectOK(t)'
      <4>1. Collecting' <=> Collecting
        BY <3>10 DEF Collecting
      <4>2. PoolOK(t)'
        BY <3>1, <3>10, <4>1, KeptPool
      <4>3. Unreclaimed(t)' <=> Unreclaimed(t)
        BY <3>1, <3>10, <4>1, KeptUnreclaimed
      <4> QED BY <2>1, <3>1, <4>2, <4>3, KeptCollect
    <3> QED BY <3>6, <3>7, <3>8, <3>9, <3>10
  <2> QED BY <2>2, <2>3
<1>9. HasCurrent(w)'
  BY <1>4 DEF HasCurrent, In
<1>10. ASSUME NEW v \in Worker, v # w, HasCurrent(v) PROVE HasCurrent(v)'
  <2>1. PICK u \in Segment : seg[u].own = v /\ seg[u].list = "current"
    BY <1>10, CurrentIs
  <2>2. u # s
    BY <2>1
  <2>3. seg'[u] = seg[u]
    BY <1>1, <1>10, <2>1, <2>2
  <2> QED BY <2>1, <2>3 DEF HasCurrent, In
<1>11. \A t \in Segment : /\ seg'[t].col = IF t = s THEN r.col ELSE seg[t].col
                          /\ seg'[t].list # "partial_marked" \/ seg'[t] = seg[t]
  <2> SUFFICES ASSUME NEW t \in Segment
               PROVE  /\ seg'[t].col = IF t = s THEN r.col ELSE seg[t].col
                      /\ seg'[t].list # "partial_marked" \/ seg'[t] = seg[t]
    OBVIOUS
  <2>1. CASE t = s
    BY <1>4, <2>1
  <2>2. CASE t # s /\ seg[t].own = w /\ seg[t].list = "current"
    BY <1>5, <2>2
  <2>3. CASE t # s /\ ~(seg[t].own = w /\ seg[t].list = "current")
    BY <1>1, <2>3
  <2> QED BY <2>1, <2>2, <2>3
<1>12. ASSUME NEW t \in Segment, seg[s].list # "popped", seg[t].list # "partial_marked"
       PROVE  StaysPopped(t) \/ StaysClear(t)
  <2>1. r = seg[s]
    BY <1>12 DEF Prepared
  <2>2. CASE t = s
    BY <1>4, <1>12, <2>1, <2>2 DEF StaysClear
  <2>3. CASE t # s /\ seg[t].own = w /\ seg[t].list = "current"
    BY <1>5, <2>3 DEF StaysClear
  <2>4. CASE t # s /\ ~(seg[t].own = w /\ seg[t].list = "current")
    BY <1>1, <1>3, <1>12, <2>4 DEF StaysPopped, StaysClear
  <2> QED BY <2>2, <2>3, <2>4
<1> QED BY <1>1, <1>3, <1>7, <1>8, <1>9, <1>10, <1>11, <1>12

-----------------------------------------------------------------------------
(***************************************************************************)
(* Starting a collection                                                   *)
(***************************************************************************)

\* Between two collections, nothing is left of the last one.
LEMMA Calm ==
    ASSUME Good, ~Collecting
    PROVE  /\ sig = PREASYNC /\ owing = {} /\ unsent = {}
           /\ \A w \in Worker : phase[w] = ASYNC /\ act[w] = "none"
           /\ \A t \in Segment : /\ seg[t].list # "partial_marked"
                                 /\ seg[t].list # "popped" /\ t \notin stale => seg[t].col = {}
<1>1. sig = PREASYNC /\ owing = {} /\ \A w \in Worker : act[w] # "gasync"
  BY DEF Collecting
<1>2. Signals /\ TypeOK
  BY Parts
<1>3. unsent = {}
  BY <1>1, <1>2 DEF Signals
<1>4. \A w \in Worker : phase[w] = ASYNC
  BY <1>1, <1>2 DEF Signals, PREASYNC, ASYNC
<1>5. \A w \in Worker : act[w] = "none"
  BY <1>1, <1>2 DEF Signals, TypeOK
<1>6. ASSUME NEW t \in Segment
      PROVE  /\ seg[t].list # "partial_marked"
             /\ seg[t].list # "popped" /\ t \notin stale => seg[t].col = {}
  <2>1. seg[t].list # "partial_marked"
    BY Parts DEF PoolOK
  <2>2. seg[t].own # Pool => phase[seg[t].own] = ASYNC
    BY <1>4, Parts DEF SegmentType
  <2>3. Unreclaimed(t) => seg[t].list = "popped"
    BY <2>1, <2>2 DEF Unreclaimed, ASYNC, MARK, PREASYNC
  <2>4. ~Unreclaimed(t) /\ t \notin stale => seg[t].col = {}
    BY Parts DEF CollectOK
  <2> QED BY <2>1, <2>3, <2>4
<1> QED BY <1>1, <1>3, <1>4, <1>5, <1>6

\* From the start of a collection to the end of tracing.
LEMMA KeptClear ==
    ASSUME Good, NEW t \in Segment, sig' # PREASYNC, StaysPopped(t) \/ StaysClear(t),
           seg[t].list # "popped" /\ t \notin stale => seg[t].col = {}
    PROVE  PoolOK(t)' /\ CollectOK(t)'
<1>1. PoolOK(t)'
  BY DEF PoolOK, StaysPopped, StaysClear
<1>2. CASE StaysPopped(t)
  <2>1. Unreclaimed(t) /\ Unreclaimed(t)'
    BY <1>2 DEF StaysPopped, Unreclaimed
  <2> QED BY <1>1, <1>2, <2>1, KeptCollect DEF StaysPopped
<1>3. CASE StaysClear(t)
  <2>1. ~Unreclaimed(t)'
    BY <1>3 DEF StaysClear, Unreclaimed
  <2>2. t \notin stale => seg'[t].col = {}
    BY <1>3 DEF StaysClear
  <2>3. t \in stale => t \in stale' \/ seg'[t].col = {}
    BY History
  <2>4. t \in stale' => t \in stale
    BY <1>3, History DEF StaysClear
  <2>5. t \in stale => seg'[t].list \in {"current", "filled"}
    BY <1>3, History DEF StaysClear
  <2> QED BY <1>1, <2>1, <2>2, <2>3, <2>4, <2>5 DEF CollectOK
<1> QED BY <1>2, <1>3

\* The signal of the first phase is sent to all workers there are.
LEMMA Started ==
    ASSUME Good, NEW w \in Worker, StartGC(w), users[w] = "run",
           phase' = phase, users' = users, gc_count' = gc_count
    PROVE  /\ Signals'
           /\ sig' = PRESYNC1 /\ owing' \subseteq Worker /\ unsent' \subseteq Worker
           /\ act' \in [Worker -> {"none", "send", "gasync"}]
           /\ \A t \in Segment :
                 /\ seg[t].list # "partial_marked"
                 /\ StaysPopped(t) \/ StaysClear(t) => PoolOK(t)' /\ CollectOK(t)'
<1>1. /\ ~Collecting /\ gc_count < MaxGC
      /\ sig' = PRESYNC1 /\ unsent' = {v \in Worker : users[v] # "none"} /\ owing' = unsent'
      /\ act' = [act EXCEPT ![w] = "send"]
  BY DEF StartGC, Issue
<1>2. /\ sig = PREASYNC /\ owing = {} /\ unsent = {}
      /\ \A v \in Worker : phase[v] = ASYNC /\ act[v] = "none"
  BY <1>1, Calm
<1>3. act \in [Worker -> {"none", "send", "gasync"}]
  BY Parts DEF TypeOK
<1>4. act'[w] = "send" /\ \A v \in Worker : v # w => act'[v] = "none"
  BY <1>1, <1>2, <1>3
<1>5. w \in unsent'
  BY <1>1
<1>6. Signals'
  BY <1>1, <1>2, <1>4, <1>5
     DEF Signals, Registered, Before, PRESYNC1, PREASYNC, ASYNC, Collecting
<1>7. ASSUME NEW t \in Segment, StaysPopped(t) \/ StaysClear(t)
      PROVE  PoolOK(t)' /\ CollectOK(t)'
  <2>1. sig' # PREASYNC
    BY <1>1 DEF PREASYNC, PRESYNC1
  <2> QED BY <1>1, <1>7, <2>1, Calm, KeptClear
<1>8. \A t \in Segment : seg[t].list # "partial_marked"
  BY <1>1, Calm
<1> QED BY <1>1, <1>3, <1>6, <1>7, <1>8

\* A thread that has popped a segment is one of those that owe an answer.
LEMMA StartedPopped ==
    ASSUME Good, NEW w \in Worker, StartGC(w), NEW v \in Worker, pc[v] = "popped"
    PROVE  v \in owing'
<1>1. owing' = {u \in Worker : users[u] # "none"}
  BY DEF StartGC, Issue
<1>2. users[v] = "run"
  BY Parts DEF Workers
<1> QED BY <1>1, <1>2

\* sml_gc.
LEMMA StepGC ==
    ASSUME Good, NEW w \in Worker, sml_gc(w)
    PROVE  IInv'
<1>1. /\ StartGC(w) /\ users[w] = "run"
      /\ UNCHANGED <<seg, ptr, live, room, pc, want, users, phase, gc_count>>
  BY DEF sml_gc
<1>2. /\ Signals'
      /\ sig' = PRESYNC1 /\ owing' \subseteq Worker /\ unsent' \subseteq Worker
      /\ act' \in [Worker -> {"none", "send", "gasync"}]
      /\ \A t \in Segment :
            /\ seg[t].list # "partial_marked"
            /\ StaysPopped(t) \/ StaysClear(t) => PoolOK(t)' /\ CollectOK(t)'
  BY <1>1, Started
<1>3. TypeOK'
  BY <1>1, <1>2, Parts DEF TypeOK, Phase, PRESYNC1
<1>4. Workers'
  BY <1>1, <1>2, StartedPopped, Parts DEF Workers, Registered, HasCurrent, In
<1>5. ASSUME NEW t \in Segment PROVE SegmentOK(t)'
  <2>1. PoolOK(t)' /\ CollectOK(t)'
    BY <1>1, <1>2 DEF StaysPopped, StaysClear
  <2>2. BitsOK(seg[t])' /\ ListOK(t)' /\ BlocksOK(t)' /\ SnapshotOK(t)'
    <3>1. BitsOK(seg[t]) /\ ListOK(t) /\ BlocksOK(t) /\ SnapshotOK(t)
      BY Parts
    <3> QED BY <1>1, <3>1 DEF BitsOK, ListOK, BlocksOK, SnapshotOK, Registered, Objects
  <2> QED BY <2>1, <2>2 DEF SegmentOK
<1> QED BY <1>2, <1>3, <1>4, <1>5 DEF IInv

-----------------------------------------------------------------------------
(***************************************************************************)
(* find_segment                                                            *)
(***************************************************************************)

\* A segment that try_find_segment has taken.
LEMMA StepTake ==
    ASSUME Good, NEW w \in Worker, NEW s \in Sources(w, phase[w]), Searching(w),
           room' = (IF seg[s].own = w /\ seg[s].list = "partial"
                    THEN room ELSE [room EXCEPT ![w] = @ - 1]),
           (HasCurrent(w) /\ StartGC(w)) \/ UNCHANGED <<act, sig, unsent, owing>>,
           seg[s].list # "partial_marked", Take(w, s, phase[w]), Goto(w, "run"),
           UNCHANGED <<want, users, phase, gc_count>>
    PROVE  IInv'
<1>1. /\ s \in Segment
      /\ \/ seg[s].own = w /\ seg[s].list \in {"partial", "freelist"}
         \/ seg[s].own = Pool /\ seg[s].list \in {"partial", "freelist"}
      /\ (seg[s].own = w /\ seg[s].list = "partial") \/ room[w] > 0
  BY SourcesOf
<1>2. seg[s] \in SegmentType /\ BitsOK(seg[s]) /\ ListOK(s) /\ PoolOK(s) /\ BlocksOK(s) /\ CollectOK(s)
  BY <1>1, Parts
<1>3. users[w] = "run" /\ Registered(w) /\ pc[w] \in {"run", "wait1", "wait2"}
  BY DEF Searching, Registered
<1>4. seg[s] = Prepared(seg[s], phase[w])
  BY <1>1 DEF Prepared
<1>5. seg[s].snap = 0 /\ ~(Block \subseteq seg[s].bm0) /\ Objects(s) \subseteq seg[s].bm0
  BY <1>1, <1>2, Numbers DEF BlocksOK
<1>6. pc \in [Worker -> {"run", "wait1", "wait2", "popped", "register", "fatal"}]
      /\ room \in [Worker -> 0 .. MaxRoom] /\ MaxRoom \in Nat
  BY Parts, BoundAssumption DEF TypeOK
<1>7. /\ pc' \in [Worker -> {"run", "wait1", "wait2", "popped", "register", "fatal"}]
      /\ pc'[w] = "run" /\ \A v \in Worker : v # w => pc'[v] = pc[v]
  BY <1>6 DEF Goto
<1>8. room' \in [Worker -> 0 .. MaxRoom]
  <2>1. CASE seg[s].own = w /\ seg[s].list = "partial"
    BY <2>1, <1>6
  <2>2. CASE ~(seg[s].own = w /\ seg[s].list = "partial")
    <3>1. room[w] > 0 /\ room[w] - 1 \in 0 .. MaxRoom
      BY <2>2, <1>1, <1>6
    <3> QED BY <2>2, <3>1, <1>6
  <2> QED BY <2>1, <2>2
<1>9. \A t \in Segment : seg[t].own = w => seg[t].list # "popped"
  BY <1>3, Parts DEF ListOK
<1>10. phase' = phase /\ users' = users /\ want' = want /\ gc_count' = gc_count
  OBVIOUS
<1>11. /\ seg' \in [Segment -> SegmentType] /\ live' \subseteq Segment \X Block
       /\ ptr' \in [Worker -> 0 .. N]
       /\ HasCurrent(w)' /\ \A v \in Worker : v # w /\ HasCurrent(v) => HasCurrent(v)'
       /\ \A t \in Segment :
             /\ BitsOK(seg[t])' /\ ListOK(t)' /\ BlocksOK(t)' /\ SnapshotOK(t)'
             /\ seg[t].list # "partial_marked" => StaysPopped(t) \/ StaysClear(t)
       /\ /\ sig' = sig /\ owing' = owing /\ act' = act
          /\ Unreclaimed(s)' => seg[s].col = Objects(s)
          /\ ~Unreclaimed(s)' => seg[s].col = {}
          => \A t \in Segment : PoolOK(t)' /\ CollectOK(t)'
  <2> DEFINE r == seg[s]
  <2>1. r \in SegmentType /\ r = Prepared(seg[s], phase[w]) /\ BitsOK(r)
        /\ ~(Block \subseteq r.bm0) /\ r.snap = 0 /\ Objects(s) \subseteq r.bm0
        /\ seg[s].list # "current"
    BY <1>1, <1>2, <1>4, <1>5
  <2> HIDE DEF r
  <2>2. /\ \A t \in Segment : seg[t].own = w /\ seg[t].list = "popped" => t = s
        /\ seg[s].list # "popped"
    BY <1>1, <1>9
  <2>3. /\ seg' \in [Segment -> SegmentType] /\ live' \subseteq Segment \X Block
        /\ ptr' \in [Worker -> 0 .. N]
        /\ HasCurrent(w)' /\ \A v \in Worker : v # w /\ HasCurrent(v) => HasCurrent(v)'
        /\ \A t \in Segment :
              /\ BitsOK(seg[t])' /\ ListOK(t)' /\ BlocksOK(t)' /\ SnapshotOK(t)'
              /\ seg[t].list # "partial_marked" => StaysPopped(t) \/ StaysClear(t)
        /\ /\ sig' = sig /\ owing' = owing /\ act' = act
           /\ Unreclaimed(s)' => r.col = Objects(s)
           /\ ~Unreclaimed(s)' => r.col = {}
           => \A t \in Segment : PoolOK(t)' /\ CollectOK(t)'
    BY <1>1, <1>3, <1>7, <1>10, <2>1, <2>2, TakeOK
  <2> QED BY <2>3 DEF r
<1>12. ASSUME \A v \in Worker : pc[v] = "popped" =>
                 sig' = PREASYNC \/ (sig' = PRESYNC1 /\ v \in owing')
       PROVE  Workers'
  BY <1>3, <1>7, <1>10, <1>11, <1>12, Parts DEF Workers, Registered
<1>13. CASE HasCurrent(w) /\ StartGC(w)
  <2>1. /\ Signals'
        /\ sig' = PRESYNC1 /\ owing' \subseteq Worker /\ unsent' \subseteq Worker
        /\ act' \in [Worker -> {"none", "send", "gasync"}]
        /\ \A t \in Segment :
              /\ seg[t].list # "partial_marked"
              /\ StaysPopped(t) \/ StaysClear(t) => PoolOK(t)' /\ CollectOK(t)'
    BY <1>3, <1>10, <1>13, Started
  <2>2. \A t \in Segment : SegmentOK(t)'
    BY <1>1, <1>11, <2>1 DEF SegmentOK
  <2>3. TypeOK'
    BY <1>7, <1>8, <1>10, <1>11, <2>1, Parts DEF TypeOK, Phase, PRESYNC1
  <2>4. Workers'
    BY <1>12, <1>13, <2>1, StartedPopped
  <2> QED BY <2>1, <2>2, <2>3, <2>4 DEF IInv
<1>14. CASE UNCHANGED <<act, sig, unsent, owing>>
  <2>1. Signals'
    BY <1>10, <1>14, KeptSignals
  <2>2. /\ Unreclaimed(s)' => seg[s].col = Objects(s)
        /\ ~Unreclaimed(s)' => seg[s].col = {}
    <3>0. s \notin stale
      BY <1>1, History
    <3>1. seg'[s].own = w /\ seg'[s].list = "current"
      BY <1>1, <1>2, <1>4, <1>5, Taken, MadeCurrent
    <3>2. Unreclaimed(s)' <=> sig = PREASYNC /\ phase[w] \in {MARK, PREASYNC}
      BY <1>10, <1>14, <3>1, PoolAssumption DEF Unreclaimed
    <3>3. CASE seg[s].own = w
      <4>1. Unreclaimed(s) <=> sig = PREASYNC /\ phase[w] \in {MARK, PREASYNC}
        BY <1>1, <3>3, PoolAssumption DEF Unreclaimed
      <4>2. seg[s].snap = 0 /\ Objects(s) \subseteq seg[s].bm0
        BY <1>5
      <4> QED BY <1>2, <3>0, <3>2, <4>1, <4>2 DEF CollectOK
    <3>4. CASE seg[s].own = Pool
      <4>1. ~Unreclaimed(s)
        BY <1>1, <3>4 DEF Unreclaimed
      <4>2. seg[s].col = {}
        BY <1>2, <3>0, <4>1 DEF CollectOK
      <4>3. seg[s].list = "freelist" => Objects(s) = {}
        BY <1>2 DEF BlocksOK
      <4>4. ASSUME seg[s].list = "partial" PROVE ~Unreclaimed(s)'
        <5>1. sig # PREASYNC \/ owing = {}
          BY <1>2, <3>4, <4>4 DEF PoolOK
        <5>2. sig = PREASYNC /\ owing = {} => phase[w] = ASYNC
          BY <1>3, Parts DEF Signals, PREASYNC, ASYNC
        <5> QED BY <3>2, <5>1, <5>2 DEF ASYNC, MARK, PREASYNC
      <4> QED BY <1>1, <3>4, <4>2, <4>3, <4>4
    <3> QED BY <1>1, <3>3, <3>4
  <2>3. \A t \in Segment : SegmentOK(t)'
    BY <1>11, <1>14, <2>2 DEF SegmentOK
  <2>4. TypeOK'
    BY <1>7, <1>8, <1>10, <1>11, <1>14, Parts DEF TypeOK
  <2>5. Workers'
    BY <1>12, <1>14, Parts DEF Workers
  <2> QED BY <2>1, <2>3, <2>4, <2>5 DEF IInv
<1> QED BY <1>13, <1>14

\* A segment of partial_marked is popped, but not taken yet.
LEMMA StepPop ==
    ASSUME Good, NEW w \in Worker, NEW s \in Sources(w, phase[w]), Searching(w),
           room' = (IF seg[s].own = w /\ seg[s].list = "partial"
                    THEN room ELSE [room EXCEPT ![w] = @ - 1]),
           (HasCurrent(w) /\ StartGC(w)) \/ UNCHANGED <<act, sig, unsent, owing>>,
           seg[s].list = "partial_marked",
           seg' = [Release(w, phase[w]) EXCEPT ![s].own = w, ![s].list = "popped"],
           Goto(w, "popped"),
           UNCHANGED <<live, ptr, want, users, phase, gc_count>>
    PROVE  IInv'
<1>1. s \in Segment /\ seg[s].own = Pool /\ w # Pool /\ room[w] > 0
  BY SourcesOf, Parts, PoolAssumption DEF ListOK
<1>2. /\ seg[s] \in SegmentType /\ BitsOK(seg[s]) /\ ListOK(s) /\ PoolOK(s)
      /\ BlocksOK(s) /\ CollectOK(s)
  BY <1>1, Parts
<1>3. sig = PREASYNC /\ Collecting
  BY <1>2 DEF PoolOK
<1>4. UNCHANGED <<act, sig, unsent, owing>>
  BY <1>3 DEF StartGC
<1>5. users[w] = "run" /\ Registered(w) /\ pc[w] \in {"run", "wait1", "wait2"}
  BY DEF Searching, Registered
<1>6. pc \in [Worker -> {"run", "wait1", "wait2", "popped", "register", "fatal"}]
      /\ room \in [Worker -> 0 .. MaxRoom] /\ MaxRoom \in Nat
  BY Parts, BoundAssumption DEF TypeOK
<1>7. /\ pc' \in [Worker -> {"run", "wait1", "wait2", "popped", "register", "fatal"}]
      /\ pc'[w] = "popped" /\ \A v \in Worker : v # w => pc'[v] = pc[v]
  BY <1>6 DEF Goto
<1>8. room' \in [Worker -> 0 .. MaxRoom]
  <2>1. room[w] - 1 \in 0 .. MaxRoom
    BY <1>1, <1>6
  <2> QED BY <2>1, <1>1, <1>6
<1> DEFINE x == [seg[s] EXCEPT !.own = w, !.list = "popped"]
           f == Release(w, phase[w])
<1>9. /\ x \in SegmentType /\ x.own = w /\ x.list = "popped" /\ x.snap = seg[s].snap
      /\ x.col = seg[s].col /\ x.bm0 = seg[s].bm0 /\ x.bm1 = seg[s].bm1
  BY <1>2 DEF SegmentType
<1>10. /\ seg' \in [Segment -> SegmentType] /\ seg'[s] = x
       /\ \A t \in Segment : t # s =>
             seg'[t] = IF seg[t].own = w /\ seg[t].list = "current"
                       THEN SetFilled(seg[t], phase[w]) ELSE seg[t]
  <2>1. f \in [Segment -> SegmentType] /\ f[s] = seg[s]
        /\ \A t \in Segment :
              f[t] = IF seg[t].own = w /\ seg[t].list = "current"
                     THEN SetFilled(seg[t], phase[w]) ELSE seg[t]
    BY <1>1, Released
  <2>2. seg' = [f EXCEPT ![s] = [f[s] EXCEPT !.own = w, !.list = "popped"]]
    <3>1. f[s] \in SegmentType
      BY <1>2, <2>1
    <3> HIDE DEF f
    <3>2. [f EXCEPT ![s].own = w, ![s].list = "popped"]
            = [f EXCEPT ![s] = [f[s] EXCEPT !.own = w, !.list = "popped"]]
      BY <1>1, <2>1, <3>1 DEF SegmentType
    <3> QED BY <3>2 DEF f
  <2>3. [f[s] EXCEPT !.own = w, !.list = "popped"] = x
    BY <2>1
  <2> HIDE DEF f, x
  <2>4. seg' = [f EXCEPT ![s] = x]
    BY <2>2, <2>3
  <2>5. seg' \in [Segment -> SegmentType] /\ seg'[s] = x
    <3>1. s \in Segment /\ x \in SegmentType /\ f \in [Segment -> SegmentType]
      BY <1>1, <1>9, <2>1
    <3> QED BY <2>4, <3>1
  <2>6. \A t \in Segment : t # s => seg'[t] = f[t]
    BY <2>1, <2>4
  <2> QED BY <2>1, <2>5, <2>6
<1> HIDE DEF x, f
<1>11. Signals'
  BY <1>4, KeptSignals
<1>12. TypeOK'
  BY <1>4, <1>7, <1>8, <1>10, Parts DEF TypeOK
<1>13. \A t \in Segment : /\ seg[t] \in SegmentType
                          /\ seg[t].own = w /\ seg[t].list = "current" /\ t # s =>
                                seg'[t].own = w /\ seg'[t].list = "filled"
  BY <1>10, Parts, MadeFilled
<1>14. Workers'
  <2>1. ASSUME NEW v \in Worker, v # w, HasCurrent(v) PROVE HasCurrent(v)'
    <3>1. PICK u \in Segment : seg[u].own = v /\ seg[u].list = "current"
      BY <2>1, CurrentIs
    <3>2. seg'[u] = seg[u]
      BY <1>10, <2>1, <3>1
    <3> QED BY <3>1, <3>2 DEF HasCurrent, In
  <2> QED BY <1>3, <1>4, <1>5, <1>7, <2>1, Parts DEF Workers, Registered
<1>15. SegmentOK(s)'
  <2>1. BitsOK(seg[s])'
    BY <1>2, <1>9, <1>10 DEF BitsOK
  <2>2. ListOK(s)'
    <3>1. ASSUME NEW u \in Segment, seg'[u].list = "popped", seg'[u].own = w PROVE u = s
      <4>1. seg[u].own = w => seg[u].list # "popped"
        BY <1>5, Parts DEF ListOK
      <4> QED BY <1>10, <1>13, <3>1, <4>1
    <3> QED BY <1>1, <1>5, <1>7, <1>9, <1>10, <3>1 DEF ListOK, Registered
  <2>3. PoolOK(s)'
    BY <1>1, <1>9, <1>10 DEF PoolOK
  <2>4. BlocksOK(s)'
    BY <1>2, <1>9, <1>10 DEF BlocksOK, Objects
  <2>5. SnapshotOK(s)'
    BY <1>1, <1>5, <1>9, <1>10 DEF SnapshotOK, Registered
  <2>6. CollectOK(s)'
    <3>1. Unreclaimed(s) /\ Unreclaimed(s)'
      BY <1>3, <1>4, <1>9, <1>10 DEF Unreclaimed
    <3>2. Objects(s)' = Objects(s)
      BY DEF Objects
    <3>3. seg'[s].col = seg[s].col /\ seg'[s].bm0 = seg[s].bm0 /\ seg'[s].snap = seg[s].snap
      BY <1>9, <1>10
    <3>4. CollectOK(s)
      BY <1>2
    <3>5. s \notin stale /\ s \notin stale'
      BY <1>1, <1>4, History
    <3> QED BY <3>1, <3>2, <3>3, <3>4, <3>5 DEF CollectOK
  <2> QED BY <2>1, <2>2, <2>3, <2>4, <2>5, <2>6 DEF SegmentOK
<1>16. ASSUME NEW t \in Segment, t # s PROVE SegmentOK(t)'
  <2>1. CASE seg[t].own = w /\ seg[t].list = "current"
    <3>1. /\ BitsOK(seg[t])' /\ ListOK(t)' /\ BlocksOK(t)' /\ SnapshotOK(t)'
          /\ sig' = sig /\ owing' = owing /\ act' = act => PoolOK(t)' /\ CollectOK(t)'
      BY <1>5, <1>10, <1>16, <2>1, FilledOK
    <3> QED BY <1>4, <3>1 DEF SegmentOK
  <2>2. CASE ~(seg[t].own = w /\ seg[t].list = "current")
    <3>1. seg'[t] = seg[t]
      BY <1>10, <1>16, <2>2
    <3>2. seg[t].own # Pool => seg[t].own \in Worker
      BY Parts DEF SegmentType
    <3>3. seg[t].own # Pool =>
              (seg[t].list = "popped" \/ users[seg[t].own] = "none"
                    => pc'[seg[t].own] = pc[seg[t].own])
      <4>1. seg[t].own = w => seg[t].list # "popped" /\ users[w] # "none"
        BY <1>5, Parts DEF ListOK
      <4> QED BY <1>7, <3>2, <4>1
    <3>4. ASSUME seg[t].list \in {"current", "popped"}, NEW u \in Segment,
                 seg'[u].list = seg[t].list, seg'[u].own = seg[t].own
          PROVE  u = t
      <4>1. seg[t].own # w
        BY <1>1, <1>5, <2>2, <3>4, Parts DEF ListOK
      <4>2. u # s
        BY <1>9, <1>10, <3>4, <4>1
      <4>3. seg'[u] = seg[u]
        BY <1>10, <1>13, <3>4, <4>1, <4>2
      <4> QED BY <3>4, <4>3, Parts DEF ListOK
    <3> QED BY <1>4, <3>1, <3>3, <3>4, KeptSegment
  <2> QED BY <2>1, <2>2
<1> QED BY <1>11, <1>12, <1>14, <1>15, <1>16 DEF IInv

\* try_find_segment.
LEMMA StepFind ==
    ASSUME Good, NEW w \in Worker, try_find_segment(w)
    PROVE  IInv'
<1>1. PICK s \in Sources(w, phase[w]) :
        /\ Searching(w)
        /\ room' = IF seg[s].own = w /\ seg[s].list = "partial"
                   THEN room ELSE [room EXCEPT ![w] = @ - 1]
        /\ (HasCurrent(w) /\ StartGC(w)) \/ UNCHANGED <<act, sig, unsent, owing>>
        /\ IF seg[s].list = "partial_marked"
           THEN /\ seg' = [Release(w, phase[w]) EXCEPT ![s].own = w, ![s].list = "popped"]
                /\ Goto(w, "popped")
                /\ UNCHANGED <<live, ptr>>
           ELSE /\ Take(w, s, phase[w])
                /\ Goto(w, "run")
        /\ UNCHANGED <<want, users, phase, gc_count>>
  BY DEF try_find_segment
<1>2. CASE seg[s].list = "partial_marked"
  <2>1. /\ seg' = [Release(w, phase[w]) EXCEPT ![s].own = w, ![s].list = "popped"]
        /\ Goto(w, "popped") /\ UNCHANGED <<live, ptr, want, users, phase, gc_count>>
    BY <1>1, <1>2
  <2> QED BY <1>1, <1>2, <2>1, StepPop
<1>3. CASE seg[s].list # "partial_marked"
  BY <1>1, <1>3, StepTake
<1> QED BY <1>2, <1>3

\* What is left of get_segment_from_pool: the segment is prepared if its worker
\* has reclaimed meanwhile.
LEMMA StepPopped ==
    ASSUME Good, NEW w \in Worker, take_popped(w)
    PROVE  IInv'
<1>1. PICK s \in Segment : /\ seg[s].own = w /\ seg[s].list = "popped"
                           /\ Take(w, s, phase[w]) /\ Goto(w, "run")
                           /\ UNCHANGED <<room, act, want, users, phase, sig, unsent, owing, gc_count>>
  BY DEF take_popped, In, signal
<1>2. /\ seg[s] \in SegmentType /\ BitsOK(seg[s]) /\ ListOK(s) /\ BlocksOK(s) /\ CollectOK(s)
      /\ w # Pool
  BY Parts, PoolAssumption
<1>3. /\ pc[w] = "popped" /\ Registered(w) /\ users[w] = "run"
      /\ sig = PREASYNC \/ (sig = PRESYNC1 /\ w \in owing)
  BY <1>1, <1>2, Parts DEF ListOK, Workers
<1>4. pc \in [Worker -> {"run", "wait1", "wait2", "popped", "register", "fatal"}]
  BY Parts DEF TypeOK
<1>5. /\ pc' \in [Worker -> {"run", "wait1", "wait2", "popped", "register", "fatal"}]
      /\ pc'[w] = "run" /\ \A v \in Worker : v # w => pc'[v] = pc[v]
  BY <1>1, <1>4 DEF Goto
<1>6. seg[s].snap = 0 /\ Objects(s) \subseteq seg[s].bm0 /\ ~(Block \subseteq seg[s].bm0)
      /\ Unreclaimed(s) /\ seg[s].col = Objects(s)
  <2>1. seg[s].snap = 0 /\ Objects(s) \subseteq seg[s].bm0 /\ ~(Block \subseteq seg[s].bm0)
    BY <1>1, <1>2 DEF BlocksOK
  <2>2. Unreclaimed(s)
    BY <1>1 DEF Unreclaimed
  <2>3. s \notin stale
    BY <1>1, History
  <2> QED BY <1>2, <2>1, <2>2, <2>3 DEF CollectOK
<1>7. IF sig = PREASYNC THEN phase[w] \in {MARK, PREASYNC, ASYNC}
                        ELSE phase[w] \in {ASYNC, PRESYNC1}
  BY <1>3, Parts DEF Signals, Before, PREASYNC, ASYNC, MARK, PRESYNC1
<1>8. PICK r \in SegmentType :
         /\ r = Prepared(seg[s], phase[w]) /\ BitsOK(r) /\ ~(Block \subseteq r.bm0)
         /\ r.snap = 0 /\ Objects(s) \subseteq r.bm0
         /\ r.col = IF phase[w] = ASYNC THEN {} ELSE Objects(s)
  <2>1. CASE phase[w] # ASYNC
    BY <1>2, <1>6, <2>1 DEF Prepared
  <2>2. CASE phase[w] = ASYNC
    <3> DEFINE c == CopyBits(seg[s])
    <3>1. /\ c \in SegmentType /\ BitsOK(c) /\ c.snap = 0 /\ c.bm0 \cap Block = Objects(s)
      BY <1>2, <1>6, Copied
    <3>2. Prepared(seg[s], phase[w]) = ClearBits(c)
      BY <1>1, <2>2 DEF Prepared
    <3> HIDE DEF c
    <3>3. /\ ClearBits(c) \in SegmentType /\ BitsOK(ClearBits(c)) /\ ClearBits(c).snap = 0
          /\ ClearBits(c).bm0 \cap Block = Objects(s) /\ ClearBits(c).col = {}
      BY <3>1, Cleared
    <3>4. Objects(s) \subseteq ClearBits(c).bm0
      BY <3>3
    <3>5. ~(Block \subseteq ClearBits(c).bm0)
      BY <3>3, <1>6
    <3> QED BY <2>2, <3>2, <3>3, <3>4, <3>5
  <2> QED BY <2>1, <2>2
<1>9. phase' = phase /\ users' = users /\ seg[s].list # "current"
  BY <1>1
<1>10. \A t \in Segment : seg[t].own = w /\ seg[t].list = "popped" => t = s
  BY <1>1, <1>2 DEF ListOK
<1>11. /\ seg' \in [Segment -> SegmentType] /\ live' \subseteq Segment \X Block
       /\ ptr' \in [Worker -> 0 .. N]
       /\ HasCurrent(w)' /\ \A v \in Worker : v # w /\ HasCurrent(v) => HasCurrent(v)'
       /\ \A t \in Segment :
             /\ BitsOK(seg[t])' /\ ListOK(t)' /\ BlocksOK(t)' /\ SnapshotOK(t)'
       /\ /\ sig' = sig /\ owing' = owing /\ act' = act
          /\ Unreclaimed(s)' => r.col = Objects(s)
          /\ ~Unreclaimed(s)' => r.col = {} \/ s \in stale'
          => \A t \in Segment : PoolOK(t)' /\ CollectOK(t)'
  <2>1. Take(w, s, phase[w])
    BY <1>1
  <2> QED BY <1>3, <1>5, <1>8, <1>9, <1>10, <2>1, TakeOK, ZenonT(40)
<1>12. /\ Unreclaimed(s)' => r.col = Objects(s)
       /\ ~Unreclaimed(s)' => r.col = {} \/ s \in stale'
  <2>1. seg'[s].own = w /\ seg'[s].list = "current" /\ seg'[s].col = r.col
    BY <1>1, <1>8, Taken, MadeCurrent
  <2>2. Unreclaimed(s)' <=> sig = PREASYNC /\ phase[w] \in {MARK, PREASYNC}
    BY <1>1, <1>2, <2>1 DEF Unreclaimed
  <2>3. CASE sig = PREASYNC \/ phase[w] = ASYNC
    BY <1>7, <1>8, <2>2, <2>3 DEF ASYNC, MARK, PREASYNC
  <2>4. CASE sig # PREASYNC /\ phase[w] # ASYNC
    <3>1. TakenLate(s)
      BY <1>1, <1>7, <2>1, <2>4 DEF TakenLate
    <3> QED BY <2>1, <2>2, <2>4, <3>1, History
  <2> QED BY <2>3, <2>4
<1>13. \A t \in Segment : SegmentOK(t)'
  BY <1>1, <1>11, <1>12 DEF SegmentOK
<1>14. Signals'
  BY <1>1, KeptSignals
<1>15. Workers'
  BY <1>1, <1>3, <1>5, <1>11, Parts DEF Workers, Registered
<1>16. TypeOK'
  BY <1>1, <1>5, <1>11, Parts DEF TypeOK
<1> QED BY <1>13, <1>14, <1>15, <1>16 DEF IInv

\* sml_wait_gc.
LEMMA StepWait ==
    ASSUME Good, NEW w \in Worker, sml_wait_gc(w)
    PROVE  IInv'
<1>1. /\ Searching(w) /\ seg' = Release(w, phase[w])
      /\ Goto(w, CASE pc[w] = "run" -> "wait1" [] pc[w] = "wait1" -> "wait2"
                   [] pc[w] = "wait2" -> "fatal")
      /\ want' = [want EXCEPT ![w] = gc_count + 1]
      /\ UNCHANGED <<act, sig, unsent, owing>> \/ StartGC(w)
      /\ UNCHANGED <<ptr, live, room, users, phase, gc_count>>
  BY DEF sml_wait_gc
<1>2. users[w] = "run" /\ Registered(w) /\ pc[w] \in {"run", "wait1", "wait2"} /\ w # Pool
  BY <1>1, PoolAssumption DEF Searching, Registered
<1>3. pc \in [Worker -> {"run", "wait1", "wait2", "popped", "register", "fatal"}]
      /\ want \in [Worker -> 0 .. MaxGC + 1] /\ MaxGC \in Nat /\ gc_count \in 0 .. MaxGC
  BY Parts, BoundAssumption DEF TypeOK
<1>4. /\ pc' \in [Worker -> {"run", "wait1", "wait2", "popped", "register", "fatal"}]
      /\ pc'[w] \in {"wait1", "wait2", "fatal"} /\ \A v \in Worker : v # w => pc'[v] = pc[v]
  <2> DEFINE l == CASE pc[w] = "run" -> "wait1" [] pc[w] = "wait1" -> "wait2"
                    [] pc[w] = "wait2" -> "fatal"
  <2>1. l \in {"wait1", "wait2", "fatal"} /\ pc' = [pc EXCEPT ![w] = l]
    BY <1>1, <1>2 DEF Goto
  <2> HIDE DEF l
  <2> QED BY <1>3, <2>1
<1>5. want' \in [Worker -> 0 .. MaxGC + 1]
  BY <1>1, <1>3
<1>6. /\ seg' \in [Segment -> SegmentType]
      /\ \A t \in Segment :
            seg'[t] = IF seg[t].own = w /\ seg[t].list = "current"
                      THEN SetFilled(seg[t], phase[w]) ELSE seg[t]
  BY <1>1, Released
<1>7. \A t \in Segment : seg[t].own = w /\ seg[t].list = "current" =>
                            /\ seg'[t].own = w /\ seg'[t].list = "filled"
                            /\ seg'[t].col = seg[t].col
  BY <1>6, Parts, MadeFilled
<1>8. ASSUME NEW t \in Segment
      PROVE  /\ BitsOK(seg[t])' /\ ListOK(t)' /\ BlocksOK(t)' /\ SnapshotOK(t)'
             /\ seg[t].list # "partial_marked" => StaysPopped(t) \/ StaysClear(t)
             /\ sig' = sig /\ owing' = owing /\ act' = act => PoolOK(t)' /\ CollectOK(t)'
  <2>1. CASE seg[t].own = w /\ seg[t].list = "current"
    BY <1>1, <1>2, <1>6, <1>7, <2>1, FilledOK DEF StaysClear
  <2>2. CASE ~(seg[t].own = w /\ seg[t].list = "current")
    <3>1. seg'[t] = seg[t]
      BY <1>6, <2>2
    <3>2. seg[t].own # Pool => seg[t].own \in Worker
      BY Parts DEF SegmentType
    <3>3. seg[t].own # Pool =>
              (seg[t].list = "popped" \/ users[seg[t].own] = "none"
                    => pc'[seg[t].own] = pc[seg[t].own])
      <4>1. seg[t].own = w => seg[t].list # "popped" /\ users[w] # "none"
        BY <1>2, Parts DEF ListOK
      <4> QED BY <1>4, <3>2, <4>1
    <3>4. ASSUME seg[t].list \in {"current", "popped"}, NEW u \in Segment,
                 seg'[u].list = seg[t].list, seg'[u].own = seg[t].own
          PROVE  u = t
      <4>1. seg'[u] = seg[u]
        BY <1>6, <1>7, <2>2, <3>4
      <4> QED BY <3>4, <4>1, Parts DEF ListOK
    <3>5. BitsOK(seg[t])'
      BY <3>1, Parts DEF BitsOK
    <3>6. ListOK(t)'
      BY <1>1, <3>1, <3>3, <3>4, KeptList
    <3>7. BlocksOK(t)'
      BY <1>1, <3>1, KeptBlocks
    <3>8. SnapshotOK(t)'
      BY <1>1, <3>1, KeptSnapshot
    <3>9. ASSUME sig' = sig, owing' = owing, act' = act PROVE PoolOK(t)' /\ CollectOK(t)'
      <4>1. Collecting' <=> Collecting
        BY <3>9 DEF Collecting
      <4>2. PoolOK(t)'
        BY <3>1, <3>9, <4>1, KeptPool
      <4>3. Unreclaimed(t)' <=> Unreclaimed(t)
        BY <1>1, <3>1, <3>9, <4>1, KeptUnreclaimed
      <4> QED BY <1>1, <3>1, <4>2, <4>3, KeptCollect
    <3>10. seg[t].list # "partial_marked" => StaysPopped(t) \/ StaysClear(t)
      BY <1>1, <3>1 DEF StaysPopped, StaysClear
    <3> QED BY <3>5, <3>6, <3>7, <3>8, <3>9, <3>10
  <2> QED BY <2>1, <2>2
<1>9. ASSUME NEW v \in Worker, v # w, HasCurrent(v) PROVE HasCurrent(v)'
  <2>1. PICK u \in Segment : seg[u].own = v /\ seg[u].list = "current"
    BY <1>9, CurrentIs
  <2>2. seg'[u] = seg[u]
    BY <1>6, <1>9, <2>1
  <2> QED BY <2>1, <2>2 DEF HasCurrent, In
<1>10. ASSUME \A v \in Worker : pc[v] = "popped" =>
                 sig' = PREASYNC \/ (sig' = PRESYNC1 /\ v \in owing')
       PROVE  Workers'
  BY <1>1, <1>2, <1>4, <1>9, <1>10, Parts DEF Workers, Registered
<1>11. CASE StartGC(w)
  <2>1. /\ Signals'
        /\ sig' = PRESYNC1 /\ owing' \subseteq Worker /\ unsent' \subseteq Worker
        /\ act' \in [Worker -> {"none", "send", "gasync"}]
        /\ \A t \in Segment :
              /\ seg[t].list # "partial_marked"
              /\ StaysPopped(t) \/ StaysClear(t) => PoolOK(t)' /\ CollectOK(t)'
    BY <1>1, <1>2, <1>11, Started
  <2>2. \A t \in Segment : SegmentOK(t)'
    BY <1>8, <2>1 DEF SegmentOK
  <2>3. TypeOK'
    BY <1>1, <1>4, <1>5, <1>6, <2>1, Parts DEF TypeOK, Phase, PRESYNC1
  <2>4. Workers'
    BY <1>10, <1>11, <2>1, StartedPopped
  <2> QED BY <2>1, <2>2, <2>3, <2>4 DEF IInv
<1>12. CASE UNCHANGED <<act, sig, unsent, owing>>
  <2>1. Signals'
    BY <1>1, <1>12, KeptSignals
  <2>2. \A t \in Segment : SegmentOK(t)'
    BY <1>8, <1>12 DEF SegmentOK
  <2>3. TypeOK'
    BY <1>1, <1>4, <1>5, <1>6, <1>12, Parts DEF TypeOK
  <2>4. Workers'
    BY <1>10, <1>12, Parts DEF Workers
  <2> QED BY <2>1, <2>2, <2>3, <2>4 DEF IInv
<1> QED BY <1>1, <1>11, <1>12

-----------------------------------------------------------------------------
(***************************************************************************)
(* Signals and answers                                                     *)
(***************************************************************************)

\* A worker accepts the signal that is out, and only that.
LEMMA Accepting ==
    ASSUME Good, NEW w \in Worker, NEW p \in {PREASYNC, PRESYNC1, PRESYNC2, PREMARK},
           Accepts(w, p)
    PROVE  /\ sig = p /\ w \in owing /\ w \notin unsent /\ Registered(w)
           /\ act[w] = "none" /\ pc[w] \in {"run", "wait1", "wait2"}
           /\ phase' \in [Worker -> Phase] /\ phase'[w] = p + 1
           /\ \A v \in Worker : v # w => phase'[v] = phase[v]
<1>1. /\ phase[w] = p /\ act[w] = "none" /\ users[w] # "none"
      /\ pc[w] \in {"run", "wait1", "wait2"}
      /\ phase' = [phase EXCEPT ![w] = Accept(phase[w])]
  BY DEF Accepts
<1>2. Signals /\ phase \in [Worker -> Phase]
  BY Parts DEF TypeOK
<1>3. sig = p /\ w \in owing /\ w \notin unsent
  BY <1>1, <1>2
     DEF Signals, Before, Registered, PREASYNC, ASYNC, PRESYNC1, PRESYNC2, PREMARK, MARK
<1>4. Accept(p) = p + 1 /\ p + 1 \in Phase
  BY DEF Accept, Phase, PREASYNC, PRESYNC1, PRESYNC2, PREMARK
<1>5. phase' = [phase EXCEPT ![w] = p + 1]
  BY <1>1, <1>4
<1> QED BY <1>1, <1>2, <1>3, <1>4, <1>5 DEF Registered

\* The last answer makes the next signal be sent.
LEMMA Answered ==
    ASSUME Good, NEW w \in Worker,
           NEW p \in {PRESYNC1, PRESYNC2, PREMARK}, NEW q \in {PRESYNC2, PREMARK, PREASYNC},
           p + 1 = Before(q), Accepts(w, p), Answer(w, q),
           \A v \in Worker : /\ users'[v] = "none" <=> users[v] = "none"
                             /\ v # w => users'[v] = users[v],
           gc_count' = gc_count
    PROVE  /\ Signals'
           /\ sig' \in Phase /\ unsent' \subseteq Worker /\ owing' \subseteq Worker
           /\ act' \in [Worker -> {"none", "send", "gasync"}]
           /\ IF owing = {w}
              THEN /\ sig' = q /\ owing' # {} /\ \A v \in Worker : Registered(v) => phase'[v] = p + 1
              ELSE sig' = p
<1>1. /\ sig = p /\ w \in owing /\ w \notin unsent /\ Registered(w)
      /\ act[w] = "none"
      /\ phase' \in [Worker -> Phase] /\ phase'[w] = p + 1
      /\ \A v \in Worker : v # w => phase'[v] = phase[v]
  BY Accepting
<1>2. /\ Signals /\ act \in [Worker -> {"none", "send", "gasync"}]
      /\ unsent \subseteq Worker /\ owing \subseteq Worker
  BY Parts DEF TypeOK
<1>3. p # PREASYNC /\ p \in Phase /\ q \in Phase /\ q # PRESYNC1
  BY DEF PREASYNC, PRESYNC1, PRESYNC2, PREMARK, Phase
<1>4. gc_count < MaxGC /\ \A v \in Worker : act[v] # "gasync"
  BY <1>1, <1>2, <1>3 DEF Signals, Collecting
<1>5. CASE owing = {w}
  <2>1. /\ sig' = q /\ act' = [act EXCEPT ![w] = "send"] /\ owing' = unsent'
        /\ unsent' = {v \in Worker : users[v] # "none"}
    BY <1>5 DEF Answer, Issue
  <2>2. unsent = {}
    BY <1>1, <1>2, <1>5 DEF Signals
  <2>3. \A v \in Worker : act[v] = "none"
    BY <1>2, <1>4, <2>2 DEF Signals
  <2>4. act'[w] = "send" /\ \A v \in Worker : v # w => act'[v] = "none"
    BY <1>2, <2>1, <2>3
  <2>5. w \in unsent'
    BY <1>1, <2>1 DEF Registered
  <2>6. \A v \in Worker : phase'[v] = IF Registered(v) THEN p + 1 ELSE ASYNC
    BY <1>1, <1>2, <1>5 DEF Signals
  <2>7. Signals'
    <3>1. sig' \in {PREASYNC, PRESYNC1, PRESYNC2, PREMARK} /\ unsent' \subseteq owing'
      BY <2>1
    <3>2. ASSUME NEW v \in Worker
          PROVE  /\ v \in owing' => Registered(v)'
                 /\ v \in unsent' => phase'[v] = Before(q)
                 /\ v \in owing' \ unsent' => phase'[v] = sig'
                 /\ v \notin owing' => phase'[v] = IF Registered(v)' THEN sig' + 1 ELSE ASYNC
      BY <2>1, <2>6 DEF Registered
    <3>3. Before(q) = Before(sig)'
      BY <2>1 DEF Before
    <3>4. ASSUME NEW v \in Worker
          PROVE  /\ act'[v] = "send" => /\ v \in owing' /\ unsent' # {}
                                        /\ users'[v] = "run" \/ sig' # PRESYNC1
                 /\ act'[v] # "gasync"
                 /\ \A u \in Worker : act'[v] = act'[u] /\ act'[v] # "none" => v = u
      BY <1>3, <2>1, <2>4, <2>5
    <3> QED BY <1>4, <2>4, <2>5, <3>1, <3>2, <3>3, <3>4 DEF Signals
  <2> QED BY <1>2, <1>3, <1>5, <2>1, <2>5, <2>6, <2>7
<1>6. CASE owing # {w}
  <2>1. owing' = owing \ {w} /\ sig' = sig /\ unsent' = unsent /\ act' = act
    BY <1>6 DEF Answer
  <2>2. Signals'
    <3>1. sig' \in {PREASYNC, PRESYNC1, PRESYNC2, PREMARK} /\ unsent' \subseteq owing'
      BY <1>1, <1>2, <2>1 DEF Signals
    <3>2. ASSUME NEW v \in Worker
          PROVE  /\ v \in owing' => Registered(v)'
                 /\ v \in unsent' => phase'[v] = Before(sig)'
                 /\ v \in owing' \ unsent' => phase'[v] = sig'
                 /\ v \notin owing' => phase'[v] = IF Registered(v)' THEN sig' + 1 ELSE ASYNC
      <4>1. Before(sig)' = Before(sig)
        BY <2>1 DEF Before
      <4> QED BY <1>1, <1>2, <2>1, <4>1 DEF Signals, Registered
    <3>3. ASSUME NEW v \in Worker
          PROVE  /\ act'[v] = "send" => /\ v \in owing' /\ unsent' # {}
                                        /\ users'[v] = "run" \/ sig' # PRESYNC1
                 /\ act'[v] # "gasync"
                 /\ \A u \in Worker : act'[v] = act'[u] /\ act'[v] # "none" => v = u
      BY <1>1, <1>2, <1>4, <2>1 DEF Signals
    <3>4. unsent' # {} => \E v \in Worker : act'[v] = "send"
      BY <1>2, <2>1 DEF Signals
    <3> QED BY <1>4, <3>1, <3>2, <3>3, <3>4 DEF Signals
  <2> QED BY <1>1, <1>2, <1>3, <1>6, <2>1, <2>2
<1> QED BY <1>5, <1>6

\* From the first signal to the end of tracing, collect bits are clear.
LEMMA Quiet ==
    ASSUME Good, sig # PREASYNC, NEW t \in Segment
    PROVE  /\ seg[t].list # "partial_marked"
           /\ sig # PRESYNC1 => seg[t].list # "popped"
           /\ seg[t].list # "popped" /\ t \notin stale => seg[t].col = {}
           /\ sig' # PREASYNC /\ (StaysPopped(t) \/ StaysClear(t))
                 => PoolOK(t)' /\ CollectOK(t)'
<1>1. seg[t].list # "popped" => ~Unreclaimed(t)
  BY DEF Unreclaimed
<1>2. seg[t].list # "popped" /\ t \notin stale => seg[t].col = {}
  BY <1>1, Parts DEF CollectOK
<1>3. seg[t].list # "partial_marked"
  BY Parts DEF PoolOK
<1>4. sig # PRESYNC1 => seg[t].list # "popped"
  <2>1. seg[t].list = "popped" => seg[t].own \in Worker /\ pc[seg[t].own] = "popped"
    BY Parts DEF ListOK, SegmentType
  <2> QED BY <2>1, Parts DEF Workers
<1> QED BY <1>2, <1>3, <1>4, KeptClear

\* A segment while its owner goes through the handshake.
LEMMA KeptAnswering ==
    ASSUME Good, NEW t \in Segment, seg' = seg, live' = live, ptr' = ptr, pc' = pc,
           \A v \in Worker : /\ users'[v] = "none" <=> users[v] = "none"
                             /\ BeforeSnapshot(phase'[v]) <=> BeforeSnapshot(phase[v])
    PROVE  BitsOK(seg[t])' /\ ListOK(t)' /\ BlocksOK(t)' /\ SnapshotOK(t)'
<1>1. BitsOK(seg[t])'
  BY Parts DEF BitsOK
<1>2. ListOK(t)'
  BY Parts, KeptList DEF ListOK, SegmentType
<1>3. BlocksOK(t)'
  BY KeptBlocks
<1>4. SnapshotOK(t)'
  BY Parts, KeptSnapshot DEF SegmentType
<1> QED BY <1>1, <1>2, <1>3, <1>4

\* worker_sync1.
LEMMA StepSync1 ==
    ASSUME Good, NEW w \in Worker, worker_sync1(w)
    PROVE  IInv'
<1>1. /\ Accepts(w, PRESYNC1) /\ Answer(w, PRESYNC2)
      /\ UNCHANGED <<seg, ptr, live, room, pc, want, users, gc_count>>
  BY DEF worker_sync1
<1>2. /\ sig = PRESYNC1 /\ phase[w] = PRESYNC1
      /\ phase' \in [Worker -> Phase] /\ phase'[w] = PRESYNC1 + 1
      /\ \A v \in Worker : v # w => phase'[v] = phase[v]
  BY <1>1, Accepting DEF Accepts
<1>3. PRESYNC1 + 1 = Before(PRESYNC2)
  BY DEF Before, PRESYNC1, PRESYNC2, PREASYNC
<1>4. /\ Signals'
      /\ sig' \in Phase /\ unsent' \subseteq Worker /\ owing' \subseteq Worker
      /\ act' \in [Worker -> {"none", "send", "gasync"}]
      /\ sig' \in {PRESYNC1, PRESYNC2}
  BY <1>1, <1>3, Answered
<1>5. TypeOK'
  BY <1>1, <1>2, <1>4, Parts DEF TypeOK
<1>6. sig # PREASYNC /\ sig' # PREASYNC
  BY <1>2, <1>4 DEF PRESYNC1, PRESYNC2, PREASYNC
<1>7. Workers'
  <2>1. pc[w] # "popped" /\ w \in owing
    BY <1>1, Accepting
  <2>2. ASSUME NEW v \in Worker, pc[v] = "popped" PROVE sig' = PRESYNC1 /\ v \in owing'
    <3>1. v \in owing /\ v # w
      BY <1>6, <2>1, <2>2, Parts DEF Workers
    <3>2. owing' = owing \ {w} /\ sig' = sig
      BY <1>1, <3>1 DEF Answer
    <3> QED BY <1>2, <3>1, <3>2
  <2> QED BY <1>1, <2>2, Parts DEF Workers, Registered, HasCurrent, In
<1>8. ASSUME NEW t \in Segment PROVE SegmentOK(t)'
  <2>1. \A v \in Worker : BeforeSnapshot(phase'[v]) <=> BeforeSnapshot(phase[v])
    BY <1>2 DEF BeforeSnapshot, ASYNC, PRESYNC1, PRESYNC2
  <2>2. BitsOK(seg[t])' /\ ListOK(t)' /\ BlocksOK(t)' /\ SnapshotOK(t)'
    BY <1>1, <2>1, KeptAnswering
  <2>3. PoolOK(t)' /\ CollectOK(t)'
    BY <1>1, <1>6, Quiet DEF StaysPopped, StaysClear
  <2> QED BY <2>2, <2>3 DEF SegmentOK
<1> QED BY <1>4, <1>5, <1>7, <1>8 DEF IInv

\* worker_sync2: the snapshot of the current segment is taken.
LEMMA StepSync2 ==
    ASSUME Good, NEW w \in Worker, worker_sync2(w)
    PROVE  IInv'
<1>1. /\ Accepts(w, PRESYNC2) /\ Answer(w, PREMARK)
      /\ seg' = IF HasCurrent(w) THEN [seg EXCEPT ![Current(w)].snap = ptr[w]] ELSE seg
      /\ users' = [users EXCEPT ![w] = IF @ = "ended" THEN "empty" ELSE @]
      /\ UNCHANGED <<ptr, live, room, pc, want, gc_count>>
  BY DEF worker_sync2, Snapshot
<1>2. /\ sig = PRESYNC2 /\ phase[w] = PRESYNC2 /\ Registered(w)
      /\ pc[w] \in {"run", "wait1", "wait2"}
      /\ phase' \in [Worker -> Phase] /\ phase'[w] = PRESYNC2 + 1
      /\ \A v \in Worker : v # w => phase'[v] = phase[v]
  BY <1>1, Accepting DEF Accepts
<1>3. PRESYNC2 + 1 = Before(PREMARK)
  BY DEF Before, PRESYNC2, PREMARK, PREASYNC
<1>4. /\ users' \in [Worker -> {"run", "ended", "empty", "none"}]
      /\ \A v \in Worker : /\ users'[v] = "none" <=> users[v] = "none"
                           /\ users'[v] = "run" <=> users[v] = "run"
                           /\ v # w => users'[v] = users[v]
  <2>1. users \in [Worker -> {"run", "ended", "empty", "none"}]
    BY Parts DEF TypeOK
  <2> QED BY <1>1, <2>1
<1>5. /\ Signals'
      /\ sig' \in Phase /\ unsent' \subseteq Worker /\ owing' \subseteq Worker
      /\ act' \in [Worker -> {"none", "send", "gasync"}]
      /\ sig' \in {PRESYNC2, PREMARK}
  BY <1>1, <1>3, <1>4, Answered
<1>6. sig # PREASYNC /\ sig' # PREASYNC
  BY <1>2, <1>5 DEF PRESYNC2, PREMARK, PREASYNC
<1>7. ptr[w] \in 0 .. N /\ seg \in [Segment -> SegmentType] /\ w # Pool
  BY Parts, PoolAssumption DEF TypeOK
<1>8. /\ seg' \in [Segment -> SegmentType]
      /\ \A t \in Segment :
            /\ seg'[t].own = seg[t].own /\ seg'[t].list = seg[t].list /\ seg'[t].col = seg[t].col
            /\ seg'[t].bm0 = seg[t].bm0 /\ seg'[t].bm1 = seg[t].bm1
            /\ seg'[t].free_count = seg[t].free_count
            /\ seg'[t].snap = IF seg[t].own = w /\ seg[t].list = "current"
                              THEN ptr[w] ELSE seg[t].snap
  <2>1. CASE ~HasCurrent(w)
    BY <1>1, <1>7, <2>1, CurrentIs
  <2>2. CASE HasCurrent(w)
    <3>1. PICK c \in Segment : /\ c = Current(w)
                               /\ seg[c].own = w /\ seg[c].list = "current"
                               /\ \A t \in Segment : seg[t].own = w /\ seg[t].list = "current" => t = c
      BY <2>2, CurrentIs
    <3> DEFINE x == [seg[c] EXCEPT !.snap = ptr[w]]
    <3>2. /\ x \in SegmentType /\ x.own = seg[c].own /\ x.list = seg[c].list
          /\ x.col = seg[c].col /\ x.bm0 = seg[c].bm0 /\ x.bm1 = seg[c].bm1
          /\ x.free_count = seg[c].free_count /\ x.snap = ptr[w]
      BY <1>7 DEF SegmentType
    <3>3. seg' = [seg EXCEPT ![c] = x]
      BY <1>1, <2>2, <3>1
    <3> HIDE DEF x
    <3>4. seg' \in [Segment -> SegmentType] /\ seg'[c] = x
          /\ \A t \in Segment : t # c => seg'[t] = seg[t]
      BY <1>7, <3>2, <3>3
    <3> QED BY <3>1, <3>2, <3>4
  <2> QED BY <2>1, <2>2
<1>9. TypeOK'
  BY <1>1, <1>2, <1>4, <1>5, <1>8, Parts DEF TypeOK
<1>10. Workers'
  <2>1. \A v \in Worker : pc[v] # "popped"
    BY <1>2, <1>6, Parts DEF Workers, PRESYNC1, PRESYNC2
  <2>2. \A v \in Worker : HasCurrent(v)' <=> HasCurrent(v)
    BY <1>8 DEF HasCurrent, In
  <2> QED BY <1>1, <1>4, <2>1, <2>2, Parts DEF Workers, Registered
<1>11. ASSUME NEW t \in Segment PROVE SegmentOK(t)'
  <2>1. seg[t].list \notin {"partial_marked", "popped"}
    BY <1>2, <1>6, Quiet DEF PRESYNC1, PRESYNC2
  <2>2. PoolOK(t)' /\ CollectOK(t)'
    <3>1. StaysClear(t)
      BY <1>8, <2>1 DEF StaysClear
    <3> QED BY <1>6, <3>1, Quiet
  <2>3. BitsOK(seg[t])'
    BY <1>8, Parts DEF BitsOK
  <2>4. seg[t].own # Pool => seg[t].own \in Worker
    BY Parts DEF SegmentType
  <2>5. ListOK(t)'
    BY <1>1, <1>4, <1>8, <2>4, Parts DEF ListOK, Registered
  <2>6. BlocksOK(t)'
    BY <1>1, <1>8, Parts DEF BlocksOK, Objects, ListOK
  <2>7. SnapshotOK(t)'
    <3>1. SnapshotOK(t) /\ ListOK(t)
      BY Parts
    <3>2. CASE seg[t].own = Pool
      BY <1>1, <1>7, <1>8, <3>1, <3>2 DEF SnapshotOK, Objects
    <3>3. CASE seg[t].own # Pool /\ seg[t].own # w
      BY <1>1, <1>2, <1>4, <1>8, <2>4, <3>1, <3>3 DEF SnapshotOK, Registered
    <3>4. CASE seg[t].own = w
      <4>1. ~BeforeSnapshot(phase'[w])
        BY <1>2 DEF BeforeSnapshot, PRESYNC2
      <4>2. ptr[w] <= ptr[w]
        BY <1>7, Numbers
      <4> QED BY <1>1, <1>2, <1>4, <1>7, <1>8, <3>4, <4>1, <4>2 DEF SnapshotOK, Registered
    <3> QED BY <3>2, <3>3, <3>4
  <2> QED BY <2>2, <2>3, <2>5, <2>6, <2>7 DEF SegmentOK
<1> QED BY <1>5, <1>9, <1>10, <1>11 DEF IInv

\* worker_mark: the last worker to see that tracing has ended leaves the bits of
\* the objects in kept set, and those of this collection that are not in it are
\* gone.
LEMMA StepMark ==
    ASSUME Good, NEW w \in Worker, worker_mark(w)
    PROVE  IInv'
<1>1. PICK kept \in SUBSET Target :
        /\ Accepts(w, PREMARK)
        /\ IF owing = {w}
           THEN /\ live' = (live \ Target) \cup kept
                /\ seg' = [s \in Segment |->
                      LET r == [seg[s] EXCEPT !.col = @ \cup {o[2] : o \in {x \in kept : x[1] = s}}]
                      IN  IF r.own = Pool /\ r.list = "partial" THEN Put(r, "partial_marked") ELSE r]
           ELSE kept = {} /\ UNCHANGED <<live, seg>>
        /\ Answer(w, PREASYNC)
        /\ UNCHANGED <<ptr, room, pc, want, users, gc_count>>
  BY DEF worker_mark
<1>2. /\ sig = PREMARK /\ phase[w] = PREMARK /\ Registered(w)
      /\ phase' \in [Worker -> Phase] /\ phase'[w] = PREMARK + 1
      /\ \A v \in Worker : v # w => phase'[v] = phase[v]
  BY <1>1, Accepting DEF Accepts
<1>3. PREMARK + 1 = Before(PREASYNC) /\ PREMARK + 1 = MARK
  BY DEF Before, PREMARK, PREASYNC, MARK
<1>4. /\ Signals'
      /\ sig' \in Phase /\ unsent' \subseteq Worker /\ owing' \subseteq Worker
      /\ act' \in [Worker -> {"none", "send", "gasync"}]
      /\ IF owing = {w}
         THEN /\ sig' = PREASYNC /\ owing' # {}
              /\ \A v \in Worker : Registered(v) => phase'[v] = PREMARK + 1
         ELSE sig' = PREMARK
  BY <1>1, <1>3, Answered
<1>5. sig # PREASYNC
  BY <1>2 DEF PREMARK, PREASYNC
<1>6. \A v \in Worker : BeforeSnapshot(phase'[v]) <=> BeforeSnapshot(phase[v])
  BY <1>2 DEF BeforeSnapshot, PREMARK, PRESYNC2
<1>7. \A v \in Worker : pc[v] # "popped"
  BY <1>2, <1>5, Parts DEF Workers, PREMARK, PRESYNC1
<1>8. CASE owing # {w}
  <2>1. sig' # PREASYNC /\ seg' = seg /\ live' = live
    BY <1>1, <1>4, <1>8 DEF PREMARK, PREASYNC
  <2>2. TypeOK'
    BY <1>1, <1>2, <1>4, <2>1, Parts DEF TypeOK
  <2>3. Workers'
    BY <1>1, <1>7, <2>1, Parts DEF Workers, Registered, HasCurrent, In
  <2>4. ASSUME NEW t \in Segment PROVE SegmentOK(t)'
    <3>1. BitsOK(seg[t])' /\ ListOK(t)' /\ BlocksOK(t)' /\ SnapshotOK(t)'
      BY <1>1, <1>6, <2>1, KeptAnswering
    <3>2. PoolOK(t)' /\ CollectOK(t)'
      BY <1>5, <2>1, Quiet DEF StaysPopped, StaysClear
    <3> QED BY <3>1, <3>2 DEF SegmentOK
  <2> QED BY <1>4, <2>2, <2>3, <2>4 DEF IInv
<1>9. CASE owing = {w}
  <2>1. /\ sig' = PREASYNC /\ owing' # {}
        /\ \A v \in Worker : Registered(v) => phase'[v] = MARK
        /\ live' = (live \ Target) \cup kept
    BY <1>1, <1>3, <1>4, <1>9
  <2>2. users' = users /\ pc' = pc
    BY <1>1
  <2>3. live \subseteq Segment \X Block /\ Target \subseteq live
    BY Parts DEF TypeOK, Target
  <2>4. live' \subseteq live /\ kept \subseteq live'
    BY <1>1, <2>1, <2>3
  <2>5. \A t \in Segment, i \in Block :
          <<t, i>> \in Target <=> <<t, i>> \in live /\ (i \in seg[t].bm0 \/ i < seg[t].snap)
    BY DEF Target
  <2> DEFINE K(t) == {o[2] : o \in {x \in kept : x[1] = t}}
  <2>6. \A t \in Segment : K(t) = {i \in Block : <<t, i>> \in kept}
    <3> SUFFICES ASSUME NEW t \in Segment PROVE K(t) = {i \in Block : <<t, i>> \in kept}
      OBVIOUS
    <3>1. kept \subseteq Segment \X Block
      BY <1>1, <2>3
    <3>2. ASSUME NEW i \in K(t) PROVE i \in Block /\ <<t, i>> \in kept
      <4>1. PICK o \in kept : o[1] = t /\ o[2] = i
        OBVIOUS
      <4>2. o = <<t, i>> /\ i \in Block
        BY <3>1, <4>1
      <4> QED BY <4>1, <4>2
    <3>3. ASSUME NEW i \in Block, <<t, i>> \in kept PROVE i \in K(t)
      <4>1. <<t, i>>[1] = t /\ <<t, i>>[2] = i
        OBVIOUS
      <4> QED BY <3>3, <4>1
    <3> QED BY <3>2, <3>3
  <2>7. ASSUME NEW t \in Segment
        PROVE  /\ seg'[t] \in SegmentType
               /\ seg'[t].own = seg[t].own /\ seg'[t].snap = seg[t].snap
               /\ seg'[t].bm0 = seg[t].bm0 /\ seg'[t].bm1 = seg[t].bm1
               /\ seg'[t].free_count = seg[t].free_count
               /\ seg'[t].col = seg[t].col \cup {i \in Block : <<t, i>> \in kept}
               /\ seg'[t].list = IF seg[t].own = Pool /\ seg[t].list = "partial"
                                 THEN "partial_marked" ELSE seg[t].list
    <3> DEFINE r == [seg[t] EXCEPT !.col = @ \cup K(t)]
    <3>1. seg[t] \in SegmentType
      BY Parts
    <3>2. K(t) \in SUBSET Block
      BY <2>6
    <3> HIDE DEF K
    <3>3. /\ r \in SegmentType /\ r.own = seg[t].own /\ r.snap = seg[t].snap
          /\ r.list = seg[t].list /\ r.bm0 = seg[t].bm0 /\ r.bm1 = seg[t].bm1
          /\ r.free_count = seg[t].free_count /\ r.col = seg[t].col \cup K(t)
      BY <3>1, <3>2 DEF SegmentType
    <3>4. seg'[t] = IF r.own = Pool /\ r.list = "partial" THEN Put(r, "partial_marked") ELSE r
      BY <1>1, <1>9 DEF K
    <3> HIDE DEF r
    <3>5. /\ Put(r, "partial_marked") \in SegmentType
          /\ Put(r, "partial_marked").own = r.own /\ Put(r, "partial_marked").snap = r.snap
          /\ Put(r, "partial_marked").bm0 = r.bm0 /\ Put(r, "partial_marked").bm1 = r.bm1
          /\ Put(r, "partial_marked").free_count = r.free_count
          /\ Put(r, "partial_marked").col = r.col
          /\ Put(r, "partial_marked").list = "partial_marked"
      BY <3>3 DEF Put, SegmentType
    <3> QED BY <2>6, <3>3, <3>4, <3>5
  <2> HIDE DEF K
  <2>8. seg' \in [Segment -> SegmentType]
    <3>1. seg' = [s \in Segment |-> seg'[s]]
      BY <1>1, <1>9
    <3> QED BY <2>7, <3>1
  <2>9. TypeOK'
    BY <1>1, <1>2, <1>4, <2>3, <2>4, <2>8, Parts DEF TypeOK
  <2>10. Workers'
    <3>1. \A v \in Worker : HasCurrent(v) => HasCurrent(v)'
      BY <2>7 DEF HasCurrent, In
    <3> QED BY <1>1, <1>7, <3>1, Parts DEF Workers, Registered
  <2>11. ASSUME NEW t \in Segment PROVE SegmentOK(t)'
    <3>1. /\ BitsOK(seg[t]) /\ ListOK(t) /\ PoolOK(t) /\ BlocksOK(t) /\ SnapshotOK(t)
          /\ seg[t].list \notin {"partial_marked", "popped"}
          /\ (seg[t].own # Pool => seg[t].own \in Worker)
      BY <1>2, <1>5, Quiet, Parts DEF SegmentType, PREMARK, PRESYNC1
    <3>2. BitsOK(seg[t])'
      BY <2>7, <3>1 DEF BitsOK
    <3>3. seg[t].own # Pool => /\ Registered(seg[t].own)' <=> Registered(seg[t].own)
                               /\ Registered(seg[t].own) => phase'[seg[t].own] = MARK
      BY <2>1, <2>2, <2>7, <3>1 DEF Registered
    <3>4. ListOK(t)'
      BY <2>2, <2>7, <3>1, <3>3 DEF ListOK
    <3>5. Collecting'
      BY <2>1 DEF Collecting
    <3>6. PoolOK(t)'
      BY <2>1, <2>7, <3>5 DEF PoolOK
    <3>7. Objects(t)' \subseteq Objects(t)
      BY <2>4 DEF Objects
    <3>8. BlocksOK(t)'
      <4>1. ptr' = ptr
        BY <1>1
      <4> QED BY <2>7, <3>1, <3>7, <4>1 DEF BlocksOK
    <3>9. SnapshotOK(t)'
      <4>1. CASE seg[t].own = Pool
        BY <2>7, <3>1, <3>7, <4>1 DEF SnapshotOK
      <4>2. CASE seg[t].own # Pool
        <5>1. BeforeSnapshot(phase'[seg[t].own]) <=> BeforeSnapshot(phase[seg[t].own])
          BY <1>6, <3>1, <4>2
        <5> QED BY <1>1, <2>7, <3>1, <3>3, <4>2, <5>1 DEF SnapshotOK
      <4> QED BY <4>1, <4>2
    <3>10. t \notin stale => seg'[t].col = {i \in Block : <<t, i>> \in kept}
      BY <1>5, <2>7, <3>1, Quiet
    <3>11. ASSUME NEW i \in Objects(t)'
           PROVE  i \in seg'[t].col \/ (i \notin seg'[t].bm0 /\ i >= seg'[t].snap)
      <4>1. i \in Block /\ <<t, i>> \in live'
        BY <3>11 DEF Objects
      <4>2. CASE <<t, i>> \in kept
        BY <2>7, <4>1, <4>2
      <4>3. CASE <<t, i>> \notin kept
        <5>1. <<t, i>> \in live /\ <<t, i>> \notin Target
          BY <2>1, <4>1, <4>3
        <5>2. i \notin seg[t].bm0 /\ ~(i < seg[t].snap)
          BY <2>5, <4>1, <5>1
        <5>3. i \in Nat /\ seg[t].snap \in 0 .. N /\ N \in Nat
          BY <4>1, Numbers, Parts DEF SegmentType
        <5> QED BY <2>7, <5>2, <5>3
      <4> QED BY <4>2, <4>3
    <3>12. ~Unreclaimed(t)' /\ ~HeldByNew(t) /\ t \notin stale => seg'[t].col = {}
      <4>1. \/ seg[t].own = Pool /\ seg[t].list \notin {"partial", "filled"}
            \/ Unreclaimed(t)' \/ HeldByNew(t)
        BY <1>2, <2>1, <2>7, <3>3, <3>5 DEF Unreclaimed, HeldByNew, Registered
      <4>2. seg[t].own = Pool /\ seg[t].list \notin {"partial", "filled"} => seg[t].list = "freelist"
        BY <3>1, Parts DEF SegmentType, ListOK
      <4>3. seg[t].list = "freelist" => Objects(t) = {}
        BY <3>1 DEF BlocksOK
      <4>4. {i \in Block : <<t, i>> \in kept} \subseteq Objects(t)
        BY <2>3, <1>1 DEF Objects
      <4> QED BY <3>10, <4>1, <4>2, <4>3, <4>4
    <3>13. t \notin stale => seg'[t].col \subseteq Objects(t)'
      BY <2>4, <3>10 DEF Objects
    <3>14. CollectOK(t)'
      <4>1. t \in stale' => seg'[t].list \in {"current", "filled"}
        BY <2>7, <3>1, History
      <4>2. t \notin stale' => seg'[t].col = {} \/ (t \notin stale /\ ~HeldByNew(t))
        BY History
      <4> QED BY <3>11, <3>12, <3>13, <4>1, <4>2 DEF CollectOK
    <3> QED BY <3>2, <3>4, <3>6, <3>8, <3>9, <3>14 DEF SegmentOK
  <2> QED BY <1>4, <2>9, <2>10, <2>11 DEF IInv
<1> QED BY <1>8, <1>9

\* change_phase: a worker gets the signal.
LEMMA StepSend ==
    ASSUME Good, NEW w \in Worker, NEW v \in unsent, act[w] = "send",
           unsent' = unsent \ {v},
           act' = (IF unsent = {v} THEN [act EXCEPT ![w] = "none"] ELSE act),
           phase' = [phase EXCEPT ![v] = sig],
           UNCHANGED <<seg, users, owing, ptr, live, room, pc, want, sig, gc_count>>
    PROVE  IInv'
<1>1. /\ Signals /\ act \in [Worker -> {"none", "send", "gasync"}] /\ phase \in [Worker -> Phase]
      /\ unsent \subseteq Worker /\ sig \in Phase
  BY Parts DEF TypeOK
<1>2. /\ v \in Worker /\ v \in owing /\ Registered(v) /\ phase[v] = Before(sig)
      /\ \A u \in Worker : u # w => act[u] # "send"
  BY <1>1 DEF Signals
<1>3. /\ phase' \in [Worker -> Phase] /\ phase'[v] = sig
      /\ \A u \in Worker : u # v => phase'[u] = phase[u]
  BY <1>1, <1>2
<1>4. /\ act' \in [Worker -> {"none", "send", "gasync"}]
      /\ act'[w] = IF unsent = {v} THEN "none" ELSE "send"
      /\ \A u \in Worker : u # w => act'[u] = act[u]
  BY <1>1
<1>5. Collecting /\ Collecting'
  BY <1>2 DEF Collecting
<1>6. Signals'
  <2>1. ASSUME NEW u \in Worker
        PROVE  /\ u \in owing' => Registered(u)'
               /\ u \in unsent' => phase'[u] = Before(sig)'
               /\ u \in owing' \ unsent' => phase'[u] = sig'
               /\ u \notin owing' => phase'[u] = IF Registered(u)' THEN sig' + 1 ELSE ASYNC
    <3>1. Before(sig)' = Before(sig)
      BY DEF Before
    <3> QED BY <1>1, <1>2, <1>3, <3>1 DEF Signals, Registered
  <2>2. ASSUME NEW u \in Worker
        PROVE  /\ act'[u] = "send" => /\ u \in owing' /\ unsent' # {}
                                      /\ users'[u] = "run" \/ sig' # PRESYNC1
               /\ act'[u] = "gasync" => sig' = PREASYNC /\ owing' = {}
               /\ \A x \in Worker : act'[x] = act'[u] /\ act'[u] # "none" => x = u
    BY <1>1, <1>2, <1>4 DEF Signals
  <2>3. unsent' # {} => act'[w] = "send"
    BY <1>4
  <2> QED BY <1>1, <1>5, <2>1, <2>2, <2>3 DEF Signals
<1>7. TypeOK'
  BY <1>3, <1>4, Parts DEF TypeOK
<1>8. Workers'
  BY Parts DEF Workers, Registered, HasCurrent, In
<1>9. sig \in {PREASYNC, PRESYNC1, PRESYNC2, PREMARK}
  BY <1>1 DEF Signals
<1>10. \A u \in Worker : BeforeSnapshot(phase'[u]) <=> BeforeSnapshot(phase[u])
  BY <1>2, <1>3, <1>9
     DEF BeforeSnapshot, Before, PREASYNC, ASYNC, PRESYNC1, PRESYNC2, PREMARK, MARK
<1>11. sig = PREASYNC => \A u \in Worker : phase'[u] \in {MARK, PREASYNC} <=> phase[u] \in {MARK, PREASYNC}
  BY <1>2, <1>3 DEF Before
<1>12. ASSUME NEW t \in Segment PROVE SegmentOK(t)'
  <2>1. BitsOK(seg[t])' /\ ListOK(t)' /\ BlocksOK(t)' /\ SnapshotOK(t)'
    BY <1>10, KeptAnswering
  <2>2. PoolOK(t)'
    BY <1>5, KeptPool
  <2>3. Unreclaimed(t)' <=> Unreclaimed(t)
    <3>1. seg[t].own # Pool => seg[t].own \in Worker
      BY Parts DEF SegmentType
    <3> QED BY <1>5, <1>11, <3>1 DEF Unreclaimed
  <2>4. CollectOK(t)'
    BY <2>3, KeptCollect
  <2> QED BY <2>1, <2>2, <2>4 DEF SegmentOK
<1> QED BY <1>6, <1>7, <1>8, <1>12 DEF IInv

\* sml_heap_worker_kill, when SYNC1 is sent to a worker without users: what is in
\* its segments is for the pool to reclaim.
LEMMA StepKill ==
    ASSUME Good, NEW w \in Worker, NEW v \in unsent, act[w] = "send",
           sig = PRESYNC1, users[v] = "empty",
           unsent' = unsent \ {v},
           act' = (IF unsent = {v} THEN [act EXCEPT ![w] = "none"] ELSE act),
           seg' = Killed(v), users' = [users EXCEPT ![v] = "none"],
           owing' = owing \ {v},
           UNCHANGED <<phase, ptr, live, room, pc, want, sig, gc_count>>
    PROVE  IInv'
<1>1. /\ Signals /\ act \in [Worker -> {"none", "send", "gasync"}]
      /\ unsent \subseteq Worker /\ users \in [Worker -> {"run", "ended", "empty", "none"}]
  BY Parts DEF TypeOK
<1>2. /\ v \in Worker /\ v \in owing /\ Registered(v) /\ phase[v] = Before(sig)
      /\ w \in owing /\ w # v
      /\ \A u \in Worker : u # w => act[u] # "send"
  BY <1>1 DEF Signals
<1>3. phase[v] = ASYNC /\ sig # PREASYNC
  BY <1>2 DEF Before, PRESYNC1, PREASYNC, ASYNC
<1>4. /\ act' \in [Worker -> {"none", "send", "gasync"}]
      /\ act'[w] = IF unsent = {v} THEN "none" ELSE "send"
      /\ \A u \in Worker : u # w => act'[u] = act[u]
      /\ users' \in [Worker -> {"run", "ended", "empty", "none"}]
      /\ users'[v] = "none" /\ \A u \in Worker : u # v => users'[u] = users[u]
  BY <1>1, <1>2
<1>5. Collecting
  BY <1>2 DEF Collecting
<1>6. Signals'
  <2>1. ASSUME NEW u \in Worker
        PROVE  /\ u \in owing' => Registered(u)'
               /\ u \in unsent' => phase'[u] = Before(sig)'
               /\ u \in owing' \ unsent' => phase'[u] = sig'
               /\ u \notin owing' => phase'[u] = IF Registered(u)' THEN sig' + 1 ELSE ASYNC
    <3>1. Before(sig)' = Before(sig)
      BY DEF Before
    <3> QED BY <1>1, <1>2, <1>3, <1>4, <3>1 DEF Signals, Registered
  <2>2. ASSUME NEW u \in Worker
        PROVE  /\ act'[u] = "send" => /\ u \in owing' /\ unsent' # {}
                                      /\ users'[u] = "run" \/ sig' # PRESYNC1
               /\ act'[u] = "gasync" => sig' = PREASYNC /\ owing' = {}
               /\ \A x \in Worker : act'[x] = act'[u] /\ act'[u] # "none" => x = u
    BY <1>1, <1>2, <1>3, <1>4 DEF Signals
  <2>3. unsent' # {} => act'[w] = "send"
    BY <1>4
  <2>4. gc_count' < MaxGC /\ unsent' \subseteq owing' /\ sig' \in {PREASYNC, PRESYNC1, PRESYNC2, PREMARK}
    BY <1>1, <1>5 DEF Signals
  <2> QED BY <2>1, <2>2, <2>3, <2>4 DEF Signals
<1>7. v # Pool /\ seg \in [Segment -> SegmentType]
  BY <1>2, Parts, PoolAssumption DEF TypeOK
<1>8. ASSUME NEW t \in Segment
      PROVE  /\ seg'[t] \in SegmentType
             /\ seg[t].own # v => seg'[t] = seg[t]
             /\ seg'[t].snap = seg[t].snap /\ seg'[t].col = seg[t].col
             /\ seg'[t].bm0 = seg[t].bm0 /\ seg'[t].bm1 = seg[t].bm1
             /\ seg'[t].free_count = seg[t].free_count
             /\ seg[t].own = v => /\ seg'[t].own = Pool
                                  /\ seg'[t].list = IF seg[t].list = "freelist"
                                                    THEN "freelist" ELSE "filled"
  <2>1. CASE seg[t].own # v
    BY <1>7, <2>1 DEF Killed
  <2>2. CASE seg[t].own = v
    <3> DEFINE l == IF seg[t].list = "freelist" THEN "freelist" ELSE "filled"
               x == [seg[t] EXCEPT !.own = Pool, !.list = l]
    <3>1. seg'[t] = x /\ seg[t] \in SegmentType
      BY <1>7, <2>2 DEF Killed, SegmentType
    <3>2. l \in {"freelist", "filled"}
      OBVIOUS
    <3> HIDE DEF l
    <3>3. /\ x \in SegmentType /\ x.own = Pool /\ x.list = l
          /\ x.snap = seg[t].snap /\ x.col = seg[t].col
          /\ x.bm0 = seg[t].bm0 /\ x.bm1 = seg[t].bm1 /\ x.free_count = seg[t].free_count
      BY <3>1, <3>2 DEF SegmentType
    <3> HIDE DEF x
    <3> QED BY <2>2, <3>1, <3>3 DEF l
  <2> QED BY <2>1, <2>2
<1>9. seg' \in [Segment -> SegmentType]
  <2>1. seg' = [s \in Segment |-> seg'[s]]
    BY DEF Killed
  <2> QED BY <1>8, <2>1
<1>10. TypeOK'
  BY <1>4, <1>9, Parts DEF TypeOK
<1>11. pc[v] = "run"
  BY <1>2, Parts DEF Workers
<1>12. Workers'
  <2>1. ASSUME NEW u \in Worker, u # v, HasCurrent(u) PROVE HasCurrent(u)'
    <3>1. PICK t \in Segment : seg[t].own = u /\ seg[t].list = "current"
      BY <2>1, CurrentIs
    <3> QED BY <1>8, <2>1, <3>1 DEF HasCurrent, In
  <2> QED BY <1>3, <1>4, <1>11, <2>1, Parts DEF Workers, Registered
<1>13. ASSUME NEW t \in Segment PROVE SegmentOK(t)'
  <2>1. /\ BitsOK(seg[t]) /\ ListOK(t) /\ BlocksOK(t) /\ SnapshotOK(t)
        /\ seg[t].list # "partial_marked"
        /\ (seg[t].list = "popped" => seg[t].own # v)
        /\ (seg[t].own # Pool => seg[t].own \in Worker)
    BY <1>3, <1>11, Quiet, Parts DEF SegmentType, ListOK
  <2>2. PoolOK(t)' /\ CollectOK(t)'
    <3>1. seg[t].list = "popped" => StaysPopped(t)
      BY <1>8, <2>1 DEF StaysPopped
    <3>2. seg[t].list # "popped" => StaysClear(t)
      BY <1>8, <2>1 DEF StaysClear
    <3> QED BY <1>3, <3>1, <3>2, Quiet
  <2>3. CASE seg[t].own # v
    <3>1. seg'[t] = seg[t]
      BY <1>8, <2>3
    <3>2. seg[t].own # Pool => /\ users'[seg[t].own] = "none" <=> users[seg[t].own] = "none"
      BY <1>4, <2>1, <2>3
    <3>3. ASSUME seg[t].list \in {"current", "popped"}, NEW u \in Segment,
                 seg'[u].list = seg[t].list, seg'[u].own = seg[t].own
          PROVE  u = t
      <4>1. seg[t].own # Pool
        BY <2>1, <3>3 DEF ListOK
      <4>2. seg'[u] = seg[u]
        BY <1>8, <3>3, <4>1
      <4> QED BY <2>1, <3>3, <4>2 DEF ListOK
    <3>4. ListOK(t)'
      BY <3>1, <3>2, <3>3, KeptList
    <3>5. BlocksOK(t)' /\ SnapshotOK(t)'
      BY <3>1, <3>2, KeptBlocks, KeptSnapshot
    <3>6. BitsOK(seg[t])'
      BY <2>1, <3>1 DEF BitsOK
    <3> QED BY <2>2, <3>4, <3>5, <3>6 DEF SegmentOK
  <2>4. CASE seg[t].own = v
    <3>1. BitsOK(seg[t])'
      BY <1>8, <2>1 DEF BitsOK
    <3>2. ListOK(t)'
      BY <1>7, <1>8, <2>4 DEF ListOK
    <3>3. Objects(t)' = Objects(t)
      BY DEF Objects
    <3>4. BlocksOK(t)'
      BY <1>8, <2>1, <2>4, <3>3 DEF BlocksOK
    <3>5. seg[t].list = "freelist" \/ seg[t].snap = N \/ Objects(t) \subseteq seg[t].bm0
      <4>1. BeforeSnapshot(phase[v])
        BY <1>3 DEF BeforeSnapshot, ASYNC, PRESYNC2
      <4>2. seg[t].list \in {"current", "filled"} => seg[t].snap = N
        BY <1>2, <1>7, <2>1, <2>4, <4>1 DEF SnapshotOK
      <4>3. seg[t].list = "partial" => Objects(t) \subseteq seg[t].bm0
        BY <2>1 DEF BlocksOK
      <4> QED BY <2>1, <2>4, <4>2, <4>3, Parts DEF SegmentType
    <3>6. SnapshotOK(t)'
      BY <1>8, <2>4, <3>3, <3>5 DEF SnapshotOK
    <3> QED BY <2>2, <3>1, <3>2, <3>4, <3>6 DEF SegmentOK
  <2> QED BY <2>3, <2>4
<1> QED BY <1>6, <1>10, <1>12, <1>13 DEF IInv

\* One iteration of change_phase.
LEMMA StepChange ==
    ASSUME Good, NEW w \in Worker, change_phase(w)
    PROVE  IInv'
<1>1. PICK v \in unsent :
        /\ act[w] = "send"
        /\ unsent' = unsent \ {v}
        /\ act' = IF unsent = {v} THEN [act EXCEPT ![w] = "none"] ELSE act
        /\ IF sig = PRESYNC1 /\ users[v] = "empty"
           THEN /\ seg' = Killed(v)
                /\ users' = [users EXCEPT ![v] = "none"]
                /\ owing' = owing \ {v}
                /\ UNCHANGED phase
           ELSE phase' = [phase EXCEPT ![v] = sig] /\ UNCHANGED <<seg, users, owing>>
        /\ UNCHANGED <<ptr, live, room, pc, want, sig, gc_count>>
  BY DEF change_phase
<1>2. CASE sig = PRESYNC1 /\ users[v] = "empty"
  BY <1>1, <1>2, StepKill
<1>3. CASE ~(sig = PRESYNC1 /\ users[v] = "empty")
  <2>1. /\ phase' = [phase EXCEPT ![v] = sig]
        /\ UNCHANGED <<seg, users, owing, ptr, live, room, pc, want, sig, gc_count>>
    BY <1>1, <1>3
  <2> QED BY <1>1, <2>1, StepSend
<1> QED BY <1>2, <1>3

-----------------------------------------------------------------------------
(***************************************************************************)
(* Workers come and go                                                     *)
(***************************************************************************)

\* The last user of a worker ends.
LEMMA StepEnd ==
    ASSUME Good, NEW w \in Worker, end(w)
    PROVE  IInv'
<1>1. /\ users[w] = "run" /\ pc[w] = "run" /\ act[w] = "none"
      /\ users' = [users EXCEPT ![w] = "ended"]
      /\ UNCHANGED <<seg, ptr, live, room, pc, act, want, phase, sig, unsent, owing, gc_count>>
  BY DEF end, signal
<1>2. /\ users' \in [Worker -> {"run", "ended", "empty", "none"}]
      /\ users'[w] = "ended" /\ \A v \in Worker : v # w => users'[v] = users[v]
  <2>1. users \in [Worker -> {"run", "ended", "empty", "none"}]
    BY Parts DEF TypeOK
  <2> QED BY <1>1, <2>1
<1>3. TypeOK'
  BY <1>1, <1>2, Parts DEF TypeOK
<1>4. Signals'
  BY <1>1, <1>2, KeptSignals
<1>5. Workers'
  BY <1>1, <1>2, Parts DEF Workers, Registered, HasCurrent, In
<1>6. ASSUME NEW t \in Segment PROVE SegmentOK(t)'
  <2>1. seg[t].own # Pool => /\ seg[t].own \in Worker
                             /\ users'[seg[t].own] = "none" <=> users[seg[t].own] = "none"
    BY <1>1, <1>2, Parts DEF SegmentType
  <2>2. seg[t].list \in {"current", "popped"} =>
           \A u \in Segment : seg'[u].list = seg[t].list /\ seg'[u].own = seg[t].own => u = t
    BY <1>1, Parts DEF ListOK
  <2> QED BY <1>1, <2>1, <2>2, KeptSegment
<1> QED BY <1>3, <1>4, <1>5, <1>6 DEF IInv

\* Nothing belongs to a worker that does not exist.
LEMMA NothingOwned ==
    ASSUME Good, NEW w \in Worker, ~Registered(w), NEW t \in Segment, seg[t].own = w
    PROVE  seg[t].list = "current" /\ pc[w] = "register" /\ t = Current(w)
<1>1. seg[t].list = "current" /\ pc[w] = "register"
  BY Parts, PoolAssumption DEF ListOK
<1> QED BY <1>1, CurrentIs

\* A new allocator gets its first segment.
LEMMA StepInit ==
    ASSUME Good, NEW w \in Worker, sml_heap_worker_init(w)
    PROVE  IInv'
<1> DEFINE lists == <<In(Pool, "partial"), In(Pool, "freelist")>>
           some == {i \in 1 .. 2 : lists[i] # {}}
<1>1. /\ ~Registered(w) /\ pc[w] = "run" /\ some # {} /\ pc' = [pc EXCEPT ![w] = "register"]
      /\ UNCHANGED <<room, act, want, users, phase, sig, unsent, owing, gc_count>>
  BY DEF sml_heap_worker_init, Goto, signal, Registered
<1>2. PICK s \in lists[Min(some)] :
         /\ seg' = [seg EXCEPT ![s].own = w, ![s].list = "current"]
         /\ Give(w, s, find_bitmap(N, seg[s].bm0, seg[s].bm1, 0))
  BY DEF sml_heap_worker_init
<1>3. s \in Segment /\ seg[s].own = Pool /\ seg[s].list \in {"partial", "freelist"}
  <2>1. Min(some) \in some
    BY <1>1, MinOf
  <2>2. \E i \in 1 .. 2 : s \in lists[i]
    BY <1>2, <2>1
  <2>3. s \in In(Pool, "partial") \/ s \in In(Pool, "freelist")
    BY <2>2
  <2> QED BY <2>3 DEF In
<1> HIDE DEF lists, some
<1>4. /\ seg \in [Segment -> SegmentType] /\ pc \in [Worker -> {"run", "wait1", "wait2", "popped", "register", "fatal"}]
      /\ w # Pool /\ phase[w] = ASYNC /\ users[w] = "none"
  BY <1>1, Parts, PoolAssumption DEF TypeOK, Signals, Registered
<1>5. /\ seg[s].snap = 0 /\ Objects(s) \subseteq seg[s].bm0 /\ ~(Block \subseteq seg[s].bm0)
      /\ seg[s].col = {}
  <2>1. BlocksOK(s) /\ CollectOK(s)
    BY <1>3, Parts
  <2>2. 0 \in Block
    BY Numbers
  <2>3. ~Unreclaimed(s) /\ s \notin stale
    BY <1>3, History DEF Unreclaimed
  <2> QED BY <1>3, <2>1, <2>2, <2>3 DEF BlocksOK, CollectOK
<1>6. PICK i \in Block : Give(w, s, i)
  <2>1. /\ seg[s] \in SegmentType /\ BitsOK(seg[s]) /\ 0 \in 0 .. N
    BY <1>3, Numbers, Parts
  <2> DEFINE r == seg[s]
  <2>2. LET i == find_bitmap(N, r.bm0, r.bm1, 0)
        IN  \/ i = NotFound /\ \A j \in Block : j >= 0 => j \in r.bm0
            \/ i \in Block /\ i \notin r.bm0
    <3> HIDE DEF r
    <3>1. r \in SegmentType /\ BitsOK(r) /\ 0 \in 0 .. N
      BY <2>1 DEF r
    <3> QED BY <3>1, FoundFree
  <2>3. \E j \in Block : j >= 0 /\ j \notin r.bm0
    BY <1>5, Numbers
  <2> QED BY <1>2, <2>2, <2>3
<1>7. /\ live' \subseteq Segment \X Block
      /\ ptr' \in [Worker -> 0 .. N] /\ ptr'[w] = i + 1
      /\ \A v \in Worker : v # w => ptr'[v] = ptr[v]
      /\ \A t \in Segment, j \in Block :
            <<t, j>> \in live' <=> <<t, j>> \in live \/ (t = s /\ j = i)
  BY <1>3, <1>6, Given
<1>8. /\ seg' \in [Segment -> SegmentType]
      /\ seg'[s].own = w /\ seg'[s].list = "current" /\ seg'[s].snap = 0 /\ seg'[s].col = {}
      /\ seg'[s].bm0 = seg[s].bm0 /\ seg'[s].bm1 = seg[s].bm1
      /\ \A t \in Segment : t # s => seg'[t] = seg[t]
  <2> DEFINE x == [seg[s] EXCEPT !.own = w, !.list = "current"]
  <2>1. seg' = [seg EXCEPT ![s] = x]
    BY <1>2, <1>3, <1>4
  <2>2. /\ x \in SegmentType /\ x.own = w /\ x.list = "current" /\ x.snap = 0 /\ x.col = {}
        /\ x.bm0 = seg[s].bm0 /\ x.bm1 = seg[s].bm1
    BY <1>3, <1>4, <1>5, ZenonT(40) DEF SegmentType
  <2> HIDE DEF x
  <2> QED BY <1>3, <1>4, <2>1, <2>2
<1>9. /\ pc' \in [Worker -> {"run", "wait1", "wait2", "popped", "register", "fatal"}]
      /\ pc'[w] = "register" /\ \A v \in Worker : v # w => pc'[v] = pc[v]
  BY <1>1, <1>4
<1>10. TypeOK'
  BY <1>1, <1>7, <1>8, <1>9, Parts DEF TypeOK
<1>11. Signals'
  BY <1>1, KeptSignals
<1>12. Workers'
  <2>1. HasCurrent(w)'
    BY <1>3, <1>8 DEF HasCurrent, In
  <2>2. ASSUME NEW v \in Worker, v # w, HasCurrent(v) PROVE HasCurrent(v)'
    <3>1. PICK t \in Segment : seg[t].own = v /\ seg[t].list = "current"
      BY <2>2, CurrentIs
    <3> QED BY <1>3, <1>8, <3>1 DEF HasCurrent, In
  <2> QED BY <1>1, <1>4, <1>9, <2>1, <2>2, Parts DEF Workers, Registered
<1>13. \A t \in Segment : seg[t].own # w
  BY <1>1, NothingOwned
<1>14. ASSUME NEW t \in Segment, t # s PROVE SegmentOK(t)'
  <2>1. seg'[t] = seg[t] /\ seg[t].own # w
    BY <1>8, <1>13, <1>14
  <2>2. seg[t].own # Pool => seg[t].own \in Worker
    BY Parts DEF SegmentType
  <2>3. seg[t].list = "current" => seg[t].own # Pool
    BY Parts DEF ListOK
  <2>4. seg[t].list \in {"current", "popped"} =>
           \A u \in Segment : seg'[u].list = seg[t].list /\ seg'[u].own = seg[t].own => u = t
    BY <1>8, <2>1, Parts DEF ListOK
  <2>5. \A j \in Block : <<t, j>> \in live' <=> <<t, j>> \in live
    BY <1>7, <1>14
  <2> QED BY <1>1, <1>7, <1>9, <2>1, <2>2, <2>3, <2>4, <2>5, KeptSegment
<1>15. SegmentOK(s)'
  <2>1. BitsOK(seg[s])'
    BY <1>3, <1>8, Parts DEF BitsOK
  <2>2. ListOK(s)'
    BY <1>4, <1>8, <1>9, <1>13 DEF ListOK
  <2>3. PoolOK(s)'
    BY <1>4, <1>8 DEF PoolOK
  <2>4. BlocksOK(s)'
    <3>1. i < i + 1
      BY Numbers
    <3>2. \A j : j \in Objects(s)' <=> j \in Objects(s) \/ j = i
      BY <1>3, <1>7 DEF Objects
    <3>3. \A j \in Objects(s)' : j \in seg'[s].bm0 \/ j < ptr'[w]
      BY <1>5, <1>7, <1>8, <3>1, <3>2
    <3> QED BY <1>8, <3>3 DEF BlocksOK
  <2>5. SnapshotOK(s)'
    BY <1>1, <1>4, <1>8 DEF SnapshotOK, Registered
  <2>6. ~Unreclaimed(s)'
    BY <1>1, <1>4, <1>8 DEF Unreclaimed, ASYNC, MARK, PREASYNC
  <2>7. CollectOK(s)'
    <3>1. s \notin stale'
      BY <1>3, <1>8, History
    <3> QED BY <1>8, <2>6, <3>1 DEF CollectOK
  <2> QED BY <2>1, <2>2, <2>3, <2>4, <2>5, <2>7 DEF SegmentOK
<1> QED BY <1>10, <1>11, <1>12, <1>14, <1>15 DEF IInv

\* A new worker has answered the signals that are out, and its first segment is
\* in the snapshot as those of the others are.
LEMMA StepRegister ==
    ASSUME Good, NEW w \in Worker, sml_heap_worker_register(w)
    PROVE  IInv'
<1>1. /\ pc[w] = "register"
      /\ phase' = [phase EXCEPT ![w] = Accept(sig)]
      /\ seg' = [seg EXCEPT ![Current(w)].snap = RegisteredSnapshot(@, Accept(sig))]
      /\ users' = [users EXCEPT ![w] = "run"]
      /\ room' = [room EXCEPT ![w] = MaxRoom]
      /\ pc' = [pc EXCEPT ![w] = "run"]
      /\ UNCHANGED <<ptr, live, act, want, sig, unsent, owing, gc_count>>
  BY DEF sml_heap_worker_register, Goto, signal
<1>2. TypeOK /\ Signals /\ Workers /\ w # Pool
  BY Parts, PoolAssumption
<1>3. ~Registered(w) /\ HasCurrent(w)
  BY <1>1, <1>2 DEF Workers
<1>4. PICK c \in Segment :
         /\ c = Current(w) /\ seg[c].own = w /\ seg[c].list = "current"
         /\ \A t \in Segment : seg[t].own = w => t = c
  BY <1>3, CurrentIs, NothingOwned
<1>5. w \notin owing /\ phase[w] = ASYNC /\ act[w] # "send" /\ seg[c].snap = 0
  BY <1>2, <1>3, <1>4, Parts DEF Signals, SnapshotOK
<1>6. /\ Accept(sig) = sig + 1 /\ sig + 1 \in Phase
      /\ sig = PREASYNC => sig + 1 = ASYNC
  BY <1>2 DEF Signals, Accept, Phase, ASYNC, PREASYNC, PRESYNC1, PRESYNC2, PREMARK
<1>7. /\ phase' \in [Worker -> Phase] /\ phase'[w] = sig + 1
      /\ users' \in [Worker -> {"run", "ended", "empty", "none"}] /\ users'[w] = "run"
      /\ pc' \in [Worker -> {"run", "wait1", "wait2", "popped", "register", "fatal"}]
      /\ pc'[w] = "run"
      /\ \A v \in Worker : v # w => /\ phase'[v] = phase[v]
                                    /\ users'[v] = users[v] /\ pc'[v] = pc[v]
  BY <1>1, <1>2, <1>6 DEF TypeOK
<1>8. room' \in [Worker -> 0 .. MaxRoom]
  BY <1>1, <1>2, BoundAssumption DEF TypeOK
<1> DEFINE n == IF BeforeSnapshot(sig + 1) THEN N ELSE 0
<1>9. /\ seg' \in [Segment -> SegmentType]
      /\ seg'[c].own = w /\ seg'[c].list = "current" /\ seg'[c].snap = n
      /\ seg'[c].bm0 = seg[c].bm0 /\ seg'[c].bm1 = seg[c].bm1 /\ seg'[c].col = seg[c].col
      /\ \A t \in Segment : t # c => seg'[t] = seg[t]
  <2> DEFINE x == [seg[c] EXCEPT !.snap = n]
  <2>1. seg' = [seg EXCEPT ![c] = x]
    BY <1>1, <1>4, <1>5, <1>6 DEF RegisteredSnapshot
  <2>2. n \in 0 .. N
    BY Numbers
  <2> HIDE DEF n
  <2>3. /\ x \in SegmentType /\ x.own = w /\ x.list = "current" /\ x.snap = n
        /\ x.bm0 = seg[c].bm0 /\ x.bm1 = seg[c].bm1 /\ x.col = seg[c].col
    BY <1>2, <1>4, <2>2, ZenonT(40) DEF SegmentType, TypeOK
  <2> HIDE DEF x
  <2> QED BY <1>2, <2>1, <2>3 DEF TypeOK
<1>10. TypeOK'
  BY <1>1, <1>2, <1>7, <1>8, <1>9 DEF TypeOK
<1>11. Signals'
  <2>1. ASSUME NEW u \in Worker
        PROVE  /\ u \in owing' => Registered(u)'
               /\ u \in unsent' => phase'[u] = Before(sig)'
               /\ u \in owing' \ unsent' => phase'[u] = sig'
               /\ u \notin owing' => phase'[u] = IF Registered(u)' THEN sig' + 1 ELSE ASYNC
    <3>1. Before(sig)' = Before(sig)
      BY <1>1 DEF Before
    <3> QED BY <1>1, <1>2, <1>5, <1>7, <3>1 DEF Signals, Registered
  <2>2. Collecting' <=> Collecting
    BY <1>1 DEF Collecting
  <2> QED BY <1>1, <1>2, <1>5, <1>7, <2>1, <2>2 DEF Signals
<1>12. Workers'
  <2>1. ASSUME NEW v \in Worker, HasCurrent(v) PROVE HasCurrent(v)'
    <3>1. PICK t \in Segment : seg[t].own = v /\ seg[t].list = "current"
      BY <2>1, CurrentIs
    <3> QED BY <1>4, <1>9, <3>1 DEF HasCurrent, In
  <2> QED BY <1>1, <1>2, <1>7, <2>1 DEF Workers, Registered
<1>13. ASSUME NEW t \in Segment, t # c PROVE SegmentOK(t)'
  <2>1. seg'[t] = seg[t] /\ seg[t].own # w
    BY <1>4, <1>9, <1>13
  <2>2. seg[t].own # Pool => seg[t].own \in Worker
    BY Parts DEF SegmentType
  <2>3. seg[t].list \in {"current", "popped"} =>
           \A u \in Segment : seg'[u].list = seg[t].list /\ seg'[u].own = seg[t].own => u = t
    BY <1>9, <2>1, Parts DEF ListOK
  <2> QED BY <1>1, <1>7, <2>1, <2>2, <2>3, KeptSegment
<1>14. SegmentOK(c)'
  <2>1. BitsOK(seg[c])'
    BY <1>9, Parts DEF BitsOK
  <2>2. ListOK(c)'
    BY <1>2, <1>4, <1>7, <1>9 DEF ListOK, Registered
  <2>3. PoolOK(c)'
    BY <1>2, <1>9 DEF PoolOK
  <2>4. BlocksOK(c)'
    BY <1>1, <1>4, <1>9, Parts DEF BlocksOK, Objects
  <2>5. SnapshotOK(c)'
    <3>1. 0 <= ptr'[w]
      BY <1>10, Numbers DEF TypeOK
    <3> QED BY <1>2, <1>7, <1>9, <3>1 DEF SnapshotOK, Registered
  <2>6. ~Unreclaimed(c) /\ ~Unreclaimed(c)'
    BY <1>1, <1>2, <1>4, <1>5, <1>6, <1>7, <1>9 DEF Unreclaimed, ASYNC, MARK, PREASYNC
  <2>7. CollectOK(c)'
    <3>1. c \notin stale => seg[c].col = {}
      BY <2>6, Parts DEF CollectOK
    <3>2. c \in stale => c \in stale' \/ seg'[c].col = {}
      BY <1>4, History
    <3> QED BY <1>9, <2>6, <3>1, <3>2 DEF CollectOK
  <2> QED BY <2>1, <2>2, <2>3, <2>4, <2>5, <2>7 DEF SegmentOK
<1> QED BY <1>10, <1>11, <1>12, <1>13, <1>14 DEF IInv

-----------------------------------------------------------------------------
(***************************************************************************)
(* Reclaiming                                                              *)
(***************************************************************************)

\* A segment of subheap->partial: all objects in it were allocated before the
\* collection, so that those without a collect bit are dead.
LEMMA PartialOK ==
    ASSUME NEW r \in SegmentType, NEW objects \in SUBSET Block,
           r.list = "partial", r.snap = 0, objects = r.col,
           objects \subseteq r.bm0, ~(Block \subseteq r.bm0)
    PROVE  LET c == ReclaimPartial(r)
           IN  /\ c \in SegmentType /\ BitsOK(c) /\ c.own = r.own /\ c.col = {} /\ c.snap = 0
               /\ \/ /\ c.list = "freelist" /\ objects = {} /\ c.bm0 \cap Block = {}
                     /\ c.free_count = N
                  \/ /\ c.list = "partial" /\ objects \subseteq c.bm0 /\ ~(Block \subseteq c.bm0)
<1> DEFINE c == Counted(r)
<1>1. /\ c \in SegmentType /\ BitsOK(c) /\ c.own = r.own /\ c.list = r.list /\ c.snap = r.snap
      /\ c.col = r.col /\ c.bm0 \cap Block = r.col /\ c.free_count = FreeCount(r)
  BY Copied
<1>2. FreeCount(r) = N <=> r.col = {}
  BY Free
<1> HIDE DEF c
<1>3. CASE FreeCount(r) = N
  <2>1. ReclaimPartial(r) = Put(c, "freelist")
    BY <1>3 DEF ReclaimPartial, c
  <2> QED BY <1>1, <1>2, <1>3, <2>1, Moved
<1>4. CASE FreeCount(r) # N
  <2>1. ReclaimPartial(r) = ClearBits(c)
    BY <1>4 DEF ReclaimPartial, c
  <2> QED BY <1>1, <1>4, <2>1, Cleared
<1> QED BY <1>3, <1>4

\* The current segment: its objects are before the pointer, or have their
\* collect bit set.
LEMMA CurrentReclaimed ==
    ASSUME NEW r \in SegmentType, NEW p \in 0 .. N
    PROVE  LET c == ReclaimCurrent(r, p)
           IN  /\ c \in SegmentType /\ BitsOK(c) /\ c.own = r.own /\ c.list = r.list
               /\ c.col = {} /\ c.snap = N /\ c.bm0 \cap Block = r.col
<1> DEFINE b == CopyBits(r)
           k == ((p \div WordBits) + 1) * WordBits
           after == (k .. BitsFor(N) - 1) \ b.bm0
           count == Cardinality(after)
           c == ClearBits(b)
           d == [c EXCEPT !.snap = N, !.free_count = count]
<1>1. /\ b \in SegmentType /\ BitsOK(b) /\ b.own = r.own /\ b.list = r.list
      /\ b.bm0 \cap Block = r.col
  BY Copied
<1>2. /\ c \in SegmentType /\ BitsOK(c) /\ c.own = r.own /\ c.list = r.list /\ c.col = {}
      /\ c.bm0 = b.bm0
  BY <1>1, Cleared
<1>3. ReclaimCurrent(r, p) = d
  BY DEF ReclaimCurrent
<1>4. count \in 0 .. N
  <2>1. k \in Nat
    <3>1. p \div WordBits \in Nat
      BY Numbers
    <3>2. (p \div WordBits) + 1 \in Nat
      BY <3>1
    <3> HIDE DEF b, after
    <3> DEFINE q == (p \div WordBits) + 1
    <3> HIDE DEF q
    <3>3. q * WordBits \in Nat
      BY <3>2, Numbers DEF q
    <3> QED BY <3>3 DEF q
  <2>2. b.bm0 = Level0(N, b.bm0 \cap Block)
    BY <1>1 DEF BitsOK
  <2>3. N .. BitsFor(N) - 1 \subseteq b.bm0
    BY <2>2 DEF Level0, Sentinel
  <2> HIDE DEF k
  <2>4. after \subseteq Block
    BY <2>1, <2>3, Numbers
  <2> HIDE DEF after
  <2>5. IsFiniteSet(Block) /\ Cardinality(Block) = N
    BY Numbers, FS_Interval
  <2>6. IsFiniteSet(after) /\ Cardinality(after) <= N
    BY <2>4, <2>5, FS_Subset
  <2>7. Cardinality(after) \in Nat
    BY <2>6, FS_CardinalityType
  <2> QED BY <2>6, <2>7, Numbers
<1> HIDE DEF count, c
<1>5. N \in 0 .. N
  BY Numbers
<1>6. /\ d \in SegmentType /\ d.own = c.own /\ d.list = c.list /\ d.col = c.col /\ d.snap = N
      /\ d.bm0 = c.bm0 /\ d.bm1 = c.bm1
  BY <1>2, <1>4, <1>5 DEF SegmentType
<1> HIDE DEF d
<1>7. BitsOK(d)
  BY <1>2, <1>6 DEF BitsOK
<1> QED BY <1>1, <1>2, <1>3, <1>6, <1>7

\* A segment of subheap->filled: if it has objects that are newer than the
\* collection it remains filled.
LEMMA FilledReclaimed ==
    ASSUME NEW r \in SegmentType, NEW objects \in SUBSET Block,
           r.list = "filled", r.snap = N => objects \subseteq r.col
    PROVE  LET c == ReclaimFilled(r)
           IN  /\ c \in SegmentType /\ BitsOK(c) /\ c.own = r.own /\ c.col = {}
               /\ \/ c.list = "filled" /\ c.snap = N
                  \/ /\ c.list = "freelist" /\ objects = {} /\ c.bm0 \cap Block = {}
                     /\ c.free_count = N /\ c.snap = 0
                  \/ /\ c.list = "partial" /\ objects \subseteq c.bm0 /\ ~(Block \subseteq c.bm0)
                     /\ c.snap = 0
<1> DEFINE c == Counted(r)
<1>1. /\ c \in SegmentType /\ BitsOK(c) /\ c.own = r.own /\ c.list = r.list /\ c.snap = r.snap
      /\ c.col = r.col /\ c.bm0 \cap Block = r.col /\ c.free_count = FreeCount(r)
  BY Copied
<1>2. (FreeCount(r) = N <=> r.col = {}) /\ (FreeCount(r) = 0 <=> r.col = Block)
  BY Free
<1>3. r.snap \in 0 .. N /\ N \in Nat
  BY Numbers DEF SegmentType
<1>4. ReclaimFilled(r) = IF r.snap < N \/ c.free_count = 0 THEN [ClearBits(c) EXCEPT !.snap = N]
                         ELSE IF c.free_count = N THEN Reset(Put(c, "freelist"))
                         ELSE Reset(ClearBits(Put(c, "partial")))
  BY DEF ReclaimFilled, HasNewObjects
<1> HIDE DEF c
<1>5. CASE r.snap < N \/ c.free_count = 0
  <2> DEFINE d == ClearBits(c)
             e == [d EXCEPT !.snap = N]
  <2>1. /\ d \in SegmentType /\ BitsOK(d) /\ d.own = r.own /\ d.list = "filled" /\ d.col = {}
    BY <1>1, Cleared
  <2>2. N \in 0 .. N
    BY Numbers
  <2> HIDE DEF d
  <2>3. /\ e \in SegmentType /\ e.own = d.own /\ e.list = d.list /\ e.col = d.col /\ e.snap = N
        /\ e.bm0 = d.bm0 /\ e.bm1 = d.bm1
    BY <2>1, <2>2 DEF SegmentType
  <2>4. ReclaimFilled(r) = e
    BY <1>4, <1>5 DEF d
  <2> HIDE DEF e
  <2>5. BitsOK(e)
    BY <2>1, <2>3 DEF BitsOK
  <2> QED BY <2>1, <2>3, <2>4, <2>5
<1>6. CASE ~(r.snap < N \/ c.free_count = 0) /\ c.free_count = N
  <2> DEFINE d == Put(c, "freelist")
  <2>1. /\ d \in SegmentType /\ BitsOK(d) /\ d.own = r.own /\ d.list = "freelist"
        /\ d.col = r.col /\ d.bm0 = c.bm0 /\ d.free_count = N
    BY <1>1, <1>6, Moved
  <2>2. ReclaimFilled(r) = Reset(d)
    BY <1>4, <1>6
  <2> HIDE DEF d
  <2>3. objects = {} /\ r.col = {}
    BY <1>1, <1>2, <1>3, <1>6
  <2> QED BY <1>1, <2>1, <2>2, <2>3, WasReset
<1>7. CASE ~(r.snap < N \/ c.free_count = 0) /\ c.free_count # N
  <2> DEFINE d == Put(c, "partial")
             e == ClearBits(d)
  <2>1. /\ d \in SegmentType /\ BitsOK(d) /\ d.own = r.own /\ d.list = "partial" /\ d.bm0 = c.bm0
    BY <1>1, Moved
  <2> HIDE DEF d
  <2>2. /\ e \in SegmentType /\ BitsOK(e) /\ e.own = r.own /\ e.list = "partial"
        /\ e.bm0 = c.bm0 /\ e.col = {}
    BY <2>1, Cleared
  <2>3. ReclaimFilled(r) = Reset(e)
    BY <1>4, <1>7 DEF d
  <2> HIDE DEF e
  <2>4. objects \subseteq r.col /\ r.col # Block /\ r.col \subseteq Block
    BY <1>1, <1>2, <1>3, <1>7
  <2>5. objects \subseteq c.bm0 /\ ~(Block \subseteq c.bm0)
    BY <1>1, <2>4
  <2> QED BY <2>2, <2>3, <2>5, WasReset
<1> QED BY <1>5, <1>6, <1>7

\* reclaim_subpool: what is in the pool when the collection ends is older than it.
LEMMA PooledReclaimed ==
    ASSUME NEW r \in SegmentType,
           r.list = "filled" \/ (r.list = "partial_marked" /\ r.col # Block)
    PROVE  LET c == ReclaimPooled(r)
           IN  /\ c \in SegmentType /\ BitsOK(c) /\ c.own = r.own /\ c.col = {} /\ c.snap = 0
               /\ \/ c.list = "filled" /\ r.list = "filled" /\ r.col \subseteq c.bm0
                  \/ /\ c.list = "freelist" /\ r.col = {} /\ c.bm0 \cap Block = {}
                     /\ c.free_count = N
                  \/ c.list = "partial" /\ r.col \subseteq c.bm0 /\ ~(Block \subseteq c.bm0)
<1> DEFINE d == Counted(r)
           c == Reset(d)
<1>1. /\ d \in SegmentType /\ BitsOK(d) /\ d.own = r.own /\ d.list = r.list
      /\ d.col = r.col /\ d.bm0 \cap Block = r.col /\ d.free_count = FreeCount(r)
  BY Copied
<1>2. (FreeCount(r) = N <=> r.col = {}) /\ (FreeCount(r) = 0 <=> r.col = Block)
  BY Free
<1> HIDE DEF d
<1>3. /\ c \in SegmentType /\ BitsOK(c) /\ c.own = r.own /\ c.list = r.list /\ c.snap = 0
      /\ c.col = r.col /\ c.bm0 \cap Block = r.col /\ c.free_count = FreeCount(r)
  BY <1>1, WasReset
<1>4. ReclaimPooled(r) = IF c.free_count = N THEN Put(c, "freelist")
                         ELSE ClearBits(IF c.free_count = 0 /\ r.list = "filled" THEN c
                                        ELSE Put(c, "partial"))
  BY DEF ReclaimPooled, d
<1> HIDE DEF c
<1>5. CASE c.free_count = N
  <2>1. ReclaimPooled(r) = Put(c, "freelist")
    BY <1>4, <1>5
  <2> QED BY <1>2, <1>3, <1>5, <2>1, Moved
<1>6. CASE c.free_count # N /\ c.free_count = 0 /\ r.list = "filled"
  <2>1. ReclaimPooled(r) = ClearBits(c)
    BY <1>4, <1>6
  <2> QED BY <1>3, <1>6, <2>1, Cleared
<1>7. CASE c.free_count # N /\ ~(c.free_count = 0 /\ r.list = "filled")
  <2> DEFINE e == Put(c, "partial")
  <2>1. /\ e \in SegmentType /\ BitsOK(e) /\ e.own = r.own /\ e.list = "partial" /\ e.bm0 = c.bm0
        /\ e.snap = 0
    BY <1>3, Moved
  <2>2. ReclaimPooled(r) = ClearBits(e)
    BY <1>4, <1>7
  <2> HIDE DEF e
  <2>3. r.col # Block /\ r.col \subseteq Block
    BY <1>2, <1>3, <1>7
  <2>4. r.col \subseteq c.bm0 /\ ~(Block \subseteq c.bm0)
    BY <1>3, <2>3
  <2> QED BY <2>1, <2>2, <2>4, Cleared
<1> QED BY <1>5, <1>6, <1>7

\* What a worker that accepts the last signal does to a segment of its own.
LEMMA OwnReclaimed ==
    ASSUME Good, NEW w \in Worker, Accepts(w, PREASYNC), NEW t \in Segment, seg[t].own = w,
           seg'[t] = CASE seg[t].list = "freelist" -> [seg[t] EXCEPT !.own = Pool]
                       [] seg[t].list = "partial" -> ReclaimPartial(seg[t])
                       [] seg[t].list = "current" -> ReclaimCurrent(seg[t], ptr[w])
                       [] seg[t].list = "filled" -> ReclaimFilled(seg[t]),
           UNCHANGED <<ptr, live, users>>
    PROVE  /\ seg'[t] \in SegmentType
           /\ seg'[t].own = w \/ (seg'[t].own = Pool /\ seg'[t].list = "freelist")
           /\ seg'[t].list \notin {"popped", "partial_marked"}
           /\ seg[t].list = "current" => seg'[t].own = w
           /\ seg[t].list = "current" <=> seg'[t].list = "current"
           /\ BitsOK(seg[t])' /\ PoolOK(t)' /\ BlocksOK(t)' /\ SnapshotOK(t)' /\ CollectOK(t)'
<1>1. /\ sig = PREASYNC /\ Registered(w) /\ pc[w] \in {"run", "wait1", "wait2"}
      /\ phase[w] = PREASYNC /\ phase'[w] = ASYNC
  <2>1. /\ sig = PREASYNC /\ Registered(w) /\ pc[w] \in {"run", "wait1", "wait2"}
        /\ phase'[w] = PREASYNC + 1
    BY Accepting
  <2>2. phase[w] = PREASYNC /\ PREASYNC + 1 = ASYNC
    BY DEF Accepts, PREASYNC, ASYNC
  <2> QED BY <2>1, <2>2
<1>2. /\ seg[t] \in SegmentType /\ BitsOK(seg[t]) /\ ListOK(t) /\ BlocksOK(t) /\ CollectOK(t)
      /\ w # Pool /\ ptr[w] \in 0 .. N
  BY Parts, PoolAssumption DEF TypeOK
<1>3. seg[t].list \in {"freelist", "partial", "current", "filled"}
  BY <1>1, <1>2 DEF ListOK, SegmentType
<1>4. Unreclaimed(t)
  BY <1>1, <1>2 DEF Unreclaimed
<1>5. /\ t \notin stale => seg[t].col \subseteq Objects(t)
      /\ seg[t].list \notin {"current", "filled"} => t \notin stale
      /\ Objects(t) \in SUBSET Block
      /\ \A i \in Objects(t) : i \in seg[t].col \/ (i \notin seg[t].bm0 /\ i >= seg[t].snap)
  BY <1>2, <1>4 DEF CollectOK, Objects
<1>6. Objects(t)' = Objects(t)
  BY DEF Objects
<1>7. BeforeSnapshot(phase'[w]) /\ phase'[w] \notin {MARK, PREASYNC}
  BY <1>1 DEF BeforeSnapshot, ASYNC, PRESYNC2, MARK, PREASYNC
<1>8. CASE seg[t].list = "freelist"
  <2> DEFINE x == [seg[t] EXCEPT !.own = Pool]
  <2>1. seg'[t] = x
    BY <1>8
  <2>2. /\ x \in SegmentType /\ x.own = Pool /\ x.list = "freelist" /\ x.col = seg[t].col
        /\ x.bm0 = seg[t].bm0 /\ x.bm1 = seg[t].bm1 /\ x.snap = seg[t].snap
        /\ x.free_count = seg[t].free_count
    BY <1>2, <1>8 DEF SegmentType
  <2> HIDE DEF x
  <2>3. BitsOK(seg[t])'
    BY <1>2, <2>1, <2>2 DEF BitsOK
  <2>4. PoolOK(t)' /\ SnapshotOK(t)'
    BY <2>1, <2>2 DEF PoolOK, SnapshotOK
  <2>5. BlocksOK(t)' /\ Objects(t) = {}
    BY <1>2, <1>6, <1>8, <2>1, <2>2 DEF BlocksOK
  <2>6. seg'[t].col = {} /\ ~Unreclaimed(t)'
    BY <1>5, <1>8, <2>1, <2>2, <2>5 DEF Unreclaimed
  <2>7. CollectOK(t)'
    BY <2>6, History DEF CollectOK
  <2> QED BY <1>8, <2>1, <2>2, <2>3, <2>4, <2>5, <2>7
<1>9. ASSUME seg'[t] \in SegmentType, seg'[t].own = w, BitsOK(seg'[t]), seg'[t].col = {},
             seg'[t].list \notin {"popped", "partial_marked"},
             seg'[t].list \in {"current", "filled"} => seg'[t].snap = N
      PROVE  BitsOK(seg[t])' /\ PoolOK(t)' /\ SnapshotOK(t)' /\ CollectOK(t)'
  <2>1. BitsOK(seg[t])'
    BY <1>9 DEF BitsOK
  <2>2. PoolOK(t)'
    BY <1>2, <1>9 DEF PoolOK
  <2>3. SnapshotOK(t)'
    BY <1>1, <1>2, <1>7, <1>9 DEF SnapshotOK, Registered
  <2>4. ~Unreclaimed(t)'
    BY <1>2, <1>7, <1>9 DEF Unreclaimed
  <2> QED BY <1>9, <2>1, <2>2, <2>3, <2>4, History DEF CollectOK
<1>10. CASE seg[t].list = "partial"
  <2>1. /\ seg[t].snap = 0 /\ Objects(t) \subseteq seg[t].bm0 /\ ~(Block \subseteq seg[t].bm0)
        /\ Objects(t) = seg[t].col
    BY <1>2, <1>5, <1>10 DEF BlocksOK
  <2>2. seg'[t] = ReclaimPartial(seg[t])
    BY <1>10
  <2>3. LET c == seg'[t]
        IN  /\ c \in SegmentType /\ BitsOK(c) /\ c.own = w /\ c.col = {} /\ c.snap = 0
            /\ \/ /\ c.list = "freelist" /\ Objects(t) = {} /\ c.bm0 \cap Block = {}
                  /\ c.free_count = N
               \/ /\ c.list = "partial" /\ Objects(t) \subseteq c.bm0 /\ ~(Block \subseteq c.bm0)
    BY <1>2, <1>5, <1>10, <2>1, <2>2, PartialOK
  <2>4. BlocksOK(t)'
    BY <1>6, <2>3 DEF BlocksOK
  <2> QED BY <1>9, <1>10, <2>3, <2>4
<1>11. CASE seg[t].list = "current"
  <2>1. seg'[t] = ReclaimCurrent(seg[t], ptr[w])
    BY <1>11
  <2>2. LET c == seg'[t]
        IN  /\ c \in SegmentType /\ BitsOK(c) /\ c.own = w /\ c.list = "current"
            /\ c.col = {} /\ c.snap = N /\ c.bm0 \cap Block = seg[t].col
    BY <1>2, <1>11, <2>1, CurrentReclaimed
  <2>3. \A i \in Objects(t) : i \in seg'[t].bm0 \/ i < ptr[w]
    BY <1>2, <1>5, <1>11, <2>2 DEF BlocksOK
  <2>4. BlocksOK(t)'
    BY <1>6, <2>2, <2>3 DEF BlocksOK
  <2> QED BY <1>9, <1>11, <2>2, <2>4
<1>12. CASE seg[t].list = "filled"
  <2>1. seg'[t] = ReclaimFilled(seg[t])
    BY <1>12
  <2>2. seg[t].snap = N => Objects(t) \subseteq seg[t].col
    <3>1. \A i \in Objects(t) : ~(i >= N)
      BY Numbers DEF Objects
    <3> QED BY <1>5, <3>1
  <2>3. LET c == seg'[t]
        IN  /\ c \in SegmentType /\ BitsOK(c) /\ c.own = w /\ c.col = {}
            /\ \/ c.list = "filled" /\ c.snap = N
               \/ /\ c.list = "freelist" /\ Objects(t) = {} /\ c.bm0 \cap Block = {}
                  /\ c.free_count = N /\ c.snap = 0
               \/ /\ c.list = "partial" /\ Objects(t) \subseteq c.bm0 /\ ~(Block \subseteq c.bm0)
                  /\ c.snap = 0
    BY <1>2, <1>5, <1>12, <2>1, <2>2, FilledReclaimed
  <2>4. BlocksOK(t)'
    BY <1>6, <2>3 DEF BlocksOK
  <2> QED BY <1>9, <1>12, <2>3, <2>4
<1> QED BY <1>3, <1>8, <1>10, <1>11, <1>12

\* worker_async: a worker reclaims its segments.
LEMMA StepAsync ==
    ASSUME Good, NEW w \in Worker, worker_async(w)
    PROVE  IInv'
<1> DEFINE new(s) == CASE seg[s].list = "freelist" -> [seg[s] EXCEPT !.own = Pool]
                       [] seg[s].list = "partial" -> ReclaimPartial(seg[s])
                       [] seg[s].list = "current" -> ReclaimCurrent(seg[s], ptr[w])
                       [] seg[s].list = "filled" -> ReclaimFilled(seg[s])
<1>1. PICK n \in 1 .. MaxRoom :
        /\ Accepts(w, PREASYNC)
        /\ seg' = [s \in Segment |-> IF seg[s].own # w THEN seg[s] ELSE new(s)]
        /\ room' = [room EXCEPT ![w] = n]
        /\ owing' = owing \ {w}
        /\ act' = IF owing = {w} THEN [act EXCEPT ![w] = "gasync"] ELSE act
        /\ UNCHANGED <<ptr, live, pc, want, users, sig, unsent, gc_count>>
  BY DEF worker_async
<1> HIDE DEF new
<1>2. /\ sig = PREASYNC /\ w \in owing /\ w \notin unsent /\ Registered(w)
      /\ act[w] = "none" /\ pc[w] \in {"run", "wait1", "wait2"}
      /\ phase' \in [Worker -> Phase] /\ phase[w] = PREASYNC /\ phase'[w] = PREASYNC + 1
      /\ \A v \in Worker : v # w => phase'[v] = phase[v]
  BY <1>1, Accepting DEF Accepts
<1>3. TypeOK /\ Signals /\ Workers /\ w # Pool
  BY Parts, PoolAssumption
<1>4. /\ room' \in [Worker -> 0 .. MaxRoom]
      /\ act' \in [Worker -> {"none", "send", "gasync"}]
      /\ act'[w] = IF owing = {w} THEN "gasync" ELSE "none"
      /\ \A v \in Worker : v # w => act'[v] = act[v]
  <2>1. n \in 0 .. MaxRoom
    BY BoundAssumption
  <2> QED BY <1>1, <1>2, <1>3, <2>1 DEF TypeOK
<1>5. Collecting /\ Collecting'
  BY <1>1, <1>2, <1>4 DEF Collecting
<1>6. ASSUME NEW t \in Segment, seg[t].own = w
      PROVE  /\ seg'[t] \in SegmentType
             /\ seg'[t].own = w \/ (seg'[t].own = Pool /\ seg'[t].list = "freelist")
             /\ seg'[t].list \notin {"popped", "partial_marked"}
             /\ seg[t].list = "current" => seg'[t].own = w
             /\ seg[t].list = "current" <=> seg'[t].list = "current"
             /\ BitsOK(seg[t])' /\ PoolOK(t)' /\ BlocksOK(t)' /\ SnapshotOK(t)' /\ CollectOK(t)'
  <2>1. seg'[t] = new(t)
    BY <1>1, <1>6
  <2>2. UNCHANGED <<ptr, live, users>>
    BY <1>1
  <2> QED BY <1>1, <1>6, <2>1, <2>2, OwnReclaimed, ZenonT(40) DEF new
<1>7. \A t \in Segment : seg[t].own # w => seg'[t] = seg[t]
  BY <1>1
<1>8. seg' \in [Segment -> SegmentType]
  <2>1. seg' = [t \in Segment |-> seg'[t]]
    BY <1>1
  <2>2. \A t \in Segment : seg'[t] \in SegmentType
    BY <1>6, <1>7, Parts
  <2> QED BY <2>1, <2>2
<1>9. TypeOK'
  BY <1>1, <1>2, <1>3, <1>4, <1>8 DEF TypeOK
<1>10. Signals'
  <2>1. ASSUME NEW u \in Worker
        PROVE  /\ u \in owing' => Registered(u)'
               /\ u \in unsent' => phase'[u] = Before(sig)'
               /\ u \in owing' \ unsent' => phase'[u] = sig'
               /\ u \notin owing' => phase'[u] = IF Registered(u)' THEN sig' + 1 ELSE ASYNC
    <3>1. Before(sig)' = Before(sig)
      BY <1>1 DEF Before
    <3> QED BY <1>1, <1>2, <1>3, <3>1 DEF Signals, Registered
  <2>2. \A u \in Worker : act[u] # "gasync"
    BY <1>2, <1>3 DEF Signals
  <2>3. owing = {w} => unsent = {} /\ \A u \in Worker : act[u] = "none"
    BY <1>2, <1>3, <2>2 DEF Signals, TypeOK
  <2>4. ASSUME NEW u \in Worker
        PROVE  /\ act'[u] = "send" => /\ u \in owing' /\ unsent' # {}
                                      /\ users'[u] = "run" \/ sig' # PRESYNC1
               /\ act'[u] = "gasync" => sig' = PREASYNC /\ owing' = {}
               /\ \A x \in Worker : act'[x] = act'[u] /\ act'[u] # "none" => x = u
    <3>1. CASE owing = {w}
      BY <1>1, <1>2, <1>4, <2>3, <3>1
    <3>2. CASE owing # {w}
      <4>1. act' = act
        BY <1>1, <3>2
      <4> QED BY <1>1, <1>2, <1>3, <2>2, <4>1 DEF Signals
    <3> QED BY <3>1, <3>2
  <2>5. unsent' # {} => \E u \in Worker : act'[u] = "send"
    BY <1>1, <1>3, <2>3 DEF Signals
  <2>6. gc_count' < MaxGC /\ unsent' \subseteq owing' /\ sig' \in {PREASYNC, PRESYNC1, PRESYNC2, PREMARK}
    BY <1>1, <1>2, <1>3, <1>5 DEF Signals
  <2> QED BY <2>1, <2>4, <2>5, <2>6 DEF Signals
<1>11. Workers'
  <2>1. ASSUME NEW v \in Worker, HasCurrent(v) PROVE HasCurrent(v)'
    <3>1. PICK t \in Segment : seg[t].own = v /\ seg[t].list = "current"
      BY <2>1, CurrentIs
    <3>2. seg'[t].own = v /\ seg'[t].list = "current"
      BY <1>6, <1>7, <3>1
    <3> QED BY <3>2 DEF HasCurrent, In
  <2> QED BY <1>1, <1>2, <1>3, <2>1 DEF Workers, Registered
<1>12. ASSUME NEW t \in Segment, seg'[t].list \in {"current", "popped"}
       PROVE  seg'[t].own = seg[t].own /\ seg'[t].list = seg[t].list
  BY <1>6, <1>7, <1>12
<1>13. ASSUME NEW t \in Segment PROVE ListOK(t)'
  <2>1. ASSUME seg'[t].list \in {"current", "popped"}, NEW u \in Segment,
               seg'[u].list = seg'[t].list, seg'[u].own = seg'[t].own
        PROVE  u = t
    <3>1. /\ seg[t].list \in {"current", "popped"}
          /\ seg[u].list = seg[t].list /\ seg[u].own = seg[t].own
      BY <1>12, <2>1
    <3> QED BY <3>1, Parts DEF ListOK
  <2>2. users' = users /\ pc' = pc
    BY <1>1
  <2>3. CASE seg[t].own = w
    <3>1. Registered(w)'
      BY <1>2, <2>2 DEF Registered
    <3>2. seg'[t].list # "popped"
      BY <1>6, <2>3
    <3>3. seg'[t].own = Pool => seg'[t].list = "freelist"
      BY <1>3, <1>6, <2>3
    <3>4. seg'[t].own # Pool => seg'[t].own = w /\ seg'[t].list # "partial_marked"
      BY <1>6, <2>3
    <3> QED BY <2>1, <3>1, <3>2, <3>3, <3>4 DEF ListOK
  <2>4. CASE seg[t].own # w
    <3>1. seg'[t] = seg[t]
      BY <1>7, <2>4
    <3> QED BY <2>1, <2>2, <3>1, Parts DEF ListOK, Registered
  <2> QED BY <2>3, <2>4
<1>14. ASSUME NEW t \in Segment PROVE SegmentOK(t)'
  <2>1. CASE seg[t].own = w
    BY <1>6, <1>13, <2>1 DEF SegmentOK
  <2>2. CASE seg[t].own # w
    <3>1. seg'[t] = seg[t] /\ (seg[t].own # Pool => seg[t].own \in Worker)
      BY <1>7, <2>2, Parts DEF SegmentType
    <3>2. BitsOK(seg[t])'
      BY <3>1, Parts DEF BitsOK
    <3>3. PoolOK(t)'
      <4>1. PoolOK(t)
        BY Parts
      <4> QED BY <1>1, <1>2, <1>5, <3>1, <4>1 DEF PoolOK
    <3>4. seg[t].own # Pool => phase'[seg[t].own] = phase[seg[t].own]
      BY <1>2, <2>2, <3>1
    <3>5. live' = live /\ ptr' = ptr /\ users' = users /\ sig' = sig
      BY <1>1
    <3>6. BlocksOK(t)'
      BY <3>1, <3>5, KeptBlocks
    <3>7. SnapshotOK(t)'
      BY <3>1, <3>4, <3>5, KeptSnapshot
    <3>8. CollectOK(t)'
      BY <1>5, <3>1, <3>4, <3>5, KeptUnreclaimed, KeptCollect
    <3> QED BY <1>13, <3>2, <3>3, <3>6, <3>7, <3>8 DEF SegmentOK
  <2> QED BY <2>1, <2>2
<1> QED BY <1>9, <1>10, <1>11, <1>14 DEF IInv

\* A segment that reclaim_subpool reclaims: it has been in the pool since before
\* the snapshot, or a worker that was killed has left it there.
LEMMA PoolReclaimed ==
    ASSUME Good, NEW t \in Segment, seg[t].own = Pool, sig = PREASYNC, Collecting,
           seg[t].list \in {"partial_marked", "filled"},
           seg[t].list = "filled" => ~Collecting',
           seg'[t] = ReclaimPooled(seg[t]), UNCHANGED <<live, sig>>, owing' = {}
    PROVE  /\ seg'[t] \in SegmentType /\ seg'[t].own = Pool
           /\ SegmentOK(t)'
<1>1. /\ seg[t] \in SegmentType /\ BlocksOK(t) /\ SnapshotOK(t) /\ CollectOK(t)
  BY Parts
<1>2. Unreclaimed(t)
  BY DEF Unreclaimed
<1>3. /\ seg[t].list = "partial_marked" => seg[t].col \subseteq Objects(t)
      /\ Objects(t) \in SUBSET Block
      /\ \A i \in Objects(t) : i \in seg[t].col \/ (i \notin seg[t].bm0 /\ i >= seg[t].snap)
  BY <1>1, <1>2 DEF CollectOK, Objects
<1>4. Objects(t) \subseteq seg[t].col
  <2>1. \A i \in Objects(t) : ~(i >= N)
    BY Numbers DEF Objects
  <2>2. seg[t].snap = N \/ Objects(t) \subseteq seg[t].bm0
    BY <1>1 DEF BlocksOK, SnapshotOK
  <2> QED BY <1>3, <2>1, <2>2
<1>5. seg[t].list = "partial_marked" => seg[t].col # Block
  BY <1>1, <1>3 DEF BlocksOK
<1>6. LET c == seg'[t]
      IN  /\ c \in SegmentType /\ BitsOK(c) /\ c.own = Pool /\ c.col = {} /\ c.snap = 0
          /\ \/ c.list = "filled" /\ seg[t].list = "filled" /\ Objects(t) \subseteq c.bm0
             \/ /\ c.list = "freelist" /\ Objects(t) = {} /\ c.bm0 \cap Block = {}
                /\ c.free_count = N
             \/ c.list = "partial" /\ Objects(t) \subseteq c.bm0 /\ ~(Block \subseteq c.bm0)
  BY <1>1, <1>4, <1>5, PooledReclaimed
<1>7. Objects(t)' = Objects(t)
  BY DEF Objects
<1>8. BitsOK(seg[t])'
  BY <1>6 DEF BitsOK
<1>9. ListOK(t)' /\ PoolOK(t)' /\ BlocksOK(t)' /\ SnapshotOK(t)'
  BY <1>6, <1>7 DEF ListOK, PoolOK, BlocksOK, SnapshotOK
<1>10. ~Unreclaimed(t)'
  BY <1>6 DEF Unreclaimed
<1>11. CollectOK(t)'
  BY <1>6, <1>10, History DEF CollectOK
<1> QED BY <1>6, <1>8, <1>9, <1>11 DEF SegmentOK

\* A segment that this step leaves alone.
LEMMA PoolKept ==
    ASSUME Good, NEW t \in Segment, seg'[t] = seg[t], owing = {}, sig = PREASYNC,
           UNCHANGED <<ptr, live, pc, users, phase, sig, owing>>,
           \/ Collecting /\ Collecting'
           \/ (seg[t].own = Pool => seg[t].list \notin {"partial_marked", "filled"}),
           \A u \in Segment : seg'[u] # seg[u] => seg'[u].own = Pool
    PROVE  SegmentOK(t)'
<1>1. /\ BitsOK(seg[t]) /\ ListOK(t) /\ PoolOK(t) /\ CollectOK(t)
      /\ seg[t].own # Pool => seg[t].own \in Worker
  BY Parts DEF SegmentType
<1>2. BitsOK(seg[t])'
  BY <1>1 DEF BitsOK
<1>3. ListOK(t)'
  <2>1. ASSUME seg[t].list \in {"current", "popped"}, NEW u \in Segment,
               seg'[u].list = seg[t].list, seg'[u].own = seg[t].own
        PROVE  u = t
    <3>1. seg[t].own # Pool
      BY <1>1, <2>1 DEF ListOK
    <3>2. seg'[u] = seg[u]
      BY <2>1, <3>1
    <3> QED BY <1>1, <2>1, <3>2 DEF ListOK
  <2> QED BY <2>1, KeptList
<1>4. PoolOK(t)'
  BY <1>1 DEF PoolOK, ListOK
<1>5. BlocksOK(t)' /\ SnapshotOK(t)'
  BY KeptBlocks, KeptSnapshot
<1>6. Unreclaimed(t)' <=> Unreclaimed(t)
  BY <1>1 DEF Unreclaimed, ListOK
<1>7. CollectOK(t)'
  BY <1>6, KeptCollect
<1> QED BY <1>2, <1>3, <1>4, <1>5, <1>7 DEF SegmentOK

\* sml_heap_global_async: the pool reclaims its segments, and the collection ends.
LEMMA StepGlobal ==
    ASSUME Good, NEW w \in Worker, sml_heap_global_async(w)
    PROVE  IInv'
<1> DEFINE marked == In(Pool, "partial_marked")
           filled == In(Pool, "filled")
<1>1. /\ act[w] = "gasync"
      /\ \/ \E s \in marked :
               /\ seg' = [seg EXCEPT ![s] = ReclaimPooled(@)]
               /\ UNCHANGED <<act, gc_count>>
         \/ /\ marked = {}
            /\ seg' = [s \in Segment |-> IF s \in filled THEN ReclaimPooled(seg[s]) ELSE seg[s]]
            /\ act' = [act EXCEPT ![w] = "none"]
            /\ gc_count' = gc_count + 1
      /\ UNCHANGED <<ptr, live, room, pc, want, users, phase, sig, unsent, owing>>
  BY DEF sml_heap_global_async
<1>2. /\ TypeOK /\ Signals /\ Workers
      /\ \A t \in Segment : seg[t] \in SegmentType /\ ListOK(t)
  BY Parts
<1>3. sig = PREASYNC /\ owing = {} /\ Collecting /\ gc_count < MaxGC
  BY <1>1, <1>2 DEF Signals, Collecting
<1>4. \A v \in Worker : v # w => act[v] = "none"
  BY <1>1, <1>2, <1>3 DEF Signals, TypeOK
<1>5. \A t \in Segment : /\ t \in marked <=> seg[t].own = Pool /\ seg[t].list = "partial_marked"
                         /\ t \in filled <=> seg[t].own = Pool /\ seg[t].list = "filled"
  BY DEF In
<1>6. marked \subseteq Segment
  BY DEF In
<1> HIDE DEF marked, filled
<1>7. ASSUME seg' \in [Segment -> SegmentType],
             \A t \in Segment : \/ seg'[t] = seg[t]
                                \/ /\ seg[t].own = Pool /\ seg'[t].own = Pool
                                   /\ seg[t].list \in {"partial_marked", "filled"}
      PROVE  Workers'
  <2>1. ASSUME NEW v \in Worker, HasCurrent(v) PROVE HasCurrent(v)'
    <3>1. PICK t \in Segment : seg[t].own = v /\ seg[t].list = "current"
      BY <2>1, CurrentIs
    <3>2. seg'[t] = seg[t]
      BY <1>7, <3>1
    <3> QED BY <3>1, <3>2 DEF HasCurrent, In
  <2> QED BY <1>1, <1>2, <2>1 DEF Workers, Registered
<1>8. CASE \E s \in marked : /\ seg' = [seg EXCEPT ![s] = ReclaimPooled(@)]
                             /\ UNCHANGED <<act, gc_count>>
  <2>1. PICK s \in Segment :
          /\ seg[s].own = Pool /\ seg[s].list = "partial_marked"
          /\ seg' = [seg EXCEPT ![s] = ReclaimPooled(seg[s])]
          /\ UNCHANGED <<act, gc_count>>
    BY <1>5, <1>6, <1>8
  <2>2. Collecting'
    BY <1>1, <2>1 DEF Collecting
  <2>3. seg'[s] = ReclaimPooled(seg[s]) /\ \A t \in Segment : t # s => seg'[t] = seg[t]
    BY <1>2, <2>1 DEF TypeOK
  <2>4. seg'[s] \in SegmentType /\ seg'[s].own = Pool /\ SegmentOK(s)'
    <3>1. seg[s].list # "filled" /\ owing' = {} /\ UNCHANGED <<live, sig>>
      BY <1>1, <1>3, <2>1
    <3> QED BY <1>3, <2>1, <2>3, <3>1, PoolReclaimed
  <2>5. seg' \in [Segment -> SegmentType]
    BY <1>2, <2>1, <2>3, <2>4 DEF TypeOK
  <2>6. TypeOK'
    BY <1>1, <1>2, <2>1, <2>5 DEF TypeOK
  <2>7. Signals'
    BY <1>1, <2>1, KeptSignals
  <2>8. Workers'
    BY <1>7, <2>1, <2>3, <2>4, <2>5
  <2>9. ASSUME NEW t \in Segment, t # s PROVE SegmentOK(t)'
    <3>1. \A u \in Segment : seg'[u] # seg[u] => seg'[u].own = Pool
      BY <2>3, <2>4
    <3> QED BY <1>1, <1>3, <2>2, <2>3, <2>9, <3>1, PoolKept
  <2> QED BY <2>4, <2>6, <2>7, <2>8, <2>9 DEF IInv
<1>9. CASE /\ marked = {}
           /\ seg' = [s \in Segment |-> IF s \in filled THEN ReclaimPooled(seg[s]) ELSE seg[s]]
           /\ act' = [act EXCEPT ![w] = "none"]
           /\ gc_count' = gc_count + 1
  <2>1. act' = [v \in Worker |-> "none"]
    BY <1>2, <1>4, <1>9 DEF TypeOK
  <2>2. ~Collecting'
    BY <1>1, <1>3, <2>1 DEF Collecting
  <2>3. ASSUME NEW t \in Segment, t \in filled
        PROVE  seg'[t] \in SegmentType /\ seg'[t].own = Pool /\ SegmentOK(t)'
    <3>1. seg'[t] = ReclaimPooled(seg[t]) /\ seg[t].own = Pool /\ seg[t].list = "filled"
      BY <1>5, <1>9, <2>3
    <3>2. owing' = {} /\ UNCHANGED <<live, sig>>
      BY <1>1, <1>3
    <3> QED BY <1>3, <2>2, <3>1, <3>2, PoolReclaimed
  <2>4. \A t \in Segment : t \notin filled => seg'[t] = seg[t]
    BY <1>9
  <2>5. seg' \in [Segment -> SegmentType]
    <3>1. seg' = [t \in Segment |-> seg'[t]]
      BY <1>9
    <3>2. \A t \in Segment : seg'[t] \in SegmentType
      BY <1>2, <2>3, <2>4
    <3> QED BY <3>1, <3>2
  <2>6. TypeOK'
    <3>1. gc_count' \in 0 .. MaxGC
      BY <1>2, <1>3, <1>9, BoundAssumption DEF TypeOK
    <3>2. act' \in [Worker -> {"none", "send", "gasync"}]
      BY <2>1
    <3> QED BY <1>1, <1>2, <2>5, <3>1, <3>2 DEF TypeOK
  <2>7. Signals'
    <3>1. unsent = {}
      BY <1>2, <1>3 DEF Signals
    <3>2. Before(sig)' = Before(sig)
      BY <1>1 DEF Before
    <3> QED BY <1>1, <1>2, <1>3, <2>1, <2>2, <3>1, <3>2 DEF Signals, Registered
  <2>8. Workers'
    BY <1>5, <1>7, <2>3, <2>4, <2>5
  <2>9. ASSUME NEW t \in Segment, t \notin filled PROVE SegmentOK(t)'
    <3>1. \A u \in Segment : seg'[u] # seg[u] => seg'[u].own = Pool
      BY <2>3, <2>4
    <3>2. seg[t].own = Pool => seg[t].list \notin {"partial_marked", "filled"}
      BY <1>5, <1>9, <2>9
    <3> QED BY <1>1, <1>3, <2>4, <2>9, <3>1, <3>2, PoolKept
  <2> QED BY <2>3, <2>6, <2>7, <2>8, <2>9 DEF IInv
<1> QED BY <1>1, <1>8, <1>9

-----------------------------------------------------------------------------
(***************************************************************************)
(* The invariant                                                           *)
(***************************************************************************)

\* A segment that init_segment has prepared.
LEMMA CleanIs ==
    /\ Clean \in SegmentType /\ BitsOK(Clean)
    /\ Clean.own = Pool /\ Clean.list = "freelist" /\ Clean.col = {} /\ Clean.snap = 0
    /\ Clean.free_count = N /\ Clean.bm0 \cap Block = {}
<1> DEFINE b0 == Level0(N, {})
           b1 == Level1(N, {})
<1>1. b0 \in SUBSET (0 .. BitsFor(N)) /\ b1 \in SUBSET (0 .. BitsFor(Words(N))) /\ b0 \cap Block = {}
  BY Bitmaps
<1>2. Level1New(N) = b1
  BY Numbers, NewIsCopied
<1>3. b0 = Level0(N, b0 \cap Block) /\ b1 = Level1(N, b0 \cap Block)
  BY <1>1
<1>4. N \in 0 .. N /\ 0 \in 0 .. N
  BY Numbers
<1>5. Clean = [own |-> Pool, list |-> "freelist", bm0 |-> b0, bm1 |-> b1,
               col |-> {}, snap |-> 0, free_count |-> N]
  BY <1>2 DEF Clean
<1> HIDE DEF b0, b1
<1>6. Clean \in SegmentType /\ Clean.bm0 = b0 /\ Clean.bm1 = b1
  BY <1>1, <1>4, <1>5 DEF SegmentType
<1> QED BY <1>1, <1>3, <1>5, <1>6 DEF BitsOK

\* When no collection is going on, and every worker is in ASYNC.
LEMMA IdleOK ==
    ASSUME Idle
    PROVE  /\ Signals /\ ~Collecting
           /\ room \in [Worker -> 0 .. MaxRoom] /\ want \in [Worker -> 0 .. MaxGC + 1]
           /\ pc \in [Worker -> {"run", "wait1", "wait2", "popped", "register", "fatal"}]
           /\ act \in [Worker -> {"none", "send", "gasync"}] /\ phase \in [Worker -> Phase]
           /\ sig \in Phase /\ unsent \subseteq Worker /\ owing \subseteq Worker
           /\ gc_count \in 0 .. MaxGC
           /\ \A t \in Segment :
                 /\ seg[t].own \in Worker \cup {Pool}
                 /\ seg[t].list \in {"freelist", "partial", "current"}
                 => ~Unreclaimed(t)
<1>1. /\ room = [w \in Worker |-> MaxRoom] /\ act = [w \in Worker |-> "none"]
      /\ pc = [w \in Worker |-> "run"] /\ want = [w \in Worker |-> 0]
      /\ phase = [w \in Worker |-> ASYNC]
      /\ sig = PREASYNC /\ unsent = {} /\ owing = {} /\ gc_count = 0
  BY DEF Idle
<1>2. ~Collecting
  BY <1>1 DEF Collecting
<1>3. Signals
  BY <1>1, <1>2 DEF Signals, PREASYNC, ASYNC
<1>4. /\ room \in [Worker -> 0 .. MaxRoom] /\ want \in [Worker -> 0 .. MaxGC + 1]
      /\ gc_count \in 0 .. MaxGC
  <2>1. MaxRoom \in 0 .. MaxRoom /\ 0 \in 0 .. MaxGC + 1 /\ 0 \in 0 .. MaxGC
    BY BoundAssumption
  <2> QED BY <1>1, <2>1
<1>5. phase \in [Worker -> Phase] /\ sig \in Phase
  BY <1>1 DEF Phase, ASYNC, PREASYNC
<1>6. ASSUME NEW t \in Segment, seg[t].own \in Worker \cup {Pool},
             seg[t].list \in {"freelist", "partial", "current"}
      PROVE  ~Unreclaimed(t)
  <2>1. seg[t].own # Pool => phase[seg[t].own] = ASYNC
    BY <1>1, <1>6
  <2> QED BY <1>6, <2>1 DEF Unreclaimed, ASYNC, MARK, PREASYNC
<1> QED BY <1>1, <1>2, <1>3, <1>4, <1>5, <1>6

\* The program starts.
LEMMA FreshOK ==
    ASSUME Idle, stale = {}, Fresh
    PROVE  IInv
<1>1. /\ seg = [s \in Segment |-> Clean] /\ ptr = [w \in Worker |-> 0] /\ live = {}
      /\ users = [w \in Worker |-> "none"] /\ pc = [w \in Worker |-> "run"]
      /\ sig = PREASYNC /\ owing = {}
  BY DEF Fresh, Idle
<1>2. TypeOK
  <2>1. ptr \in [Worker -> 0 .. N]
    BY <1>1, Numbers
  <2>2. seg \in [Segment -> SegmentType]
    BY <1>1, CleanIs
  <2>3. users \in [Worker -> {"run", "ended", "empty", "none"}]
    BY <1>1
  <2> QED BY <1>1, <2>1, <2>2, <2>3, IdleOK DEF TypeOK
<1>3. Workers
  BY <1>1 DEF Workers
<1>4. ASSUME NEW t \in Segment PROVE SegmentOK(t)
  <2>1. seg[t] = Clean
    BY <1>1
  <2>2. Objects(t) = {}
    BY <1>1 DEF Objects
  <2>3. BitsOK(seg[t])
    BY <2>1, CleanIs
  <2>4. ListOK(t)
    BY <2>1, CleanIs DEF ListOK
  <2>5. PoolOK(t)
    BY <2>1, CleanIs DEF PoolOK
  <2>6. BlocksOK(t)
    BY <2>1, <2>2, CleanIs DEF BlocksOK
  <2>7. SnapshotOK(t)
    BY <2>1, CleanIs DEF SnapshotOK
  <2>8. CollectOK(t)
    BY <2>1, CleanIs, IdleOK DEF CollectOK
  <2> QED BY <2>3, <2>4, <2>5, <2>6, <2>7, <2>8 DEF SegmentOK
<1> QED BY <1>2, <1>3, <1>4, IdleOK DEF IInv

\* The program has run for some collections.
LEMMA WornOK ==
    ASSUME Idle, stale = {}, Worn
    PROVE  IInv
<1> DEFINE b0 == Level0(N, {0})
           b1 == Level1(N, {0})
           first(w) == [Clean EXCEPT !.own = w, !.list = "current", !.snap = N]
           old == [Clean EXCEPT !.list = "partial", !.bm0 = b0, !.bm1 = b1, !.free_count = N - 1]
<1>1. PICK v, u \in Worker, c, d \in Segment :
        /\ v # u => c # d
        /\ seg = [s \in Segment |-> CASE s = c -> first(v)
                                      [] s = d /\ v # u -> first(u)
                                      [] OTHER -> old]
        /\ ptr = [w \in Worker |-> IF w \in {u, v} THEN 1 ELSE 0]
        /\ live = {<<s, 0>> : s \in Segment}
        /\ users = [w \in Worker |-> CASE w = v -> "run" [] w = u /\ u # v -> "empty"
                                       [] OTHER -> "none"]
  BY DEF Worn
<1>2. /\ pc = [w \in Worker |-> "run"] /\ phase = [w \in Worker |-> ASYNC]
      /\ sig = PREASYNC /\ owing = {}
  BY DEF Idle
<1>3. 0 \in Block /\ 1 \in Block /\ N \in 0 .. N /\ N - 1 \in 0 .. N
      /\ 0 \in 0 .. N /\ 1 \in 0 .. N
  BY Numbers
<1>4. /\ b0 \in SUBSET (0 .. BitsFor(N)) /\ b1 \in SUBSET (0 .. BitsFor(Words(N)))
      /\ b0 \cap Block = {0}
  <2>1. {0} \in SUBSET Block
    BY <1>3
  <2> QED BY <2>1, Bitmaps
<1>5. b0 = Level0(N, b0 \cap Block) /\ b1 = Level1(N, b0 \cap Block)
  BY <1>4
<1> HIDE DEF b0, b1
<1>6. /\ old \in SegmentType /\ BitsOK(old) /\ old.own = Pool /\ old.list = "partial"
      /\ old.col = {} /\ old.snap = 0 /\ old.bm0 = b0
  <2>1. /\ old \in SegmentType /\ old.own = Pool /\ old.list = "partial"
        /\ old.col = {} /\ old.snap = 0 /\ old.bm0 = b0 /\ old.bm1 = b1
    BY <1>3, <1>4, CleanIs DEF SegmentType
  <2> HIDE DEF old
  <2> QED BY <1>5, <2>1 DEF BitsOK
<1>7. ASSUME NEW w \in Worker
      PROVE  /\ first(w) \in SegmentType /\ BitsOK(first(w)) /\ first(w).own = w
             /\ first(w).list = "current" /\ first(w).col = {} /\ first(w).snap = N
  <2>1. /\ first(w) \in SegmentType /\ first(w).own = w
        /\ first(w).list = "current" /\ first(w).col = {} /\ first(w).snap = N
        /\ first(w).bm0 = Clean.bm0 /\ first(w).bm1 = Clean.bm1
    BY <1>3, CleanIs DEF SegmentType
  <2> HIDE DEF first
  <2> QED BY <2>1, CleanIs DEF BitsOK
<1> HIDE DEF first, old
<1>8. ASSUME NEW t \in Segment
      PROVE  \/ \E w \in {v, u} : seg[t] = first(w)
             \/ seg[t] = old
  BY <1>1
<1>9. ASSUME NEW s \in Segment, NEW t \in Segment, NEW w \in Worker,
             seg[s].own = w, seg[t].own = w
      PROVE  s = t
  <2>1. w # Pool /\ old.own # w
    BY <1>6, PoolAssumption
  <2>2. \A x \in Segment : seg[x].own = w =>
           (x = c /\ w = v) \/ (x = d /\ v # u /\ w = u /\ x # c)
    BY <1>1, <1>7, <2>1
  <2> QED BY <1>9, <2>2
<1>10. TypeOK
  <2>1. ptr \in [Worker -> 0 .. N]
    BY <1>1, <1>3
  <2>2. seg \in [Segment -> SegmentType]
    <3>1. seg = [t \in Segment |-> seg[t]]
      BY <1>1
    <3>2. \A t \in Segment : seg[t] \in SegmentType
      BY <1>6, <1>7, <1>8
    <3> QED BY <3>1, <3>2
  <2>3. users \in [Worker -> {"run", "ended", "empty", "none"}]
    BY <1>1
  <2>4. live \subseteq Segment \X Block
    BY <1>1, <1>3
  <2> QED BY <2>1, <2>2, <2>3, <2>4, IdleOK DEF TypeOK
<1>11. Workers
  BY <1>2 DEF Workers
<1>12. users[v] # "none" /\ users[u] # "none" /\ ptr[v] = 1 /\ ptr[u] = 1
  BY <1>1
<1>13. BeforeSnapshot(ASYNC)
  BY DEF BeforeSnapshot, ASYNC, PRESYNC2
<1>14. ASSUME NEW t \in Segment PROVE SegmentOK(t)
  <2>1. Objects(t) = {0}
    BY <1>1, <1>3 DEF Objects
  <2>2. CASE seg[t] = old
    <3>1. /\ seg[t].own = Pool /\ seg[t].list = "partial" /\ seg[t].col = {}
          /\ seg[t].snap = 0 /\ seg[t].bm0 = b0 /\ BitsOK(seg[t])
      BY <1>6, <2>2
    <3>2. ListOK(t) /\ SnapshotOK(t)
      BY <3>1 DEF ListOK, SnapshotOK
    <3>3. PoolOK(t)
      BY <1>2, <3>1 DEF PoolOK
    <3>4. BlocksOK(t)
      <4>1. 0 \in b0 /\ 1 \notin b0
        BY <1>3, <1>4
      <4> QED BY <1>3, <2>1, <3>1, <4>1 DEF BlocksOK
    <3>5. CollectOK(t)
      BY <3>1, IdleOK DEF CollectOK
    <3> QED BY <3>1, <3>2, <3>3, <3>4, <3>5 DEF SegmentOK
  <2>3. ASSUME NEW w \in {v, u}, seg[t] = first(w) PROVE SegmentOK(t)
    <3>1. /\ w \in Worker /\ w # Pool /\ users[w] # "none" /\ ptr[w] = 1 /\ phase[w] = ASYNC
          /\ seg[t].own = w /\ seg[t].list = "current" /\ seg[t].col = {}
          /\ seg[t].snap = N /\ BitsOK(seg[t])
      BY <1>2, <1>7, <1>12, <2>3, PoolAssumption
    <3>2. ListOK(t)
      BY <1>9, <3>1 DEF ListOK, Registered
    <3>3. PoolOK(t)
      BY <3>1 DEF PoolOK
    <3>4. BlocksOK(t)
      BY <2>1, <3>1 DEF BlocksOK
    <3>5. SnapshotOK(t)
      BY <1>13, <3>1 DEF SnapshotOK, Registered
    <3>6. CollectOK(t)
      BY <3>1, IdleOK DEF CollectOK
    <3> QED BY <3>1, <3>2, <3>3, <3>4, <3>5, <3>6 DEF SegmentOK
  <2> QED BY <1>8, <2>2, <2>3
<1> QED BY <1>10, <1>11, <1>14, IdleOK DEF IInv

\* A step that changes nothing.
LEMMA Stutter ==
    ASSUME IInv, UNCHANGED watchedVars
    PROVE  IInv'
<1>1. /\ UNCHANGED <<seg, ptr, live, room, pc, act, want, users, phase>>
      /\ UNCHANGED <<sig, unsent, owing, gc_count, stale>>
  BY DEF watchedVars, vars, signal
<1>2. TypeOK' /\ Signals'
  BY <1>1 DEF IInv, TypeOK, Signals, Registered, Before, Collecting
<1>3. Workers'
  BY <1>1 DEF IInv, Workers, Registered, HasCurrent, In
<1>4. ASSUME NEW s \in Segment PROVE SegmentOK(s)'
  <2>1. Unreclaimed(s)' <=> Unreclaimed(s)
    BY <1>1 DEF Unreclaimed, Collecting
  <2>2. Objects(s)' = Objects(s)
    BY <1>1 DEF Objects
  <2>3. SegmentOK(s)
    BY DEF IInv
  <2>4. BitsOK(seg[s])' /\ ListOK(s)' /\ PoolOK(s)'
    BY <1>1, <2>3 DEF SegmentOK, BitsOK, ListOK, PoolOK, Registered, Collecting
  <2>5. BlocksOK(s)'
    BY <1>1, <2>2, <2>3 DEF SegmentOK, BlocksOK
  <2>6. SnapshotOK(s)'
    BY <1>1, <2>2, <2>3 DEF SegmentOK, SnapshotOK, Registered
  <2>7. CollectOK(s)'
    BY <1>1, <2>1, <2>2, <2>3 DEF SegmentOK, CollectOK
  <2> QED BY <2>4, <2>5, <2>6, <2>7 DEF SegmentOK
<1> QED BY <1>2, <1>3, <1>4 DEF IInv

\* Every step keeps the invariant.
LEMMA Step ==
    ASSUME IInv, [Next /\ Watch]_watchedVars
    PROVE  IInv'
<1>1. ASSUME Good, NEW w \in Worker,
             \/ sml_alloc(w) \/ try_find_segment(w) \/ take_popped(w) \/ sml_wait_gc(w)
             \/ sml_gc(w) \/ change_phase(w) \/ worker_sync1(w) \/ worker_sync2(w)
             \/ worker_mark(w) \/ worker_async(w) \/ sml_heap_global_async(w)
             \/ sml_heap_worker_init(w) \/ sml_heap_worker_register(w) \/ end(w)
      PROVE  IInv'
  BY <1>1, StepAlloc, StepFind, StepPopped, StepWait, StepGC, StepChange, StepSync1, StepSync2,
     StepMark, StepAsync, StepGlobal, StepInit, StepRegister, StepEnd
<1>2. CASE UNCHANGED watchedVars
  BY <1>2, Stutter
<1> QED BY <1>1, <1>2 DEF Next, Good

-----------------------------------------------------------------------------
(***************************************************************************)
(* The layouts of segments                                                 *)
(***************************************************************************)

\* The parts of a segment grow with the number of blocks.
LEMMA BitsGrow ==
    ASSUME NEW m \in Nat, NEW n \in Nat, m <= n
    PROVE  /\ Real!BitsFor(m) \in Nat /\ Real!BitsFor(n) \in Nat /\ Real!BitsFor(m) <= Real!BitsFor(n)
           /\ Real!Words(m) \in Nat /\ Real!Words(n) \in Nat /\ Real!Words(m) <= Real!Words(n)
BY DEF Real!BitsFor, Real!Words, Real!Ceiling

\* ... and so does the part of the bitmaps.
LEMMA BitmapsGrow ==
    ASSUME NEW m \in Nat, NEW n \in Nat, m <= n
    PROVE  /\ Real!BitmapLimit(m) \in Nat /\ Real!BitmapLimit(n) \in Nat
           /\ Real!BitmapLimit(m) <= Real!BitmapLimit(n)
<1> DEFINE a(x) == Real!BitsFor(x)
           b(x) == Real!BitsFor(Real!Words(x))
<1>1. a(m) \in Nat /\ a(n) \in Nat /\ a(m) <= a(n) /\ b(m) \in Nat /\ b(n) \in Nat /\ b(m) <= b(n)
  BY BitsGrow
<1>2. \A x \in {m, n} : Real!BitmapLimit(x) = 32 + (2 * a(x) + b(x)) \div 8
  BY DEF Real!BitmapLimit, Real!Bitmap0Offset
<1> HIDE DEF a, b
<1> QED BY <1>1, <1>2

\* ... and the whole.
LEMMA LimitGrows ==
    ASSUME NEW m \in Nat, NEW n \in Nat, m <= n, NEW size \in Nat, size = 8 \/ size >= 16
    PROVE  /\ Real!BlockLimit(m, size) \in Nat /\ Real!BlockLimit(n, size) \in Nat
           /\ Real!BlockLimit(m, size) <= Real!BlockLimit(n, size)
<1> DEFINE slots(x) == Real!Ceiling(Real!BitmapLimit(x), 8) + 8 * x + 4
<1>1. slots(m) \in Nat /\ slots(n) \in Nat /\ slots(m) <= slots(n)
  BY BitmapsGrow DEF Real!Ceiling
<1>2. \A x \in {m, n} : Real!BlockOffset(x, size) = Real!Ceiling(slots(x), IF 16 < size THEN 16 ELSE size)
  BY DEF Real!BlockOffset, Real!SlotSize, Real!HeaderSize, Real!MaxAlign
<1> HIDE DEF slots
<1>3. \A x \in {m, n} : Real!BlockOffset(x, size) = Real!Ceiling(slots(x), IF size = 8 THEN 8 ELSE 16)
  BY <1>2
<1>4. /\ Real!BlockOffset(m, size) \in Nat /\ Real!BlockOffset(n, size) \in Nat
      /\ Real!BlockOffset(m, size) <= Real!BlockOffset(n, size)
  <2>1. CASE size = 8
    BY <1>1, <1>3, <2>1 DEF Real!Ceiling
  <2>2. CASE size # 8
    BY <1>1, <1>3, <2>2 DEF Real!Ceiling
  <2> QED BY <2>1, <2>2
<1>5. size * m \in Nat /\ size * n \in Nat /\ size * m <= size * n
  <2>1. PICK d \in Nat : n = m + d
    <3>1. n - m \in Nat /\ n = m + (n - m)
      OBVIOUS
    <3> QED BY <3>1
  <2>2. size * n = size * m + size * d /\ size * m \in Nat /\ size * d \in Nat
    BY <2>1
  <2> QED BY <2>2
<1>6. \A x \in {m, n} : Real!BlockLimit(x, size) = Real!BlockOffset(x, size) + size * x
  BY DEF Real!BlockLimit
<1> QED BY <1>4, <1>5, <1>6

\* What Layouts says of the blocks of one size
Layout(size) ==
    LET n == Real!NumBlocks(size)
    IN  n > 1 /\ n % 32 # 0 /\ Real!BlockLimit(n + 1, size) > Real!SegmentSize

\* The number of blocks is the largest for which they fit.
LEMMA LayoutIs ==
    ASSUME NEW size \in Nat, size = 8 \/ size >= 16, NEW v \in Nat,
           Real!FirstGuess(size) \in Nat, v <= Real!FirstGuess(size),
           v > 1, v % 32 # 0,
           Real!BlockLimit(v, size) <= Real!SegmentSize,
           Real!BlockLimit(v + 1, size) > Real!SegmentSize
    PROVE  Layout(size)
<1> DEFINE S == {n \in 1 .. Real!FirstGuess(size) : Real!BlockLimit(n, size) <= Real!SegmentSize}
           m == Max(S)
<1>1. v \in S
  OBVIOUS
<1>2. ASSUME NEW n \in S PROVE n \in Nat /\ v >= n
  <2>1. n \in Nat /\ Real!BlockLimit(n, size) <= Real!SegmentSize
    OBVIOUS
  <2>2. Real!SegmentSize \in Nat
    BY DEF Real!SegmentSize
  <2>3. v + 1 <= n => Real!BlockLimit(v + 1, size) <= Real!BlockLimit(n, size)
                      /\ Real!BlockLimit(v + 1, size) \in Nat /\ Real!BlockLimit(n, size) \in Nat
    BY <2>1, LimitGrows
  <2>4. ~(v + 1 <= n)
    BY <2>1, <2>2, <2>3
  <2> QED BY <2>1, <2>4
<1>3. Real!NumBlocks(size) = m
  BY DEF Real!NumBlocks, Real!Max, Max
<1> HIDE DEF S
<1>4. m \in S /\ \A n \in S : m >= n
  BY <1>1, <1>2 DEF Max
<1> HIDE DEF m
<1>5. m = v
  BY <1>1, <1>2, <1>4
<1> QED BY <1>3, <1>5 DEF Layout

\* The segments of a 64-bit build, for each block size.
LEMMA LayoutsOK == Layouts
<1>1. Layout(8)
  <2>1. Real!FirstGuess(8) = 2030
    BY DEF Real!FirstGuess, Real!SegmentSize, Real!Bitmap0Offset, Real!SlotSize
  <2>2. Real!BlockLimit(2013, 8) <= Real!SegmentSize /\ Real!BlockLimit(2014, 8) > Real!SegmentSize
    BY DEF Real!BlockLimit, Real!BlockOffset, Real!BitmapLimit, Real!BitsFor, Real!Words,
           Real!Ceiling, Real!SegmentSize, Real!Bitmap0Offset, Real!SlotSize, Real!HeaderSize,
           Real!MaxAlign
  <2> QED BY <2>1, <2>2, LayoutIs
<1>2. Layout(16)
  <2>1. Real!FirstGuess(16) = 1356
    BY DEF Real!FirstGuess, Real!SegmentSize, Real!Bitmap0Offset, Real!SlotSize
  <2>2. Real!BlockLimit(1349, 16) <= Real!SegmentSize /\ Real!BlockLimit(1350, 16) > Real!SegmentSize
    BY DEF Real!BlockLimit, Real!BlockOffset, Real!BitmapLimit, Real!BitsFor, Real!Words,
           Real!Ceiling, Real!SegmentSize, Real!Bitmap0Offset, Real!SlotSize, Real!HeaderSize,
           Real!MaxAlign
  <2> QED BY <2>1, <2>2, LayoutIs
<1>3. Layout(32)
  <2>1. Real!FirstGuess(32) = 815
    BY DEF Real!FirstGuess, Real!SegmentSize, Real!Bitmap0Offset, Real!SlotSize
  <2>2. Real!BlockLimit(812, 32) <= Real!SegmentSize /\ Real!BlockLimit(813, 32) > Real!SegmentSize
    BY DEF Real!BlockLimit, Real!BlockOffset, Real!BitmapLimit, Real!BitsFor, Real!Words,
           Real!Ceiling, Real!SegmentSize, Real!Bitmap0Offset, Real!SlotSize, Real!HeaderSize,
           Real!MaxAlign
  <2> QED BY <2>1, <2>2, LayoutIs
<1>4. Layout(64)
  <2>1. Real!FirstGuess(64) = 453
    BY DEF Real!FirstGuess, Real!SegmentSize, Real!Bitmap0Offset, Real!SlotSize
  <2>2. Real!BlockLimit(452, 64) <= Real!SegmentSize /\ Real!BlockLimit(453, 64) > Real!SegmentSize
    BY DEF Real!BlockLimit, Real!BlockOffset, Real!BitmapLimit, Real!BitsFor, Real!Words,
           Real!Ceiling, Real!SegmentSize, Real!Bitmap0Offset, Real!SlotSize, Real!HeaderSize,
           Real!MaxAlign
  <2> QED BY <2>1, <2>2, LayoutIs
<1>5. Layout(128)
  <2>1. Real!FirstGuess(128) = 240
    BY DEF Real!FirstGuess, Real!SegmentSize, Real!Bitmap0Offset, Real!SlotSize
  <2>2. Real!BlockLimit(240, 128) <= Real!SegmentSize /\ Real!BlockLimit(241, 128) > Real!SegmentSize
    BY DEF Real!BlockLimit, Real!BlockOffset, Real!BitmapLimit, Real!BitsFor, Real!Words,
           Real!Ceiling, Real!SegmentSize, Real!Bitmap0Offset, Real!SlotSize, Real!HeaderSize,
           Real!MaxAlign
  <2> QED BY <2>1, <2>2, LayoutIs
<1>6. Layout(256)
  <2>1. Real!FirstGuess(256) = 123
    BY DEF Real!FirstGuess, Real!SegmentSize, Real!Bitmap0Offset, Real!SlotSize
  <2>2. Real!BlockLimit(123, 256) <= Real!SegmentSize /\ Real!BlockLimit(124, 256) > Real!SegmentSize
    BY DEF Real!BlockLimit, Real!BlockOffset, Real!BitmapLimit, Real!BitsFor, Real!Words,
           Real!Ceiling, Real!SegmentSize, Real!Bitmap0Offset, Real!SlotSize, Real!HeaderSize,
           Real!MaxAlign
  <2> QED BY <2>1, <2>2, LayoutIs
<1>7. Layout(512)
  <2>1. Real!FirstGuess(512) = 62
    BY DEF Real!FirstGuess, Real!SegmentSize, Real!Bitmap0Offset, Real!SlotSize
  <2>2. Real!BlockLimit(62, 512) <= Real!SegmentSize /\ Real!BlockLimit(63, 512) > Real!SegmentSize
    BY DEF Real!BlockLimit, Real!BlockOffset, Real!BitmapLimit, Real!BitsFor, Real!Words,
           Real!Ceiling, Real!SegmentSize, Real!Bitmap0Offset, Real!SlotSize, Real!HeaderSize,
           Real!MaxAlign
  <2> QED BY <2>1, <2>2, LayoutIs
<1>8. Layout(1024)
  <2>1. Real!FirstGuess(1024) = 31
    BY DEF Real!FirstGuess, Real!SegmentSize, Real!Bitmap0Offset, Real!SlotSize
  <2>2. Real!BlockLimit(31, 1024) <= Real!SegmentSize /\ Real!BlockLimit(32, 1024) > Real!SegmentSize
    BY DEF Real!BlockLimit, Real!BlockOffset, Real!BitmapLimit, Real!BitsFor, Real!Words,
           Real!Ceiling, Real!SegmentSize, Real!Bitmap0Offset, Real!SlotSize, Real!HeaderSize,
           Real!MaxAlign
  <2> QED BY <2>1, <2>2, LayoutIs
<1>9. Layout(2048)
  <2>1. Real!FirstGuess(2048) = 15
    BY DEF Real!FirstGuess, Real!SegmentSize, Real!Bitmap0Offset, Real!SlotSize
  <2>2. Real!BlockLimit(15, 2048) <= Real!SegmentSize /\ Real!BlockLimit(16, 2048) > Real!SegmentSize
    BY DEF Real!BlockLimit, Real!BlockOffset, Real!BitmapLimit, Real!BitsFor, Real!Words,
           Real!Ceiling, Real!SegmentSize, Real!Bitmap0Offset, Real!SlotSize, Real!HeaderSize,
           Real!MaxAlign
  <2> QED BY <2>1, <2>2, LayoutIs
<1>10. Layout(4096)
  <2>1. Real!FirstGuess(4096) = 7
    BY DEF Real!FirstGuess, Real!SegmentSize, Real!Bitmap0Offset, Real!SlotSize
  <2>2. Real!BlockLimit(7, 4096) <= Real!SegmentSize /\ Real!BlockLimit(8, 4096) > Real!SegmentSize
    BY DEF Real!BlockLimit, Real!BlockOffset, Real!BitmapLimit, Real!BitsFor, Real!Words,
           Real!Ceiling, Real!SegmentSize, Real!Bitmap0Offset, Real!SlotSize, Real!HeaderSize,
           Real!MaxAlign
  <2> QED BY <2>1, <2>2, LayoutIs
<1> QED BY <1>1, <1>2, <1>3, <1>4, <1>5, <1>6, <1>7, <1>8, <1>9, <1>10 DEF Layouts, Layout, Real!BlockSizes

-----------------------------------------------------------------------------
(***************************************************************************)
(* What follows from the invariant                                         *)
(***************************************************************************)

\* Blocks that an allocation may return are free.
LEMMA NotReturned ==
    ASSUME IInv
    PROVE  LiveNotReturned
<1> SUFFICES ASSUME NEW o \in live PROVE o[2] \notin MayReturn(o[1])
  BY DEF LiveNotReturned
<1>1. PICK s \in Segment, i \in Block : o = <<s, i>>
  BY InvariantParts DEF TypeOK
<1>2. o[1] = s /\ o[2] = i /\ i \in Objects(s)
  BY <1>1 DEF Objects
<1>3. /\ seg[s] \in SegmentType
      /\ ListOK(s) /\ PoolOK(s) /\ BlocksOK(s) /\ CollectOK(s)
  BY InvariantParts
<1>4. CASE seg[s].list = "current"
  <2>1. i \in seg[s].bm0 \/ i < ptr[seg[s].own]
    BY <1>2, <1>3, <1>4 DEF BlocksOK
  <2>2. ptr[seg[s].own] \in 0 .. N
    BY <1>3, <1>4, InvariantParts DEF ListOK, SegmentType, TypeOK
  <2>3. ~(i >= ptr[seg[s].own] /\ i \notin seg[s].bm0)
    BY <2>1, <2>2, Numbers
  <2> QED BY <1>2, <1>4, <2>3 DEF MayReturn
<1>5. CASE seg[s].list \in {"partial", "popped"}
  <2>1. i \in seg[s].bm0
    BY <1>2, <1>3, <1>5 DEF BlocksOK
  <2> QED BY <1>2, <1>5, <2>1 DEF MayReturn
<1>6. CASE seg[s].list = "partial_marked"
  <2>1. i \in seg[s].bm0
    BY <1>2, <1>3, <1>6 DEF BlocksOK
  <2>2. Unreclaimed(s)
    BY <1>3, <1>6 DEF PoolOK, Unreclaimed
  <2>3. i \in seg[s].col
    BY <1>2, <1>3, <2>1, <2>2 DEF CollectOK
  <2> QED BY <1>2, <1>6, <2>1, <2>3 DEF MayReturn
<1>7. CASE seg[s].list = "freelist"
  BY <1>2, <1>3, <1>7 DEF BlocksOK
<1>8. CASE seg[s].list = "filled"
  BY <1>2, <1>8 DEF MayReturn
<1> QED BY <1>3, <1>4, <1>5, <1>6, <1>7, <1>8 DEF SegmentType

\* Collect bits are clear where get_segment_from_pool relies on it.
LEMMA BitsClear ==
    ASSUME IInv
    PROVE  CollectBitsClear
<1> SUFFICES ASSUME NEW s \in Segment \ stale, seg[s].list # "popped",
                    IF seg[s].own = Pool THEN ~Collecting
                    ELSE users[seg[s].own] # "none" /\ phase[seg[s].own] \in {ASYNC, PRESYNC1}
             PROVE  seg[s].col = {}
  BY DEF CollectBitsClear
<1>1. ListOK(s) /\ PoolOK(s) /\ CollectOK(s)
  BY InvariantParts
<1>2. ~Unreclaimed(s)
  BY <1>1 DEF ListOK, PoolOK, Unreclaimed, ASYNC, MARK, PREASYNC, PRESYNC1
<1> QED BY <1>1, <1>2 DEF CollectOK

\* Segments of the lists are what init_segment and set_alloc_ptr assert.
LEMMA Ready ==
    ASSUME IInv
    PROVE  ReadyToUse
<1> SUFFICES ASSUME NEW s \in Segment
             PROVE  /\ seg[s].list = "freelist" =>
                          /\ seg[s].free_count = N /\ seg[s].snap = 0
                          /\ seg[s].bm0 \cap Block = {} /\ seg[s].col = {}
                    /\ seg[s].list \in {"partial", "partial_marked", "popped"} =>
                          seg[s].snap = 0 /\ ~(Block \subseteq seg[s].bm0)
  BY DEF ReadyToUse
<1>1. BlocksOK(s) /\ CollectOK(s)
  BY InvariantParts
<1>2. seg[s].list = "freelist" => seg[s].col = {}
  BY <1>1 DEF BlocksOK, CollectOK
<1> QED BY <1>1, <1>2 DEF BlocksOK

\* find_bitmap finds the first free block of a segment.
LEMMA FoundFirst ==
    ASSUME IInv
    PROVE  FindBitmapFirst
<1>1. WordBits \in Nat \ {0}
  BY Numbers
<1>2. FindsFirst
  <2> SUFFICES ASSUME NEW n \in 1 .. 7, n % WordBits # 0
               PROVE  /\ \A used \in SUBSET (0 .. n - 1), k \in 0 .. n :
                            find_bitmap(n, Level0(n, used), Level1(n, used), k)
                               = FirstFree(n, used, k)
                      /\ \A k \in 0 .. n :
                            find_bitmap(n, Level0(n, {}), Level1New(n), k) = FirstFree(n, {}, k)
    BY DEF FindsFirst
  <2>1. n \in Nat \ {0}
    OBVIOUS
  <2>2. Level1New(n) = Level1(n, {})
    BY <1>1, <2>1, NewIsCopied
  <2> QED BY <1>1, <2>1, <2>2, FindFirst
<1>3. ASSUME NEW s \in Segment, NEW k \in 0 .. N
      PROVE  find_bitmap(N, seg[s].bm0, seg[s].bm1, k) = FirstFree(N, seg[s].bm0, k)
  <2> DEFINE b0 == seg[s].bm0
             used == b0 \cap Block
  <2>1. b0 = Level0(N, used) /\ seg[s].bm1 = Level1(N, used)
    BY InvariantParts DEF BitsOK
  <2>2. N \in Nat \ {0} /\ (k .. N - 1) \ used = (k .. N - 1) \ b0
    BY Numbers
  <2> HIDE DEF used
  <2>3. find_bitmap(N, Level0(N, used), Level1(N, used), k) = FirstFree(N, used, k)
    BY <1>1, <2>2, FindFirst
  <2>4. FirstFree(N, used, k) = FirstFree(N, b0, k)
    BY <2>2 DEF FirstFree
  <2> QED BY <2>1, <2>3, <2>4
<1> QED BY <1>2, <1>3, LayoutsOK DEF FindBitmapFirst

-----------------------------------------------------------------------------
(***************************************************************************)
(* The theorems                                                            *)
(***************************************************************************)

\* The invariant of the life of a segment, from the pool to the allocators and
\* back.
THEOREM SegmentsInvariant == WatchedSpec => []IInv
<1>1. Init /\ stale = {} => IInv
  BY FreshOK, WornOK DEF Init
<1>2. IInv /\ [Next /\ Watch]_watchedVars => IInv'
  BY Step
<1> QED BY <1>1, <1>2, PTL DEF WatchedSpec

\* sml_alloc, try_find_segment and sml_heap_worker_init return no block of a live
\* object, in any phase, whatever the other workers and the pool are reclaiming
\* and wherever a thread is held.
THEOREM AllocationKeepsLive == WatchedSpec => []LiveNotReturned
<1>1. IInv => LiveNotReturned
  BY NotReturned
<1> QED BY <1>1, SegmentsInvariant, PTL

\* Segments of a worker that has reclaimed have their collect bits clear until it
\* accepts the next SYNC1, as get_segment_from_pool relies on, except those that a
\* thread was taking when they had to be cleared.
THEOREM AsyncSegmentsClear == WatchedSpec => []CollectBitsClear
<1>1. IInv => CollectBitsClear
  BY BitsClear
<1> QED BY <1>1, SegmentsInvariant, PTL

\* The asserts of init_segment and set_alloc_ptr on the segments that the pool
\* and the allocators' lists give them hold.
THEOREM SegmentsReady == WatchedSpec => []ReadyToUse
<1>1. IInv => ReadyToUse
  BY Ready
<1> QED BY <1>1, SegmentsInvariant, PTL

\* find_bitmap finds the first free block of a segment, or that there is none,
\* after any history of its two bitmaps; and the layouts of a 64-bit build are
\* such that it does.
THEOREM FindBitmapCorrect == WatchedSpec => []FindBitmapFirst
<1>1. IInv => FindBitmapFirst
  BY FoundFirst
<1> QED BY <1>1, SegmentsInvariant, PTL
=============================================================================
