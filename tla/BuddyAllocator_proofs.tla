------------------------ MODULE BuddyAllocator_proofs ------------------------
(***************************************************************************)
(* Proofs about BuddyAllocator, for every size of pool and every number of *)
(* block sizes: the free lists hold exactly the largest aligned blocks of  *)
(* the storage that is free, whatever callers write into theirs.           *)
(***************************************************************************)
EXTENDS BuddyAllocator, FiniteSetTheorems, WellFoundedInduction, TLAPS

-----------------------------------------------------------------------------
(* Induction over natural numbers, and powers of two *)

(* Every set of naturals that is not empty has a least member.             *)
LEMMA LeastNat ==
  ASSUME NEW S, S \subseteq Nat, S # {}
  PROVE  \E x \in S : \A y \in S : x <= y
<1> DEFINE R == OpToRel(<, Nat)
<1>1. IsWellFoundedOn(R, Nat)
  BY NatLessThanWellFounded
<1>2. \E x \in S : \A y \in S : ~(<<y, x>> \in R)
  <2> HIDE DEF R
  <2> QED
    BY <1>1, WFMin
<1>3. \A x, y \in S : y < x => <<y, x>> \in R
  BY DEF OpToRel
<1>4. \E x \in S : \A y \in S : ~(y < x)
  <2> HIDE DEF R
  <2> QED
    BY <1>2, <1>3
<1> QED
  BY <1>4

(* A property of 0 that passes from n to n + 1.                            *)
LEMMA SetInduction ==
  ASSUME NEW S, 0 \in S, \A n \in Nat : n \in S => n + 1 \in S
  PROVE  Nat \subseteq S
<1> SUFFICES ASSUME Nat \ S # {}
             PROVE  FALSE
  OBVIOUS
<1>1. PICK n \in Nat \ S : \A m \in Nat \ S : n <= m
  BY LeastNat
<1>2. n # 0 /\ n - 1 \in Nat /\ n - 1 \in S
  BY <1>1
<1> QED
  BY <1>1, <1>2

(* A property of a that passes from n to n + 1, as far as b.               *)
LEMMA IntervalInduction ==
  ASSUME NEW a \in Int, NEW b \in Int, NEW S, a \in S,
         \A n \in a..(b - 1) : n \in S => n + 1 \in S
  PROVE  a..b \subseteq S
<1> DEFINE T == {n \in Nat : a + n <= b => a + n \in S}
<1>1. 0 \in T
  OBVIOUS
<1>2. ASSUME NEW n \in Nat, n \in T
      PROVE  n + 1 \in T
  <2> SUFFICES ASSUME a + (n + 1) <= b
               PROVE  a + (n + 1) \in S
    OBVIOUS
  <2>1. a + n \in a..(b - 1) /\ a + n \in S /\ (a + n) + 1 = a + (n + 1)
    BY <1>2
  <2> QED
    BY <2>1
<1>3. Nat \subseteq T
  <2> HIDE DEF T
  <2> QED
    BY <1>1, <1>2, SetInduction
<1>4. ASSUME NEW i \in a..b
      PROVE  i \in S
  <2>1. i - a \in Nat /\ a + (i - a) = i
    OBVIOUS
  <2>2. i - a \in T
    BY <1>3, <2>1
  <2> QED
    BY <2>1, <2>2
<1> QED
  BY <1>4

(* The provers know 2^k only as the number of subsets of a set of k.       *)
LEMMA PowersOfTwo ==
  ASSUME NEW k \in Nat
  PROVE  2^k \in Nat \ {0} /\ 2^(k + 1) = 2 * 2^k
<1> DEFINE S == 1..k
           T == 1..(k + 1)
           n == k + 1
           A == SUBSET S
           B == {X \cup {n} : X \in A}
<1>1. IsFiniteSet(S) /\ Cardinality(S) = k /\ IsFiniteSet(T) /\ Cardinality(T) = k + 1
  BY FS_Interval
<1>2. /\ IsFiniteSet(A) /\ Cardinality(A) = 2^k
      /\ Cardinality(SUBSET T) = 2^(k + 1)
  <2> HIDE DEF T
  <2> QED
    BY <1>1, FS_SUBSET
<1>3. Cardinality(A) \in Nat /\ Cardinality(A) # 0
  <2>1. {} \in A
    OBVIOUS
  <2> QED
    BY <1>2, <2>1, FS_CardinalityType, FS_EmptySet
<1>4. SUBSET T = A \cup B /\ A \cap B = {}
  <2>1. T = S \cup {n} /\ n \notin S
    OBVIOUS
  <2>2. ASSUME NEW X \in SUBSET T, X \notin A
        PROVE  X \in B
    <3>1. X \ {n} \in A /\ n \in X
      BY <2>1, <2>2
    <3>2. X = (X \ {n}) \cup {n}
      BY <3>1
    <3> QED
      BY <3>1, <3>2
  <2>3. A \subseteq SUBSET T /\ B \subseteq SUBSET T
    BY <2>1
  <2> QED
    BY <2>1, <2>2, <2>3
<1>5. IsFiniteSet(B) /\ Cardinality(B) = Cardinality(A)
  <2> DEFINE f == [X \in A |-> X \cup {n}]
  <2>1. n \notin S
    OBVIOUS
  <2>2. f \in Bijection(A, B)
    <3>1. f \in [A -> B] /\ \A Y \in B : \E X \in A : f[X] = Y
      OBVIOUS
    <3>2. ASSUME NEW X \in A, NEW Y \in A, f[X] = f[Y]
          PROVE  X = Y
      BY <2>1, <3>2
    <3> QED
      BY <3>1, <3>2 DEF Bijection, Injection, Surjection, IsInjective
  <2> QED
    BY <1>2, <2>2, FS_Bijection DEF ExistsBijection
<1>6. Cardinality(SUBSET T) = Cardinality(A) + Cardinality(B)
  <2> HIDE DEF A, B, T
  <2>1. Cardinality(A \cup B) = Cardinality(A) + Cardinality(B) - Cardinality(A \cap B)
    BY <1>2, <1>5, FS_Union
  <2>2. Cardinality(A \cap B) = 0
    BY <1>4, FS_EmptySet
  <2>3. Cardinality(SUBSET T) = Cardinality(A \cup B)
    BY <1>4
  <2>4. Cardinality(B) \in Nat
    BY <1>3, <1>5
  <2> QED
    BY <1>3, <2>1, <2>2, <2>3, <2>4
<1> QED
  BY <1>2, <1>3, <1>5, <1>6

LEMMA TwoToZero == 2^0 = 1
<1>1. Cardinality(SUBSET {}) = 2^0
  BY FS_EmptySet, FS_SUBSET
<1>2. SUBSET {} = {{}}
  OBVIOUS
<1> QED
  BY <1>1, <1>2, FS_Singleton

(* A smaller power divides a larger one.                                   *)
LEMMA PowerDivides ==
  ASSUME NEW j \in Nat, NEW k \in Nat, j <= k
  PROVE  \E m \in Nat \ {0} : 2^k = m * 2^j
<1> DEFINE S == {i \in Nat : \E m \in Nat \ {0} : 2^i = m * 2^j}
<1>1. j \in S
  <2>1. 2^j \in Nat /\ 2^j = 1 * 2^j
    BY PowersOfTwo
  <2> QED
    BY <2>1
<1>2. ASSUME NEW i \in j..(k - 1), i \in S
      PROVE  i + 1 \in S
  <2>1. i \in Nat
    OBVIOUS
  <2>2. PICK m \in Nat \ {0} : 2^i = m * 2^j
    BY <1>2
  <2>3. 2^(i + 1) = 2 * 2^i /\ 2^j \in Nat
    BY <2>1, PowersOfTwo
  <2> DEFINE p == 2^j
  <2>4. 2 * (m * p) = (2 * m) * p /\ 2 * m \in Nat \ {0}
    <3>1. p \in Nat
      BY <2>3
    <3> HIDE DEF p
    <3> QED
      BY <3>1
  <2>5. 2^(i + 1) = (2 * m) * 2^j
    BY <2>2, <2>3, <2>4
  <2>6. i + 1 \in Nat
    BY <2>1
  <2> HIDE DEF p
  <2> QED
    BY <2>4, <2>5, <2>6
<1>3. j..k \subseteq S
  <2> HIDE DEF S
  <2> QED
    BY <1>1, <1>2, IntervalInduction
<1>4. k \in S
  <2> HIDE DEF S
  <2>1. k \in j..k
    OBVIOUS
  <2> QED
    BY <1>3, <2>1
<1> QED
  BY <1>4

(* With it, larger exponents are larger powers.                            *)
LEMMA PowerGrows ==
  ASSUME NEW j \in Nat, NEW k \in Nat
  PROVE  /\ j <= k <=> 2^j <= 2^k
         /\ j < k => 2 * 2^j <= 2^k
<1>1. ASSUME NEW i \in Nat, NEW l \in Nat, i <= l
      PROVE  2^i <= 2^l
  <2>1. PICK m \in Nat \ {0} : 2^l = m * 2^i
    BY <1>1, PowerDivides
  <2>2. 2^i \in Nat
    BY PowersOfTwo
  <2> DEFINE p == 2^i
  <2>3. p <= m * p
    <3>1. p \in Nat
      BY <2>2
    <3> HIDE DEF p
    <3>2. \E n \in Nat : m = n + 1 /\ n * p \in Nat /\ m * p = n * p + p
      <4>1. m - 1 \in Nat /\ (m - 1) * p \in Nat /\ m * p = (m - 1) * p + p
        BY <3>1
      <4> QED
        BY <4>1
    <3> QED
      BY <3>1, <3>2
  <2> QED
    BY <2>1, <2>3
<1>2. j < k => 2 * 2^j <= 2^k
  BY <1>1, PowersOfTwo
<1>3. k < j => 2 * 2^k <= 2^j
  BY <1>1, PowersOfTwo
<1>4. 2^j \in Nat \ {0} /\ 2^k \in Nat \ {0}
  BY PowersOfTwo
<1> QED
  BY <1>1, <1>2, <1>3, <1>4

-----------------------------------------------------------------------------
(* Aligned blocks *)

(* The blocks that could be, in a pool without end.                        *)
AllBlocks == {b \in Nat \X Sizes : b[1] % 2^b[2] = 0}

Units(b) == Extent(b[1], b[2])

LEMMA Division ==
  ASSUME NEW n \in Nat, NEW d \in Nat \ {0}
  PROVE  /\ n \div d \in Nat /\ n % d \in 0..(d - 1)
         /\ n = (n \div d) * d + (n % d)
OBVIOUS

LEMMA MultiplesOrdered ==
  ASSUME NEW a \in Int, NEW b \in Int, NEW d \in Nat \ {0}, a * d < b * d
  PROVE  a < b /\ a * d + d <= b * d
<1>1. a < b
  <2> SUFFICES ASSUME b <= a
               PROVE  FALSE
    OBVIOUS
  <2>1. PICK n \in Nat : a = b + n
    BY a - b \in Nat
  <2>2. n * d \in Nat /\ a * d = b * d + n * d /\ b * d \in Int
    BY <2>1
  <2> QED
    BY <2>2
<1>2. PICK n \in Nat : b = a + 1 + n
  BY <1>1, b - a - 1 \in Nat
<1>3. n * d \in Nat /\ b * d = a * d + d + n * d /\ a * d \in Int
  BY <1>2
<1> QED
  BY <1>1, <1>3

LEMMA MultiplesAligned ==
  ASSUME NEW o \in Nat, NEW d \in Nat \ {0}
  PROVE  o % d = 0 <=> \E q \in Nat : o = q * d
<1>1. ASSUME o % d = 0
      PROVE  \E q \in Nat : o = q * d
  <2>1. o \div d \in Nat /\ o = (o \div d) * d + 0
    BY <1>1, Division
  <2> QED
    BY <2>1
<1>2. ASSUME NEW q \in Nat, o = q * d
      PROVE  o % d = 0
  <2> DEFINE e == o \div d
             r == o % d
  <2>1. e \in Nat /\ r \in 0..(d - 1) /\ o = e * d + r
    BY Division
  <2> SUFFICES ASSUME r > 0
               PROVE  FALSE
    BY <2>1
  <2> HIDE DEF e, r
  <2>2. e * d \in Int /\ e * d < q * d
    BY <1>2, <2>1
  <2>3. e * d + d <= q * d
    BY <2>1, <2>2, MultiplesOrdered
  <2> QED
    BY <1>2, <2>1, <2>2, <2>3
<1> QED
  BY <1>1, <1>2

(* Two aligned ranges that meet are one in the other.                      *)
LEMMA AlignedNested ==
  ASSUME NEW j \in Nat, NEW k \in Nat, j <= k,
         NEW o \in Nat, o % 2^j = 0, NEW p \in Nat, p % 2^k = 0,
         o < p + 2^k, p < o + 2^j
  PROVE  p <= o /\ o + 2^j <= p + 2^k
<1> DEFINE d == 2^j
<1>1. d \in Nat \ {0} /\ 2^k \in Nat \ {0}
  BY PowersOfTwo
<1>2. PICK m \in Nat \ {0} : 2^k = m * d
  BY PowerDivides
<1>3. PICK q \in Nat : o = q * d
  BY <1>1, MultiplesAligned
<1>4. PICK r \in Nat : p = r * 2^k
  BY <1>1, MultiplesAligned
<1> DEFINE rm == r * m
           rmm == rm + m
<1>5. rm \in Nat /\ rmm \in Nat
  OBVIOUS
<1>6. p = rm * d /\ p + 2^k = rmm * d
  <2> HIDE DEF d
  <2> QED
    BY <1>1, <1>2, <1>4
<1>7. o + d = (q + 1) * d
  <2> HIDE DEF d
  <2> QED
    BY <1>1, <1>3
<1> HIDE DEF d, rm, rmm
<1>8. q * d < rmm * d /\ rm * d < (q + 1) * d
  BY <1>3, <1>6, <1>7 DEF d
<1>9. q * d + d <= rmm * d /\ rm < q + 1
  BY <1>1, <1>5, <1>8, MultiplesOrdered
<1>10. rm * d <= q * d
  <2>1. CASE rm = q
    BY <1>1, <1>5, <2>1
  <2>2. CASE rm < q
    <3>1. PICK n \in Nat : q = rm + n
      BY <1>5, <2>2, q - rm \in Nat
    <3>2. n * d \in Nat /\ q * d = rm * d + n * d /\ rm * d \in Nat
      BY <1>1, <1>5, <3>1
    <3> QED
      BY <3>2
  <2> QED
    BY <1>5, <1>9, <2>1, <2>2
<1> QED
  BY <1>3, <1>6, <1>9, <1>10 DEF d

LEMMA SizesNat == \A k \in Sizes : k \in Nat /\ k < numSizes /\ 2^k \in Nat \ {0}
BY AllocatorAssumption, PowersOfTwo DEF Sizes

(* A block as its offset and size, and its storage.                        *)
LEMMA BlockType ==
  ASSUME NEW b \in AllBlocks
  PROVE  /\ b[1] \in Nat /\ b[2] \in Sizes /\ b[2] \in Nat /\ b[2] < numSizes
         /\ b = <<b[1], b[2]>> /\ b[1] % 2^b[2] = 0 /\ 2^b[2] \in Nat \ {0}
         /\ Units(b) = b[1]..(b[1] + 2^b[2] - 1)
         /\ b[1] \in Units(b) /\ Units(b) \subseteq Nat
<1>1. /\ b[1] \in Nat /\ b[2] \in Sizes
      /\ b = <<b[1], b[2]>> /\ b[1] % 2^b[2] = 0
  BY DEF AllBlocks
<1>2. b[2] \in Nat /\ b[2] < numSizes /\ 2^b[2] \in Nat \ {0}
  BY <1>1, SizesNat
<1>3. Units(b) = b[1]..(b[1] + 2^b[2] - 1)
  BY DEF Units, Extent
<1>4. b[1] \in Units(b) /\ Units(b) \subseteq Nat
  <2> DEFINE n == 2^b[2]
             o == b[1]
  <2>1. n \in Nat \ {0} /\ o \in Nat /\ Units(b) = o..(o + n - 1)
    BY <1>1, <1>2, <1>3
  <2> HIDE DEF n, o
  <2>2. o \in Units(b) /\ Units(b) \subseteq Nat
    BY <2>1
  <2> QED
    BY <2>2 DEF o
<1> QED
  BY <1>1, <1>2, <1>3, <1>4

LEMMA BlockMade ==
  ASSUME NEW o \in Nat, NEW k \in Sizes, o % 2^k = 0
  PROVE  <<o, k>> \in AllBlocks /\ Units(<<o, k>>) = o..(o + 2^k - 1)
BY DEF AllBlocks, Units, Extent

(* One block is part of another where its ends are within.                 *)
LEMMA UnitsWithin ==
  ASSUME NEW b \in AllBlocks, NEW c \in AllBlocks
  PROVE  /\ Units(b) \subseteq Units(c) <=>
              c[1] <= b[1] /\ b[1] + 2^b[2] <= c[1] + 2^c[2]
         /\ Units(b) \subseteq Units(c) => b[2] <= c[2]
         /\ Units(b) \subseteq Units(c) /\ c[2] <= b[2] => b = c
<1> DEFINE o == b[1]
           m == 2^b[2]
           p == c[1]
           n == 2^c[2]
<1>1. /\ o \in Nat /\ m \in Nat \ {0} /\ Units(b) = o..(o + m - 1)
      /\ p \in Nat /\ n \in Nat \ {0} /\ Units(c) = p..(p + n - 1)
  BY BlockType
<1>2. b[2] \in Nat /\ c[2] \in Nat /\ b = <<o, b[2]>> /\ c = <<p, c[2]>>
  BY BlockType
<1>3. Units(b) \subseteq Units(c) <=> p <= o /\ o + m <= p + n
  <2> HIDE DEF o, m, p, n
  <2>1. o \in Units(b) /\ o + m - 1 \in Units(b)
    BY <1>1
  <2> QED
    BY <1>1, <2>1
<1>4. ASSUME Units(b) \subseteq Units(c)
      PROVE  b[2] <= c[2]
  <2>1. m <= n
    <3>1. p <= o /\ o + m <= p + n
      BY <1>3, <1>4
    <3> HIDE DEF o, m, p, n
    <3> QED
      BY <1>1, <3>1
  <2> QED
    BY <1>2, <2>1, PowerGrows
<1>5. ASSUME Units(b) \subseteq Units(c), c[2] <= b[2]
      PROVE  b = c
  <2>1. b[2] = c[2]
    BY <1>2, <1>4, <1>5
  <2>2. m = n
    BY <2>1
  <2>3. o = p
    <3> HIDE DEF o, m, p, n
    <3> QED
      BY <1>1, <1>3, <1>5, <2>2
  <2> QED
    BY <1>2, <2>1, <2>3
<1> QED
  BY <1>3, <1>4, <1>5

(* Two blocks that meet are one in the other.                              *)
LEMMA BlocksNested ==
  ASSUME NEW b \in AllBlocks, NEW c \in AllBlocks,
         Units(b) \cap Units(c) # {}, b[2] <= c[2]
  PROVE  Units(b) \subseteq Units(c)
<1> DEFINE o == b[1]
           m == 2^b[2]
           p == c[1]
           n == 2^c[2]
<1>1. /\ o \in Nat /\ m \in Nat \ {0} /\ Units(b) = o..(o + m - 1)
      /\ p \in Nat /\ n \in Nat \ {0} /\ Units(c) = p..(p + n - 1)
  BY BlockType
<1>2. o < p + n /\ p < o + m
  <2> HIDE DEF o, m, p, n
  <2>1. PICK u : u \in Units(b) /\ u \in Units(c)
    OBVIOUS
  <2> QED
    BY <1>1, <2>1
<1>3. b[2] \in Nat /\ c[2] \in Nat /\ o % 2^b[2] = 0 /\ p % 2^c[2] = 0
  BY BlockType
<1>4. p <= o /\ o + m <= p + n
  BY <1>1, <1>2, <1>3, AlignedNested
<1> QED
  BY <1>4, UnitsWithin

(* The block of a size that holds a unit.                                  *)
LEMMA BlockAt ==
  ASSUME NEW u \in Nat, NEW k \in Sizes
  PROVE  /\ Base(u, k) \in Nat /\ <<Base(u, k), k>> \in AllBlocks
         /\ u \in Units(<<Base(u, k), k>>)
<1> DEFINE d == 2^k
           q == u \div d
<1>1. d \in Nat \ {0}
  BY SizesNat
<1>2. q \in Nat /\ u % d \in 0..(d - 1) /\ u = q * d + (u % d)
  BY <1>1, Division
<1>3. Base(u, k) = q * d
  BY DEF Base
<1>4. Base(u, k) \in Nat /\ Base(u, k) <= u /\ u <= Base(u, k) + d - 1
  <2> HIDE DEF d, q
  <2>1. q * d \in Nat
    BY <1>1, <1>2
  <2> QED
    BY <1>1, <1>2, <1>3, <2>1
<1>5. Base(u, k) % d = 0
  BY <1>1, <1>2, <1>3, <1>4, MultiplesAligned
<1> HIDE DEF q
<1> QED
  BY <1>1, <1>4, <1>5, BlockMade

LEMMA BlockUnique ==
  ASSUME NEW b \in AllBlocks, NEW u \in Units(b)
  PROVE  b = <<Base(u, b[2]), b[2]>>
<1> DEFINE d == <<Base(u, b[2]), b[2]>>
<1>1. u \in Nat /\ b[2] \in Sizes /\ b[2] \in Nat
  BY BlockType
<1>2. d \in AllBlocks /\ d[2] = b[2] /\ u \in Units(d)
  BY <1>1, BlockAt
<1> HIDE DEF d
<1>3. Units(d) \subseteq Units(b)
  BY <1>1, <1>2, BlocksNested
<1>4. d = b
  BY <1>1, <1>2, <1>3, UnitsWithin
<1> QED
  BY <1>4 DEF d

(* A block and its buddy are the halves of the block of the next size.     *)
LEMMA Buddies ==
  ASSUME NEW o \in Nat, NEW k \in Sizes, k < numSizes - 1
  PROVE  /\ k + 1 \in Sizes /\ <<Buddy(o, k), k>> \in AllBlocks
         /\ Units(<<Base(o, k + 1), k + 1>>) =
              Units(<<Base(o, k), k>>) \cup Units(<<Buddy(o, k), k>>)
         /\ Units(<<Base(o, k), k>>) \cap Units(<<Buddy(o, k), k>>) = {}
<1> DEFINE d == 2^k
           q == o \div d
<1>1. k \in Nat /\ k + 1 \in Sizes /\ d \in Nat \ {0} /\ 2^(k + 1) = 2 * d
  BY AllocatorAssumption, SizesNat, PowersOfTwo DEF Sizes
<1>2. q \in Nat /\ (q % 2 = 0 \/ q % 2 = 1)
  <2>1. q \in Nat
    BY <1>1, Division
  <2> HIDE DEF q
  <2> QED
    BY <2>1
<1>3. PICK r \in Nat : q = 2 * r + (q % 2)
  <2> HIDE DEF q
  <2>1. q \div 2 \in Nat /\ q = 2 * (q \div 2) + (q % 2)
    BY <1>2
  <2> QED
    BY <2>1
<1> DEFINE low == (2 * r) * d
<1>4. low \in Nat /\ low = r * (2 * d) /\ (2 * r + 1) * d = low + d
  <2> HIDE DEF d
  <2> QED
    BY <1>1
<1>5. /\ <<low, k>> \in AllBlocks /\ <<low + d, k>> \in AllBlocks
      /\ <<low, k + 1>> \in AllBlocks
  <2>1. low % d = 0
    BY <1>1, <1>4, MultiplesAligned, 2 * r \in Nat
  <2>2. (low + d) % d = 0 /\ low + d \in Nat
    <3>1. low + d \in Nat
      BY <1>1, <1>4
    <3> QED
      BY <1>1, <1>4, <3>1, MultiplesAligned, 2 * r + 1 \in Nat
  <2>3. low % 2^(k + 1) = 0
    BY <1>1, <1>4, MultiplesAligned
  <2> QED
    BY <1>1, <1>4, <2>1, <2>2, <2>3, BlockMade
<1>6. /\ Units(<<low, k>>) = low..(low + d - 1)
      /\ Units(<<low + d, k>>) = (low + d)..(low + d + d - 1)
      /\ Units(<<low, k + 1>>) = low..(low + 2 * d - 1)
  BY <1>1 DEF Units, Extent
<1>7. /\ Units(<<low, k + 1>>) = Units(<<low, k>>) \cup Units(<<low + d, k>>)
      /\ Units(<<low, k>>) \cap Units(<<low + d, k>>) = {}
  <2> HIDE DEF d, low
  <2> QED
    BY <1>1, <1>4, <1>6
<1>8. /\ Base(o, k) = q * d
      /\ Buddy(o, k) = IF q % 2 = 0 THEN q * d + d ELSE q * d - d
  BY DEF Base, Buddy
<1>9. /\ q % 2 = 0 => Base(o, k) = low /\ Buddy(o, k) = low + d
      /\ q % 2 = 1 => Base(o, k) = low + d /\ Buddy(o, k) = low
  <2> HIDE DEF d, low
  <2>1. q % 2 = 0 => q * d = low
    BY <1>2, <1>3 DEF low
  <2>2. q % 2 = 1 => q * d = low + d
    BY <1>2, <1>3, <1>4
  <2> HIDE DEF q
  <2> QED
    BY <1>1, <1>4, <1>8, <2>1, <2>2
<1>10. o \in Units(<<low, k + 1>>)
  <2>1. o \in Units(<<Base(o, k), k>>)
    BY BlockAt
  <2> QED
    BY <1>2, <1>7, <1>9, <2>1
<1>11. Base(o, k + 1) = low
  <2> HIDE DEF low
  <2> QED
    BY <1>5, <1>10, BlockUnique
<1> HIDE DEF d, low, q
<1>12. CASE q % 2 = 0
  BY <1>1, <1>5, <1>7, <1>9, <1>11, <1>12
<1>13. CASE q % 2 = 1
  BY <1>1, <1>5, <1>7, <1>9, <1>11, <1>13
<1> QED
  BY <1>2, <1>12, <1>13

(* A block that contains another, larger one contains its buddy.           *)
LEMMA BuddyWithin ==
  ASSUME NEW o \in Nat, NEW k \in Sizes, NEW c \in AllBlocks,
         Units(<<Base(o, k), k>>) \subseteq Units(c), c # <<Base(o, k), k>>
  PROVE  k < numSizes - 1 /\ Units(<<Base(o, k + 1), k + 1>>) \subseteq Units(c)
<1> DEFINE b == <<Base(o, k), k>>
           a == <<Base(o, k + 1), k + 1>>
<1>1. b \in AllBlocks /\ b[2] = k /\ o \in Units(b) /\ k \in Nat
  BY BlockAt, SizesNat
<1>2. c[2] \in Nat /\ c[2] < numSizes /\ k < c[2]
  <2>1. c[2] \in Nat /\ c[2] < numSizes
    BY BlockType
  <2> HIDE DEF b
  <2>2. b # c /\ Units(b) \subseteq Units(c)
    BY DEF b
  <2> QED
    BY <1>1, <2>1, <2>2, UnitsWithin
<1>3. k < numSizes - 1 /\ k + 1 \in Sizes
  BY <1>1, <1>2, AllocatorAssumption DEF Sizes
<1>4. a \in AllBlocks /\ a[2] = k + 1 /\ o \in Units(a)
  BY <1>3, BlockAt
<1>5. o \in Units(c)
  BY <1>1
<1> HIDE DEF a
<1>6. Units(a) \subseteq Units(c)
  BY <1>1, <1>2, <1>4, <1>5, BlocksNested
<1> QED
  BY <1>3, <1>6 DEF a

-----------------------------------------------------------------------------
(* The largest blocks within a set of units *)

Maximal(U) ==
  {b \in AllBlocks :
     /\ Units(b) \subseteq U
     /\ \A c \in AllBlocks : Units(c) \subseteq U /\ Units(b) \subseteq Units(c) => c = b}

LEMMA MaximalBlocks ==
  ASSUME NEW U, NEW b \in Maximal(U)
  PROVE  b \in AllBlocks /\ Units(b) \subseteq U
BY DEF Maximal

(* Every unit is in one of them.                                           *)
LEMMA MaximalCovers ==
  ASSUME NEW U, U \subseteq Nat, NEW u \in U
  PROVE  \E b \in Maximal(U) : u \in Units(b)
<1> DEFINE at(k) == <<Base(u, k), k>>
           T == {l \in Nat : numSizes - 1 - l \in Sizes /\ Units(at(numSizes - 1 - l)) \subseteq U}
<1>1. numSizes \in Nat \ {0} /\ 0 \in Sizes /\ Sizes \subseteq Nat
  BY AllocatorAssumption DEF Sizes
<1>2. \A k \in Sizes : at(k) \in AllBlocks /\ at(k)[2] = k /\ u \in Units(at(k))
  BY BlockAt
<1>3. Units(at(0)) \subseteq U
  <2>1. Units(at(0)) = at(0)[1]..(at(0)[1] + 1 - 1) /\ at(0)[1] \in Nat
    BY <1>1, <1>2, TwoToZero, BlockType
  <2>2. u \in Units(at(0))
    BY <1>1, <1>2
  <2>3. \A v \in Units(at(0)) : v = u
    BY <2>1, <2>2
  <2> QED
    BY <2>3
<1>4. numSizes - 1 \in T
  <2>1. numSizes - 1 - (numSizes - 1) = 0
    BY <1>1
  <2> QED
    BY <1>1, <1>3, <2>1
<1>5. PICK l \in T : \A m \in T : l <= m
  <2>1. T \subseteq Nat /\ T # {}
    BY <1>4
  <2> HIDE DEF T
  <2> QED
    BY <2>1, LeastNat
<1> DEFINE k == numSizes - 1 - l
<1>6. k \in Sizes /\ Units(at(k)) \subseteq U
  BY <1>5
<1>7. ASSUME NEW c \in AllBlocks, Units(c) \subseteq U, Units(at(k)) \subseteq Units(c)
      PROVE  c = at(k)
  <2>1. u \in Units(c) /\ c[2] \in Sizes
    BY <1>2, <1>6, <1>7, BlockType
  <2>2. at(c[2]) = c
    BY <2>1, BlockUnique
  <2>3. c[2] <= k
    <3> DEFINE m == numSizes - 1 - c[2]
    <3>1. m \in Nat /\ numSizes - 1 - m = c[2]
      BY <1>1, <2>1 DEF Sizes
    <3>2. m \in T
      BY <1>7, <2>1, <2>2, <3>1
    <3>3. l <= m
      BY <1>5, <3>2
    <3> QED
      BY <1>1, <1>5, <3>1, <3>3
  <2>4. at(k) \in AllBlocks /\ at(k)[2] = k
    BY <1>2, <1>6
  <2> HIDE DEF at, k
  <2> QED
    BY <1>7, <2>3, <2>4, UnitsWithin
<1>8. at(k) \in Maximal(U)
  BY <1>2, <1>6, <1>7 DEF Maximal
<1> QED
  BY <1>2, <1>6, <1>8

(* And in one only.                                                        *)
LEMMA MaximalDisjoint ==
  ASSUME NEW U, NEW b \in Maximal(U), NEW c \in Maximal(U),
         Units(b) \cap Units(c) # {}
  PROVE  b = c
<1>1. b \in AllBlocks /\ c \in AllBlocks /\ b[2] \in Nat /\ c[2] \in Nat
  BY MaximalBlocks, BlockType
<1>2. CASE b[2] <= c[2]
  <2>1. Units(b) \subseteq Units(c)
    BY <1>1, <1>2, BlocksNested
  <2> QED
    BY <1>1, <2>1 DEF Maximal
<1>3. CASE c[2] <= b[2]
  <2>1. Units(c) \subseteq Units(b)
    BY <1>1, <1>3, BlocksNested
  <2> QED
    BY <1>1, <2>1 DEF Maximal
<1> QED
  BY <1>1, <1>2, <1>3

(* Every block within the units is part of one of them.                    *)
LEMMA MaximalAbove ==
  ASSUME NEW U, U \subseteq Nat, NEW b \in AllBlocks, Units(b) \subseteq U
  PROVE  \E c \in Maximal(U) : Units(b) \subseteq Units(c)
<1>1. b[1] \in Units(b) /\ b[2] \in Nat
  BY BlockType
<1>2. PICK c \in Maximal(U) : b[1] \in Units(c)
  BY <1>1, MaximalCovers
<1>3. c \in AllBlocks /\ c[2] \in Nat /\ Units(b) \cap Units(c) # {}
  BY <1>1, <1>2, MaximalBlocks, BlockType
<1>4. CASE b[2] <= c[2]
  BY <1>3, <1>4, BlocksNested
<1>5. CASE c[2] <= b[2]
  <2>1. Units(c) \subseteq Units(b)
    BY <1>3, <1>5, BlocksNested
  <2>2. b = c
    BY <2>1 DEF Maximal
  <2> QED
    BY <2>2
<1> QED
  BY <1>1, <1>3, <1>4, <1>5

(* Where no block lies across two sets, each keeps its own.                *)
LEMMA MaximalUnion ==
  ASSUME NEW U, NEW V, U \cap V = {},
         \A b \in AllBlocks : Units(b) \subseteq U \cup V =>
           Units(b) \subseteq U \/ Units(b) \subseteq V
  PROVE  Maximal(U \cup V) = Maximal(U) \cup Maximal(V)
<1>1. \A b \in AllBlocks : b[1] \in Units(b)
  BY BlockType
<1>2. ASSUME NEW b \in Maximal(U \cup V)
      PROVE  b \in Maximal(U) \cup Maximal(V)
  BY <1>2 DEF Maximal
<1>3. ASSUME NEW b \in Maximal(U)
      PROVE  b \in Maximal(U \cup V)
  <2>1. b \in AllBlocks /\ Units(b) \subseteq U /\ b[1] \in Units(b)
    BY <1>1, MaximalBlocks
  <2>2. ASSUME NEW c \in AllBlocks, Units(c) \subseteq U \cup V, Units(b) \subseteq Units(c)
        PROVE  c = b
    <3>1. Units(c) \subseteq U
      BY <2>1, <2>2
    <3> QED
      BY <2>2, <3>1 DEF Maximal
  <2> QED
    BY <2>1, <2>2 DEF Maximal
<1>4. ASSUME NEW b \in Maximal(V)
      PROVE  b \in Maximal(U \cup V)
  <2>1. b \in AllBlocks /\ Units(b) \subseteq V /\ b[1] \in Units(b)
    BY <1>1, MaximalBlocks
  <2>2. ASSUME NEW c \in AllBlocks, Units(c) \subseteq U \cup V, Units(b) \subseteq Units(c)
        PROVE  c = b
    <3>1. Units(c) \subseteq V
      BY <2>1, <2>2
    <3> QED
      BY <2>2, <3>1 DEF Maximal
  <2> QED
    BY <2>1, <2>2 DEF Maximal
<1> QED
  BY <1>2, <1>3, <1>4

(* A block that is taken away leaves the others.                           *)
LEMMA MaximalWithout ==
  ASSUME NEW U, U \subseteq Nat, NEW f \in Maximal(U)
  PROVE  Maximal(U \ Units(f)) = Maximal(U) \ {f}
<1>1. f \in AllBlocks /\ Units(f) \subseteq U
  BY MaximalBlocks
<1>2. ASSUME NEW b \in AllBlocks, Units(b) \subseteq U \ Units(f)
      PROVE  \E c \in Maximal(U) \ {f} : Units(b) \subseteq Units(c)
  <2>1. PICK c \in Maximal(U) : Units(b) \subseteq Units(c)
    BY <1>2, MaximalAbove
  <2>2. b[1] \in Units(b)
    BY BlockType
  <2> QED
    BY <1>2, <2>1, <2>2
<1>3. ASSUME NEW c \in Maximal(U) \ {f}
      PROVE  c \in Maximal(U \ Units(f))
  <2>1. c \in AllBlocks /\ Units(c) \subseteq U
    BY MaximalBlocks
  <2>2. Units(c) \cap Units(f) = {}
    BY MaximalDisjoint
  <2> QED
    BY <2>1, <2>2 DEF Maximal
<1>4. ASSUME NEW b \in Maximal(U \ Units(f))
      PROVE  b \in Maximal(U) \ {f}
  <2>1. b \in AllBlocks /\ Units(b) \subseteq U \ Units(f)
    BY MaximalBlocks
  <2>2. PICK c \in Maximal(U) \ {f} : Units(b) \subseteq Units(c)
    BY <1>2, <2>1
  <2>3. c \in Maximal(U \ Units(f))
    BY <1>3
  <2>4. c = b
    BY <2>2, <2>3 DEF Maximal
  <2> QED
    BY <2>2, <2>4
<1> QED
  BY <1>3, <1>4

(* The units within a block are cut apart from those outside it.           *)
LEMMA MaximalReplace ==
  ASSUME NEW U, U \cap Nat = U, NEW f, f \in Maximal(U), NEW R, R \cap Units(f) = R
  PROVE  Maximal((U \ Units(f)) \cup R) = (Maximal(U) \ {f}) \cup Maximal(R)
<1> DEFINE W == U \ Units(f)
<1>0. U \subseteq Nat /\ R \subseteq Units(f)
  OBVIOUS
<1>1. f \in AllBlocks /\ Units(f) \subseteq U
  BY MaximalBlocks
<1>2. ASSUME NEW b \in AllBlocks, Units(b) \subseteq W \cup R
      PROVE  Units(b) \subseteq W \/ Units(b) \subseteq R
  <2>1. PICK c \in Maximal(U) : Units(b) \subseteq Units(c)
    BY <1>0, <1>1, <1>2, MaximalAbove
  <2>2. CASE c = f
    BY <1>2, <2>1, <2>2
  <2>3. CASE c # f
    <3>1. Units(c) \cap Units(f) = {}
      BY <2>3, MaximalDisjoint
    <3> QED
      BY <1>2, <2>1, <3>1
  <2> QED
    BY <2>2, <2>3
<1>3. W \cap R = {}
  OBVIOUS
<1>4. Maximal(W \cup R) = Maximal(W) \cup Maximal(R)
  <2> HIDE DEF W
  <2> QED
    BY <1>2, <1>3, MaximalUnion
<1> QED
  BY <1>0, <1>4, MaximalWithout

LEMMA MaximalOfBlock ==
  ASSUME NEW b \in AllBlocks
  PROVE  Maximal(Units(b)) = {b}
<1>1. \A c \in AllBlocks : Units(c) \subseteq Units(b) /\ Units(b) \subseteq Units(c) => c = b
  <2> SUFFICES ASSUME NEW c \in AllBlocks, Units(c) \subseteq Units(b), Units(b) \subseteq Units(c)
               PROVE  c = b
    OBVIOUS
  <2>1. b[2] <= c[2]
    BY UnitsWithin
  <2> QED
    BY <2>1, UnitsWithin
<1> QED
  BY <1>1 DEF Maximal

LEMMA MaximalOfNothing == Maximal({}) = {}
BY BlockType DEF Maximal

-----------------------------------------------------------------------------
(* The free lists *)

Offsets == Blocks \cup {OURNULL}
LinksType == [prev : Offsets, next : Offsets]
PoolType ==
  [map : SUBSET Blocks, freeList : [Sizes -> Offsets], header : [Blocks -> LinksType \cup {Junk}],
   trailer : [1..poolBlocks -> Sizes \cup {Junk}], freeBytes : Int]

(* What a set of free blocks may be.                                       *)
Apart(F) ==
  /\ F \subseteq AllBlocks
  /\ \A b \in F : Units(b) \subseteq Blocks
  /\ \A b, c \in F : Units(b) \cap Units(c) # {} => b = c

(* Free storage has links where a free block begins, and a size where one  *)
(* ends, and nowhere else.                                                 *)
Written(p, F) ==
  /\ \A o \in Blocks : p.header[o] # Junk <=> \E k \in Sizes : <<o, k>> \in F
  /\ \A past \in 1..poolBlocks, k \in Sizes : p.trailer[past] = k <=> <<past - 2^k, k>> \in F

(* The links lead to free blocks of the same size, and back again.         *)
Linked(p, F) ==
  /\ \A k \in Sizes : p.freeList[k] # OURNULL =>
       <<p.freeList[k], k>> \in F /\ p.header[p.freeList[k]].prev = OURNULL
  /\ \A b \in F :
       LET prev == p.header[b[1]].prev
           next == p.header[b[1]].next
       IN  /\ prev = OURNULL => p.freeList[b[2]] = b[1]
           /\ prev # OURNULL => <<prev, b[2]>> \in F /\ p.header[prev].next = b[1]
           /\ next # OURNULL => <<next, b[2]>> \in F /\ p.header[next].prev = b[1]

(* No list runs in a circle: somehow the blocks can be numbered along it.  *)
Ordered(p, F) ==
  \E rank \in [Blocks -> Int], low \in Int :
    /\ \A o \in Blocks : low < rank[o]
    /\ \A b \in F : LET next == p.header[b[1]].next
                    IN  next # OURNULL => rank[b[1]] < rank[next]

(* The free lists hold the blocks of F, each in the list of its size.      *)
Lists(p, F) ==
  /\ p \in PoolType
  /\ Apart(F)
  /\ Written(p, F)
  /\ Linked(p, F)
  /\ Ordered(p, F)

PoolIs == poolBlocks \in Nat \ {0}

(* OURNULL is no offset and Junk neither links nor a size.                 *)
LEMMA Distinct ==
  ASSUME PoolIs
  PROVE  /\ OURNULL \notin Blocks /\ Blocks \subseteq Nat
         /\ Junk \notin Sizes /\ Junk \notin LinksType
<1>1. Blocks \subseteq Nat /\ Sizes \subseteq Nat
  BY SizesNat DEF Blocks, PoolIs
<1>2. OURNULL \notin Nat /\ Junk \notin Nat
  BY AllocatorAssumption
<1>3. LinksType \subseteq [prev : Nat \cup {OURNULL}, next : Nat \cup {OURNULL}]
  BY <1>1 DEF LinksType, Offsets
<1> QED
  BY <1>1, <1>2, <1>3, AllocatorAssumption

LEMMA BlockInPool ==
  ASSUME PoolIs, NEW b \in AllBlocks, Units(b) \subseteq Blocks
  PROVE  /\ b[1] \in Blocks
         /\ b[1] + 2^b[2] \in 1..poolBlocks
         /\ b[1] + 2^b[2] - 1 \in Units(b)
<1> DEFINE o == b[1]
           n == 2^b[2]
<1>1. o \in Nat /\ n \in Nat \ {0} /\ Units(b) = o..(o + n - 1) /\ o \in Units(b)
  BY BlockType
<1>2. o + n - 1 \in Units(b)
  <2> HIDE DEF o, n
  <2> QED
    BY <1>1
<1>3. o + n - 1 \in 0..(poolBlocks - 1)
  BY <1>2 DEF Blocks
<1>4. o + n \in 1..poolBlocks
  <2> HIDE DEF o, n
  <2> QED
    BY <1>1, <1>3 DEF PoolIs
<1> QED
  BY <1>1, <1>2, <1>4

(* Blocks of a set that is apart are told from each other by where they    *)
(* begin, and by where they end.                                           *)
LEMMA ApartEnds ==
  ASSUME PoolIs, NEW F, Apart(F), NEW b \in F, NEW c \in F
  PROVE  /\ b[1] = c[1] => b = c
         /\ b[1] + 2^b[2] = c[1] + 2^c[2] => b = c
<1>1. b \in AllBlocks /\ c \in AllBlocks /\ Units(b) \subseteq Blocks /\ Units(c) \subseteq Blocks
  BY DEF Apart
<1>2. b[1] \in Units(b) /\ c[1] \in Units(c)
  BY <1>1, BlockType
<1>3. b[1] + 2^b[2] - 1 \in Units(b) /\ c[1] + 2^c[2] - 1 \in Units(c)
  BY <1>1, BlockInPool
<1>4. ASSUME b[1] = c[1]
      PROVE  b = c
  BY <1>2, <1>4 DEF Apart
<1>5. ASSUME b[1] + 2^b[2] = c[1] + 2^c[2]
      PROVE  b = c
  <2> DEFINE n == 2^b[2]
             m == 2^c[2]
  <2>1. b[1] \in Nat /\ c[1] \in Nat /\ n \in Nat /\ m \in Nat
    BY <1>1, BlockType
  <2>2. b[1] + n - 1 \in Units(b) /\ c[1] + m - 1 \in Units(c) /\ b[1] + n = c[1] + m
    BY <1>3, <1>5
  <2> HIDE DEF n, m
  <2>3. b[1] + n - 1 \in Units(b) \cap Units(c)
    <3>1. b[1] + n - 1 = c[1] + m - 1
      BY <2>1, <2>2
    <3> QED
      BY <2>2, <3>1
  <2> QED
    BY <2>3 DEF Apart
<1> QED
  BY <1>4, <1>5

LEMMA ApartMore ==
  ASSUME NEW F, Apart(F), NEW b \in AllBlocks, Units(b) \subseteq Blocks,
         \A c \in F : Units(b) \cap Units(c) = {}
  PROVE  Apart(F \cup {b})
BY DEF Apart

(* A block of free storage joins the list of its size.                     *)
LEMMA LinkKeepsLists ==
  ASSUME PoolIs, NEW p, NEW F, Lists(p, F), NEW o, NEW k,
         <<o, k>> \in AllBlocks, Units(<<o, k>>) \subseteq Blocks,
         \A b \in F : Units(<<o, k>>) \cap Units(b) = {}
  PROVE  /\ Lists(Link(p, o, k), F \cup {<<o, k>>})
         /\ Link(p, o, k).map = p.map
         /\ Link(p, o, k).freeBytes = p.freeBytes
<1> DEFINE n == <<o, k>>
           G == F \cup {n}
           next == p.freeList[k]
           h(b) == IF b = o THEN [prev |-> OURNULL, next |-> next]
                   ELSE IF b = next /\ p.header[b] # Junk THEN [p.header[b] EXCEPT !.prev = o]
                   ELSE p.header[b]
           q == Link(p, o, k)
           e == o + 2^k
<1>1. /\ OURNULL \notin Blocks /\ Blocks \subseteq Nat
      /\ Junk \notin Sizes /\ Junk \notin LinksType
  BY Distinct
<1>2. n \in AllBlocks /\ n[1] = o /\ n[2] = k /\ o \in Blocks /\ k \in Sizes /\ e \in 1..poolBlocks
  BY BlockInPool, BlockType
<1>3. p \in PoolType /\ Apart(F) /\ Written(p, F) /\ Linked(p, F) /\ Ordered(p, F)
  BY DEF Lists
<1>4. n \notin F /\ \A b \in F : b[1] # o /\ b[1] + 2^b[2] # e
  <2>1. Apart(G)
    BY <1>2, <1>3, ApartMore
  <2>2. \A b \in F : n # b
    <3>1. o \in Units(n)
      BY <1>2, BlockType
    <3> QED
      BY <3>1
  <2>3. \A b \in G : (b[1] = n[1] => b = n) /\ (b[1] + 2^b[2] = n[1] + 2^n[2] => b = n)
    BY <2>1, ApartEnds
  <2> HIDE DEF n
  <2> QED
    BY <1>2, <2>2, <2>3
<1>5. \A b \in F : /\ b \in AllBlocks /\ b[1] \in Blocks /\ b[2] \in Sizes /\ b = <<b[1], b[2]>>
                   /\ b[1] + 2^b[2] \in 1..poolBlocks
  BY <1>3, BlockType, BlockInPool DEF Apart
<1>6. \A b \in F : p.header[b[1]] \in LinksType
  <2> SUFFICES ASSUME NEW b \in F
               PROVE  p.header[b[1]] \in LinksType
    OBVIOUS
  <2>1. p.header[b[1]] # Junk
    BY <1>3, <1>5 DEF Written
  <2> QED
    BY <1>3, <1>5, <2>1 DEF PoolType
<1>7. next \in Offsets /\ (next # OURNULL => <<next, k>> \in F /\ p.header[next].prev = OURNULL)
  BY <1>2, <1>3 DEF PoolType, Linked
<1>8. /\ q.map = p.map /\ q.freeBytes = p.freeBytes
      /\ q.freeList = [p.freeList EXCEPT ![k] = o]
      /\ q.header = [b \in Blocks |-> h(b)]
      /\ q.trailer = [p.trailer EXCEPT ![e] = k]
  BY <1>3 DEF Link, PoolType
<1>9. h(o) \in LinksType /\ \A b \in Blocks : h(b) \in LinksType \cup {Junk}
  <2>1. h(o) \in LinksType
    BY <1>7 DEF LinksType, Offsets
  <2>2. ASSUME NEW b \in Blocks, b # o, b = next, p.header[b] # Junk
        PROVE  h(b) \in LinksType \cup {Junk}
    <3>1. p.header[b] \in LinksType
      BY <1>3, <2>2 DEF PoolType
    <3> QED
      BY <1>2, <2>2, <3>1 DEF LinksType, Offsets
  <2>3. ASSUME NEW b \in Blocks, b # o, ~(b = next /\ p.header[b] # Junk)
        PROVE  h(b) \in LinksType \cup {Junk}
    BY <1>3, <2>3 DEF PoolType
  <2> QED
    BY <2>1, <2>2, <2>3
<1>10. q \in PoolType
  <2>1. [b \in Blocks |-> h(b)] \in [Blocks -> LinksType \cup {Junk}]
    BY <1>9
  <2>2. q = [p EXCEPT !.freeList = [p.freeList EXCEPT ![k] = o],
                      !.header = [b \in Blocks |-> h(b)],
                      !.trailer = [p.trailer EXCEPT ![e] = k]]
    BY <1>3 DEF Link, PoolType
  <2> HIDE DEF h, q
  <2> QED
    BY <1>2, <1>3, <2>1, <2>2 DEF PoolType, Offsets
<1>11. Apart(G)
  BY <1>2, <1>3, ApartMore
<1>12. /\ q.header[o] = [prev |-> OURNULL, next |-> next]
       /\ \A b \in F : /\ q.header[b[1]].next = p.header[b[1]].next
                       /\ b[1] # next => q.header[b[1]] = p.header[b[1]]
                       /\ b[1] = next => q.header[b[1]].prev = o
  <2>1. q.header[o] = [prev |-> OURNULL, next |-> next]
    BY <1>2, <1>8
  <2>2. ASSUME NEW b \in F
        PROVE  /\ q.header[b[1]].next = p.header[b[1]].next
               /\ b[1] # next => q.header[b[1]] = p.header[b[1]]
               /\ b[1] = next => q.header[b[1]].prev = o
    <3>1. b[1] # o /\ b[1] \in Blocks /\ p.header[b[1]] \in LinksType /\ p.header[b[1]] # Junk
      BY <1>1, <1>4, <1>5, <1>6
    <3>2. q.header[b[1]] = h(b[1])
      BY <1>8, <3>1
    <3> QED
      BY <3>1, <3>2 DEF LinksType
  <2> QED
    BY <2>1, <2>2
<1>13. Written(q, G)
  <2>1. ASSUME NEW b \in Blocks
        PROVE  q.header[b] # Junk <=> \E l \in Sizes : <<b, l>> \in G
    <3>1. CASE b = o
      BY <1>1, <1>2, <1>8, <1>9, <3>1
    <3>2. CASE b # o
      <4>1. \A l \in Sizes : <<b, l>> \in G <=> <<b, l>> \in F
        BY <3>2
      <4>2. h(b) # Junk <=> p.header[b] # Junk
        <5>1. CASE b = next /\ p.header[b] # Junk
          <6>1. h(b) \in LinksType
            <7>1. p.header[b] \in LinksType
              BY <1>3, <5>1 DEF PoolType
            <7> QED
              BY <1>2, <3>2, <5>1, <7>1 DEF LinksType, Offsets
          <6> QED
            BY <1>1, <5>1, <6>1
        <5>2. CASE ~(b = next /\ p.header[b] # Junk)
          BY <3>2, <5>2
        <5> QED
          BY <5>1, <5>2
      <4> QED
        BY <1>3, <1>8, <4>1, <4>2 DEF Written
    <3> QED
      BY <3>1, <3>2
  <2>2. ASSUME NEW past \in 1..poolBlocks, NEW l \in Sizes
        PROVE  q.trailer[past] = l <=> <<past - 2^l, l>> \in G
    <3>1. CASE past = e
      <4>1. q.trailer[e] = k
        BY <1>2, <1>3, <1>8 DEF PoolType
      <4>2. <<e - 2^l, l>> \notin F
        <5>1. 2^l \in Nat /\ e \in Nat
          BY <1>2, SizesNat
        <5>2. (e - 2^l) + 2^l = e
          BY <5>1
        <5> QED
          BY <1>4, <5>2
      <4>3. <<e - 2^k, k>> = n
        <5>1. 2^k \in Nat /\ o \in Nat
          BY <1>1, <1>2, SizesNat
        <5>2. e - 2^k = o
          BY <5>1
        <5> QED
          BY <5>2
      <4> QED
        BY <3>1, <4>1, <4>2, <4>3
    <3>2. CASE past # e
      <4>1. q.trailer[past] = p.trailer[past]
        BY <1>3, <1>8, <3>2 DEF PoolType
      <4>2. <<past - 2^l, l>> # n
        <5>1. 2^l \in Nat /\ past \in Nat
          BY SizesNat
        <5>2. (past - 2^l) + 2^l = past
          BY <5>1
        <5> QED
          BY <3>2, <5>2
      <4> QED
        BY <1>3, <4>1, <4>2 DEF Written
    <3> QED
      BY <3>1, <3>2
  <2> QED
    BY <2>1, <2>2 DEF Written
<1>14. Linked(q, G)
  <2>1. ASSUME NEW l \in Sizes, q.freeList[l] # OURNULL
        PROVE  <<q.freeList[l], l>> \in G /\ q.header[q.freeList[l]].prev = OURNULL
    <3>1. CASE l = k
      BY <1>2, <1>3, <1>8, <1>12, <3>1 DEF PoolType
    <3>2. CASE l # k
      <4>1. q.freeList[l] = p.freeList[l]
        BY <1>3, <1>8, <3>2 DEF PoolType
      <4> DEFINE b == <<p.freeList[l], l>>
      <4>2. b \in F /\ p.header[b[1]].prev = OURNULL /\ b[2] = l
        BY <1>3, <2>1, <4>1 DEF Linked
      <4>3. b[1] # next
        <5> SUFFICES ASSUME b[1] = next
                     PROVE  FALSE
          OBVIOUS
        <5>1. next \in Blocks /\ next # OURNULL
          BY <1>1, <1>5, <4>2
        <5>2. <<next, k>> \in F /\ b = <<next, l>>
          BY <1>7, <5>1
        <5>3. <<next, k>> = <<next, l>>
          BY <1>3, <4>2, <5>2, ApartEnds
        <5> QED
          BY <3>2, <5>3
      <4> QED
        BY <1>12, <4>1, <4>2, <4>3
    <3> QED
      BY <3>1, <3>2
  <2>2. ASSUME NEW b \in G
        PROVE  LET prev == q.header[b[1]].prev
                   nxt == q.header[b[1]].next
               IN  /\ prev = OURNULL => q.freeList[b[2]] = b[1]
                   /\ prev # OURNULL => <<prev, b[2]>> \in G /\ q.header[prev].next = b[1]
                   /\ nxt # OURNULL => <<nxt, b[2]>> \in G /\ q.header[nxt].prev = b[1]
    <3>1. CASE b = n
      <4>1. q.freeList[k] = o
        BY <1>2, <1>3, <1>8 DEF PoolType
      <4>2. q.header[o].prev = OURNULL /\ q.header[o].next = next
        BY <1>12
      <4>3. next # OURNULL => <<next, k>> \in G /\ q.header[next].prev = o
        BY <1>7, <1>12
      <4> QED
        BY <1>2, <3>1, <4>1, <4>2, <4>3
    <3>2. CASE b \in F
      <4> DEFINE prev == p.header[b[1]].prev
                 nxt == p.header[b[1]].next
      <4>1. /\ prev = OURNULL => p.freeList[b[2]] = b[1]
            /\ prev # OURNULL => <<prev, b[2]>> \in F /\ p.header[prev].next = b[1]
            /\ nxt # OURNULL => <<nxt, b[2]>> \in F /\ p.header[nxt].prev = b[1]
        BY <1>3, <3>2 DEF Linked
      <4>2. q.header[b[1]].next = nxt
        BY <1>12, <3>2
      <4>3. b[2] \in Sizes /\ b[1] \in Blocks /\ b[1] # OURNULL /\ b = <<b[1], b[2]>>
        BY <1>1, <1>5, <3>2
      <4>4. nxt # OURNULL => <<nxt, b[2]>> \in G /\ q.header[nxt].prev = b[1]
        <5> SUFFICES ASSUME nxt # OURNULL
                     PROVE  <<nxt, b[2]>> \in G /\ q.header[nxt].prev = b[1]
          OBVIOUS
        <5>1. <<nxt, b[2]>> \in F /\ p.header[nxt].prev = b[1]
          BY <4>1
        <5>2. nxt # next
          BY <1>7, <4>3, <5>1
        <5>3. q.header[nxt] = p.header[nxt]
          BY <1>12, <5>1, <5>2
        <5> QED
          BY <5>1, <5>3
      <4>5. CASE b[1] = next
        <5>1. b = <<next, k>>
          BY <1>3, <1>7, <3>2, <4>3, <4>5, ApartEnds
        <5>2. q.header[b[1]].prev = o /\ o # OURNULL
          BY <1>1, <1>2, <1>12, <3>2, <4>5
        <5>3. <<o, b[2]>> \in G /\ q.header[o].next = b[1]
          BY <1>12, <4>5, <5>1
        <5> QED
          BY <4>2, <4>4, <5>2, <5>3
      <4>6. CASE b[1] # next
        <5>1. q.header[b[1]].prev = prev
          BY <1>12, <3>2, <4>6
        <5>2. prev = OURNULL => q.freeList[b[2]] = b[1]
          <6> SUFFICES ASSUME prev = OURNULL
                       PROVE  q.freeList[b[2]] = b[1]
            OBVIOUS
          <6>1. p.freeList[b[2]] = b[1]
            BY <4>1
          <6>2. b[2] # k
            BY <4>6, <6>1
          <6> QED
            BY <1>3, <1>8, <4>3, <6>1, <6>2 DEF PoolType
        <5>3. prev # OURNULL => <<prev, b[2]>> \in G /\ q.header[prev].next = b[1]
          BY <1>12, <4>1
        <5> QED
          BY <4>2, <4>4, <5>1, <5>2, <5>3
      <4> QED
        BY <4>5, <4>6
    <3> QED
      BY <3>1, <3>2
  <2> QED
    BY <2>1, <2>2 DEF Linked
<1>15. Ordered(q, G)
  <2>1. PICK rank \in [Blocks -> Int], low \in Int :
          /\ \A c \in Blocks : low < rank[c]
          /\ \A b \in F : LET nxt == p.header[b[1]].next
                          IN  nxt # OURNULL => rank[b[1]] < rank[nxt]
    BY <1>3 DEF Ordered
  <2> DEFINE r == [rank EXCEPT ![o] = low]
  <2>2. r \in [Blocks -> Int] /\ low - 1 \in Int /\ \A c \in Blocks : low - 1 < r[c]
    <3>1. r \in [Blocks -> Int]
      OBVIOUS
    <3>2. \A c \in Blocks : r[c] = IF c = o THEN low ELSE rank[c]
      OBVIOUS
    <3>3. \A c \in Blocks : low - 1 < low /\ low < rank[c] /\ rank[c] \in Int
      BY <2>1
    <3> HIDE DEF r
    <3> QED
      BY <3>1, <3>2, <3>3
  <2>3. ASSUME NEW b \in G, q.header[b[1]].next # OURNULL
        PROVE  r[b[1]] < r[q.header[b[1]].next]
    <3>1. CASE b = n
      <4>1. q.header[b[1]].next = next /\ next \in Blocks /\ next # o /\ b[1] = o
        BY <1>4, <1>5, <1>7, <1>12, <2>3, <3>1
      <4> QED
        BY <1>2, <2>1, <4>1
    <3>2. CASE b \in F
      <4> DEFINE nxt == p.header[b[1]].next
      <4>1. q.header[b[1]].next = nxt /\ b[1] # o /\ b[1] \in Blocks
        BY <1>4, <1>5, <1>12, <3>2
      <4>2. <<nxt, b[2]>> \in F
        BY <1>3, <2>3, <3>2, <4>1 DEF Linked
      <4>3. nxt # o /\ nxt \in Blocks
        BY <1>4, <1>5, <4>2
      <4>4. rank[b[1]] < rank[nxt]
        BY <2>1, <2>3, <3>2, <4>1
      <4> QED
        BY <2>1, <4>1, <4>3, <4>4
    <3> QED
      BY <3>1, <3>2
  <2> HIDE DEF r, G, q
  <2> QED
    BY <2>2, <2>3 DEF Ordered
<1> QED
  BY <1>8, <1>10, <1>11, <1>13, <1>14, <1>15 DEF Lists

(* Along a list the two neighbours of a block and the block are distinct.  *)
LEMMA NeighboursDistinct ==
  ASSUME PoolIs, NEW p, NEW F, Lists(p, F), NEW b \in F
  PROVE  LET prev == p.header[b[1]].prev
             next == p.header[b[1]].next
         IN  /\ prev # b[1] /\ next # b[1]
             /\ prev # OURNULL => prev # next
<1> DEFINE prev == p.header[b[1]].prev
           next == p.header[b[1]].next
<1>1. OURNULL \notin Blocks
  BY Distinct
<1>2. p \in PoolType /\ Apart(F) /\ Written(p, F) /\ Linked(p, F) /\ Ordered(p, F)
  BY DEF Lists
<1>3. \A c \in F : c[1] \in Blocks
  BY <1>2, BlockInPool DEF Apart
<1>4. PICK rank \in [Blocks -> Int] :
        \A c \in F : LET nxt == p.header[c[1]].next
                     IN  nxt # OURNULL => rank[c[1]] < rank[nxt]
  BY <1>2 DEF Ordered
<1>5. next # OURNULL => next \in Blocks /\ rank[b[1]] < rank[next]
  <2> SUFFICES ASSUME next # OURNULL
               PROVE  next \in Blocks /\ rank[b[1]] < rank[next]
    OBVIOUS
  <2>1. <<next, b[2]>> \in F
    BY <1>2 DEF Linked
  <2> QED
    BY <1>3, <1>4, <2>1
<1>6. prev # OURNULL => prev \in Blocks /\ rank[prev] < rank[b[1]]
  <2> SUFFICES ASSUME prev # OURNULL
               PROVE  prev \in Blocks /\ rank[prev] < rank[b[1]]
    OBVIOUS
  <2>1. <<prev, b[2]>> \in F /\ p.header[prev].next = b[1]
    BY <1>2 DEF Linked
  <2>2. b[1] # OURNULL
    BY <1>1, <1>3
  <2> QED
    BY <1>3, <1>4, <2>1, <2>2
<1> QED
  BY <1>1, <1>3, <1>5, <1>6

(* The links of a free block are what the functions test them for.         *)
LEMMA FreeBlocksIntact ==
  ASSUME PoolIs, NEW p, NEW F, Lists(p, F), NEW b \in F
  PROVE  Intact(p, b[1], b[2])
<1> DEFINE prev == p.header[b[1]].prev
           next == p.header[b[1]].next
<1>1. p \in PoolType /\ Apart(F) /\ Written(p, F) /\ Linked(p, F)
  BY DEF Lists
<1>2. \A c \in F : /\ c[1] \in Blocks /\ c[2] \in Sizes /\ c = <<c[1], c[2]>>
                   /\ c[1] + 2^c[2] \in 1..poolBlocks
  BY <1>1, BlockType, BlockInPool DEF Apart
<1>3. \A c \in F : p.header[c[1]] # Junk
  BY <1>1, <1>2 DEF Written
<1>4. p.trailer[b[1] + 2^b[2]] = b[2]
  <2> DEFINE past == b[1] + 2^b[2]
  <2>1. past - 2^b[2] = b[1]
    <3>1. b[1] \in Nat /\ 2^b[2] \in Nat
      BY <1>1, BlockType DEF Apart
    <3> QED
      BY <3>1
  <2>2. <<past - 2^b[2], b[2]>> \in F
    BY <1>2, <2>1
  <2>3. past \in 1..poolBlocks
    BY <1>2
  <2> HIDE DEF past
  <2>4. p.trailer[past] = b[2]
    BY <1>1, <1>2, <2>2, <2>3 DEF Written
  <2> QED
    BY <2>4 DEF past
<1>5. prev # OURNULL => prev \in Blocks /\ p.header[prev] # Junk /\ p.header[prev].next = b[1]
  <2>1. prev # OURNULL => <<prev, b[2]>> \in F /\ p.header[prev].next = b[1]
    BY <1>1 DEF Linked
  <2> QED
    BY <1>2, <1>3, <2>1
<1>6. next # OURNULL => next \in Blocks /\ p.header[next] # Junk /\ p.header[next].prev = b[1]
  <2>1. next # OURNULL => <<next, b[2]>> \in F /\ p.header[next].prev = b[1]
    BY <1>1 DEF Linked
  <2> QED
    BY <1>2, <1>3, <2>1
<1> QED
  BY <1>2, <1>3, <1>4, <1>5, <1>6 DEF Intact

(* A block leaves the list of its size.                                    *)
LEMMA UnlinkKeepsLists ==
  ASSUME PoolIs, NEW p, NEW F, Lists(p, F), NEW n \in F
  PROVE  /\ Lists(Unlink(p, n[1], n[2]), F \ {n})
         /\ Unlink(p, n[1], n[2]).map = p.map
         /\ Unlink(p, n[1], n[2]).freeBytes = p.freeBytes
<1> DEFINE o == n[1]
           k == n[2]
           G == F \ {n}
           prev == p.header[o].prev
           next == p.header[o].next
           h(b) == IF b = o THEN Junk
                   ELSE IF b = prev THEN [p.header[b] EXCEPT !.next = next]
                   ELSE IF b = next THEN [p.header[b] EXCEPT !.prev = prev] ELSE p.header[b]
           q == Unlink(p, o, k)
           e == o + 2^k
<1>1. /\ OURNULL \notin Blocks /\ Blocks \subseteq Nat
      /\ Junk \notin Sizes /\ Junk \notin LinksType
  BY Distinct
<1>2. p \in PoolType /\ Apart(F) /\ Written(p, F) /\ Linked(p, F) /\ Ordered(p, F)
  BY DEF Lists
<1>3. \A b \in F : /\ b \in AllBlocks /\ b[1] \in Blocks /\ b[2] \in Sizes /\ b = <<b[1], b[2]>>
                   /\ b[1] + 2^b[2] \in 1..poolBlocks
  BY <1>2, BlockType, BlockInPool DEF Apart
<1>4. n = <<o, k>> /\ o \in Blocks /\ k \in Sizes /\ e \in 1..poolBlocks
  BY <1>3
<1>5. \A b \in G : b \in F /\ b # n /\ b[1] # o /\ b[1] + 2^b[2] # e
  BY <1>2, ApartEnds
<1>6. \A b \in F : p.header[b[1]] \in LinksType
  <2> SUFFICES ASSUME NEW b \in F
               PROVE  p.header[b[1]] \in LinksType
    OBVIOUS
  <2>1. p.header[b[1]] # Junk
    BY <1>2, <1>3 DEF Written
  <2> QED
    BY <1>2, <1>3, <2>1 DEF PoolType
<1>7. /\ prev \in Offsets /\ next \in Offsets
      /\ prev = OURNULL => p.freeList[k] = o
      /\ prev # OURNULL => <<prev, k>> \in F /\ p.header[prev].next = o
      /\ next # OURNULL => <<next, k>> \in F /\ p.header[next].prev = o
  BY <1>2, <1>4, <1>6 DEF Linked, LinksType
<1>8. prev # o /\ next # o /\ (prev # OURNULL => prev # next)
  BY NeighboursDistinct
<1>9. /\ prev # OURNULL => <<prev, k>> \in G
      /\ next # OURNULL => <<next, k>> \in G
  BY <1>4, <1>7, <1>8
<1>10. /\ q.map = p.map /\ q.freeBytes = p.freeBytes
       /\ q.freeList = [p.freeList EXCEPT ![k] = IF prev = OURNULL THEN next ELSE @]
       /\ q.header = [b \in Blocks |-> h(b)]
       /\ q.trailer = [p.trailer EXCEPT ![e] = Junk]
  BY <1>2 DEF Unlink, PoolType
<1>11. \A b \in Blocks : h(b) \in LinksType \cup {Junk}
  <2>1. ASSUME NEW b \in Blocks, b = prev, b # o
        PROVE  h(b) \in LinksType
    <3>1. p.header[b] \in LinksType
      BY <1>1, <1>6, <1>7, <2>1
    <3> QED
      BY <1>7, <2>1, <3>1 DEF LinksType
  <2>2. ASSUME NEW b \in Blocks, b = next, b # o, b # prev
        PROVE  h(b) \in LinksType
    <3>1. p.header[b] \in LinksType
      BY <1>1, <1>6, <1>7, <2>2
    <3> QED
      BY <1>7, <2>2, <3>1 DEF LinksType
  <2>3. ASSUME NEW b \in Blocks, b # next, b # o, b # prev
        PROVE  h(b) \in LinksType \cup {Junk}
    BY <1>2, <2>3 DEF PoolType
  <2>4. h(o) = Junk
    OBVIOUS
  <2> HIDE DEF h
  <2> QED
    BY <2>1, <2>2, <2>3, <2>4
<1>12. q \in PoolType
  <2>1. [b \in Blocks |-> h(b)] \in [Blocks -> LinksType \cup {Junk}]
    BY <1>11
  <2>2. q = [p EXCEPT !.freeList = [p.freeList EXCEPT ![k] = IF prev = OURNULL THEN next ELSE @],
                      !.header = [b \in Blocks |-> h(b)],
                      !.trailer = [p.trailer EXCEPT ![e] = Junk]]
    BY <1>2 DEF Unlink, PoolType
  <2> HIDE DEF h, q
  <2> QED
    BY <1>2, <1>4, <1>7, <2>1, <2>2 DEF PoolType
<1>13. Apart(G)
  BY <1>2 DEF Apart
<1>14. /\ q.header[o] = Junk
       /\ \A b \in G :
            /\ q.header[b[1]] \in LinksType
            /\ q.header[b[1]].next = IF b[1] = prev THEN next ELSE p.header[b[1]].next
            /\ q.header[b[1]].prev = IF b[1] = next THEN prev ELSE p.header[b[1]].prev
  <2>1. q.header[o] = Junk
    BY <1>4, <1>10
  <2>2. ASSUME NEW b \in G
        PROVE  /\ q.header[b[1]] \in LinksType
               /\ q.header[b[1]].next = IF b[1] = prev THEN next ELSE p.header[b[1]].next
               /\ q.header[b[1]].prev = IF b[1] = next THEN prev ELSE p.header[b[1]].prev
    <3>1. b[1] # o /\ b[1] \in Blocks /\ p.header[b[1]] \in LinksType /\ b[1] # OURNULL
      BY <1>1, <1>3, <1>5, <1>6
    <3>2. q.header[b[1]] = h(b[1])
      BY <1>10, <3>1
    <3>3. b[1] = prev => b[1] # next
      BY <1>8, <3>1
    <3> QED
      BY <1>7, <3>1, <3>2, <3>3 DEF LinksType
  <2> QED
    BY <2>1, <2>2
<1>15. Written(q, G)
  <2>1. ASSUME NEW b \in Blocks
        PROVE  q.header[b] # Junk <=> \E l \in Sizes : <<b, l>> \in G
    <3>1. CASE b = o
      BY <1>5, <1>14, <3>1
    <3>2. CASE b # o
      <4>1. \A l \in Sizes : <<b, l>> \in G <=> <<b, l>> \in F
        BY <1>4, <3>2
      <4>2. ASSUME NEW l \in Sizes, <<b, l>> \in F
            PROVE  q.header[b] # Junk
        BY <1>1, <1>14, <4>1, <4>2
      <4>3. ASSUME \A l \in Sizes : <<b, l>> \notin F
            PROVE  q.header[b] = Junk
        <5>1. p.header[b] = Junk
          BY <1>2, <4>3 DEF Written
        <5>2. b # prev /\ b # next
          BY <1>1, <1>4, <1>7, <4>3
        <5> QED
          BY <1>10, <3>2, <5>1, <5>2
      <4> QED
        BY <4>1, <4>2, <4>3
    <3> QED
      BY <3>1, <3>2
  <2>2. ASSUME NEW past \in 1..poolBlocks, NEW l \in Sizes
        PROVE  q.trailer[past] = l <=> <<past - 2^l, l>> \in G
    <3>1. CASE past = e
      <4>1. q.trailer[e] = Junk
        BY <1>2, <1>4, <1>10 DEF PoolType
      <4>2. <<e - 2^l, l>> \notin G
        <5>1. 2^l \in Nat /\ e \in Nat
          BY <1>4, SizesNat
        <5>2. (e - 2^l) + 2^l = e
          BY <5>1
        <5> QED
          BY <1>5, <5>2
      <4> QED
        BY <1>1, <3>1, <4>1, <4>2
    <3>2. CASE past # e
      <4>1. q.trailer[past] = p.trailer[past]
        BY <1>2, <1>10, <3>2 DEF PoolType
      <4>2. <<past - 2^l, l>> # n
        <5>1. 2^l \in Nat /\ past \in Nat
          BY SizesNat
        <5>2. (past - 2^l) + 2^l = past
          BY <5>1
        <5> QED
          BY <1>4, <3>2, <5>2
      <4> QED
        BY <1>2, <4>1, <4>2 DEF Written
    <3> QED
      BY <3>1, <3>2
  <2> QED
    BY <2>1, <2>2 DEF Written
<1>16. Linked(q, G)
  <2>1. ASSUME NEW l \in Sizes, q.freeList[l] # OURNULL
        PROVE  <<q.freeList[l], l>> \in G /\ q.header[q.freeList[l]].prev = OURNULL
    <3>1. CASE l = k /\ prev = OURNULL
      <4>1. q.freeList[l] = next
        BY <1>2, <1>4, <1>10, <3>1 DEF PoolType
      <4> QED
        BY <1>9, <1>14, <2>1, <3>1, <4>1
    <3>2. CASE ~(l = k /\ prev = OURNULL)
      <4>1. q.freeList[l] = p.freeList[l]
        BY <1>2, <1>4, <1>10, <3>2 DEF PoolType
      <4> DEFINE b == <<p.freeList[l], l>>
      <4>2. b \in F /\ p.header[b[1]].prev = OURNULL /\ b[2] = l
        BY <1>2, <2>1, <4>1 DEF Linked
      <4>3. b # n
        BY <3>2, <4>2
      <4>4. b[1] # next
        <5> SUFFICES ASSUME b[1] = next
                     PROVE  FALSE
          OBVIOUS
        <5>1. next # OURNULL /\ p.header[next].prev = o
          BY <1>1, <1>3, <1>7, <4>2
        <5> QED
          BY <1>1, <1>4, <4>2, <5>1
      <4> QED
        BY <1>14, <4>1, <4>2, <4>3, <4>4
    <3> QED
      BY <3>1, <3>2
  <2>2. ASSUME NEW b \in G
        PROVE  LET pr == q.header[b[1]].prev
                   nx == q.header[b[1]].next
               IN  /\ pr = OURNULL => q.freeList[b[2]] = b[1]
                   /\ pr # OURNULL => <<pr, b[2]>> \in G /\ q.header[pr].next = b[1]
                   /\ nx # OURNULL => <<nx, b[2]>> \in G /\ q.header[nx].prev = b[1]
    <3> DEFINE pr == p.header[b[1]].prev
               nx == p.header[b[1]].next
    <3>1. /\ pr = OURNULL => p.freeList[b[2]] = b[1]
          /\ pr # OURNULL => <<pr, b[2]>> \in F /\ p.header[pr].next = b[1]
          /\ nx # OURNULL => <<nx, b[2]>> \in F /\ p.header[nx].prev = b[1]
      BY <1>2 DEF Linked
    <3>2. /\ b \in F /\ b # n /\ b[1] # o /\ b[1] # OURNULL /\ b = <<b[1], b[2]>>
          /\ b[2] \in Sizes
      BY <1>1, <1>3, <1>5
    <3>3. nx # OURNULL /\ b[1] # prev => <<nx, b[2]>> \in G /\ nx # next
      <4> SUFFICES ASSUME nx # OURNULL, b[1] # prev
                   PROVE  <<nx, b[2]>> \in G /\ nx # next
        OBVIOUS
      <4>1. <<nx, b[2]>> \in F /\ p.header[nx].prev = b[1]
        BY <3>1
      <4>2. nx # o
        BY <4>1
      <4>3. nx # next
        BY <1>7, <3>2, <4>1
      <4> QED
        BY <1>4, <4>1, <4>2, <4>3
    <3>4. pr # OURNULL /\ b[1] # next => <<pr, b[2]>> \in G /\ pr # prev
      <4> SUFFICES ASSUME pr # OURNULL, b[1] # next
                   PROVE  <<pr, b[2]>> \in G /\ pr # prev
        OBVIOUS
      <4>1. <<pr, b[2]>> \in F /\ p.header[pr].next = b[1]
        BY <3>1
      <4>2. pr # o
        BY <4>1
      <4>3. pr # prev
        BY <1>7, <3>2, <4>1
      <4> QED
        BY <1>4, <4>1, <4>2, <4>3
    <3>5. b[1] = prev => b[2] = k
      <4> SUFFICES ASSUME b[1] = prev
                   PROVE  b[2] = k
        OBVIOUS
      <4>1. <<prev, k>> \in F
        BY <1>7, <3>2
      <4>2. <<prev, k>> = b
        BY <1>2, <3>2, <4>1, ApartEnds
      <4> QED
        BY <3>2, <4>2
    <3>6. b[1] = next => b[2] = k
      <4> SUFFICES ASSUME b[1] = next
                   PROVE  b[2] = k
        OBVIOUS
      <4>1. <<next, k>> \in F
        BY <1>7, <3>2
      <4>2. <<next, k>> = b
        BY <1>2, <3>2, <4>1, ApartEnds
      <4> QED
        BY <3>2, <4>2
    <3>7. LET nxt == q.header[b[1]].next
          IN  nxt # OURNULL => <<nxt, b[2]>> \in G /\ q.header[nxt].prev = b[1]
      <4>1. CASE b[1] = prev
        <5>1. q.header[b[1]].next = next /\ b[2] = k
          BY <1>14, <3>5, <4>1
        <5>2. next # OURNULL => q.header[next].prev = prev
          BY <1>9, <1>14
        <5> QED
          BY <1>9, <4>1, <5>1, <5>2
      <4>2. CASE b[1] # prev
        <5>1. q.header[b[1]].next = nx
          BY <1>14, <4>2
        <5>2. nx # OURNULL => q.header[nx].prev = p.header[nx].prev
          BY <1>14, <3>3, <4>2
        <5> QED
          BY <3>1, <3>3, <4>2, <5>1, <5>2
      <4> QED
        BY <4>1, <4>2
    <3>8. LET prv == q.header[b[1]].prev
          IN  prv # OURNULL => <<prv, b[2]>> \in G /\ q.header[prv].next = b[1]
      <4>1. CASE b[1] = next
        <5>1. q.header[b[1]].prev = prev /\ b[2] = k
          BY <1>14, <3>6, <4>1
        <5>2. prev # OURNULL => q.header[prev].next = next
          BY <1>9, <1>14
        <5> QED
          BY <1>9, <4>1, <5>1, <5>2
      <4>2. CASE b[1] # next
        <5>1. q.header[b[1]].prev = pr
          BY <1>14, <4>2
        <5>2. pr # OURNULL => q.header[pr].next = p.header[pr].next
          BY <1>14, <3>4, <4>2
        <5> QED
          BY <3>1, <3>4, <4>2, <5>1, <5>2
      <4> QED
        BY <4>1, <4>2
    <3>9. q.header[b[1]].prev = OURNULL => q.freeList[b[2]] = b[1]
      <4> SUFFICES ASSUME q.header[b[1]].prev = OURNULL
                   PROVE  q.freeList[b[2]] = b[1]
        OBVIOUS
      <4>1. CASE b[1] = next
        <5>1. prev = OURNULL
          BY <1>14, <4>1
        <5>2. q.freeList[k] = next
          BY <1>2, <1>4, <1>10, <5>1 DEF PoolType
        <5> QED
          BY <3>6, <4>1, <5>2
      <4>2. CASE b[1] # next
        <5>1. p.freeList[b[2]] = b[1]
          BY <1>14, <3>1, <4>2
        <5>2. ~(b[2] = k /\ prev = OURNULL)
          BY <1>7, <3>2, <5>1
        <5>3. p.freeList \in [Sizes -> Offsets] /\ b[2] \in Sizes
          BY <1>2, <3>2 DEF PoolType
        <5>4. q.freeList[b[2]] = p.freeList[b[2]]
          BY ONLY <1>10, <5>2, <5>3
        <5> QED
          BY <5>1, <5>4
      <4> QED
        BY <4>1, <4>2
    <3> HIDE DEF q, G
    <3> QED
      BY <3>7, <3>8, <3>9
  <2> HIDE DEF q, G
  <2> QED
    BY <2>1, <2>2 DEF Linked
<1>17. Ordered(q, G)
  <2>1. PICK rank \in [Blocks -> Int], low \in Int :
          /\ \A c \in Blocks : low < rank[c]
          /\ \A b \in F : LET nxt == p.header[b[1]].next
                          IN  nxt # OURNULL => rank[b[1]] < rank[nxt]
    BY <1>2 DEF Ordered
  <2>2. ASSUME NEW b \in G, q.header[b[1]].next # OURNULL
        PROVE  rank[b[1]] < rank[q.header[b[1]].next]
    <3>1. CASE b[1] = prev
      <4>1. q.header[b[1]].next = next /\ next # OURNULL
        BY <1>14, <2>2, <3>1
      <4>2. next \in Blocks /\ prev \in Blocks /\ o \in Blocks /\ prev # OURNULL
        BY <1>1, <1>3, <1>4, <1>7, <3>1, <4>1
      <4>3. rank[o] < rank[next]
        BY <2>1, <4>1
      <4>4. rank[prev] < rank[o]
        <5>1. o # OURNULL /\ <<prev, k>> \in F /\ p.header[prev].next = o
          BY <1>1, <1>4, <1>7, <4>2
        <5> QED
          BY <2>1, <5>1
      <4>5. rank[next] \in Int /\ rank[prev] \in Int /\ rank[o] \in Int
        BY <4>2
      <4> QED
        BY <3>1, <4>1, <4>3, <4>4, <4>5
    <3>2. CASE b[1] # prev
      BY <1>5, <1>14, <2>1, <2>2, <3>2
    <3> QED
      BY <3>1, <3>2
  <2> HIDE DEF q, G
  <2> QED
    BY <2>1, <2>2 DEF Ordered
<1> QED
  BY <1>10, <1>12, <1>13, <1>15, <1>16, <1>17 DEF Lists

(* The bit map and the count of free bytes are not part of the lists.      *)
LEMMA ListsElsewhere ==
  ASSUME NEW p, NEW F, Lists(p, F), NEW m \in SUBSET Blocks, NEW x \in Int
  PROVE  Lists([p EXCEPT !.map = m, !.freeBytes = x], F)
<1> DEFINE q == [p EXCEPT !.map = m, !.freeBytes = x]
<1>1. p \in PoolType /\ Apart(F) /\ Written(p, F) /\ Linked(p, F) /\ Ordered(p, F)
  BY DEF Lists
<1>2. q \in PoolType
  BY <1>1 DEF PoolType
<1>3. q.header = p.header /\ q.trailer = p.trailer /\ q.freeList = p.freeList
  BY <1>1 DEF PoolType
<1> HIDE DEF q
<1>4. Written(q, F)
  BY <1>1, <1>3 DEF Written
<1>5. Linked(q, F)
  <2>1. \A k \in Sizes : q.freeList[k] # OURNULL =>
          <<q.freeList[k], k>> \in F /\ q.header[q.freeList[k]].prev = OURNULL
    BY ONLY <1>1, <1>3 DEF Linked
  <2>2. ASSUME NEW b \in F
        PROVE  LET prev == q.header[b[1]].prev
                   next == q.header[b[1]].next
               IN  /\ prev = OURNULL => q.freeList[b[2]] = b[1]
                   /\ prev # OURNULL => <<prev, b[2]>> \in F /\ q.header[prev].next = b[1]
                   /\ next # OURNULL => <<next, b[2]>> \in F /\ q.header[next].prev = b[1]
    BY ONLY <1>1, <1>3, <2>2 DEF Linked
  <2> QED
    BY ONLY <2>1, <2>2 DEF Linked
<1>6. Ordered(q, F)
  BY <1>1, <1>3 DEF Ordered
<1> QED
  BY <1>1, <1>2, <1>4, <1>5, <1>6 DEF Lists, q

LEMMA MakeFreeKeepsLists ==
  ASSUME PoolIs, NEW p, NEW F, Lists(p, F), NEW o, NEW k,
         <<o, k>> \in AllBlocks, Units(<<o, k>>) \subseteq Blocks,
         \A b \in F : Units(<<o, k>>) \cap Units(b) = {}
  PROVE  /\ Lists(MakeFree(p, o, k), F \cup {<<o, k>>})
         /\ MakeFree(p, o, k).map = p.map
         /\ MakeFree(p, o, k).freeBytes = p.freeBytes + 2^k
<1> DEFINE q == Link(p, o, k)
<1>1. Lists(q, F \cup {<<o, k>>}) /\ q.map = p.map /\ q.freeBytes = p.freeBytes
  BY LinkKeepsLists
<1>2. q \in PoolType /\ 2^k \in Int
  <2>1. <<o, k>>[2] \in Sizes
    BY BlockType
  <2> QED
    BY <1>1, <2>1, SizesNat DEF Lists
<1> DEFINE r == MakeFree(p, o, k)
           x == q.freeBytes + 2^k
           m == q.map
<1>3. r = [q EXCEPT !.freeBytes = x]
  BY DEF MakeFree
<1> HIDE DEF q, r
<1>4. m \in SUBSET Blocks /\ x \in Int
  BY <1>2 DEF PoolType
<1> HIDE DEF x
<1>5. r = [q EXCEPT !.map = m, !.freeBytes = x] /\ r.map = m /\ r.freeBytes = x
  BY <1>2, <1>3 DEF PoolType
<1> HIDE DEF m
<1>6. Lists([q EXCEPT !.map = m, !.freeBytes = x], F \cup {<<o, k>>})
  BY <1>1, <1>4, ListsElsewhere
<1> QED
  BY <1>1, <1>5, <1>6 DEF r, m, x

-----------------------------------------------------------------------------
(* toFree *)

UnitsOf(F) == UNION {Units(b) : b \in F}

LEMMA PiecesAreMaximal ==
  ASSUME NEW first \in Nat, NEW past \in Nat
  PROVE  Pieces(first, past) = Maximal(first..(past - 1))
<1> DEFINE R == first..(past - 1)
<1>1. ASSUME NEW b \in AllBlocks
      PROVE  b \in Fits(first, past) <=> Units(b) \subseteq R
  <2> DEFINE o == b[1]
             n == 2^b[2]
  <2>1. /\ o \in Nat /\ n \in Nat \ {0} /\ Units(b) = o..(o + n - 1)
        /\ b[2] \in Sizes /\ b = <<o, b[2]>> /\ o % n = 0
    BY BlockType
  <2>2. b \in Fits(first, past) <=> o \in R /\ o + n <= past
    BY <2>1 DEF Fits
  <2> HIDE DEF o, n
  <2>3. Units(b) \subseteq R <=> o \in R /\ o + n <= past
    <3>1. o \in Units(b) /\ o + n - 1 \in Units(b)
      BY <2>1
    <3> QED
      BY <2>1, <3>1
  <2> QED
    BY <2>2, <2>3
<1>2. Fits(first, past) \subseteq AllBlocks
  BY DEF Fits, AllBlocks
<1>3. \A b : Extent(b[1], b[2]) = Units(b)
  BY DEF Units
<1> HIDE DEF R
<1>4. ASSUME NEW b \in Pieces(first, past)
      PROVE  b \in Maximal(R)
  <2>1. /\ b \in Fits(first, past)
        /\ \A c \in Fits(first, past) : Units(b) \subseteq Units(c) => c = b
    BY <1>3, <1>4 DEF Pieces
  <2> QED
    BY <1>1, <1>2, <2>1 DEF Maximal
<1>5. ASSUME NEW b \in Maximal(R)
      PROVE  b \in Pieces(first, past)
  <2>1. /\ b \in Fits(first, past)
        /\ \A c \in Fits(first, past) : Units(b) \subseteq Units(c) => c = b
    BY <1>1, <1>2, <1>5 DEF Maximal
  <2> QED
    BY <1>3, <2>1 DEF Pieces
<1> QED
  BY <1>4, <1>5 DEF R

(* One step of the loop: the piece that begins at i - 1, if there is one.  *)
FreeAt(q, i, first, past) ==
  IF \E k \in Sizes : <<i - 1, k>> \in Pieces(first, past)
  THEN MakeFree(q, i - 1, CHOOSE k \in Sizes : <<i - 1, k>> \in Pieces(first, past))
  ELSE q

IsFreed(f, p, first, past, n) ==
  f = [i \in first..n |-> IF i = first THEN p ELSE FreeAt(f[i - 1], i, first, past)]

LEMMA ToFreeIs ==
  ASSUME NEW p, NEW first, NEW past
  PROVE  ToFree(p, first, past) = (CHOOSE f : IsFreed(f, p, first, past, past))[past]
BY DEF ToFree, IsFreed, FreeAt

LEMMA FreedExists ==
  ASSUME NEW p, NEW first \in Nat, NEW past \in Nat, first <= past
  PROVE  \E f : IsFreed(f, p, first, past, past)
<1> DEFINE S == {n \in Nat : \E f : IsFreed(f, p, first, past, n)}
<1>1. first \in S
  <2> DEFINE f == [i \in first..first |-> p]
  <2>1. \A i \in first..first : i = first
    OBVIOUS
  <2>2. IsFreed(f, p, first, past, first)
    BY <2>1 DEF IsFreed
  <2> QED
    BY <2>2
<1>2. ASSUME NEW n \in first..(past - 1), n \in S
      PROVE  n + 1 \in S
  <2>1. PICK f : IsFreed(f, p, first, past, n)
    BY <1>2
  <2> DEFINE g == [i \in first..(n + 1) |-> IF i = first THEN p ELSE FreeAt(f[i - 1], i, first, past)]
  <2>2. \A i \in first..n : f[i] = g[i]
    <3>1. \A i \in first..n : f[i] = IF i = first THEN p ELSE FreeAt(f[i - 1], i, first, past)
      BY <2>1 DEF IsFreed
    <3>2. \A i \in first..n : i \in first..(n + 1)
      OBVIOUS
    <3> QED
      BY <3>1, <3>2
  <2>3. ASSUME NEW i \in first..(n + 1), i # first
        PROVE  f[i - 1] = g[i - 1]
    <3>1. i - 1 \in first..n
      BY <2>3
    <3> QED
      BY <2>2, <3>1
  <2>4. g = [i \in first..(n + 1) |-> IF i = first THEN p ELSE FreeAt(g[i - 1], i, first, past)]
    BY <2>3
  <2> HIDE DEF g
  <2>5. IsFreed(g, p, first, past, n + 1)
    BY <2>4 DEF IsFreed
  <2>6. n + 1 \in Nat
    OBVIOUS
  <2> QED
    BY <2>5, <2>6
<1>3. first..past \subseteq S
  <2> HIDE DEF S
  <2> QED
    BY <1>1, <1>2, IntervalInduction
<1>4. past \in S
  <2> HIDE DEF S
  <2> QED
    BY <1>3
<1> QED
  BY <1>4

LEMMA UnitsCounted ==
  ASSUME NEW b \in AllBlocks
  PROVE  IsFiniteSet(Units(b)) /\ Cardinality(Units(b)) = 2^b[2]
<1> DEFINE o == b[1]
           n == 2^b[2]
<1>1. o \in Nat /\ n \in Nat \ {0} /\ Units(b) = o..(o + n - 1)
  BY BlockType
<1> HIDE DEF o, n
<1>2. o + n - 1 \in Int /\ o \in Int
  BY <1>1
<1>3. IsFiniteSet(Units(b)) /\ Cardinality(Units(b)) = IF o > o + n - 1 THEN 0 ELSE (o + n - 1) - o + 1
  BY <1>1, <1>2, FS_Interval
<1>4. Cardinality(Units(b)) = n
  BY <1>1, <1>3
<1> QED
  BY <1>3, <1>4 DEF n

(* The range goes to the lists as its largest blocks, and is counted.      *)
LEMMA ToFreeFrees ==
  ASSUME PoolIs, NEW p, NEW F, Lists(p, F), NEW first \in Nat, NEW past \in Nat,
         first <= past, past <= poolBlocks,
         NEW R, R = first..(past - 1), \A b \in F : Units(b) \cap R = {},
         NEW G, G = F \cup Maximal(R)
  PROVE  /\ Lists(ToFree(p, first, past), G)
         /\ ToFree(p, first, past).map = p.map
         /\ ToFree(p, first, past).freeBytes = p.freeBytes + Cardinality(R)
<1> DEFINE P(i) == {b \in Maximal(R) : b[1] < i}
           Good(q, i) == /\ Lists(q, F \cup P(i))
                         /\ q.map = p.map
                         /\ q.freeBytes = p.freeBytes + Cardinality(UnitsOf(P(i)))
<1>1. IsFiniteSet(R) /\ R \subseteq Nat /\ R \subseteq Blocks
  <2>1. R \subseteq Nat /\ R \subseteq Blocks
    BY DEF Blocks, PoolIs
  <2>2. first \in Int /\ past - 1 \in Int
    OBVIOUS
  <2> QED
    BY <2>1, <2>2, FS_Interval
<1>2. \A b \in Maximal(R) : /\ b \in AllBlocks /\ Units(b) \subseteq R
                            /\ b[1] \in Units(b) /\ b = <<b[1], b[2]>> /\ b[2] \in Sizes
                            /\ b[1] \in Nat
  <2> SUFFICES ASSUME NEW b \in Maximal(R)
               PROVE  /\ b \in AllBlocks /\ Units(b) \subseteq R
                      /\ b[1] \in Units(b) /\ b = <<b[1], b[2]>> /\ b[2] \in Sizes
                      /\ b[1] \in Nat
    OBVIOUS
  <2>1. b \in AllBlocks /\ Units(b) \subseteq R
    BY MaximalBlocks
  <2> QED
    BY ONLY <2>1, BlockType
<1>3. \A i : UnitsOf(P(i)) \subseteq R /\ IsFiniteSet(UnitsOf(P(i)))
  <2>1. \A i : UnitsOf(P(i)) \subseteq R
    BY <1>2 DEF UnitsOf
  <2> HIDE DEF P
  <2> QED
    BY <1>1, <2>1, FS_Subset
<1>4. PICK f : IsFreed(f, p, first, past, past)
  BY FreedExists
<1>5. f = [i \in first..past |-> IF i = first THEN p ELSE FreeAt(f[i - 1], i, first, past)]
  BY <1>4 DEF IsFreed
<1> DEFINE S == {i \in first..past : Good(f[i], i)}
<1>6. first \in S
  <2>1. P(first) = {}
    <3> SUFFICES ASSUME NEW b \in Maximal(R), b[1] < first
                 PROVE  FALSE
      OBVIOUS
    <3>1. b[1] \in first..(past - 1)
      BY <1>2
    <3> QED
      BY <3>1
  <2>2. f[first] = p
    BY <1>5
  <2>3. Cardinality(UnitsOf(P(first))) = 0
    <3>1. UnitsOf(P(first)) = {}
      BY <2>1 DEF UnitsOf
    <3> QED
      BY <3>1, FS_EmptySet
  <2>4. p.freeBytes \in Int
    BY DEF Lists, PoolType
  <2>5. F \cup P(first) = F
    BY <2>1
  <2>6. Good(f[first], first)
    <3>1. p.freeBytes = p.freeBytes + Cardinality(UnitsOf(P(first)))
      BY <2>3, <2>4
    <3> HIDE DEF P
    <3> QED
      BY <2>2, <2>5, <3>1
  <2> HIDE DEF Good
  <2> QED
    BY <2>6
<1>7. ASSUME NEW n \in first..(past - 1), n \in S
      PROVE  n + 1 \in S
  <2> DEFINE q == f[n]
             i == n + 1
  <2>1. Good(q, n)
    BY <1>7
  <2>2. f[i] = FreeAt(q, i, first, past) /\ i \in first..past /\ i - 1 = n
    <3>1. n + 1 \in first..past /\ n + 1 # first /\ n + 1 - 1 = n
      OBVIOUS
    <3> QED
      BY <1>5, <3>1
  <2>3. Pieces(first, past) = Maximal(R)
    BY PiecesAreMaximal
  <2>4. CASE \E k \in Sizes : <<n, k>> \in Maximal(R)
    <3> DEFINE k == CHOOSE k \in Sizes : <<n, k>> \in Maximal(R)
               b == <<n, k>>
    <3>1. k \in Sizes /\ b \in Maximal(R)
      BY <2>4
    <3>2. f[i] = MakeFree(q, n, k)
      BY <2>2, <2>3, <2>4 DEF FreeAt
    <3> HIDE DEF k
    <3>3. b \in AllBlocks /\ Units(b) \subseteq R /\ b[1] = n /\ b[2] = k
      BY <1>2, <3>1
    <3>4. P(i) = P(n) \cup {b}
      <4>1. ASSUME NEW c \in P(i), c \notin P(n)
            PROVE  c = b
        <5>1. c \in Maximal(R) /\ c[1] = n
          BY <1>2, <4>1
        <5>2. n \in Units(c) /\ n \in Units(b)
          BY <1>2, <3>1, <3>3, <5>1
        <5> QED
          BY <3>1, <5>1, <5>2, MaximalDisjoint
      <4>2. P(n) \subseteq P(i) /\ b \in P(i)
        BY <1>2, <3>1, <3>3
      <4> QED
        BY <4>1, <4>2
    <3>5. \A c \in F \cup P(n) : Units(b) \cap Units(c) = {}
      <4>1. ASSUME NEW c \in F
            PROVE  Units(b) \cap Units(c) = {}
        BY <3>3 DEF UnitsOf
      <4>2. ASSUME NEW c \in P(n)
            PROVE  Units(b) \cap Units(c) = {}
        <5>1. c \in Maximal(R) /\ c # b
          BY <3>3
        <5> QED
          BY <3>1, <5>1, MaximalDisjoint
      <4> QED
        BY <4>1, <4>2
    <3>6. /\ Lists(MakeFree(q, n, k), (F \cup P(n)) \cup {b})
          /\ MakeFree(q, n, k).map = q.map
          /\ MakeFree(q, n, k).freeBytes = q.freeBytes + 2^k
      <4>1. Units(b) \subseteq Blocks
        BY <1>1, <3>3
      <4> DEFINE H == F \cup P(n)
      <4>2. Lists(q, H) /\ <<n, k>> \in AllBlocks /\ \A c \in H : Units(<<n, k>>) \cap Units(c) = {}
        BY <2>1, <3>3, <3>5
      <4> HIDE DEF P, q, H
      <4>3. /\ Lists(MakeFree(q, n, k), H \cup {<<n, k>>})
            /\ MakeFree(q, n, k).map = q.map
            /\ MakeFree(q, n, k).freeBytes = q.freeBytes + 2^k
        BY ONLY PoolIs, <4>1, <4>2, MakeFreeKeepsLists
      <4> QED
        BY <4>3 DEF H
    <3>7. Cardinality(UnitsOf(P(i))) = Cardinality(UnitsOf(P(n))) + 2^k
      <4> DEFINE A == UnitsOf(P(n))
                 B == Units(b)
      <4>1. UnitsOf(P(i)) = A \cup B
        <5> HIDE DEF P
        <5> QED
          BY <3>4 DEF UnitsOf
      <4>2. A \cap B = {}
        <5> HIDE DEF P, b
        <5> QED
          BY <3>5 DEF UnitsOf
      <4>3. IsFiniteSet(A) /\ IsFiniteSet(B) /\ Cardinality(B) = 2^k
        BY <1>3, <3>3, UnitsCounted
      <4> HIDE DEF A, B
      <4>4. Cardinality(A \cup B) = Cardinality(A) + Cardinality(B) - Cardinality(A \cap B)
        BY <4>3, FS_Union
      <4>5. Cardinality(A \cap B) = 0 /\ Cardinality(A) \in Nat /\ Cardinality(B) \in Nat
        BY <4>2, <4>3, FS_EmptySet, FS_CardinalityType
      <4>6. Cardinality(UnitsOf(P(i))) = Cardinality(A) + Cardinality(B)
        <5>1. Cardinality(UnitsOf(P(i))) = Cardinality(A \cup B)
          BY <4>1
        <5>2. Cardinality(A \cup B) = Cardinality(A) + Cardinality(B)
          BY <4>4, <4>5
        <5> QED
          BY <5>1, <5>2
      <4> QED
        BY <4>3, <4>6 DEF A
    <3>8. (F \cup P(n)) \cup {b} = F \cup P(i)
      BY <3>4
    <3>9. q.freeBytes + 2^k = p.freeBytes + Cardinality(UnitsOf(P(i)))
      <4> DEFINE A == Cardinality(UnitsOf(P(n)))
                 x == 2^k
      <4>1. A \in Nat /\ x \in Nat /\ p.freeBytes \in Int
        BY <1>3, <3>1, FS_CardinalityType, SizesNat DEF Lists, PoolType
      <4>2. q.freeBytes = p.freeBytes + A /\ Cardinality(UnitsOf(P(i))) = A + x
        BY <2>1, <3>7
      <4> HIDE DEF A, x
      <4>3. q.freeBytes + x = p.freeBytes + Cardinality(UnitsOf(P(i)))
        BY <4>1, <4>2
      <4> QED
        BY <4>3 DEF x
    <3>10. Good(f[i], i)
      <4>1. f[i].map = p.map
        BY <2>1, <3>2, <3>6
      <4> HIDE DEF P, b
      <4> QED
        BY <3>2, <3>6, <3>8, <3>9, <4>1
    <3> HIDE DEF Good
    <3> QED
      BY <2>2, <3>10
  <2>5. CASE ~\E k \in Sizes : <<n, k>> \in Maximal(R)
    <3>1. f[i] = q
      BY <2>2, <2>3, <2>5 DEF FreeAt
    <3>2. P(i) = P(n)
      <4>1. ASSUME NEW b \in P(i)
            PROVE  b[1] < n
        <5>1. b \in Maximal(R) /\ b[1] # n
          BY <1>2, <2>5
        <5> QED
          BY <1>2, <4>1, <5>1
      <4>2. ASSUME NEW b \in P(n)
            PROVE  b[1] < i
        BY <1>2
      <4> QED
        BY <4>1, <4>2
    <3>3. Good(f[i], i)
      <4> HIDE DEF P, q
      <4> QED
        BY <2>1, <3>1, <3>2
    <3> HIDE DEF Good
    <3> QED
      BY <2>2, <3>3
  <2> QED
    BY <2>4, <2>5
<1>8. Good(f[past], past)
  <2> HIDE DEF Good
  <2>1. first \in Int /\ past \in Int /\ past \in first..past
    OBVIOUS
  <2>2. first..past \subseteq S
    <3> HIDE DEF S
    <3> QED
      BY <1>6, <1>7, <2>1, IntervalInduction
  <2> QED
    BY <2>1, <2>2
<1>9. P(past) = Maximal(R)
  <2> SUFFICES ASSUME NEW b \in Maximal(R)
               PROVE  b[1] < past
    OBVIOUS
  <2>1. b[1] \in first..(past - 1)
    BY <1>2
  <2> QED
    BY <2>1
<1>10. UnitsOf(Maximal(R)) = R
  <2>1. ASSUME NEW u \in R
        PROVE  u \in UnitsOf(Maximal(R))
    <3>1. \E b \in Maximal(R) : u \in Units(b)
      BY <1>1, MaximalCovers
    <3> QED
      BY <3>1 DEF UnitsOf
  <2>2. UnitsOf(Maximal(R)) \subseteq R
    BY <1>2 DEF UnitsOf
  <2> QED
    BY <2>1, <2>2
<1>11. ToFree(p, first, past) = f[past]
  <2>1. \A g : IsFreed(g, p, first, past, past) => g = f
    <3> SUFFICES ASSUME NEW g, IsFreed(g, p, first, past, past)
                 PROVE  g = f
      OBVIOUS
    <3>1. g = [i \in first..past |-> IF i = first THEN p ELSE FreeAt(g[i - 1], i, first, past)]
      BY DEF IsFreed
    <3> DEFINE T == {i \in first..past : g[i] = f[i]}
    <3>2. first \in T
      BY <1>5, <3>1
    <3>3. ASSUME NEW n \in first..(past - 1), n \in T
          PROVE  n + 1 \in T
      <4>1. n + 1 \in first..past /\ n + 1 # first /\ n + 1 - 1 = n
        OBVIOUS
      <4>2. g[n + 1] = FreeAt(g[n], n + 1, first, past)
        BY <3>1, <4>1
      <4>3. f[n + 1] = FreeAt(f[n], n + 1, first, past)
        BY <1>5, <4>1
      <4> QED
        BY <3>3, <4>1, <4>2, <4>3
    <3>4. first..past \subseteq T
      <4> HIDE DEF T
      <4>1. first \in Int /\ past \in Int
        OBVIOUS
      <4> QED
        BY <3>2, <3>3, <4>1, IntervalInduction
    <3>5. \A i \in first..past : g[i] = f[i]
      BY <3>4
    <3>6. /\ g = [i \in first..past |-> g[i]]
          /\ f = [i \in first..past |-> f[i]]
      BY <1>5, <3>1
    <3> QED
      BY <3>5, <3>6
  <2>2. (CHOOSE g : IsFreed(g, p, first, past, past)) = f
    BY <1>4, <2>1
  <2> QED
    BY <2>2, ToFreeIs
<1> QED
  <2>1. Good(f[past], past) /\ P(past) = Maximal(R)
    BY <1>8, <1>9
  <2> HIDE DEF P
  <2> QED
    BY <1>10, <1>11, <2>1

-----------------------------------------------------------------------------
(* The pool as a whole *)

Last(b) == b[1] + 2^b[2] - 1

(* What is not in a busy block.                                            *)
Unused(O, B) == O \ UnitsOf(B)

(* The pool p serves the units O, of which the blocks B are busy: the map  *)
(* has a bit for what is not served and for the end of each busy block;    *)
(* the lists hold the largest blocks of the rest, which is counted.        *)
Layout(p, O, B) ==
  /\ O \subseteq Blocks
  /\ Apart(B)
  /\ UnitsOf(B) \subseteq O
  /\ p.map = (Blocks \ O) \cup {Last(b) : b \in B}
  /\ Lists(p, Maximal(Unused(O, B)))
  /\ p.freeBytes = Cardinality(Unused(O, B))

LEMMA BlocksFinite ==
  ASSUME PoolIs, NEW S \in SUBSET Blocks
  PROVE  /\ S \subseteq Nat /\ IsFiniteSet(S) /\ Cardinality(S) \in 0..poolBlocks
<1>1. 0 \in Int /\ poolBlocks - 1 \in Int /\ Blocks \subseteq Nat
  BY DEF PoolIs, Blocks
<1>2. IsFiniteSet(Blocks) /\ Cardinality(Blocks) = IF 0 > poolBlocks - 1 THEN 0 ELSE poolBlocks - 1 - 0 + 1
  BY <1>1, FS_Interval DEF Blocks
<1>3. Cardinality(Blocks) = poolBlocks
  BY <1>2 DEF PoolIs
<1>4. IsFiniteSet(S) /\ Cardinality(S) <= Cardinality(Blocks) /\ Cardinality(S) \in Nat
  BY <1>2, FS_Subset, FS_CardinalityType
<1> QED
  BY <1>1, <1>3, <1>4 DEF PoolIs

LEMMA CountDifference ==
  ASSUME PoolIs, NEW T \in SUBSET Blocks, NEW S \in SUBSET T
  PROVE  Cardinality(T \ S) = Cardinality(T) - Cardinality(S)
<1>1. IsFiniteSet(T) /\ T \cap S = S
  BY BlocksFinite
<1>2. Cardinality(T \ S) = Cardinality(T) - Cardinality(T \cap S)
  BY <1>1, FS_Difference
<1> QED
  BY <1>1, <1>2

LEMMA BusyBlocks ==
  ASSUME PoolIs, NEW p, NEW O, NEW B, Layout(p, O, B), NEW b \in B
  PROVE  /\ b \in AllBlocks /\ Units(b) \subseteq O /\ Units(b) \subseteq Blocks
         /\ Units(b) \cap Unused(O, B) = {}
         /\ Last(b) \in Units(b) /\ Last(b) \in p.map
         /\ \A c \in B : Last(c) = Last(b) => c = b
<1>1. b \in AllBlocks /\ Units(b) \subseteq Blocks
  BY DEF Layout, Apart
<1>2. Units(b) \subseteq UnitsOf(B) /\ UnitsOf(B) \subseteq O
  BY DEF UnitsOf, Layout
<1>3. \A c \in B : Last(c) \in Units(c)
  BY BlockInPool DEF Last, Layout, Apart
<1>4. Last(b) \in p.map
  BY DEF Layout
<1>5. \A c \in B : Last(c) = Last(b) => c = b
  BY <1>3 DEF Layout, Apart
<1> QED
  BY <1>1, <1>2, <1>3, <1>4, <1>5 DEF Unused

(* BuddyAllocSize finds the size of a busy block: no end lies before its.  *)
LEMMA SizeFound ==
  ASSUME PoolIs, NEW p, NEW O, NEW B, Layout(p, O, B), NEW b \in B
  PROVE  Ends(p, b[1]) # {} /\ AllocSize(p, b[1]) = b[2]
<1> DEFINE o == b[1]
           s == b[2]
<1>1. /\ b \in AllBlocks /\ Units(b) \subseteq O /\ Units(b) \subseteq Blocks
      /\ Last(b) \in p.map
  BY BusyBlocks
<1>2. /\ o \in Nat /\ s \in Sizes /\ s \in Nat /\ o % 2^s = 0
      /\ Units(b) = o..(o + 2^s - 1) /\ 2^s \in Nat \ {0}
  BY <1>1, BlockType
<1>3. s \in Ends(p, o)
  <2>1. o + 2^s \in 1..poolBlocks
    BY <1>1, BlockInPool
  <2> QED
    BY <1>1, <1>2, <2>1 DEF Ends, Last, PoolIs
<1>4. ASSUME NEW l \in Ends(p, o)
      PROVE  s <= l
  <2>1. l \in Sizes /\ l \in Nat /\ 2^l \in Nat \ {0} /\ o + 2^l - 1 \in p.map
    BY <1>4, SizesNat DEF Ends
  <2> SUFFICES ASSUME l < s
               PROVE  FALSE
    BY <1>2, <2>1
  <2>2. 2 * 2^l <= 2^s
    BY <1>2, <2>1, PowerGrows
  <2> DEFINE u == o + 2^l - 1
             m == 2^l
             n == 2^s
  <2>3. u \in Units(b) /\ u # o + n - 1
    <3>1. m \in Nat \ {0} /\ n \in Nat \ {0} /\ 2 * m <= n /\ u = o + m - 1
      BY <1>2, <2>1, <2>2
    <3>2. Units(b) = o..(o + n - 1)
      BY <1>2
    <3> HIDE DEF m, n, u
    <3> QED
      BY <1>2, <3>1, <3>2
  <2>4. PICK c \in B : u = Last(c)
    <3>1. u \in O
      BY <1>1, <2>3
    <3> HIDE DEF u
    <3> QED
      BY <2>1, <3>1 DEF Layout, u
  <2>5. u \in Units(c)
    BY <2>4, BusyBlocks
  <2>6. c = b
    BY <2>3, <2>5 DEF Layout, Apart
  <2> QED
    BY <2>3, <2>4, <2>6 DEF Last
<1>5. \A l \in Ends(p, o) : l \in Nat
  BY SizesNat DEF Ends
<1>6. \A k \in Ends(p, o) : (\A l \in Ends(p, o) : k <= l) => k = s
  BY <1>2, <1>3, <1>4, <1>5
<1>7. AllocSize(p, o) = s
  BY <1>3, <1>4, <1>6 DEF AllocSize
<1> QED
  BY <1>3, <1>7

(* A list that has a block has a first one.                                *)
LEMMA ListHasHead ==
  ASSUME PoolIs, NEW p, NEW F, Lists(p, F), NEW b \in F
  PROVE  p.freeList[b[2]] # OURNULL
<1>1. p \in PoolType /\ Apart(F) /\ Linked(p, F) /\ Ordered(p, F)
  BY DEF Lists
<1>2. OURNULL \notin Blocks
  BY Distinct
<1>3. \A c \in F : c[1] \in Blocks
  BY <1>1, BlockInPool DEF Apart
<1>4. PICK rank \in [Blocks -> Int], low \in Int :
        /\ \A c \in Blocks : low < rank[c]
        /\ \A c \in F : LET nxt == p.header[c[1]].next
                        IN  nxt # OURNULL => rank[c[1]] < rank[nxt]
  BY <1>1 DEF Ordered
<1> DEFINE S == {rank[c[1]] - low : c \in {c \in F : c[2] = b[2]}}
<1>5. S \subseteq Nat /\ S # {}
  <2>1. ASSUME NEW c \in F
        PROVE  rank[c[1]] - low \in Nat
    BY <1>3, <1>4
  <2> QED
    BY <2>1
<1>6. PICK x \in S : \A y \in S : x <= y
  <2> HIDE DEF S
  <2> QED
    BY <1>5, LeastNat
<1>7. PICK c \in F : c[2] = b[2] /\ x = rank[c[1]] - low
  OBVIOUS
<1> DEFINE prev == p.header[c[1]].prev
<1>8. prev = OURNULL
  <2> SUFFICES ASSUME prev # OURNULL
               PROVE  FALSE
    OBVIOUS
  <2>1. <<prev, b[2]>> \in F /\ p.header[prev].next = c[1]
    BY <1>1, <1>7 DEF Linked
  <2>2. prev \in Blocks /\ c[1] \in Blocks /\ c[1] # OURNULL
    BY <1>2, <1>3, <2>1
  <2>3. rank[prev] < rank[c[1]]
    BY <1>4, <2>1, <2>2
  <2>4. rank[prev] - low \in S
    BY <2>1
  <2>5. rank[prev] \in Int /\ rank[c[1]] \in Int
    BY <2>2
  <2> HIDE DEF S
  <2> QED
    BY <1>6, <1>7, <2>3, <2>4, <2>5
<1>9. p.freeList[b[2]] = c[1]
  BY <1>1, <1>7, <1>8 DEF Linked
<1> QED
  BY <1>2, <1>3, <1>9

LEMMA AlignedSmaller ==
  ASSUME NEW o \in Nat, NEW j \in Nat, NEW k \in Nat, j <= k, o % 2^k = 0
  PROVE  o % 2^j = 0
<1>1. 2^j \in Nat \ {0} /\ 2^k \in Nat \ {0}
  BY PowersOfTwo
<1>2. PICK m \in Nat \ {0} : 2^k = m * 2^j
  BY PowerDivides
<1>3. PICK q \in Nat : o = q * 2^k
  BY <1>1, MultiplesAligned
<1> DEFINE d == 2^j
<1>4. o = (q * m) * d /\ q * m \in Nat
  <2>1. d \in Nat /\ o = q * (m * d)
    BY <1>1, <1>2, <1>3
  <2> HIDE DEF d
  <2> QED
    BY <2>1
<1> QED
  BY <1>1, <1>4, MultiplesAligned

(* The first units of a block, as a smaller block, and the rest of it.     *)
LEMMA StartOfBlock ==
  ASSUME NEW b \in AllBlocks, NEW j \in Nat, j <= b[2]
  PROVE  LET c == <<b[1], j>>
         IN  /\ c \in AllBlocks /\ j \in Sizes
             /\ Units(c) \subseteq Units(b)
             /\ (b[1] + 2^j)..(b[1] + 2^b[2] - 1) = Units(b) \ Units(c)
             /\ b[1] + 2^j \in Nat /\ b[1] + 2^b[2] \in Nat /\ b[1] + 2^j <= b[1] + 2^b[2]
<1> DEFINE o == b[1]
           c == <<b[1], j>>
           m == 2^j
           n == 2^b[2]
<1>1. /\ o \in Nat /\ n \in Nat \ {0} /\ o % n = 0 /\ b[2] \in Nat /\ b[2] < numSizes
      /\ Units(b) = o..(o + n - 1)
  BY BlockType
<1>2. j \in Sizes
  BY <1>1, AllocatorAssumption DEF Sizes
<1>3. c \in AllBlocks /\ Units(c) = o..(o + m - 1)
  BY <1>1, <1>2, AlignedSmaller, BlockMade
<1>4. m \in Nat \ {0} /\ m <= n
  BY <1>1, PowersOfTwo, PowerGrows
<1>5. /\ Units(c) \subseteq Units(b)
      /\ (o + m)..(o + n - 1) = Units(b) \ Units(c)
      /\ o + m \in Nat /\ o + n \in Nat /\ o + m <= o + n
  <2> HIDE DEF o, m, n, c
  <2> QED
    BY <1>1, <1>3, <1>4
<1> QED
  BY <1>2, <1>3, <1>5

-----------------------------------------------------------------------------
(* Release *)

LEMMA ReleaseKeepsLayout ==
  ASSUME PoolIs, NEW p, NEW O, Layout(p, O, {}), NEW first \in Nat, NEW past \in Nat,
         first <= past, past <= poolBlocks, O \cap (first..(past - 1)) = {},
         \A b \in AllBlocks : Units(b) \subseteq O \cup (first..(past - 1)) =>
           Units(b) \subseteq O \/ Units(b) \subseteq first..(past - 1)
  PROVE  LET R == first..(past - 1)
         IN  /\ R \subseteq p.map
             /\ Layout(ToFree([p EXCEPT !.map = @ \ R], first, past), O \cup R, {})
<1> DEFINE R == first..(past - 1)
           q == [p EXCEPT !.map = @ \ R]
           r == ToFree(q, first, past)
           F == Maximal(O)
<1>1. \A X : Unused(X, {}) = X
  BY DEF Unused, UnitsOf
<1>2. /\ O \subseteq Blocks /\ p.map = Blocks \ O /\ Lists(p, F)
      /\ p.freeBytes = Cardinality(O) /\ p \in PoolType
  BY <1>1 DEF Layout, Lists
<1>3. R \subseteq Blocks
  BY DEF Blocks, PoolIs
<1>4. q = [p EXCEPT !.map = p.map \ R, !.freeBytes = p.freeBytes]
  BY <1>2 DEF PoolType
<1>5. p.map \ R \in SUBSET Blocks /\ p.freeBytes \in Int
  BY <1>2 DEF PoolType
<1>6. Lists(q, F) /\ q.map = p.map \ R /\ q.freeBytes = p.freeBytes
  <2> DEFINE m == p.map \ R
             x == p.freeBytes
  <2>1. q.map = m /\ q.freeBytes = x
    BY <1>2 DEF PoolType
  <2>2. m \in SUBSET Blocks /\ x \in Int /\ q = [p EXCEPT !.map = m, !.freeBytes = x]
    BY <1>4, <1>5
  <2> HIDE DEF m, x, F, q
  <2>3. Lists(q, F)
    BY <1>2, <2>2, ListsElsewhere
  <2> QED
    BY <2>1, <2>3 DEF m, x
<1>7. \A b \in F : Units(b) \cap R = {}
  BY MaximalBlocks
<1> HIDE DEF q
<1>8. Lists(r, F \cup Maximal(R)) /\ r.map = q.map /\ r.freeBytes = q.freeBytes + Cardinality(R)
  <2> DEFINE G == F \cup Maximal(R)
             x == first
             y == past
  <2>1. /\ R = x..(y - 1) /\ r = ToFree(q, x, y) /\ G = F \cup Maximal(R)
        /\ x \in Nat /\ y \in Nat /\ x <= y /\ y <= poolBlocks
    OBVIOUS
  <2>2. Lists(q, F)
    BY <1>6
  <2> HIDE DEF F, R, r, G, x, y
  <2>3. Lists(r, G) /\ r.map = q.map /\ r.freeBytes = q.freeBytes + Cardinality(R)
    BY ONLY PoolIs, <1>7, <2>1, <2>2, ToFreeFrees
  <2> QED
    BY <2>3 DEF G
<1> HIDE DEF r, R
<1>9. Maximal(O \cup R) = F \cup Maximal(R)
  BY MaximalUnion DEF R
<1>10. Cardinality(O \cup R) = Cardinality(O) + Cardinality(R)
  <2>1. O \cup R \in SUBSET Blocks /\ R \in SUBSET (O \cup R) /\ (O \cup R) \ R = O
    BY <1>2, <1>3 DEF R
  <2>2. Cardinality(O) = Cardinality(O \cup R) - Cardinality(R)
    BY <2>1, CountDifference
  <2>3. Cardinality(O \cup R) \in Int /\ Cardinality(R) \in Int
    BY <1>3, <2>1, BlocksFinite
  <2> QED
    BY <2>2, <2>3
<1>11. Apart({}) /\ UnitsOf({}) \subseteq O \cup R
  BY DEF Apart, UnitsOf
<1>12. O \cup R \subseteq Blocks
  BY <1>2, <1>3
<1>13. r.map = (Blocks \ (O \cup R)) \cup {Last(b) : b \in {}}
  BY <1>2, <1>6, <1>8
<1>14. Lists(r, Maximal(O \cup R))
  BY <1>8, <1>9
<1>15. r.freeBytes = Cardinality(O \cup R)
  BY <1>2, <1>6, <1>8, <1>10
<1>16. Layout(r, O \cup R, {})
  BY <1>1, <1>11, <1>12, <1>13, <1>14, <1>15 DEF Layout
<1>17. R \subseteq p.map
  BY <1>2, <1>3 DEF R
<1> QED
  BY <1>16, <1>17 DEF r, q, R

-----------------------------------------------------------------------------
(* BuddyMalloc *)

LEMMA StockIsFound ==
  ASSUME PoolIs, NEW p, NEW F, Lists(p, F), NEW bits \in Nat, HasMemory(p, bits)
  PROVE  LET f == <<Found(p, bits), BestSize(p, bits)>>
         IN  /\ f \in F
             /\ bits <= BestSize(p, bits)
             /\ p.header[Found(p, bits)].prev = OURNULL
<1> DEFINE S == Stocked(p, bits)
<1>1. S # {} /\ S \subseteq Nat
  BY SizesNat DEF Stocked, HasMemory
<1>2. \E k \in S : \A l \in S : k <= l
  <2> HIDE DEF S
  <2> QED
    BY <1>1, LeastNat
<1>3. BestSize(p, bits) \in S
  <2> HIDE DEF S
  <2>1. BestSize(p, bits) = CHOOSE k \in S : \A l \in S : k <= l
    BY DEF BestSize, S
  <2> QED
    BY <1>2, <2>1
<1>4. /\ BestSize(p, bits) \in Sizes /\ bits <= BestSize(p, bits)
      /\ p.freeList[BestSize(p, bits)] # OURNULL
  BY <1>3 DEF Stocked
<1> QED
  BY <1>4 DEF Found, Lists, Linked

(* The block that is handed out begins a free one of at least its size.    *)
LEMMA MallocKeepsLayout ==
  ASSUME PoolIs, NEW p, NEW O, NEW B, Layout(p, O, B),
         NEW bits \in Nat, HasMemory(p, bits)
  PROVE  LET c == <<Found(p, bits), bits>>
         IN  /\ CanAllocate(p, bits)
             /\ bits \in Sizes /\ c \in AllBlocks
             /\ Units(c) \subseteq Unused(O, B)
             /\ Layout(Allocate(p, bits), O, B \cup {c})
<1> DEFINE o == Found(p, bits)
           k == BestSize(p, bits)
           f == <<o, k>>
           c == <<o, bits>>
           U == Unused(O, B)
           F == Maximal(U)
<1>1. /\ O \subseteq Blocks /\ Apart(B) /\ UnitsOf(B) \subseteq O
      /\ p.map = (Blocks \ O) \cup {Last(b) : b \in B}
      /\ Lists(p, F) /\ p.freeBytes = Cardinality(U)
  BY DEF Layout
<1>2. U \in SUBSET Blocks /\ U \subseteq Nat
  BY <1>1, BlocksFinite DEF Unused
<1>3. f \in F /\ bits <= k /\ p.header[o].prev = OURNULL
  BY <1>1, StockIsFound
<1>4. CanAllocate(p, bits)
  <2>1. Intact(p, f[1], f[2])
    BY <1>1, <1>3, FreeBlocksIntact
  <2> QED
    BY <1>3, <2>1 DEF CanAllocate
<1>5. f \in AllBlocks /\ Units(f) \subseteq U /\ f[1] = o /\ f[2] = k
  BY <1>3, MaximalBlocks
<1> HIDE DEF o, k
<1> DEFINE m == 2^bits
           n == 2^k
           R == (o + m)..((o + n) - 1)
<1>6. /\ c \in AllBlocks /\ bits \in Sizes /\ Units(c) \subseteq Units(f)
      /\ R = Units(f) \ Units(c)
      /\ o + m \in Nat /\ o + n \in Nat /\ o + m <= o + n
      /\ o \in Nat /\ m \in Nat \ {0} /\ n \in Nat \ {0}
  <2>1. /\ c \in AllBlocks /\ bits \in Sizes /\ Units(c) \subseteq Units(f)
        /\ (o + 2^bits)..(o + 2^k - 1) = Units(f) \ Units(c)
        /\ o + 2^bits \in Nat /\ o + 2^k \in Nat /\ o + 2^bits <= o + 2^k
    <3> HIDE DEF f
    <3>1. /\ <<f[1], bits>> \in AllBlocks /\ bits \in Sizes /\ Units(<<f[1], bits>>) \subseteq Units(f)
          /\ (f[1] + 2^bits)..(f[1] + 2^f[2] - 1) = Units(f) \ Units(<<f[1], bits>>)
          /\ f[1] + 2^bits \in Nat /\ f[1] + 2^f[2] \in Nat /\ f[1] + 2^bits <= f[1] + 2^f[2]
      BY <1>3, <1>5, StartOfBlock
    <3> QED
      BY <1>5, <3>1
  <2>2. o \in Nat /\ m \in Nat \ {0} /\ n \in Nat \ {0}
    BY <1>5, BlockType, PowersOfTwo
  <2>3. o + 2^k - 1 = (o + n) - 1
    BY <2>2
  <2> QED
    BY <2>1, <2>2, <2>3
<1>7. o + n <= poolBlocks
  <2>1. f[1] + 2^f[2] \in 1..poolBlocks
    BY <1>2, <1>5, BlockInPool
  <2> QED
    BY <1>5, <2>1 DEF PoolIs
<1> DEFINE p1 == Unlink(p, o, k)
           p2 == [p1 EXCEPT !.map = @ \cup {o + m - 1}, !.freeBytes = @ - n]
           G == F \ {f}
           r == ToFree(p2, o + m, o + n)
<1>8. Lists(p1, G) /\ p1.map = p.map /\ p1.freeBytes = p.freeBytes
  <2>1. /\ Lists(Unlink(p, f[1], f[2]), F \ {f})
        /\ Unlink(p, f[1], f[2]).map = p.map
        /\ Unlink(p, f[1], f[2]).freeBytes = p.freeBytes
    BY <1>1, <1>3, UnlinkKeepsLists
  <2> QED
    BY <1>5, <2>1
<1>9. Last(c) = o + m - 1 /\ Last(c) \in Blocks
  <2>1. c[1] + 2^c[2] - 1 \in Units(c)
    BY <1>2, <1>5, <1>6, BlockInPool
  <2> QED
    BY <1>2, <1>5, <1>6, <2>1 DEF Last
<1> HIDE DEF p1, G, F
<1>10. Lists(p2, G) /\ p2.map = p.map \cup {Last(c)} /\ p2.freeBytes = p.freeBytes - n
  <2> DEFINE mp == p1.map \cup {o + m - 1}
             x == p1.freeBytes - n
  <2>1. p1 \in PoolType
    BY <1>8 DEF Lists
  <2>2. mp \in SUBSET Blocks /\ x \in Int
    BY <1>6, <1>9, <2>1 DEF PoolType
  <2>3. p2 = [p1 EXCEPT !.map = mp, !.freeBytes = x] /\ p2.map = mp /\ p2.freeBytes = x
    BY <2>1 DEF PoolType
  <2> HIDE DEF mp, x, p2
  <2>4. Lists(p2, G)
    BY <1>8, <2>2, <2>3, ListsElsewhere
  <2> QED
    BY <1>8, <1>9, <2>3, <2>4 DEF mp, x
<1> HIDE DEF p2
<1>11. ASSUME NEW g \in G
       PROVE  Units(g) \cap R = {}
  <2>1. Units(g) \cap Units(f) = {}
    BY <1>3, MaximalDisjoint DEF G, F
  <2> QED
    BY <1>6, <2>1
<1>12. Lists(r, G \cup Maximal(R)) /\ r.map = p2.map /\ r.freeBytes = p2.freeBytes + Cardinality(R)
  <2> DEFINE x == o + m
             y == o + n
  <2>1. x \in Nat /\ y \in Nat /\ x <= y /\ y <= poolBlocks
    BY <1>6, <1>7
  <2>2. R = x..(y - 1) /\ r = ToFree(p2, x, y)
    OBVIOUS
  <2>3. \A g \in G : Units(g) \cap R = {}
    BY <1>11
  <2> DEFINE H == G \cup Maximal(R)
  <2>4. Lists(p2, G) /\ H = G \cup Maximal(R)
    BY <1>10
  <2> HIDE DEF x, y, R, r, H
  <2>5. Lists(r, H) /\ r.map = p2.map /\ r.freeBytes = p2.freeBytes + Cardinality(R)
    BY <2>1, <2>2, <2>3, <2>4, ToFreeFrees
  <2> QED
    BY <2>5 DEF H
<1> HIDE DEF R
<1>13. Allocate(p, bits) = r
  BY DEF Allocate, r, p2, p1, o, k
<1>14. Unused(O, B \cup {c}) = (U \ Units(f)) \cup R
  <2>1. UnitsOf(B \cup {c}) = UnitsOf(B) \cup Units(c)
    BY DEF UnitsOf
  <2> QED
    BY <1>5, <1>6, <2>1 DEF Unused
<1>15. Maximal(Unused(O, B \cup {c})) = G \cup Maximal(R)
  <2>1. R \subseteq Units(f)
    BY <1>6
  <2>2. f \in Maximal(U) /\ U \cap Nat = U /\ R \cap Units(f) = R
    BY <1>2, <1>3, <2>1 DEF F
  <2> HIDE DEF U, f
  <2>3. Maximal((U \ Units(f)) \cup R) = (Maximal(U) \ {f}) \cup Maximal(R)
    BY <2>2, MaximalReplace
  <2> QED
    BY <1>14, <2>3 DEF G, F
<1>16. r.freeBytes = Cardinality(Unused(O, B \cup {c}))
  <2>1. Unused(O, B \cup {c}) = U \ Units(c)
    BY <1>5, <1>6, <1>14
  <2>2. Cardinality(U \ Units(c)) = Cardinality(U) - Cardinality(Units(c))
    <3>1. Units(c) \in SUBSET U
      BY <1>5, <1>6
    <3> QED
      BY <1>2, <3>1, CountDifference
  <2>3. Cardinality(R) = Cardinality(Units(f)) - Cardinality(Units(c))
    <3>1. Units(f) \in SUBSET Blocks /\ Units(c) \in SUBSET Units(f)
      BY <1>2, <1>5, <1>6
    <3> QED
      BY <1>6, <3>1, CountDifference
  <2>4. Cardinality(Units(f)) = n /\ Cardinality(Units(c)) = m
    BY <1>5, <1>6, UnitsCounted
  <2>5. Cardinality(U) \in Int
    BY <1>2, BlocksFinite
  <2>6. r.freeBytes = (Cardinality(U) - n) + Cardinality(R)
    BY <1>1, <1>10, <1>12
  <2> DEFINE a == Cardinality(U)
             d == Cardinality(R)
             w == Cardinality(Unused(O, B \cup {c}))
             x == r.freeBytes
  <2>7. n \in Int /\ m \in Int
    BY <1>6
  <2>8. a \in Int /\ d = n - m /\ x = (a - n) + d
    BY <2>3, <2>4, <2>5, <2>6
  <2>9. w = a - m
    BY <2>1, <2>2, <2>4
  <2> HIDE DEF a, d, w, x, m, n
  <2>10. x = w
    BY <2>7, <2>8, <2>9
  <2> QED
    BY <2>10 DEF x, w
<1>17. Apart(B \cup {c})
  <2>1. \A b \in B : Units(c) \cap Units(b) = {}
    BY <1>5, <1>6, BusyBlocks
  <2> QED
    BY <1>1, <1>2, <1>5, <1>6, <2>1, ApartMore
<1>18. UnitsOf(B \cup {c}) \subseteq O
  <2>1. Units(c) \subseteq O
    BY <1>5, <1>6 DEF Unused
  <2> QED
    BY <1>1, <2>1 DEF UnitsOf
<1>19. r.map = (Blocks \ O) \cup {Last(b) : b \in B \cup {c}}
  BY <1>1, <1>10, <1>12
<1>20. Lists(r, Maximal(Unused(O, B \cup {c})))
  BY <1>12, <1>15
<1> HIDE DEF r, c
<1>21. Layout(r, O, B \cup {c})
  BY <1>1, <1>16, <1>17, <1>18, <1>19, <1>20 DEF Layout
<1> QED
  BY <1>4, <1>5, <1>6, <1>13, <1>21 DEF c, o

(* Where BuddyMalloc refuses, no block of the size lies in free storage.   *)
LEMMA RefusedForWant ==
  ASSUME PoolIs, NEW p, NEW O, NEW B, Layout(p, O, B),
         NEW b \in AllBlocks, Units(b) \subseteq Unused(O, B)
  PROVE  HasMemory(p, b[2])
<1> DEFINE U == Unused(O, B)
<1>1. O \subseteq Blocks /\ Lists(p, Maximal(U)) /\ p.freeBytes = Cardinality(U)
  BY DEF Layout
<1>2. U \in SUBSET Blocks /\ U \subseteq Nat /\ IsFiniteSet(U) /\ Cardinality(U) \in Nat
  BY <1>1, BlocksFinite DEF Unused
<1>3. PICK c \in Maximal(U) : Units(b) \subseteq Units(c)
  BY <1>2, MaximalAbove
<1>4. c \in AllBlocks /\ c[2] \in Sizes /\ b[2] <= c[2]
  BY <1>3, MaximalBlocks, UnitsWithin, BlockType
<1>5. p.freeList[c[2]] # OURNULL
  BY <1>1, ListHasHead
<1>6. Cardinality(Units(b)) <= Cardinality(U) /\ Cardinality(Units(b)) = 2^b[2]
  BY <1>2, UnitsCounted, FS_Subset
<1>7. p.freeBytes >= 2^b[2]
  <2>1. 2^b[2] \in Nat
    BY BlockType
  <2> QED
    BY <1>1, <1>2, <1>6, <2>1
<1> QED
  BY <1>4, <1>5, <1>7 DEF HasMemory, Stocked
-----------------------------------------------------------------------------
(* Free *)

(* The block of a size that holds a unit, and its buddy.                   *)
Home(o, k) == <<Base(o, k), k>>

Other(o, k) == <<Buddy(o, k), k>>

LEMMA Homes ==
  ASSUME NEW o \in Nat, NEW k \in Sizes
  PROVE  /\ Home(o, k) \in AllBlocks /\ Home(o, k)[2] = k
         /\ o \in Units(Home(o, k))
BY BlockAt DEF Home

LEMMA Others ==
  ASSUME NEW o \in Nat, NEW k \in Sizes, k < numSizes - 1
  PROVE  /\ k + 1 \in Sizes
         /\ Other(o, k) \in AllBlocks /\ Other(o, k)[1] = Buddy(o, k) /\ Other(o, k)[2] = k
         /\ Units(Home(o, k + 1)) = Units(Home(o, k)) \cup Units(Other(o, k))
         /\ Units(Home(o, k)) \cap Units(Other(o, k)) = {}
BY Buddies DEF Home, Other

LEMMA HomeIs ==
  ASSUME NEW b \in AllBlocks, NEW u, u \in Units(b)
  PROVE  b = Home(u, b[2])
BY BlockUnique DEF Home

(* What contains the buddy of a block, and more, contains the block.       *)
LEMMA AroundBuddy ==
  ASSUME NEW o \in Nat, NEW k \in Sizes, k < numSizes - 1, NEW c \in AllBlocks,
         Units(Other(o, k)) \subseteq Units(c), c # Other(o, k)
  PROVE  Units(Home(o, k)) \subseteq Units(c)
<1> DEFINE d == Other(o, k)
           u == d[1]
           a == Home(o, k + 1)
<1>1. /\ d \in AllBlocks /\ d[2] = k /\ k + 1 \in Sizes
      /\ Units(a) = Units(Home(o, k)) \cup Units(d)
  BY Others
<1>2. u \in Nat /\ u \in Units(d)
  BY <1>1, BlockType
<1>3. a \in AllBlocks /\ a[2] = k + 1
  BY <1>1, Homes
<1> HIDE DEF d, u, a
<1>4. d = Home(u, k)
  BY <1>1, <1>2, HomeIs
<1>5. a = Home(u, k + 1)
  BY <1>1, <1>2, <1>3, HomeIs
<1>6. Units(Home(u, k + 1)) \subseteq Units(c)
  <2>1. Units(<<Base(u, k), k>>) \subseteq Units(c) /\ c # <<Base(u, k), k>>
    BY <1>4 DEF Home, d
  <2>2. Units(<<Base(u, k + 1), k + 1>>) \subseteq Units(c)
    BY <1>2, <2>1, BuddyWithin
  <2> QED
    BY <2>2 DEF Home
<1> QED
  BY <1>1, <1>5, <1>6

(* Free storage has no end in the map.                                     *)
LEMMA FreeNotInMap ==
  ASSUME PoolIs, NEW p, NEW O, NEW B, Layout(p, O, B)
  PROVE  Unused(O, B) \cap p.map = {}
<1>1. p.map = (Blocks \ O) \cup {Last(b) : b \in B}
  BY DEF Layout
<1>2. \A b \in B : Last(b) \notin Unused(O, B)
  BY BusyBlocks
<1>3. Unused(O, B) \subseteq O
  BY DEF Unused
<1> QED
  BY <1>1, <1>2, <1>3

(* The tests for a free buddy find exactly the free blocks.                *)
LEMMA BuddyFreeIs ==
  ASSUME PoolIs, NEW p, NEW O, NEW B, Layout(p, O, B), NEW o \in Nat, NEW k \in Sizes
  PROVE  BuddyFree(p, o, k) <=> k < numSizes - 1 /\ Other(o, k) \in Maximal(Unused(O, B))
<1> DEFINE U == Unused(O, B)
           d == Other(o, k)
           w == Buddy(o, k) + 2^k
<1>1. /\ Written(p, Maximal(U)) /\ U \subseteq Blocks
      /\ U \cap p.map = {}
  BY FreeNotInMap DEF Layout, Lists, Unused
<1>2. ASSUME BuddyFree(p, o, k)
      PROVE  k < numSizes - 1 /\ d \in Maximal(U)
  <2>1. k < numSizes - 1 /\ w <= poolBlocks /\ p.trailer[w] = k
    BY <1>2 DEF BuddyFree, BuddyEndFree
  <2>2. d \in AllBlocks /\ d[1] = Buddy(o, k) /\ d[2] = k
    BY <2>1, Others
  <2>3. Buddy(o, k) \in Nat /\ 2^k \in Nat \ {0}
    BY <2>2, BlockType
  <2>4. w \in 1..poolBlocks /\ w - 2^k = Buddy(o, k)
    BY <2>1, <2>3 DEF PoolIs
  <2>5. <<w - 2^k, k>> \in Maximal(U)
    <3> HIDE DEF w, U
    <3> QED
      BY <1>1, <2>1, <2>4 DEF Written
  <2> QED
    BY <2>1, <2>4, <2>5 DEF Other
<1>3. ASSUME k < numSizes - 1, d \in Maximal(U)
      PROVE  BuddyFree(p, o, k)
  <2>1. d \in AllBlocks /\ d[1] = Buddy(o, k) /\ d[2] = k /\ Units(d) \subseteq U
    BY <1>3, Others, MaximalBlocks
  <2>2. d[1] + 2^d[2] \in 1..poolBlocks /\ d[1] + 2^d[2] - 1 \in Units(d)
    BY <1>1, <2>1, BlockInPool
  <2>4. Buddy(o, k) \in Nat /\ 2^k \in Nat \ {0}
    BY <2>1, BlockType
  <2>3. w \in 1..poolBlocks /\ w - 1 \notin p.map
    <3>1. w \in 1..poolBlocks
      BY <2>1, <2>2
    <3>2. w - 1 = d[1] + 2^d[2] - 1
      BY <2>1, <2>4
    <3>3. w - 1 \in U
      BY <2>1, <2>2, <3>2
    <3> HIDE DEF w, U
    <3> QED
      BY <1>1, <3>1, <3>3
  <2>5. w - 2^k = Buddy(o, k) /\ w - 1 = Buddy(o, k) + 2^k - 1
    BY <2>4
  <2>6. p.trailer[w] = k
    <3>1. <<w - 2^k, k>> \in Maximal(U)
      BY <1>3, <2>5 DEF Other
    <3> HIDE DEF w, U
    <3> QED
      BY <1>1, <2>3, <3>1 DEF Written
  <2> QED
    BY <1>3, <2>3, <2>5, <2>6 DEF BuddyFree, BuddyEndFree, PoolIs
<1> QED
  BY <1>2, <1>3

(* The size after merging.                                                 *)
LEMMA MergedSizeIs ==
  ASSUME NEW p, NEW o, NEW s \in Sizes
  PROVE  /\ MergedSize(p, o, s) \in s..(numSizes - 1)
         /\ ~BuddyFree(p, o, MergedSize(p, o, s))
         /\ \A j \in s..(MergedSize(p, o, s) - 1) : BuddyFree(p, o, j)
<1> DEFINE S == {k \in s..(numSizes - 1) : ~BuddyFree(p, o, k)}
           A == s..(numSizes - 1)
           Q(k) == ~BuddyFree(p, o, k) /\ \A j \in s..(k - 1) : BuddyFree(p, o, j)
<1>1. s \in Nat /\ s < numSizes /\ numSizes \in Nat
  BY SizesNat, AllocatorAssumption
<1>2. S \subseteq Nat /\ numSizes - 1 \in S
  BY <1>1 DEF BuddyFree
<1>3. PICK t \in S : \A k \in S : t <= k
  <2> HIDE DEF S
  <2> QED
    BY <1>2, LeastNat
<1>4. t \in A /\ Q(t)
  <2>1. t \in A /\ ~BuddyFree(p, o, t) /\ t \in Nat
    BY <1>1, <1>3
  <2>2. ASSUME NEW j \in s..(t - 1)
        PROVE  BuddyFree(p, o, j)
    <3>1. j \in A /\ j < t
      BY <1>1, <2>1
    <3> QED
      BY <1>3, <2>1, <3>1
  <2> QED
    BY <2>1, <2>2
<1>5. MergedSize(p, o, s) = CHOOSE k \in A : Q(k)
  BY DEF MergedSize
<1> HIDE DEF A, Q
<1>6. MergedSize(p, o, s) \in A /\ Q(MergedSize(p, o, s))
  BY <1>4, <1>5
<1> QED
  BY <1>6 DEF A, Q
(* The buddies that a block of 2^s units takes in, below size t.           *)
Taken(o, s, t) == {Other(o, j) : j \in s..(t - 1)}

(* A block and the free buddies merge to one that no free storage extends. *)
LEMMA MergeIsMaximal ==
  ASSUME NEW U, U \subseteq Nat, NEW b \in AllBlocks, Units(b) \cap U = {},
         NEW t \in Sizes, b[2] <= t,
         \A j \in b[2]..(t - 1) : j < numSizes - 1 /\ Other(b[1], j) \in Maximal(U),
         ~(t < numSizes - 1 /\ Other(b[1], t) \in Maximal(U))
  PROVE  /\ Maximal(U \cup Units(b)) =
              (Maximal(U) \ Taken(b[1], b[2], t)) \cup {Home(b[1], t)}
         /\ Units(Home(b[1], t)) \subseteq U \cup Units(b)
         /\ \A c \in Maximal(U) \ Taken(b[1], b[2], t) : Units(Home(b[1], t)) \cap Units(c) = {}
<1> DEFINE o == b[1]
           s == b[2]
           H(k) == Units(Home(o, k))
           Good(k) == /\ Units(b) \subseteq H(k) /\ H(k) \subseteq U \cup Units(b)
                      /\ Maximal(U \ H(k)) = Maximal(U) \ Taken(o, s, k)
           S == {k \in s..t : Good(k)}
<1>1. /\ o \in Nat /\ s \in Sizes /\ s \in Nat /\ t \in Nat /\ o \in Units(b) /\ t < numSizes
      /\ numSizes \in Nat
  BY BlockType, SizesNat, AllocatorAssumption
<1>2. s \in S
  <2>1. b = Home(o, s)
    BY <1>1, HomeIs
  <2>2. U \ Units(b) = U
    OBVIOUS
  <2>3. Taken(o, s, s) = {}
    BY <1>1 DEF Taken
  <2>4. Good(s)
    BY <2>1, <2>2, <2>3
  <2> HIDE DEF Good
  <2> QED
    BY <1>1, <2>4
<1>3. ASSUME NEW k \in s..(t - 1), k \in S
      PROVE  k + 1 \in S
  <2> DEFINE d == Other(o, k)
             V == U \ H(k)
  <2>1. Good(k) /\ k \in Sizes /\ k \in Nat /\ k + 1 \in s..t
    <3>1. k \in Sizes /\ k \in Nat /\ k + 1 \in s..t
      BY <1>1 DEF Sizes
    <3> HIDE DEF Good
    <3> QED
      BY <1>3, <3>1
  <2>2. k < numSizes - 1 /\ d \in Maximal(U)
    OBVIOUS
  <2>3. H(k + 1) = H(k) \cup Units(d) /\ H(k) \cap Units(d) = {} /\ d[2] = k
    BY <1>1, <2>1, <2>2, Others
  <2>4. Units(d) \subseteq U
    BY <2>2, MaximalBlocks
  <2>5. Maximal(V) = Maximal(U) \ Taken(o, s, k)
    BY <2>1
  <2>6. d \notin Taken(o, s, k)
    <3> SUFFICES ASSUME NEW j \in s..(k - 1), d = Other(o, j)
                 PROVE  FALSE
      BY DEF Taken
    <3>1. j < k /\ j \in s..(t - 1) /\ j \in Sizes
      BY <1>1, <2>1 DEF Sizes
    <3>2. Other(o, j)[2] = j
      BY DEF Other
    <3> QED
      BY <2>3, <3>1, <3>2
  <2>7. d \in Maximal(V)
    BY <2>2, <2>5, <2>6
  <2>8. V \subseteq Nat
    OBVIOUS
  <2>9. Maximal(V \ Units(d)) = Maximal(V) \ {d}
    <3> HIDE DEF V, d
    <3> QED
      BY ONLY <2>7, <2>8, MaximalWithout
  <2>10. U \ H(k + 1) = V \ Units(d)
    BY <2>3
  <2>11. Taken(o, s, k + 1) = Taken(o, s, k) \cup {d}
    <3>1. s..(k + 1 - 1) = (s..(k - 1)) \cup {k}
      BY <1>1, <2>1
    <3> QED
      BY <3>1 DEF Taken
  <2>12. Maximal(U \ H(k + 1)) = Maximal(U) \ Taken(o, s, k + 1)
    <3> HIDE DEF V, d, H
    <3> QED
      BY <2>5, <2>9, <2>10, <2>11
  <2>13. Units(b) \subseteq H(k + 1) /\ H(k + 1) \subseteq U \cup Units(b)
    BY <2>1, <2>3, <2>4
  <2>14. Good(k + 1)
    BY <2>12, <2>13
  <2> HIDE DEF Good
  <2> QED
    BY <2>1, <2>14
<1>4. Good(t)
  <2>1. s \in Int /\ t \in Int /\ t \in s..t
    BY <1>1
  <2>2. s..t \subseteq S
    <3> HIDE DEF S
    <3> QED
      BY ONLY <2>1, <1>2, <1>3, IntervalInduction
  <2> HIDE DEF Good
  <2> QED
    BY <2>1, <2>2
<1> DEFINE m == Home(o, t)
           V == U \ H(t)
<1>5. m \in AllBlocks /\ m[2] = t
  BY <1>1, Homes
<1>6. /\ Units(b) \subseteq Units(m) /\ Units(m) \subseteq U \cup Units(b)
      /\ Maximal(V) = Maximal(U) \ Taken(o, s, t) /\ V = U \ Units(m)
  BY <1>4
<1> HIDE DEF Good, H, S
<1>7. U \cup Units(b) = V \cup Units(m) /\ V \cap Units(m) = {} /\ V \subseteq U
  BY <1>6
<1>8. ASSUME NEW c \in AllBlocks, Units(c) \subseteq V \cup Units(m)
      PROVE  Units(c) \subseteq V \/ Units(c) \subseteq Units(m)
  <2> SUFFICES ASSUME Units(c) \cap Units(m) # {}, ~(Units(c) \subseteq Units(m))
               PROVE  FALSE
    BY <1>8
  <2>1. Units(m) \subseteq Units(c) /\ c # m
    <3> HIDE DEF m
    <3>1. c[2] \in Nat /\ m[2] \in Nat
      BY <1>5, BlockType
    <3>2. CASE c[2] <= m[2]
      BY <1>5, <3>2, BlocksNested
    <3>3. CASE m[2] <= c[2]
      BY <1>5, <3>3, BlocksNested
    <3> QED
      BY <3>1, <3>2, <3>3
  <2> DEFINE d == Other(o, t)
  <2>2. t < numSizes - 1 /\ Units(Home(o, t + 1)) \subseteq Units(c)
    <3>1. Units(<<Base(o, t), t>>) \subseteq Units(c) /\ c # <<Base(o, t), t>>
      BY <2>1 DEF Home
    <3> QED
      BY <1>1, <3>1, BuddyWithin DEF Home
  <2>3. /\ d \in AllBlocks /\ Units(Home(o, t + 1)) = Units(m) \cup Units(d)
        /\ Units(m) \cap Units(d) = {}
    BY <1>1, <2>2, Others
  <2>4. Units(d) \subseteq U
    BY <1>7, <1>8, <2>2, <2>3
  <2>5. d \notin Maximal(U)
    BY <2>2
  <2>6. PICK e \in AllBlocks : Units(e) \subseteq U /\ Units(d) \subseteq Units(e) /\ e # d
    BY <2>3, <2>4, <2>5 DEF Maximal
  <2>7. Units(m) \subseteq Units(e)
    BY <1>1, <2>2, <2>6, AroundBuddy
  <2>8. o \in Units(e) /\ o \in U
    BY <1>1, <1>6, <2>6, <2>7
  <2> QED
    BY <1>1, <2>8
<1>9. Maximal(U \cup Units(b)) = Maximal(V) \cup {m}
  <2> HIDE DEF m, V
  <2>1. Maximal(V \cup Units(m)) = Maximal(V) \cup Maximal(Units(m))
    BY ONLY <1>7, <1>8, MaximalUnion
  <2>2. Maximal(Units(m)) = {m}
    BY <1>5, MaximalOfBlock
  <2> QED
    BY <1>7, <2>1, <2>2
<1>10. \A c \in Maximal(V) : Units(m) \cap Units(c) = {}
  BY <1>7, MaximalBlocks
<1> HIDE DEF V, m
<1> QED
  BY <1>6, <1>9, <1>10 DEF m
(* The pool without the buddies of sizes s to n - 1.                       *)
IsMerged(f, p, o, s, n) ==
  f = [k \in s..n |-> IF k = s THEN p ELSE Unlink(f[k - 1], Buddy(o, k - 1), k - 1)]

LEMMA MergedExists ==
  ASSUME NEW p, NEW o, NEW s \in Nat, NEW t \in Nat, s <= t
  PROVE  \E f : IsMerged(f, p, o, s, t)
<1> DEFINE S == {n \in Nat : \E f : IsMerged(f, p, o, s, n)}
           Step(q, k) == Unlink(q, Buddy(o, k - 1), k - 1)
<1>1. s \in S
  <2> DEFINE f == [k \in s..s |-> p]
  <2>1. \A k \in s..s : k = s
    OBVIOUS
  <2>2. IsMerged(f, p, o, s, s)
    BY <2>1 DEF IsMerged
  <2> QED
    BY <2>2
<1>2. ASSUME NEW n \in s..(t - 1), n \in S
      PROVE  n + 1 \in S
  <2>1. PICK f : IsMerged(f, p, o, s, n)
    BY <1>2
  <2> DEFINE g == [k \in s..(n + 1) |-> IF k = s THEN p ELSE Step(f[k - 1], k)]
  <2>2. \A k \in s..n : f[k] = IF k = s THEN p ELSE Step(f[k - 1], k)
    BY <2>1 DEF IsMerged
  <2> HIDE DEF Step
  <2>3. \A k \in s..n : f[k] = g[k]
    <3>1. \A k \in s..n : k \in s..(n + 1)
      OBVIOUS
    <3> QED
      BY <2>2, <3>1
  <2>4. ASSUME NEW k \in s..(n + 1), k # s
        PROVE  f[k - 1] = g[k - 1]
    <3>1. k - 1 \in s..n
      BY <2>4
    <3> QED
      BY <2>3, <3>1
  <2>5. g = [k \in s..(n + 1) |-> IF k = s THEN p ELSE Step(g[k - 1], k)]
    BY <2>4
  <2> HIDE DEF g
  <2>6. IsMerged(g, p, o, s, n + 1)
    BY <2>5 DEF IsMerged, Step
  <2>7. n + 1 \in Nat
    OBVIOUS
  <2> QED
    BY <2>6, <2>7
<1> HIDE DEF S
<1>3. s..t \subseteq S
  BY <1>1, <1>2, IntervalInduction
<1>4. t \in S
  BY <1>3
<1> QED
  BY <1>4 DEF S

LEMMA MergedUnique ==
  ASSUME NEW p, NEW o, NEW s \in Nat, NEW t \in Nat, s <= t,
         NEW f, IsMerged(f, p, o, s, t), NEW g, IsMerged(g, p, o, s, t)
  PROVE  f = g
<1> DEFINE T == {k \in s..t : g[k] = f[k]}
           Step(q, k) == Unlink(q, Buddy(o, k - 1), k - 1)
<1>1. /\ f = [k \in s..t |-> IF k = s THEN p ELSE Step(f[k - 1], k)]
      /\ g = [k \in s..t |-> IF k = s THEN p ELSE Step(g[k - 1], k)]
  BY DEF IsMerged
<1> HIDE DEF Step
<1>2. s \in T
  BY <1>1
<1>3. ASSUME NEW n \in s..(t - 1), n \in T
      PROVE  n + 1 \in T
  <2>1. n + 1 \in s..t /\ n + 1 # s /\ n + 1 - 1 = n
    OBVIOUS
  <2>2. g[n + 1] = Step(g[n], n + 1) /\ f[n + 1] = Step(f[n], n + 1)
    BY <1>1, <2>1
  <2> QED
    BY <1>3, <2>1, <2>2
<1>4. s..t \subseteq T
  <2> HIDE DEF T
  <2> QED
    BY <1>2, <1>3, IntervalInduction
<1>5. \A k \in s..t : g[k] = f[k]
  BY <1>4
<1>6. f = [k \in s..t |-> f[k]] /\ g = [k \in s..t |-> g[k]]
  BY <1>1
<1> QED
  BY <1>5, <1>6

(* The buddies leave their lists.                                          *)
LEMMA TakenFromLists ==
  ASSUME PoolIs, NEW p, NEW F, Lists(p, F), NEW o \in Nat, NEW s \in Sizes, NEW t \in Sizes,
         s <= t, \A j \in s..(t - 1) : Other(o, j) \in F,
         NEW f, IsMerged(f, p, o, s, t)
  PROVE  Lists(f[t], F \ Taken(o, s, t)) /\ f[t].map = p.map /\ f[t].freeBytes = p.freeBytes
<1> DEFINE Good(k) == /\ Lists(f[k], F \ Taken(o, s, k))
                      /\ f[k].map = p.map /\ f[k].freeBytes = p.freeBytes
           S == {k \in s..t : Good(k)}
<1>1. s \in Nat /\ t \in Nat
  BY SizesNat
<1>2. \A k \in s..t : f[k] = IF k = s THEN p ELSE Unlink(f[k - 1], Buddy(o, k - 1), k - 1)
  BY DEF IsMerged
<1>3. s \in S
  <2>1. Taken(o, s, s) = {} /\ s \in s..t /\ F \ {} = F
    BY <1>1 DEF Taken
  <2>2. Good(s)
    BY <1>2, <2>1
  <2> QED
    BY <2>1, <2>2
<1>4. ASSUME NEW k \in s..(t - 1), k \in S
      PROVE  k + 1 \in S
  <2> DEFINE d == Other(o, k)
             G == F \ Taken(o, s, k)
             q == f[k]
  <2>1. k \in Nat /\ k + 1 \in s..t /\ k + 1 # s /\ k + 1 - 1 = k
    BY <1>1
  <2>2. Lists(q, G) /\ q.map = p.map /\ q.freeBytes = p.freeBytes
    BY <1>4
  <2>3. f[k + 1] = Unlink(q, d[1], d[2])
    <3>1. f[k + 1] = Unlink(f[k], Buddy(o, k), k)
      BY <1>2, <2>1
    <3> QED
      BY <3>1 DEF Other
  <2>4. d \in G
    <3>1. d \in F
      OBVIOUS
    <3> SUFFICES ASSUME NEW j \in s..(k - 1), d = Other(o, j)
                 PROVE  FALSE
      BY <3>1 DEF Taken
    <3>2. j # k
      BY <1>1, <2>1
    <3>3. d[2] = k /\ Other(o, j)[2] = j
      BY DEF Other
    <3> QED
      BY <3>2, <3>3
  <2>5. Taken(o, s, k + 1) = Taken(o, s, k) \cup {d}
    <3>1. s..(k + 1 - 1) = (s..(k - 1)) \cup {k}
      BY <1>1, <2>1
    <3> QED
      BY <3>1 DEF Taken
  <2>6. F \ Taken(o, s, k + 1) = G \ {d}
    BY <2>5
  <2> HIDE DEF d, G, q
  <2>7. /\ Lists(Unlink(q, d[1], d[2]), G \ {d})
        /\ Unlink(q, d[1], d[2]).map = q.map
        /\ Unlink(q, d[1], d[2]).freeBytes = q.freeBytes
    BY ONLY PoolIs, <2>2, <2>4, UnlinkKeepsLists
  <2>8. Good(k + 1)
    BY <2>2, <2>3, <2>6, <2>7
  <2> HIDE DEF Good
  <2> QED
    BY <2>1, <2>8
<1>5. s..t \subseteq S
  <2>1. s \in Int /\ t \in Int
    BY <1>1
  <2> HIDE DEF S
  <2> QED
    BY ONLY <2>1, <1>3, <1>4, IntervalInduction
<1>6. Good(t)
  <2>1. t \in s..t
    BY <1>1
  <2> HIDE DEF Good
  <2> QED
    BY <1>5, <2>1
<1> QED
  BY <1>6
(* What merging meets: free buddies below its size, none at it.            *)
LEMMA MergeSteps ==
  ASSUME PoolIs, NEW p, NEW O, NEW B, Layout(p, O, B), NEW b \in B,
         NEW t, t = MergedSize(p, b[1], b[2])
  PROVE  /\ t \in Sizes /\ t \in Nat /\ b[2] <= t
         /\ \A j \in b[2]..(t - 1) :
              j \in Sizes /\ j < numSizes - 1 /\ Other(b[1], j) \in Maximal(Unused(O, B))
         /\ ~(t < numSizes - 1 /\ Other(b[1], t) \in Maximal(Unused(O, B)))
<1>1. b \in AllBlocks /\ b[1] \in Nat /\ b[2] \in Sizes /\ b[2] \in Nat /\ numSizes \in Nat
  BY BusyBlocks, BlockType, AllocatorAssumption
<1>2. /\ t \in b[2]..(numSizes - 1)
      /\ ~BuddyFree(p, b[1], t) /\ \A j \in b[2]..(t - 1) : BuddyFree(p, b[1], j)
  BY <1>1, MergedSizeIs
<1>3. t \in Sizes /\ t \in Nat /\ b[2] <= t
  BY <1>1, <1>2 DEF Sizes
<1>4. ASSUME NEW j \in b[2]..(t - 1)
      PROVE  j \in Sizes /\ j < numSizes - 1 /\ Other(b[1], j) \in Maximal(Unused(O, B))
  <2>1. j \in Sizes
    BY <1>1, <1>3, <1>2 DEF Sizes
  <2> QED
    BY <1>1, <1>2, <2>1, BuddyFreeIs
<1>5. ~(t < numSizes - 1 /\ Other(b[1], t) \in Maximal(Unused(O, B)))
  BY <1>1, <1>2, <1>3, BuddyFreeIs
<1> QED
  BY <1>3, <1>4, <1>5

(* A busy block that is freed merges to the largest free block it can be.  *)
LEMMA FreeKeepsLayout ==
  ASSUME PoolIs, NEW p, NEW O, NEW B, Layout(p, O, B), NEW b \in B
  PROVE  Layout(FreeBlock(p, b[1]), O, B \ {b})
<1> DEFINE o == b[1]
           s == b[2]
           U == Unused(O, B)
           F == Maximal(U)
           t == MergedSize(p, o, s)
           m == Home(o, t)
           G == F \ Taken(o, s, t)
<1>1. /\ b \in AllBlocks /\ Units(b) \subseteq O /\ Units(b) \subseteq Blocks
      /\ Units(b) \cap U = {}
      /\ \A c \in B : Last(c) = Last(b) => c = b
  BY BusyBlocks
<1>2. o \in Nat /\ s \in Sizes /\ s \in Nat /\ 2^s \in Nat \ {0}
  BY <1>1, BlockType
<1>3. /\ O \subseteq Blocks /\ Apart(B) /\ UnitsOf(B) \subseteq O
      /\ p.map = (Blocks \ O) \cup {Last(c) : c \in B}
      /\ Lists(p, F) /\ p.freeBytes = Cardinality(U)
  BY DEF Layout
<1>4. AllocSize(p, o) = s
  BY SizeFound
<1>5. /\ t \in Sizes /\ t \in Nat /\ s <= t
      /\ \A j \in s..(t - 1) : j < numSizes - 1 /\ Other(o, j) \in F
      /\ ~(t < numSizes - 1 /\ Other(o, t) \in F)
  BY MergeSteps
<1>6. U \subseteq Blocks /\ U \subseteq Nat
  BY <1>3, BlocksFinite DEF Unused
<1> HIDE DEF t
<1>7. /\ Maximal(U \cup Units(b)) = G \cup {m}
      /\ Units(m) \subseteq U \cup Units(b)
      /\ \A c \in G : Units(m) \cap Units(c) = {}
  <2> HIDE DEF U
  <2> QED
    BY ONLY <1>1, <1>5, <1>6, MergeIsMaximal
<1>8. m \in AllBlocks /\ m = <<Base(o, t), t>>
  BY <1>2, <1>5, Homes DEF Home
<1>9. PICK f : IsMerged(f, p, o, s, t)
  BY <1>2, <1>5, MergedExists
<1>10. Lists(f[t], G) /\ f[t].map = p.map /\ f[t].freeBytes = p.freeBytes
  <2>1. /\ Lists(p, F) /\ o \in Nat /\ s \in Sizes /\ t \in Sizes /\ s <= t
        /\ \A j \in s..(t - 1) : Other(o, j) \in F
        /\ IsMerged(f, p, o, s, t)
    BY <1>2, <1>3, <1>5, <1>9
  <2> HIDE DEF F, o, s
  <2> QED
    BY ONLY PoolIs, <2>1, TakenFromLists
<1> DEFINE q == Link(f[t], Base(o, t), t)
           mp == q.map \ {o + 2^s - 1}
           x == q.freeBytes + 2^s
           r == [q EXCEPT !.map = @ \ {o + 2^s - 1}, !.freeBytes = @ + 2^s]
<1>11. FreeBlock(p, o) = r
  <2>1. (CHOOSE g : IsMerged(g, p, o, s, t)) = f
    <3>1. \A g : IsMerged(g, p, o, s, t) => g = f
      BY <1>2, <1>5, <1>9, MergedUnique
    <3> QED
      BY <1>9, <3>1
  <2>2. FreeBlock(p, o) =
          [Link((CHOOSE g : IsMerged(g, p, o, s, t))[t], Base(o, t), t) EXCEPT
             !.map = @ \ {o + 2^s - 1}, !.freeBytes = @ + 2^s]
    BY <1>4 DEF FreeBlock, Freed, IsMerged, t
  <2> QED
    BY <2>1, <2>2
<1>12. Lists(q, G \cup {m}) /\ q.map = p.map /\ q.freeBytes = p.freeBytes
  <2> DEFINE w == f[t]
             h == Base(o, t)
  <2>1. /\ <<h, t>> \in AllBlocks /\ Units(<<h, t>>) \subseteq Blocks
        /\ \A c \in G : Units(<<h, t>>) \cap Units(c) = {}
        /\ Lists(w, G)
    BY <1>1, <1>6, <1>7, <1>8, <1>10
  <2> HIDE DEF w, h, G
  <2>2. /\ Lists(Link(w, h, t), G \cup {<<h, t>>})
        /\ Link(w, h, t).map = w.map
        /\ Link(w, h, t).freeBytes = w.freeBytes
    BY ONLY PoolIs, <2>1, LinkKeepsLists
  <2> QED
    BY <1>8, <1>10, <2>2 DEF w, h
<1> HIDE DEF q, G, m
<1>13. mp \in SUBSET Blocks /\ x \in Int /\ r.map = mp /\ r.freeBytes = x
       /\ r = [q EXCEPT !.map = mp, !.freeBytes = x]
  <2>1. q \in PoolType
    BY <1>12 DEF Lists
  <2> QED
    BY <1>2, <2>1 DEF PoolType
<1>14. Lists(r, G \cup {m})
  <2> DEFINE H == G \cup {m}
  <2>1. /\ Lists(q, H) /\ mp \in SUBSET Blocks /\ x \in Int
        /\ r = [q EXCEPT !.map = mp, !.freeBytes = x]
    BY <1>12, <1>13
  <2> HIDE DEF mp, x, r, H, q
  <2>2. Lists(r, H)
    BY ONLY <2>1, ListsElsewhere
  <2> QED
    BY <2>2 DEF H
<1>15. Last(b) = o + 2^s - 1
  BY DEF Last
<1>16. r.map = (Blocks \ O) \cup {Last(c) : c \in B \ {b}}
  <2>1. Last(b) \in O
    BY <1>1, BusyBlocks
  <2> QED
    BY <1>1, <1>3, <1>12, <1>13, <1>15, <2>1
<1>17. Unused(O, B \ {b}) = U \cup Units(b)
  <2>1. ASSUME NEW u \in Units(b)
        PROVE  u \notin UnitsOf(B \ {b})
    BY <1>3, <2>1 DEF UnitsOf, Apart
  <2>2. UnitsOf(B) = UnitsOf(B \ {b}) \cup Units(b)
    BY DEF UnitsOf
  <2> QED
    BY <1>1, <2>1, <2>2 DEF Unused
<1>18. r.freeBytes = Cardinality(Unused(O, B \ {b}))
  <2> DEFINE V == U \cup Units(b)
             v == Cardinality(V)
             d == Cardinality(U)
             n == 2^s
  <2>1. V \in SUBSET Blocks /\ Units(b) \in SUBSET V /\ V \ Units(b) = U
    BY <1>1, <1>6
  <2>2. d = v - Cardinality(Units(b))
    <3> HIDE DEF V, U
    <3> QED
      BY ONLY PoolIs, <2>1, CountDifference
  <2>3. v \in Int /\ d \in Int
    BY <1>6, <2>1, BlocksFinite
  <2>4. Cardinality(Units(b)) = n /\ n \in Int
    BY <1>1, <1>2, UnitsCounted
  <2>5. x = d + n
    BY <1>3, <1>12
  <2> HIDE DEF v, d, n, x
  <2>6. x = v
    BY <2>2, <2>3, <2>4, <2>5
  <2> QED
    BY <1>13, <1>17, <2>6 DEF v
<1>19. Apart(B \ {b}) /\ UnitsOf(B \ {b}) \subseteq O
  BY <1>3 DEF Apart, UnitsOf
<1>20. Lists(r, Maximal(Unused(O, B \ {b})))
  BY <1>7, <1>14, <1>17
<1> HIDE DEF r
<1>21. Layout(r, O, B \ {b})
  BY <1>3, <1>16, <1>18, <1>19, <1>20 DEF Layout
<1> QED
  BY <1>11, <1>21
(* The end of the buddy of a busy block that is not allocated is free, and *)
(* where the buddy cannot be merged it ends with a smaller free block.     *)
LEMMA BuddyEndIsFree ==
  ASSUME PoolIs, NEW p, NEW O, NEW B, Layout(p, O, B), NEW b \in B,
         NEW t \in Sizes, b[2] <= t, t < numSizes - 1, BuddyEndFree(p, b[1], t)
  PROVE  p.trailer[Buddy(b[1], t) + 2^t] # Junk
<1> DEFINE o == b[1]
           U == Unused(O, B)
           d == Other(o, t)
           w == Buddy(o, t) + 2^t
           e == w - 1
           m == Home(o, t)
<1>1. /\ b \in AllBlocks /\ b[2] \in Nat /\ o \in Nat /\ o \in Units(b) /\ t \in Nat
      /\ Apart(B) /\ O \subseteq Blocks
      /\ p.map = (Blocks \ O) \cup {Last(c) : c \in B}
      /\ Lists(p, Maximal(U)) /\ Units(b) \cap U = {} /\ U \subseteq Nat
  <2>1. b \in AllBlocks /\ Units(b) \cap U = {}
    BY BusyBlocks
  <2>2. b[2] \in Nat /\ o \in Nat /\ o \in Units(b) /\ t \in Nat
    BY <2>1, BlockType, SizesNat
  <2>3. /\ Apart(B) /\ O \subseteq Blocks
        /\ p.map = (Blocks \ O) \cup {Last(c) : c \in B}
        /\ Lists(p, Maximal(U))
    BY DEF Layout
  <2>4. U \subseteq Nat
    BY <2>3, BlocksFinite DEF Unused
  <2> QED
    BY <2>1, <2>2, <2>3, <2>4
<1>2. /\ d \in AllBlocks /\ d[1] = Buddy(o, t) /\ d[2] = t
      /\ m \in AllBlocks /\ m[2] = t /\ o \in Units(m)
      /\ Units(m) \cap Units(d) = {}
  BY <1>1, Others, Homes
<1>3. /\ Buddy(o, t) \in Nat /\ 2^t \in Nat \ {0} /\ w \in Nat \ {0} /\ e \in Nat
      /\ w = e + 1
      /\ Units(d) = Buddy(o, t)..e
  <2>1. Buddy(o, t) \in Nat /\ 2^t \in Nat \ {0} /\ Units(d) = d[1]..(d[1] + 2^d[2] - 1)
    BY <1>2, BlockType
  <2>2. Buddy(o, t) + 2^t - 1 = e
    BY <2>1
  <2>3. w \in Nat \ {0} /\ e \in Nat /\ w = e + 1
    BY <2>1
  <2> QED
    BY <1>2, <2>1, <2>2, <2>3
<1>4. e \in Units(d) /\ e \in Blocks /\ e \notin p.map /\ w \in 1..poolBlocks
  <2>1. w <= poolBlocks /\ e \notin p.map
    BY <1>3 DEF BuddyEndFree
  <2>2. e \in Units(d)
    BY <1>3
  <2> HIDE DEF w
  <2> QED
    BY <1>3, <2>1, <2>2 DEF Blocks, PoolIs
<1> HIDE DEF e, w, d, m
\* A block with that unit is part of the buddy and ends there, or contains
\* the block that is merged.
<1>5. ASSUME NEW c \in AllBlocks, e \in Units(c), o \notin Units(c)
      PROVE  c[1] + 2^c[2] = w /\ Last(c) = e /\ c[1] = w - 2^c[2]
  <2>1. c[2] \in Nat /\ c[1] \in Nat /\ 2^c[2] \in Nat \ {0} /\ Units(c) = c[1]..(c[1] + 2^c[2] - 1)
    BY BlockType
  <2>2. c[2] <= t
    <3> SUFFICES ASSUME t < c[2]
                 PROVE  FALSE
      BY <1>1, <2>1
    <3>1. Units(d) \subseteq Units(c) /\ c # d
      <4>1. d[2] <= c[2] /\ Units(d) \cap Units(c) # {} /\ d[2] # c[2]
        BY <1>1, <1>2, <1>4, <1>5, <2>1
      <4> QED
        BY <1>2, <4>1, BlocksNested
    <3>2. Units(m) \subseteq Units(c)
      BY <1>1, <3>1, AroundBuddy DEF d, m
    <3> QED
      BY <1>2, <1>5, <3>2
  <2>3. Units(c) \subseteq Units(d)
    BY <1>2, <1>4, <1>5, <2>2, BlocksNested
  <2> DEFINE n == 2^c[2]
             a == c[1]
  <2>4. /\ n \in Nat \ {0} /\ a \in Nat /\ Units(c) = a..(a + n - 1)
        /\ Last(c) = a + n - 1
    BY <2>1 DEF Last
  <2> HIDE DEF n, a
  <2>5. a + n - 1 \in Units(c)
    BY <2>4
  <2>6. a + n - 1 <= e /\ e <= a + n - 1
    BY <1>3, <1>5, <2>3, <2>4, <2>5
  <2>7. a + n = w /\ Last(c) = e /\ a = w - n
    BY <1>3, <2>4, <2>6
  <2> QED
    BY <2>7 DEF n, a
<1>6. e \in U
  <2> SUFFICES ASSUME NEW c \in B, e \in Units(c)
               PROVE  FALSE
    BY <1>1, <1>4 DEF Unused, UnitsOf
  <2>1. c \in AllBlocks
    BY <1>1 DEF Apart
  <2>2. CASE o \in Units(c)
    <3>1. c = b
      BY <1>1, <2>2 DEF Apart
    <3>2. Units(b) \subseteq Units(m)
      BY <1>1, <1>2, BlocksNested
    <3> QED
      BY <1>2, <1>4, <3>1, <3>2
  <2>3. CASE o \notin Units(c)
    BY <1>1, <1>4, <1>5, <2>1, <2>3
  <2> QED
    BY <2>2, <2>3
<1>7. PICK f \in Maximal(U) : e \in Units(f)
  BY <1>1, <1>6, MaximalCovers
<1>8. f \in AllBlocks /\ Units(f) \subseteq U /\ o \notin Units(f) /\ f[2] \in Sizes
      /\ f = <<f[1], f[2]>>
  BY <1>1, <1>7, MaximalBlocks, BlockType
<1>9. <<w - 2^f[2], f[2]>> \in Maximal(U)
  BY <1>5, <1>7, <1>8
<1>10. p.trailer[w] = f[2]
  BY <1>1, <1>4, <1>8, <1>9 DEF Lists, Written
<1> QED
  BY <1>8, <1>10, Distinct DEF w

(* Free meets no corrupted list, and no storage of a caller.               *)
LEMMA FreeIsPossible ==
  ASSUME PoolIs, NEW p, NEW O, NEW B, Layout(p, O, B), NEW b \in B
  PROVE  CanFree(p, b[1])
<1> DEFINE o == b[1]
           s == b[2]
           F == Maximal(Unused(O, B))
           t == MergedSize(p, o, s)
           first == p.freeList[t]
<1>1. AllocSize(p, o) = s /\ Lists(p, F)
  BY SizeFound DEF Layout
<1>2. /\ t \in Sizes /\ t \in Nat /\ s <= t
      /\ \A j \in s..(t - 1) : Other(o, j) \in F
  BY MergeSteps
<1> HIDE DEF t
<1>3. ASSUME NEW k \in s..(t - 1)
      PROVE  Intact(p, Buddy(o, k), k) /\ p.freeList[k] # OURNULL
  <2> DEFINE d == Other(o, k)
  <2>1. d \in F /\ d[1] = Buddy(o, k) /\ d[2] = k
    BY <1>2 DEF Other
  <2> HIDE DEF d, F
  <2>2. Intact(p, d[1], d[2]) /\ p.freeList[d[2]] # OURNULL
    BY ONLY PoolIs, <1>1, <2>1, FreeBlocksIntact, ListHasHead
  <2> QED
    BY <2>1, <2>2
<1>4. t < numSizes - 1 /\ BuddyEndFree(p, o, t) => p.trailer[Buddy(o, t) + 2^t] # Junk
  BY <1>2, BuddyEndIsFree
<1>5. first # OURNULL => first \in Blocks /\ p.header[first] # Junk /\ p.header[first].prev = OURNULL
  <2> SUFFICES ASSUME first # OURNULL
               PROVE  first \in Blocks /\ p.header[first] # Junk /\ p.header[first].prev = OURNULL
    OBVIOUS
  <2> HIDE DEF F
  <2>1. <<first, t>> \in F /\ p.header[first].prev = OURNULL
    BY <1>1, <1>2 DEF Lists, Linked
  <2>2. first \in Blocks
    BY <1>1, <1>2 DEF Lists, PoolType, Offsets
  <2> QED
    BY <1>1, <1>2, <2>1, <2>2 DEF Lists, Written
<1> QED
  BY <1>1, <1>3, <1>4, <1>5 DEF CanFree, t
-----------------------------------------------------------------------------
(* Realloc to a smaller size *)

ShrunkMap(p, b, bits) == (p.map \ {b[1] + 2^b[2] - 1}) \cup {b[1] + 2^bits - 1}

LEMMA ShrinkKeepsLayout ==
  ASSUME PoolIs, NEW p, NEW O, NEW B, Layout(p, O, B), NEW b \in B, NEW bits \in Nat, bits <= b[2],
         NEW r, r = ToFree([p EXCEPT !.map = ShrunkMap(p, b, bits)], b[1] + 2^bits, b[1] + 2^b[2])
  PROVE  /\ <<b[1], bits>> \in AllBlocks /\ bits \in Sizes
         /\ Layout(r, O, (B \ {b}) \cup {<<b[1], bits>>})
<1> DEFINE o == b[1]
           s == b[2]
           c == <<o, bits>>
           m == 2^bits
           n == 2^s
           R == Units(b) \ Units(c)
           C == (B \ {b}) \cup {c}
           U == Unused(O, B)
           F == Maximal(U)
           mp == ShrunkMap(p, b, bits)
           q == [p EXCEPT !.map = ShrunkMap(p, b, bits)]
<1>1. /\ b \in AllBlocks /\ Units(b) \subseteq O /\ Units(b) \subseteq Blocks
      /\ Units(b) \cap U = {}
      /\ \A d \in B : Last(d) = Last(b) => d = b
  BY BusyBlocks
<1>2. /\ O \subseteq Blocks /\ Apart(B) /\ UnitsOf(B) \subseteq O
      /\ p.map = (Blocks \ O) \cup {Last(d) : d \in B}
      /\ Lists(p, F) /\ p.freeBytes = Cardinality(U) /\ p \in PoolType
  BY DEF Layout, Lists
<1>3. U \subseteq Blocks /\ U \subseteq Nat
  BY <1>2, BlocksFinite DEF Unused
<1>4. /\ c \in AllBlocks /\ bits \in Sizes /\ Units(c) \subseteq Units(b)
      /\ (o + m)..(o + n - 1) = R
      /\ o + m \in Nat /\ o + n \in Nat /\ o + m <= o + n
      /\ o \in Nat /\ m \in Nat \ {0} /\ n \in Nat \ {0} /\ o \in Units(c)
  <2>1. o \in Nat /\ m \in Nat \ {0} /\ n \in Nat \ {0}
    BY <1>1, BlockType, PowersOfTwo
  <2>2. /\ c \in AllBlocks /\ bits \in Sizes /\ Units(c) \subseteq Units(b)
        /\ (o + m)..(o + n - 1) = R
        /\ o + m \in Nat /\ o + n \in Nat /\ o + m <= o + n
    BY <1>1, StartOfBlock
  <2>3. c[1] \in Units(c)
    BY <2>2, BlockType
  <2> QED
    BY <2>1, <2>2, <2>3
<1>5. o + n <= poolBlocks
  <2>1. b[1] + 2^b[2] \in 1..poolBlocks
    BY <1>1, BlockInPool
  <2> QED
    BY <2>1 DEF PoolIs
<1>6. Last(c) = o + m - 1 /\ Last(b) = o + n - 1 /\ Last(c) \in Units(c)
  <2>1. c[1] + 2^c[2] - 1 \in Units(c)
    BY <1>1, <1>4, BlockInPool
  <2> QED
    BY <2>1 DEF Last
<1>7. Lists(q, F) /\ q.map = mp /\ q.freeBytes = p.freeBytes
  <2> DEFINE x == p.freeBytes
  <2>1. mp \in SUBSET Blocks
    <3>1. p.map \subseteq Blocks
      BY <1>2 DEF PoolType
    <3>2. mp = (p.map \ {Last(b)}) \cup {Last(c)}
      BY <1>6 DEF ShrunkMap
    <3> HIDE DEF mp
    <3> QED
      BY <1>1, <1>4, <1>6, <3>1, <3>2
  <2>2. x \in Int /\ q = [p EXCEPT !.map = mp, !.freeBytes = x] /\ q.map = mp /\ q.freeBytes = x
    BY <1>2 DEF PoolType
  <2> HIDE DEF mp, x, q, F
  <2>3. Lists(q, F)
    BY ONLY <1>2, <2>1, <2>2, ListsElsewhere
  <2> QED
    BY <2>2, <2>3 DEF x
<1>8. \A f \in F : Units(f) \cap R = {}
  BY <1>1, MaximalBlocks
<1>9. Lists(r, F \cup Maximal(R)) /\ r.map = mp /\ r.freeBytes = p.freeBytes + Cardinality(R)
  <2> DEFINE x == o + m
             y == o + n
             G == F \cup Maximal(R)
  <2>1. /\ x \in Nat /\ y \in Nat /\ x <= y /\ y <= poolBlocks
        /\ Lists(q, F) /\ G = F \cup Maximal(R)
        /\ R = x..(y - 1) /\ r = ToFree(q, x, y)
    <3>1. o + n - 1 = y - 1
      BY <1>4
    <3> QED
      BY <1>4, <1>5, <1>7, <3>1
  <2> HIDE DEF x, y, G, R, F, q
  <2>2. Lists(r, G) /\ r.map = q.map /\ r.freeBytes = q.freeBytes + Cardinality(R)
    BY ONLY PoolIs, <1>8, <2>1, ToFreeFrees
  <2> QED
    BY <1>7, <2>2 DEF G
<1> HIDE DEF q, mp
<1>10. Units(c) \cap UnitsOf(B \ {b}) = {} /\ UnitsOf(B) = UnitsOf(B \ {b}) \cup Units(b)
       /\ Units(b) \cap UnitsOf(B \ {b}) = {}
       /\ UnitsOf(C) = UnitsOf(B \ {b}) \cup Units(c)
  <2>1. \A d \in B \ {b} : Units(b) \cap Units(d) = {}
    BY <1>2 DEF Apart
  <2> HIDE DEF c
  <2>2. UnitsOf(B) = UnitsOf(B \ {b}) \cup Units(b) /\ UnitsOf(C) = UnitsOf(B \ {b}) \cup Units(c)
    BY DEF UnitsOf
  <2>3. Units(b) \cap UnitsOf(B \ {b}) = {}
    BY <2>1 DEF UnitsOf
  <2> QED
    BY <1>4, <2>2, <2>3
<1>11. Unused(O, C) = U \cup R
  <2> HIDE DEF c, C
  <2> QED
    BY <1>1, <1>4, <1>10 DEF Unused
<1>12. Maximal(U \cup R) = F \cup Maximal(R)
  <2>1. ASSUME NEW e \in AllBlocks, Units(e) \subseteq U \cup R
        PROVE  Units(e) \subseteq U \/ Units(e) \subseteq R
    <3> SUFFICES ASSUME ~(Units(e) \subseteq U)
                 PROVE  Units(e) \subseteq R
      OBVIOUS
    <3>1. Units(e) \cap Units(b) # {} /\ Units(b) \cap Units(e) # {}
      BY <2>1
    <3>2. e[2] \in Nat /\ b[2] \in Nat
      BY <1>1, BlockType
    <3>3. CASE e[2] <= b[2]
      <4>1. Units(e) \subseteq Units(b)
        BY <1>1, <3>1, <3>3, BlocksNested
      <4> QED
        BY <1>1, <2>1, <4>1
    <3>4. CASE b[2] <= e[2]
      <4>1. Units(b) \subseteq Units(e)
        BY <1>1, <3>1, <3>4, BlocksNested
      <4>2. o \in U \/ o \in R
        BY <1>4, <2>1, <4>1
      <4> QED
        BY <1>1, <1>4, <4>2
    <3> QED
      BY <3>2, <3>3, <3>4
  <2>2. U \cap R = {}
    BY <1>1
  <2> HIDE DEF U, R
  <2>3. Maximal(U \cup R) = Maximal(U) \cup Maximal(R)
    BY ONLY <2>1, <2>2, MaximalUnion
  <2> QED
    BY <2>3 DEF F
<1>13. r.freeBytes = Cardinality(Unused(O, C))
  <2> DEFINE V == U \cup R
             v == Cardinality(V)
             d == Cardinality(R)
             u == Cardinality(U)
  <2>1. V \in SUBSET Blocks /\ R \in SUBSET V /\ V \ R = U
    BY <1>1, <1>3
  <2>2. u = v - d
    <3> HIDE DEF V, U, R
    <3> QED
      BY ONLY PoolIs, <2>1, CountDifference DEF u, v, d
  <2>3. v \in Int /\ u \in Int /\ d \in Int
    <3>1. R \in SUBSET Blocks /\ U \in SUBSET Blocks
      BY <1>1, <1>3
    <3> HIDE DEF V, U, R
    <3> QED
      BY <2>1, <3>1, BlocksFinite
  <2>4. r.freeBytes = u + d
    BY <1>2, <1>9
  <2>5. v = Cardinality(Unused(O, C))
    BY <1>11
  <2> HIDE DEF v, d, u
  <2> QED
    BY <2>2, <2>3, <2>4, <2>5
<1>14. Apart(C) /\ UnitsOf(C) \subseteq O
  <2>1. Apart(B \ {b})
    BY <1>2 DEF Apart
  <2>2. \A d \in B \ {b} : Units(c) \cap Units(d) = {}
    BY <1>10 DEF UnitsOf
  <2>3. Apart((B \ {b}) \cup {c})
    BY <1>1, <1>4, <2>1, <2>2, ApartMore
  <2> QED
    BY <1>1, <1>2, <1>4, <1>10, <2>3
<1>15. r.map = (Blocks \ O) \cup {Last(d) : d \in C}
  <2>1. mp = (p.map \ {Last(b)}) \cup {Last(c)}
    BY <1>6 DEF ShrunkMap, mp
  <2>2. Last(b) \in O
    BY <1>1, BusyBlocks
  <2>3. {Last(d) : d \in C} = {Last(d) : d \in B \ {b}} \cup {Last(c)}
    OBVIOUS
  <2>4. p.map \ {Last(b)} = (Blocks \ O) \cup {Last(d) : d \in B \ {b}}
    BY <1>1, <1>2, <2>2
  <2> HIDE DEF mp, C, c
  <2> QED
    BY <1>9, <2>1, <2>3, <2>4
<1>16. Lists(r, Maximal(Unused(O, C)))
  BY <1>9, <1>11, <1>12
<1> HIDE DEF C
<1>17. Layout(r, O, C)
  BY <1>2, <1>13, <1>14, <1>15, <1>16 DEF Layout
<1> QED
  BY <1>4, <1>17 DEF C
-----------------------------------------------------------------------------
(* The invariant *)

Busy == {<<o, AllocSize(pool, o)>> : o \in held}

BuddyInv ==
  /\ poolBlocks \in PoolSizes
  /\ HaveFrontBuffer \in BOOLEAN
  /\ setup \in {"init", "upper", "done"}
  /\ answer \in {"none", "success", "no memory"} \X Requests
  /\ setup # "done" => held = {}
  /\ Layout(pool, Owned, Busy)

LEMMA BuddyInvPool ==
  ASSUME BuddyInv
  PROVE  PoolIs
BY AllocatorAssumption DEF BuddyInv, PoolIs

(* The callers' pointers and the busy blocks are the same thing.           *)
LEMMA BusyFound ==
  ASSUME PoolIs, NEW q, NEW O, NEW C, Layout(q, O, C)
  PROVE  {<<o, AllocSize(q, o)>> : o \in {c[1] : c \in C}} = C
<1>1. ASSUME NEW c \in C
      PROVE  c = <<c[1], AllocSize(q, c[1])>>
  BY SizeFound, BusyBlocks, BlockType
<1> QED
  BY <1>1

(* What the definitions say in the next state of a pool of the same size.  *)
LEMMA SamePool ==
  ASSUME poolBlocks' = poolBlocks
  PROVE  /\ Blocks' = Blocks
         /\ Busy' = {<<o, AllocSize(pool', o)>> : o \in held'}
         /\ Layout(pool', Owned', Busy') => Layout(pool, Owned, Busy)'
<1>1. Blocks' = Blocks
  BY DEF Blocks
<1>2. ASSUME NEW o
      PROVE  AllocSize(pool, o)' = AllocSize(pool', o)
  <2>1. Ends(pool, o)' = Ends(pool', o)
    BY DEF Ends
  <2> QED
    BY <2>1 DEF AllocSize
<1>3. Busy' = {<<o, AllocSize(pool', o)>> : o \in held'}
  BY <1>2 DEF Busy
<1>4. Apart(Busy') => Apart(Busy)'
  BY <1>1 DEF Apart
<1>5. PoolType' = PoolType
  BY <1>1 DEF PoolType, LinksType, Offsets
<1> DEFINE F == Maximal(Unused(Owned, Busy))
<1>6. Apart(F') => Apart(F)'
  <2> HIDE DEF F
  <2> QED
    BY <1>1 DEF Apart
<1>7. Written(pool', F') => Written(pool, F)'
  <2> HIDE DEF F
  <2> QED
    BY <1>1 DEF Written
<1>8. Ordered(pool', F') => Ordered(pool, F)'
  <2> HIDE DEF F
  <2> QED
    BY <1>1 DEF Ordered
<1>9. Linked(pool', F') => Linked(pool, F)'
  <2> HIDE DEF F
  <2> QED
    BY DEF Linked
<1>10. Lists(pool', F') => Lists(pool, F)'
  <2> HIDE DEF F
  <2> QED
    BY <1>5, <1>6, <1>7, <1>8, <1>9 DEF Lists
<1>11. Layout(pool', Owned', Busy') => Layout(pool, Owned, Busy)'
  BY <1>1, <1>4, <1>10 DEF Layout
<1> QED
  BY <1>1, <1>3, <1>11

(* A step that keeps the layout keeps the invariant.                       *)
LEMMA LayoutStep ==
  ASSUME BuddyInv, UNCHANGED <<poolBlocks, HaveFrontBuffer>>,
         setup' \in {"init", "upper", "done"},
         answer' \in {"none", "success", "no memory"} \X Requests,
         setup' # "done" => held' = {},
         NEW C, Layout(pool', Owned', C), held' = {c[1] : c \in C}
  PROVE  BuddyInv' /\ Busy' = C
<1>1. PoolIs
  BY BuddyInvPool
<1>2. poolBlocks' = poolBlocks /\ HaveFrontBuffer' = HaveFrontBuffer
  OBVIOUS
<1>3. Busy' = C
  BY <1>1, <1>2, SamePool, BusyFound
<1>4. Layout(pool, Owned, Busy)'
  BY <1>2, <1>3, SamePool
<1>5. Requests' = Requests
  BY DEF Requests
<1> QED
  BY <1>2, <1>3, <1>4, <1>5 DEF BuddyInv

LEMMA HeldIsBusy ==
  held = {b[1] : b \in Busy}
<1>1. ASSUME NEW o \in held
      PROVE  \E b \in Busy : b[1] = o
  <2>1. <<o, AllocSize(pool, o)>> \in Busy
    BY DEF Busy
  <2> QED
    BY <2>1
<1>2. \A b \in Busy : b[1] \in held
  BY DEF Busy
<1> QED
  BY <1>1, <1>2

(* Nothing is handed over yet.                                             *)
LEMMA BuddyInvInit ==
  ASSUME Init
  PROVE  BuddyInv /\ Owned = {} /\ Busy = {}
<1>1. PoolIs
  BY AllocatorAssumption DEF Init, PoolIs
<1>2. Owned = {} /\ Busy = {} /\ held = {}
  BY DEF Init, Owned, Busy
<1>3. Unused({}, {}) = {}
  BY DEF Unused
<1>4. Lists(pool, {})
  <2>1. pool \in PoolType
    BY DEF Init, PoolType, Offsets
  <2>2. Apart({})
    BY DEF Apart
  <2>3. Written(pool, {})
    BY <1>1, Distinct DEF Written, Init
  <2>4. Linked(pool, {})
    BY DEF Linked, Init
  <2>5. Ordered(pool, {})
    <3> DEFINE rank == [o \in Blocks |-> 0]
    <3>1. rank \in [Blocks -> Int] /\ -1 \in Int /\ \A o \in Blocks : -1 < rank[o]
      OBVIOUS
    <3> QED
      BY <3>1 DEF Ordered
  <2> QED
    BY <2>1, <2>2, <2>3, <2>4, <2>5 DEF Lists
<1>5. Layout(pool, {}, {})
  <2>1. pool.map = Blocks /\ pool.freeBytes = 0
    BY DEF Init
  <2>2. Cardinality({}) = 0
    BY FS_EmptySet
  <2>3. Apart({}) /\ UnitsOf({}) = {}
    BY DEF Apart, UnitsOf
  <2> QED
    BY <1>3, <1>4, <2>1, <2>2, <2>3, MaximalOfNothing DEF Layout
<1>6. 0 \in Requests
  BY AllocatorAssumption DEF Requests
<1> QED
  BY <1>2, <1>5, <1>6 DEF BuddyInv, Init
(* bytes_reserve is a boundary that no block lies across.                  *)
LEMMA NoBlockAcross ==
  ASSUME NEW e \in AllBlocks, NEW u \in Units(e), u < bytes_reserve,
         NEW v \in Units(e), bytes_reserve <= v
  PROVE  FALSE
<1> DEFINE k == numSizes - 1
           o == e[1]
           j == e[2]
           d == 2^j
           x == 2^k
<1>1. /\ o \in Nat /\ j \in Nat /\ j <= k /\ k \in Nat /\ o % d = 0 /\ d \in Nat \ {0}
      /\ bytes_reserve \in Nat /\ bytes_reserve % x = 0 /\ x \in Nat \ {0}
      /\ Units(e) = o..(o + d - 1)
  <2>1. numSizes \in Nat \ {0} /\ bytes_reserve \in Nat /\ bytes_reserve % 2^(numSizes - 1) = 0
    BY AllocatorAssumption
  <2>2. k \in Nat /\ x \in Nat \ {0}
    BY <2>1, PowersOfTwo
  <2>3. /\ o \in Nat /\ j \in Nat /\ j < numSizes /\ o % d = 0 /\ d \in Nat \ {0}
        /\ Units(e) = o..(o + d - 1)
    BY BlockType
  <2> QED
    BY <2>1, <2>2, <2>3
<1>2. o < bytes_reserve /\ bytes_reserve < o + d
  <2> HIDE DEF o, d
  <2>1. u \in o..(o + d - 1) /\ v \in o..(o + d - 1)
    BY <1>1
  <2> QED
    BY <1>1, <2>1
<1>3. o < bytes_reserve + x
  <2> HIDE DEF o, x
  <2> QED
    BY <1>1, <1>2
<1> HIDE DEF o, j, k
<1>4. bytes_reserve <= o
  BY <1>1, <1>2, <1>3, AlignedNested
<1> QED
  BY <1>1, <1>2, <1>4

(* What is handed over joins what was, and no block lies across.           *)
LEMMA ReleaseStep ==
  ASSUME BuddyInv, NEW first \in Nat, NEW past \in Nat, first <= past, past <= poolBlocks,
         Release(first, past), held = {},
         UNCHANGED <<poolBlocks, HaveFrontBuffer, held, answer>>,
         setup' \in {"init", "upper", "done"},
         Owned \cap (first..(past - 1)) = {}, Owned' = Owned \cup (first..(past - 1)),
         \A b \in AllBlocks : Units(b) \subseteq Owned \cup (first..(past - 1)) =>
           Units(b) \subseteq Owned \/ Units(b) \subseteq first..(past - 1)
  PROVE  BuddyInv' /\ Busy' = {}
<1>1. PoolIs
  BY BuddyInvPool
<1>2. Busy = {}
  BY DEF Busy
<1>3. Layout(pool, Owned, {})
  BY <1>2 DEF BuddyInv
<1>4. Layout(ToFree([pool EXCEPT !.map = @ \ (first..(past - 1))], first, past),
             Owned \cup (first..(past - 1)), {})
  BY <1>1, <1>3, ReleaseKeepsLayout
<1>5. Layout(pool', Owned', {})
  BY <1>4 DEF Release
<1>6. held' = {c[1] : c \in {}}
  OBVIOUS
<1>7. setup' # "done" => held' = {}
  OBVIOUS
<1>8. answer' \in {"none", "success", "no memory"} \X Requests
  BY DEF BuddyInv
<1>9. UNCHANGED <<poolBlocks, HaveFrontBuffer>>
  OBVIOUS
<1> QED
  BY ONLY BuddyInv, setup' \in {"init", "upper", "done"}, <1>5, <1>6, <1>7, <1>8, <1>9, LayoutStep

(* A step of setupAllocator that hands over nothing.                       *)
LEMMA NothingReleased ==
  ASSUME BuddyInv, UNCHANGED <<poolBlocks, HaveFrontBuffer, pool, held, answer>>, held = {},
         setup' \in {"init", "upper", "done"}, Owned' = Owned
  PROVE  BuddyInv' /\ Busy' = {}
<1>1. Busy = {}
  BY DEF Busy
<1>2. Layout(pool', Owned', {})
  BY <1>1 DEF BuddyInv
<1>3. held' = {c[1] : c \in {}}
  OBVIOUS
<1>4. /\ answer' \in {"none", "success", "no memory"} \X Requests
      /\ setup' # "done" => held' = {}
      /\ UNCHANGED <<poolBlocks, HaveFrontBuffer>>
  BY DEF BuddyInv
<1> QED
  BY ONLY BuddyInv, setup' \in {"init", "upper", "done"}, <1>2, <1>3, <1>4, LayoutStep

LEMMA SetupUpperStep ==
  ASSUME BuddyInv, SetupUpper
  PROVE  BuddyInv' /\ Owned \subseteq Owned' /\ Busy' = Busy
<1>1. PoolIs
  BY BuddyInvPool
<1>2. /\ setup = "init" /\ setup' = "upper" /\ held = {}
      /\ UNCHANGED <<poolBlocks, HaveFrontBuffer, held, answer>>
      /\ bytes_reserve \in Nat /\ poolBlocks \in Nat
  BY <1>1, AllocatorAssumption DEF SetupUpper, BuddyInv, PoolIs
<1>3. Owned = {} /\ Busy = {}
  BY <1>2 DEF Owned, Busy
<1>4. Owned' = {b \in Blocks : b >= bytes_reserve}
  BY <1>2, SamePool DEF Owned
<1>5. CASE bytes_reserve < poolBlocks
  <2>1. Owned' = bytes_reserve..(poolBlocks - 1)
    BY <1>2, <1>4, <1>5 DEF Blocks
  <2>2. Owned' = Owned \cup (bytes_reserve..(poolBlocks - 1))
    BY <1>3, <2>1
  <2>3. \A b \in AllBlocks : Units(b) \subseteq Owned \cup (bytes_reserve..(poolBlocks - 1)) =>
           Units(b) \subseteq Owned \/ Units(b) \subseteq bytes_reserve..(poolBlocks - 1)
    BY <1>3
  <2>4. Release(bytes_reserve, poolBlocks)
    BY <1>5 DEF SetupUpper
  <2>5. /\ bytes_reserve <= poolBlocks /\ poolBlocks <= poolBlocks
        /\ Owned \cap (bytes_reserve..(poolBlocks - 1)) = {}
        /\ setup' \in {"init", "upper", "done"}
    BY <1>2, <1>3, <1>5
  <2>6. BuddyInv' /\ Busy' = {}
    BY <1>2, <2>2, <2>3, <2>4, <2>5, ReleaseStep
  <2> QED
    BY <1>3, <2>6
<1>6. CASE ~(bytes_reserve < poolBlocks)
  <2>1. Owned' = Owned
    BY <1>2, <1>3, <1>4, <1>6 DEF Blocks
  <2>2. UNCHANGED <<poolBlocks, HaveFrontBuffer, pool, held, answer>>
    BY <1>2, <1>6 DEF SetupUpper
  <2>3. BuddyInv' /\ Busy' = {}
    BY <1>2, <2>1, <2>2, NothingReleased
  <2> QED
    BY <1>3, <2>1, <2>3
<1> QED
  BY <1>5, <1>6

LEMMA SetupFrontStep ==
  ASSUME BuddyInv, SetupFront
  PROVE  BuddyInv' /\ Owned \subseteq Owned' /\ Busy' = Busy
<1> DEFINE past == IF bytes_reserve < poolBlocks THEN bytes_reserve ELSE poolBlocks
           R == 0..(past - 1)
<1>1. PoolIs
  BY BuddyInvPool
<1>2. /\ setup = "upper" /\ setup' = "done" /\ held = {}
      /\ UNCHANGED <<poolBlocks, HaveFrontBuffer, held, answer>>
      /\ bytes_reserve \in Nat /\ poolBlocks \in Nat
  BY <1>1, AllocatorAssumption DEF SetupFront, BuddyInv, PoolIs
<1>3. Owned = {b \in Blocks : b >= bytes_reserve} /\ Busy = {}
  BY <1>2 DEF Owned, Busy
<1>4. Owned' = {b \in Blocks : b >= bytes_reserve \/ HaveFrontBuffer}
  BY <1>2, SamePool DEF Owned
<1>5. past \in Nat /\ past <= poolBlocks /\ R = {b \in Blocks : ~(b >= bytes_reserve)}
  BY <1>2 DEF Blocks
<1>6. Blocks \subseteq Nat
  BY <1>2 DEF Blocks
<1> HIDE DEF past
<1>7. CASE HaveFrontBuffer
  <2>1. Owned' = Owned \cup R /\ Owned \cap R = {}
    BY <1>3, <1>4, <1>5, <1>7
  <2>2. ASSUME NEW b \in AllBlocks, Units(b) \subseteq Owned \cup R
        PROVE  Units(b) \subseteq Owned \/ Units(b) \subseteq R
    <3> SUFFICES ASSUME NEW u \in Units(b), u \notin Owned, NEW v \in Units(b), v \notin R
                 PROVE  FALSE
      OBVIOUS
    <3>1. u \in Blocks /\ v \in Blocks /\ ~(u >= bytes_reserve) /\ v >= bytes_reserve
      BY <1>3, <1>5, <2>2
    <3>2. u < bytes_reserve /\ bytes_reserve <= v
      BY <1>2, <1>6, <3>1
    <3> QED
      BY <3>2, NoBlockAcross
  <2>3. Release(0, past)
    BY <1>7 DEF SetupFront, past
  <2>4. 0 \in Nat /\ 0 <= past /\ setup' \in {"init", "upper", "done"}
    BY <1>2, <1>5
  <2>5. BuddyInv' /\ Busy' = {}
    BY <1>2, <1>5, <2>1, <2>2, <2>3, <2>4, ReleaseStep
  <2> QED
    BY <1>3, <2>1, <2>5
<1>8. CASE ~HaveFrontBuffer
  <2>1. Owned' = Owned
    BY <1>3, <1>4, <1>8
  <2>2. UNCHANGED <<poolBlocks, HaveFrontBuffer, pool, held, answer>>
    BY <1>2, <1>8 DEF SetupFront
  <2>3. BuddyInv' /\ Busy' = {}
    BY <1>2, <2>1, <2>2, NothingReleased
  <2> QED
    BY <1>3, <2>1, <2>3
<1> QED
  BY <1>7, <1>8
(* The block that a caller's pointer stands for.                           *)
LEMMA HeldBlock ==
  ASSUME BuddyInv, NEW o \in held
  PROVE  LET b == <<o, AllocSize(pool, o)>>
         IN  /\ b \in Busy /\ b \in AllBlocks /\ Ends(pool, o) # {}
             /\ o \in Nat /\ b[2] \in Sizes /\ b[2] \in Nat /\ b[2] < numSizes
<1> DEFINE b == <<o, AllocSize(pool, o)>>
<1>1. PoolIs /\ Layout(pool, Owned, Busy)
  BY BuddyInvPool DEF BuddyInv
<1>2. b \in Busy
  BY DEF Busy
<1>3. b[1] = o
  OBVIOUS
<1> HIDE DEF b
<1>4. b \in AllBlocks /\ Ends(pool, b[1]) # {}
  BY <1>1, <1>2, BusyBlocks, SizeFound
<1>5. b[1] \in Nat /\ b[2] \in Sizes /\ b[2] \in Nat /\ b[2] < numSizes
  BY <1>4, BlockType
<1> QED
  BY <1>2, <1>3, <1>4, <1>5 DEF b

(* A call that is answered when the pool is set up.                        *)
LEMMA CallStep ==
  ASSUME BuddyInv, NEW what \in {"success", "no memory"}, NEW bits \in Requests, Answer(what, bits),
         NEW C, Layout(pool', Owned, C), held' = {c[1] : c \in C}
  PROVE  BuddyInv' /\ Owned' = Owned /\ Busy' = C
<1>1. /\ poolBlocks' = poolBlocks /\ HaveFrontBuffer' = HaveFrontBuffer
      /\ setup' = "done" /\ setup = "done" /\ answer' = <<what, bits>>
  BY DEF Answer
<1>2. Owned' = Owned
  BY <1>1, SamePool DEF Owned
<1>3. answer' \in {"none", "success", "no memory"} \X Requests
  BY <1>1
<1>4. /\ UNCHANGED <<poolBlocks, HaveFrontBuffer>> /\ setup' \in {"init", "upper", "done"}
      /\ setup' # "done" => held' = {}
      /\ Layout(pool', Owned', C) /\ held' = {c[1] : c \in C}
  BY <1>1, <1>2
<1>5. BuddyInv' /\ Busy' = C
  BY ONLY BuddyInv, <1>3, <1>4, LayoutStep
<1> QED
  BY <1>2, <1>5

LEMMA RequestsNat == \A bits \in Requests : bits \in Nat
BY AllocatorAssumption DEF Requests

(* The new block is a place for it, and joins the busy ones.               *)
LEMMA MallocStep ==
  ASSUME BuddyInv, NEW bits \in Requests, Malloc(bits)
  PROVE  LET c == <<Found(pool, bits), bits>>
         IN  /\ c \in AllBlocks /\ bits \in Sizes /\ Units(c) \subseteq Unused(Owned, Busy)
             /\ BuddyInv' /\ Owned' = Owned /\ Busy' = Busy \cup {c}
<1> DEFINE c == <<Found(pool, bits), bits>>
<1>1. PoolIs /\ Layout(pool, Owned, Busy) /\ bits \in Nat
  BY BuddyInvPool, RequestsNat DEF BuddyInv
<1>2. /\ HasMemory(pool, bits) /\ pool' = Allocate(pool, bits)
      /\ held' = held \cup {Found(pool, bits)} /\ Answer("success", bits)
  BY DEF Malloc
<1>3. /\ bits \in Sizes /\ c \in AllBlocks /\ Units(c) \subseteq Unused(Owned, Busy)
      /\ Layout(pool', Owned, Busy \cup {c})
  BY <1>1, <1>2, MallocKeepsLayout
<1> DEFINE C == Busy \cup {c}
<1>4. held' = {d[1] : d \in C}
  <2>1. {d[1] : d \in C} = {d[1] : d \in Busy} \cup {c[1]}
    OBVIOUS
  <2> QED
    BY <1>2, <2>1, HeldIsBusy
<1>5. Layout(pool', Owned, C)
  BY <1>3
<1> HIDE DEF C
<1>6. BuddyInv' /\ Owned' = Owned /\ Busy' = C
  BY <1>2, <1>4, <1>5, CallStep
<1> QED
  BY <1>3, <1>6 DEF C

LEMMA NoMemoryStep ==
  ASSUME BuddyInv, NEW bits \in Requests, NoMemory(bits)
  PROVE  BuddyInv' /\ Owned' = Owned /\ Busy' = Busy
<1>1. /\ pool' = pool /\ held' = held /\ Answer("no memory", bits)
  BY DEF NoMemory
<1>2. Layout(pool', Owned, Busy) /\ held' = {c[1] : c \in Busy}
  BY <1>1, HeldIsBusy DEF BuddyInv
<1> QED
  BY <1>1, <1>2, CallStep

(* The pointers that remain when one is given back.                        *)
LEMMA HeldWithout ==
  ASSUME NEW o \in held
  PROVE  held \ {o} = {c[1] : c \in Busy \ {<<o, AllocSize(pool, o)>>}}
<1> DEFINE b == <<o, AllocSize(pool, o)>>
<1>1. \A c \in Busy : c = <<c[1], AllocSize(pool, c[1])>>
  BY DEF Busy
<1>2. ASSUME NEW c \in Busy \ {b}
      PROVE  c[1] \in held \ {o}
  BY <1>1, HeldIsBusy
<1>3. ASSUME NEW h \in held \ {o}
      PROVE  \E c \in Busy \ {b} : c[1] = h
  <2>1. <<h, AllocSize(pool, h)>> \in Busy \ {b}
    BY DEF Busy
  <2> QED
    BY <2>1
<1> HIDE DEF b
<1>4. held \ {o} = {c[1] : c \in Busy \ {b}}
  BY <1>2, <1>3
<1> QED
  BY <1>4 DEF b

LEMMA FreeStep ==
  ASSUME BuddyInv, NEW o \in held, Free(o)
  PROVE  BuddyInv' /\ Owned' = Owned /\ Busy' = Busy \ {<<o, AllocSize(pool, o)>>}
<1> DEFINE b == <<o, AllocSize(pool, o)>>
           C == Busy \ {b}
<1>1. PoolIs /\ Layout(pool, Owned, Busy)
  BY BuddyInvPool DEF BuddyInv
<1>2. b \in Busy /\ b[1] = o /\ b[2] \in Sizes
  BY HeldBlock
<1>3. pool' = FreeBlock(pool, o) /\ held' = held \ {o} /\ Answer("success", AllocSize(pool, o))
  BY DEF Free
<1>4. held' = {c[1] : c \in C}
  BY <1>3, HeldWithout
<1>5. AllocSize(pool, o) \in Requests
  BY <1>2, SizesNat, AllocatorAssumption DEF Requests
<1> HIDE DEF b
<1>6. Layout(pool', Owned, C)
  BY <1>1, <1>2, <1>3, FreeKeepsLayout
<1> HIDE DEF C
<1>7. BuddyInv' /\ Owned' = Owned /\ Busy' = C
  BY <1>3, <1>4, <1>5, <1>6, CallStep
<1> QED
  BY <1>7 DEF C, b

LEMMA ReallocShrinkStep ==
  ASSUME BuddyInv, NEW o \in held, NEW bits \in Requests, ReallocShrink(o, bits)
  PROVE  /\ BuddyInv' /\ Owned' = Owned
         /\ Busy' = (Busy \ {<<o, AllocSize(pool, o)>>}) \cup {<<o, bits>>}
<1> DEFINE b == <<o, AllocSize(pool, o)>>
           C == (Busy \ {b}) \cup {<<o, bits>>}
<1>1. PoolIs /\ Layout(pool, Owned, Busy) /\ bits \in Nat
  BY BuddyInvPool, RequestsNat DEF BuddyInv
<1>2. b \in Busy /\ b[1] = o /\ b[2] = AllocSize(pool, o)
  BY HeldBlock
<1>3. /\ bits <= AllocSize(pool, o) /\ held' = held /\ Answer("success", bits)
      /\ pool' = ToFree([pool EXCEPT !.map = ShrunkMap(pool, b, bits)],
                        o + 2^bits, o + 2^AllocSize(pool, o))
  BY DEF ReallocShrink, ShrunkMap
<1>4. held' = {c[1] : c \in C}
  <2> DEFINE d == <<o, bits>>
  <2>1. d[1] = o
    OBVIOUS
  <2> HIDE DEF b, d
  <2>2. {c[1] : c \in (Busy \ {b}) \cup {d}} = {c[1] : c \in Busy \ {b}} \cup {d[1]}
    OBVIOUS
  <2>3. held = (held \ {o}) \cup {o}
    OBVIOUS
  <2>4. held \ {o} = {c[1] : c \in Busy \ {b}}
    BY HeldWithout DEF b
  <2> QED
    BY <1>3, <2>1, <2>2, <2>3, <2>4 DEF d
<1> HIDE DEF b
<1>5. Layout(pool', Owned, (Busy \ {b}) \cup {<<b[1], bits>>})
  <2>1. bits <= b[2] /\ pool' = ToFree([pool EXCEPT !.map = ShrunkMap(pool, b, bits)], b[1] + 2^bits, b[1] + 2^b[2])
    BY <1>2, <1>3
  <2> QED
    BY ONLY <1>1, <1>2, <2>1, ShrinkKeepsLayout
<1>6. Layout(pool', Owned, C)
  BY <1>2, <1>5
<1> HIDE DEF C
<1>7. BuddyInv' /\ Owned' = Owned /\ Busy' = C
  BY <1>3, <1>4, <1>6, CallStep
<1> QED
  BY <1>7 DEF C, b

(* The block is allocated beside the old one, which is then freed.         *)
LEMMA ReallocGrowStep ==
  ASSUME BuddyInv, NEW o \in held, NEW bits \in Requests, ReallocGrow(o, bits)
  PROVE  LET c == <<Found(pool, bits), bits>>
         IN  /\ c \in AllBlocks /\ bits \in Sizes /\ Units(c) \subseteq Unused(Owned, Busy)
             /\ BuddyInv' /\ Owned' = Owned
             /\ Busy' = (Busy \ {<<o, AllocSize(pool, o)>>}) \cup {c}
<1> DEFINE b == <<o, AllocSize(pool, o)>>
           c == <<Found(pool, bits), bits>>
           C == (Busy \ {b}) \cup {c}
           q == Allocate(pool, bits)
<1>1. PoolIs /\ Layout(pool, Owned, Busy) /\ bits \in Nat
  BY BuddyInvPool, RequestsNat DEF BuddyInv
<1>2. b \in Busy /\ b[1] = o /\ b \in AllBlocks
  BY HeldBlock
<1>3. /\ HasMemory(pool, bits) /\ pool' = FreeBlock(q, o) /\ Answer("success", bits)
      /\ held' = (held \ {o}) \cup {Found(pool, bits)}
  BY DEF ReallocGrow
<1>4. /\ bits \in Sizes /\ c \in AllBlocks /\ Units(c) \subseteq Unused(Owned, Busy)
      /\ Layout(q, Owned, Busy \cup {c})
  BY <1>1, <1>3, MallocKeepsLayout
<1>5. held' = {d[1] : d \in C}
  <2>1. {d[1] : d \in C} = {d[1] : d \in Busy \ {b}} \cup {c[1]}
    OBVIOUS
  <2> QED
    BY <1>3, <2>1, HeldWithout
<1>6. c # b
  <2>1. c[1] \in Units(c) /\ Units(b) \cap Unused(Owned, Busy) = {}
    BY <1>1, <1>2, <1>4, BlockType, BusyBlocks
  <2> QED
    BY <1>4, <2>1
<1> HIDE DEF b, q, c
<1>7. Layout(FreeBlock(q, b[1]), Owned, (Busy \cup {c}) \ {b})
  BY <1>1, <1>2, <1>4, FreeKeepsLayout
<1>8. (Busy \cup {c}) \ {b} = C
  BY <1>6
<1>9. Layout(pool', Owned, C)
  BY <1>2, <1>3, <1>7, <1>8
<1> HIDE DEF C
<1>10. BuddyInv' /\ Owned' = Owned /\ Busy' = C
  BY <1>3, <1>5, <1>9, CallStep
<1> QED
  BY <1>4, <1>10 DEF C, b, c
-----------------------------------------------------------------------------
(* The theorems *)

LEMMA BuddyInvNext ==
  ASSUME BuddyInv, [Next]_vars
  PROVE  BuddyInv'
<1>1. CASE SetupUpper
  BY <1>1, SetupUpperStep
<1>2. CASE SetupFront
  BY <1>2, SetupFrontStep
<1>3. ASSUME NEW bits \in Requests, Malloc(bits) \/ NoMemory(bits)
      PROVE  BuddyInv'
  BY <1>3, MallocStep, NoMemoryStep
<1>4. ASSUME NEW o \in held, Free(o)
      PROVE  BuddyInv'
  BY <1>4, FreeStep
<1>5. ASSUME NEW o \in held, NEW bits \in Requests, ReallocShrink(o, bits) \/ ReallocGrow(o, bits)
      PROVE  BuddyInv'
  BY <1>5, ReallocShrinkStep, ReallocGrowStep
<1>6. CASE UNCHANGED vars
  <2>1. /\ poolBlocks' = poolBlocks /\ HaveFrontBuffer' = HaveFrontBuffer /\ pool' = pool
        /\ setup' = setup /\ held' = held /\ answer' = answer
    BY <1>6 DEF vars
  <2>2. Owned' = Owned
    BY <2>1, SamePool DEF Owned
  <2> DEFINE C == Busy
  <2>3. Layout(pool', Owned', C) /\ held' = {c[1] : c \in C}
    BY <2>1, <2>2, HeldIsBusy DEF BuddyInv
  <2> HIDE DEF C
  <2>4. /\ setup' \in {"init", "upper", "done"}
        /\ setup' # "done" => held' = {}
        /\ answer' \in {"none", "success", "no memory"} \X Requests
        /\ UNCHANGED <<poolBlocks, HaveFrontBuffer>>
    BY <2>1 DEF BuddyInv
  <2> QED
    BY ONLY BuddyInv, <2>3, <2>4, LayoutStep
<1> QED
  BY <1>1, <1>2, <1>3, <1>4, <1>5, <1>6 DEF Next

(* The free lists are exactly what the bit map leaves, whatever is called. *)
THEOREM BuddyInvariant == Spec => []BuddyInv
<1>1. Init => BuddyInv
  BY BuddyInvInit
<1>2. BuddyInv /\ [Next]_vars => BuddyInv'
  BY BuddyInvNext
<1> QED
  BY <1>1, <1>2, PTL DEF Spec

LEMMA BuddyInvTypes ==
  ASSUME BuddyInv
  PROVE  TypeOK
<1>1. PoolIs /\ Layout(pool, Owned, Busy)
  BY BuddyInvPool DEF BuddyInv
<1>2. pool \in PoolType
  BY <1>1 DEF Layout, Lists
<1>3. pool.freeBytes \in 0..poolBlocks
  <2>1. Unused(Owned, Busy) \in SUBSET Blocks /\ pool.freeBytes = Cardinality(Unused(Owned, Busy))
    BY <1>1 DEF Layout, Unused
  <2> QED
    BY <1>1, <2>1, BlocksFinite
<1>4. held \subseteq Blocks
  <2> SUFFICES ASSUME NEW b \in Busy
               PROVE  b[1] \in Blocks
    BY HeldIsBusy
  <2>1. b \in AllBlocks /\ Units(b) \subseteq Blocks
    BY <1>1, BusyBlocks
  <2> QED
    BY <1>1, <2>1, BlockInPool
<1> QED
  BY <1>2, <1>3, <1>4 DEF TypeOK, BuddyInv, PoolType, LinksType, Offsets

(* Offsets, sizes and the count of free storage stay within the pool.      *)
THEOREM BuddyTypes == Spec => []TypeOK
BY BuddyInvariant, BuddyInvTypes, PTL

LEMMA BuddyInvCalls ==
  ASSUME BuddyInv
  PROVE  NoCallFails
<1>1. PoolIs /\ Layout(pool, Owned, Busy)
  BY BuddyInvPool DEF BuddyInv
<1>2. ASSUME NEW bits \in Requests, HasMemory(pool, bits)
      PROVE  CanAllocate(pool, bits)
  BY <1>1, <1>2, RequestsNat, MallocKeepsLayout
<1>3. ASSUME NEW o \in held
      PROVE  Ends(pool, o) # {} /\ CanFree(pool, o)
  <2> DEFINE b == <<o, AllocSize(pool, o)>>
  <2>1. b \in Busy /\ b[1] = o /\ Ends(pool, o) # {}
    BY HeldBlock
  <2> HIDE DEF b
  <2> QED
    BY <1>1, <2>1, FreeIsPossible
<1>4. ASSUME NEW o \in held, NEW bits \in (AllocSize(pool, o) + 1)..numSizes, HasMemory(pool, bits)
      PROVE  CanFree(Allocate(pool, bits), o)
  <2> DEFINE b == <<o, AllocSize(pool, o)>>
             q == Allocate(pool, bits)
             c == <<Found(pool, bits), bits>>
             C == Busy \cup {c}
  <2>1. b \in Busy /\ b[1] = o /\ AllocSize(pool, o) \in Nat
    BY HeldBlock
  <2>2. bits \in Nat
    BY <2>1, AllocatorAssumption
  <2>3. Layout(q, Owned, C)
    BY <1>1, <1>4, <2>2, MallocKeepsLayout
  <2>4. b \in C
    BY <2>1
  <2> HIDE DEF b, C, q
  <2>5. CanFree(q, b[1])
    BY <1>1, <2>3, <2>4, FreeIsPossible
  <2> QED
    BY <2>1, <2>5 DEF q
<1> QED
  BY <1>2, <1>3, <1>4 DEF NoCallFails

(* No call with a pointer that the caller owns meets a corrupted list or   *)
(* reads a caller's storage for its own links, and none is refused.        *)
THEOREM CallsSucceed == Spec => []NoCallFails
BY BuddyInvariant, BuddyInvCalls, PTL

-----------------------------------------------------------------------------
(* Walks along the free lists *)

(* What follows the element o of a free list.                              *)
After(o) == IF o \in Blocks /\ pool.header[o] # Junk THEN pool.header[o].next ELSE OURNULL

IsWalk(w, k, n) == w = [i \in 0..n |-> IF i = 0 THEN pool.freeList[k] ELSE After(w[i - 1])]

(* There is such a walk, however far.                                      *)
LEMMA WalkExists ==
  ASSUME NEW k, NEW t \in Nat
  PROVE  \E w : IsWalk(w, k, t)
<1> DEFINE S == {n \in Nat : \E w : IsWalk(w, k, n)}
<1>1. 0 \in S
  <2> DEFINE w == [i \in 0..0 |-> pool.freeList[k]]
  <2>1. \A i \in 0..0 : i = 0
    OBVIOUS
  <2>2. IsWalk(w, k, 0)
    BY <2>1 DEF IsWalk
  <2> QED
    BY <2>2
<1>2. ASSUME NEW n \in Nat, n \in S
      PROVE  n + 1 \in S
  <2>1. PICK w : IsWalk(w, k, n)
    BY <1>2
  <2> DEFINE v == [i \in 0..(n + 1) |-> IF i = 0 THEN pool.freeList[k] ELSE After(w[i - 1])]
  <2>2. \A i \in 0..n : w[i] = IF i = 0 THEN pool.freeList[k] ELSE After(w[i - 1])
    BY <2>1 DEF IsWalk
  <2>3. \A i \in 0..n : w[i] = v[i]
    <3>1. \A i \in 0..n : i \in 0..(n + 1)
      OBVIOUS
    <3> QED
      BY <2>2, <3>1
  <2>4. ASSUME NEW i \in 0..(n + 1), i # 0
        PROVE  w[i - 1] = v[i - 1]
    <3>1. i - 1 \in 0..n
      BY <2>4
    <3> QED
      BY <2>3, <3>1
  <2>5. v = [i \in 0..(n + 1) |-> IF i = 0 THEN pool.freeList[k] ELSE After(v[i - 1])]
    BY <2>4
  <2> HIDE DEF v
  <2>6. IsWalk(v, k, n + 1)
    BY <2>5 DEF IsWalk
  <2> QED
    BY <2>6
<1>3. Nat \subseteq S
  <2> HIDE DEF S
  <2> QED
    BY <1>1, <1>2, SetInduction
<1> QED
  BY <1>3

(* So Element is what its definition says.                                 *)
LEMMA ElementIs ==
  ASSUME PoolIs, NEW k
  PROVE  /\ Element(k)[0] = pool.freeList[k]
         /\ \A n \in 1..poolBlocks : Element(k)[n] = After(Element(k)[n - 1])
<1>1. Element(k) = CHOOSE w : IsWalk(w, k, poolBlocks)
  BY DEF Element, IsWalk, After
<1>2. IsWalk(Element(k), k, poolBlocks)
  BY <1>1, WalkExists DEF PoolIs
<1> DEFINE w == Element(k)
<1>3. w = [i \in 0..poolBlocks |-> IF i = 0 THEN pool.freeList[k] ELSE After(w[i - 1])]
  BY <1>2 DEF IsWalk
<1> HIDE DEF w
<1>4. 0 \in 0..poolBlocks /\ \A n \in 1..poolBlocks : n \in 0..poolBlocks /\ n # 0
  BY DEF PoolIs
<1>5. w[0] = pool.freeList[k] /\ \A n \in 1..poolBlocks : w[n] = After(w[n - 1])
  BY <1>3, <1>4
<1> QED
  BY <1>5 DEF w

(* What a walk of a list of F meets.                                       *)
WalkOf(w, k, F) ==
  /\ \A n \in 0..poolBlocks : w[n] # OURNULL =>
       /\ <<w[n], k>> \in F
       /\ pool.header[w[n]].prev = IF n = 0 THEN OURNULL ELSE w[n - 1]
  /\ \A n \in 1..poolBlocks : w[n] # OURNULL =>
       w[n - 1] # OURNULL /\ w[n] = pool.header[w[n - 1]].next
  /\ \A n \in 1..poolBlocks : w[n - 1] # OURNULL => w[n] = pool.header[w[n - 1]].next

(* The walk from the head of a list meets free blocks, each linked back to *)
(* the one before.                                                         *)
LEMMA ElementWalks ==
  ASSUME PoolIs, NEW F, Lists(pool, F), NEW k \in Sizes, NEW w, w = Element(k)
  PROVE  WalkOf(w, k, F) /\ w[0] = pool.freeList[k]
<1>1. w[0] = pool.freeList[k] /\ \A n \in 1..poolBlocks : w[n] = After(w[n - 1])
  BY ElementIs
<1>2. Apart(F) /\ Written(pool, F) /\ Linked(pool, F)
  BY DEF Lists
<1>3. OURNULL \notin Blocks
  BY Distinct
<1>4. \A o : <<o, k>> \in F => o \in Blocks /\ pool.header[o] # Junk
  <2> SUFFICES ASSUME NEW o, <<o, k>> \in F
               PROVE  o \in Blocks /\ pool.header[o] # Junk
    OBVIOUS
  <2> DEFINE b == <<o, k>>
  <2>1. b \in F /\ b[1] = o
    OBVIOUS
  <2> HIDE DEF b
  <2>2. b[1] \in Blocks
    BY <1>2, <2>1, BlockInPool DEF Apart
  <2> QED
    BY <1>2, <2>1, <2>2 DEF Written
<1>5. \A n \in 1..poolBlocks : w[n] # OURNULL => w[n - 1] # OURNULL /\ w[n] = pool.header[w[n - 1]].next
  BY <1>1, <1>3 DEF After
<1> DEFINE At(n) == w[n] # OURNULL =>
             /\ <<w[n], k>> \in F
             /\ pool.header[w[n]].prev = IF n = 0 THEN OURNULL ELSE w[n - 1]
           S == {n \in 0..poolBlocks : At(n)}
<1>6. 0 \in S
  BY <1>1, <1>2 DEF Linked, PoolIs
<1>7. ASSUME NEW n \in 0..(poolBlocks - 1), n \in S
      PROVE  n + 1 \in S
  <2>1. n + 1 \in 0..poolBlocks /\ n + 1 \in 1..poolBlocks /\ n + 1 - 1 = n /\ n + 1 # 0
    BY DEF PoolIs
  <2>2. SUFFICES ASSUME w[n + 1] # OURNULL
                 PROVE  <<w[n + 1], k>> \in F /\ pool.header[w[n + 1]].prev = w[n]
    BY <2>1
  <2>3. w[n] # OURNULL /\ w[n + 1] = pool.header[w[n]].next
    BY <1>5, <2>1, <2>2
  <2>4. <<w[n], k>> \in F
    BY <1>7, <2>3
  <2> DEFINE c == <<w[n], k>>
  <2>5. c \in F /\ c[1] = w[n] /\ c[2] = k
    BY <2>4
  <2> HIDE DEF c
  <2>6. pool.header[c[1]].next # OURNULL
    BY <2>2, <2>3, <2>5
  <2>7. LET next == pool.header[c[1]].next
        IN  <<next, c[2]>> \in F /\ pool.header[next].prev = c[1]
    BY ONLY <1>2, <2>5, <2>6 DEF Linked
  <2> QED
    BY ONLY <2>3, <2>5, <2>7
<1>8. 0..poolBlocks \subseteq S
  <2>1. 0 \in Int /\ poolBlocks \in Int
    BY DEF PoolIs
  <2> HIDE DEF S
  <2> QED
    BY <1>6, <1>7, <2>1, IntervalInduction
<1>9. \A n \in 0..poolBlocks : At(n)
  BY <1>8
<1>10. \A n \in 1..poolBlocks : w[n - 1] # OURNULL => w[n] = pool.header[w[n - 1]].next
  <2> SUFFICES ASSUME NEW n \in 1..poolBlocks, w[n - 1] # OURNULL
               PROVE  w[n] = pool.header[w[n - 1]].next
    OBVIOUS
  <2>1. n - 1 \in 0..poolBlocks
    BY DEF PoolIs
  <2>2. <<w[n - 1], k>> \in F
    BY <1>9, <2>1
  <2> QED
    BY <1>1, <1>4, <2>2 DEF After
<1> HIDE DEF S
<1> QED
  BY <1>1, <1>5, <1>9, <1>10 DEF WalkOf

(* A walk goes on until it ends, and never comes back to an element.       *)
LEMMA WalkDistinct ==
  ASSUME PoolIs, NEW F, Lists(pool, F), NEW k \in Sizes, NEW w, WalkOf(w, k, F),
         NEW i \in 0..poolBlocks, NEW j \in (i + 1)..poolBlocks, w[j] # OURNULL
  PROVE  w[i] # OURNULL /\ w[i] # w[j]
<1>1. Apart(F) /\ Ordered(pool, F)
  BY DEF Lists
<1>2. OURNULL \notin Blocks
  BY Distinct
<1>3. \A o : <<o, k>> \in F => o \in Blocks
  <2> SUFFICES ASSUME NEW o, <<o, k>> \in F
               PROVE  o \in Blocks
    OBVIOUS
  <2> DEFINE b == <<o, k>>
  <2>1. b \in F /\ b[1] = o
    OBVIOUS
  <2> HIDE DEF b
  <2> QED
    BY <1>1, <2>1, BlockInPool DEF Apart
<1>4. PICK rank \in [Blocks -> Int] :
        \A c \in F : LET nxt == pool.header[c[1]].next
                     IN  nxt # OURNULL => rank[c[1]] < rank[nxt]
  BY <1>1 DEF Ordered
<1>5. ASSUME NEW n \in 1..poolBlocks, w[n] # OURNULL
      PROVE  /\ w[n - 1] # OURNULL /\ w[n] \in Blocks /\ w[n - 1] \in Blocks
             /\ rank[w[n - 1]] < rank[w[n]]
  <2>1. n \in 0..poolBlocks /\ n - 1 \in 0..poolBlocks
    BY DEF PoolIs
  <2>2. w[n - 1] # OURNULL /\ w[n] = pool.header[w[n - 1]].next
    BY <1>5 DEF WalkOf
  <2>3. <<w[n - 1], k>> \in F /\ <<w[n], k>> \in F
    BY <1>5, <2>1, <2>2 DEF WalkOf
  <2> DEFINE c == <<w[n - 1], k>>
  <2>4. c \in F /\ c[1] = w[n - 1]
    BY <2>3
  <2> HIDE DEF c
  <2>5. rank[w[n - 1]] < rank[w[n]]
    BY <1>4, <1>5, <2>2, <2>4
  <2> QED
    BY <1>3, <2>2, <2>3, <2>5
<1> DEFINE S == {n \in (i + 1)..poolBlocks : w[n] # OURNULL =>
                   w[i] # OURNULL /\ w[i] \in Blocks /\ rank[w[i]] < rank[w[n]]}
<1>6. i + 1 \in S
  <2>1. i + 1 \in 1..poolBlocks /\ i + 1 \in (i + 1)..poolBlocks /\ i + 1 - 1 = i
    BY DEF PoolIs
  <2> QED
    BY <1>5, <2>1
<1>7. ASSUME NEW n \in (i + 1)..(poolBlocks - 1), n \in S
      PROVE  n + 1 \in S
  <2>1. n + 1 \in 1..poolBlocks /\ n + 1 \in (i + 1)..poolBlocks /\ n + 1 - 1 = n
    BY DEF PoolIs
  <2>2. SUFFICES ASSUME w[n + 1] # OURNULL
                 PROVE  w[i] # OURNULL /\ w[i] \in Blocks /\ rank[w[i]] < rank[w[n + 1]]
    BY <2>1
  <2>3. /\ w[n] # OURNULL /\ w[n] \in Blocks /\ w[n + 1] \in Blocks
        /\ rank[w[n]] < rank[w[n + 1]]
    BY <1>5, <2>1, <2>2
  <2>4. w[i] # OURNULL /\ w[i] \in Blocks /\ rank[w[i]] < rank[w[n]]
    BY <1>7, <2>3
  <2>5. rank[w[i]] \in Int /\ rank[w[n]] \in Int /\ rank[w[n + 1]] \in Int
    BY <1>4, <2>3, <2>4
  <2> QED
    BY <2>3, <2>4, <2>5
<1>8. (i + 1)..poolBlocks \subseteq S
  <2>1. i + 1 \in Int /\ poolBlocks \in Int
    BY DEF PoolIs
  <2> HIDE DEF S
  <2> QED
    BY <1>6, <1>7, <2>1, IntervalInduction
<1>9. w[i] # OURNULL /\ w[i] \in Blocks /\ rank[w[i]] < rank[w[j]]
  BY <1>8
<1>10. w[i] # w[j]
  <2>1. rank[w[i]] \in Int
    BY <1>4, <1>9
  <2> QED
    BY <1>9, <2>1
<1> QED
  BY <1>9, <1>10

(* It ends after as many elements as the pool has room for.                *)
LEMMA WalkEnds ==
  ASSUME PoolIs, NEW F, Lists(pool, F), NEW k \in Sizes, NEW w, WalkOf(w, k, F),
         NEW m, m = poolBlocks \div 2^k
  PROVE  m \in 0..poolBlocks /\ \A n \in m..poolBlocks : w[n] = OURNULL
<1> DEFINE d == 2^k
<1>1. d \in Nat \ {0} /\ poolBlocks \in Nat \ {0} /\ m = poolBlocks \div d
  BY SizesNat DEF PoolIs
<1> HIDE DEF d
<1>2. m \in 0..poolBlocks /\ \A q \in Nat : q * d + d <= poolBlocks => q < m
  <2> DEFINE r == poolBlocks % d
  <2>1. m \in Nat /\ r \in 0..(d - 1) /\ poolBlocks = m * d + r
    BY <1>1, Division
  <2> HIDE DEF r
  <2>2. m * d \in Nat
    BY <1>1, <2>1
  <2>3. m <= poolBlocks
    <3>1. CASE m = 0
      BY <1>1, <3>1
    <3>2. CASE m # 0
      <4>1. PICK e \in Nat : d = 1 + e
        BY <1>1, d - 1 \in Nat
      <4>2. m * e \in Nat /\ m * d = m + m * e
        BY <2>1, <4>1
      <4> QED
        BY <2>1, <2>2, <4>2
    <3> QED
      BY <3>1, <3>2
  <2>4. ASSUME NEW q \in Nat, q * d + d <= poolBlocks
        PROVE  q < m
    <3> SUFFICES ASSUME m <= q
                 PROVE  FALSE
      BY <2>1
    <3>1. PICK e \in Nat : q = m + e
      BY <2>1, q - m \in Nat
    <3>2. e * d \in Nat /\ q * d = m * d + e * d
      BY <1>1, <2>1, <3>1
    <3> QED
      BY <1>1, <2>1, <2>2, <2>4, <3>2
  <2> QED
    BY <1>1, <2>1, <2>3, <2>4
<1> SUFFICES ASSUME NEW t \in m..poolBlocks, w[t] # OURNULL
             PROVE  FALSE
  BY <1>2
<1>3. t \in 0..poolBlocks /\ t >= m /\ m \in Nat
  BY <1>1, <1>2
<1>4. \A n \in 0..t : w[n] # OURNULL
  <2> SUFFICES ASSUME NEW n \in 0..t, n # t
               PROVE  w[n] # OURNULL
    OBVIOUS
  <2>1. n \in 0..poolBlocks /\ t \in (n + 1)..poolBlocks
    BY <1>1, <1>3
  <2> QED
    BY <2>1, WalkDistinct
<1>5. \A i, j \in 0..t : i < j => w[i] # w[j]
  <2> SUFFICES ASSUME NEW i \in 0..t, NEW j \in 0..t, i < j
               PROVE  w[i] # w[j]
    OBVIOUS
  <2>1. i \in 0..poolBlocks /\ j \in (i + 1)..poolBlocks
    BY <1>1, <1>3
  <2> QED
    BY <1>4, <2>1, WalkDistinct
<1>6. ASSUME NEW n \in 0..t
      PROVE  \E q \in 0..(m - 1) : w[n] = q * d
  <2> DEFINE b == <<w[n], k>>
  <2>1. b \in F /\ b[1] = w[n] /\ b[2] = k
    <3>1. n \in 0..poolBlocks
      BY <1>1, <1>3
    <3> QED
      BY <1>4, <3>1 DEF WalkOf
  <2> HIDE DEF b
  <2>2. b \in AllBlocks /\ Units(b) \subseteq Blocks
    BY <2>1 DEF Lists, Apart
  <2>3. w[n] \in Nat /\ w[n] % d = 0 /\ w[n] + d \in 1..poolBlocks
    BY <2>1, <2>2, BlockType, BlockInPool DEF d
  <2>4. PICK q \in Nat : w[n] = q * d
    BY <1>1, <2>3, MultiplesAligned
  <2>5. q < m
    BY <1>1, <1>2, <2>3, <2>4
  <2> QED
    BY <1>3, <2>4, <2>5
<1> DEFINE S == 0..t
           T == 0..(m - 1)
           f == [n \in S |-> CHOOSE q \in T : w[n] = q * d]
<1>7. \A n \in S : f[n] \in T /\ w[n] = f[n] * d
  BY <1>6
<1>8. f \in [S -> T]
  BY <1>7
<1>9. \A x, y \in S : f[x] = f[y] => x = y
  <2> SUFFICES ASSUME NEW x \in S, NEW y \in S, f[x] = f[y]
               PROVE  x = y
    OBVIOUS
  <2>1. w[x] = w[y]
    BY <1>7
  <2> QED
    BY <1>3, <1>5, <2>1
<1>10. IsFiniteSet(S) /\ IsFiniteSet(T) /\ Cardinality(T) < Cardinality(S)
  <2>1. /\ IsFiniteSet(S) /\ Cardinality(S) = IF 0 > t THEN 0 ELSE t - 0 + 1
        /\ IsFiniteSet(T) /\ Cardinality(T) = IF 0 > m - 1 THEN 0 ELSE m - 1 - 0 + 1
    <3>1. 0 \in Int /\ t \in Int /\ m - 1 \in Int
      BY <1>3
    <3> QED
      BY <3>1, FS_Interval
  <2> QED
    BY <1>3, <2>1
<1> HIDE DEF S, T, f
<1> QED
  BY <1>8, <1>9, <1>10, FS_PigeonHole

(* It meets every block of its size.                                       *)
LEMMA WalkReaches ==
  ASSUME PoolIs, NEW F, Lists(pool, F), NEW k \in Sizes, NEW w, WalkOf(w, k, F),
         w[0] = pool.freeList[k], NEW b \in F, b[2] = k
  PROVE  \E n \in 0..(poolBlocks - 1) : w[n] = b[1]
<1>1. Apart(F) /\ Linked(pool, F) /\ Ordered(pool, F)
  BY DEF Lists
<1>2. OURNULL \notin Blocks /\ poolBlocks \in Nat \ {0}
  BY Distinct DEF PoolIs
<1>3. \A c \in F : c[1] \in Blocks /\ c = <<c[1], c[2]>>
  BY <1>1, BlockInPool, BlockType DEF Apart
<1>4. PICK rank \in [Blocks -> Int], low \in Int :
        /\ \A c \in Blocks : low < rank[c]
        /\ \A c \in F : LET nxt == pool.header[c[1]].next
                        IN  nxt # OURNULL => rank[c[1]] < rank[nxt]
  BY <1>1 DEF Ordered
<1> DEFINE Met(o) == \E n \in 0..(poolBlocks - 1) : w[n] = o
           Missed == {c \in F : c[2] = k /\ ~Met(c[1])}
           S == {rank[c[1]] - low : c \in Missed}
<1> SUFFICES ASSUME b \in Missed
             PROVE  FALSE
  OBVIOUS
<1>5. S \subseteq Nat /\ S # {}
  <2>1. ASSUME NEW c \in F
        PROVE  rank[c[1]] - low \in Nat
    BY <1>3, <1>4
  <2> QED
    BY <2>1
<1>6. PICK x \in S : \A y \in S : x <= y
  <2> HIDE DEF S
  <2> QED
    BY <1>5, LeastNat
<1>7. PICK c \in Missed : x = rank[c[1]] - low
  OBVIOUS
<1> DEFINE prev == pool.header[c[1]].prev
<1>8. w[poolBlocks] = OURNULL
  <2> DEFINE m == poolBlocks \div 2^k
  <2>1. m \in 0..poolBlocks /\ \A n \in m..poolBlocks : w[n] = OURNULL
    BY WalkEnds
  <2> HIDE DEF m
  <2> QED
    BY <1>2, <2>1
<1>9. c \in F /\ c[2] = k /\ ~Met(c[1]) /\ c[1] \in Blocks
  BY <1>3
<1>10. prev # OURNULL
  <2> SUFFICES ASSUME prev = OURNULL
               PROVE  Met(c[1])
    BY <1>9
  <2>1. w[0] = c[1]
    BY <1>1, <1>9 DEF Linked
  <2> QED
    BY <1>2, <2>1
<1>11. <<prev, k>> \in F /\ pool.header[prev].next = c[1]
  BY <1>1, <1>9, <1>10 DEF Linked
<1>12. Met(prev)
  <2> SUFFICES ASSUME ~Met(prev)
               PROVE  FALSE
    OBVIOUS
  <2> DEFINE a == <<prev, k>>
  <2>1. a \in F /\ a[1] = prev /\ a[2] = k
    BY <1>11
  <2> HIDE DEF a
  <2>2. a \in Missed /\ prev \in Blocks
    BY <1>3, <2>1
  <2>3. rank[prev] - low \in S
    BY <2>1, <2>2
  <2>4. rank[prev] < rank[c[1]]
    BY <1>2, <1>4, <1>9, <1>11, <2>1
  <2>5. rank[prev] \in Int /\ rank[c[1]] \in Int
    BY <1>4, <1>9, <2>2
  <2> HIDE DEF S, Missed, prev, Met
  <2> QED
    BY <1>6, <1>7, <2>3, <2>4, <2>5
<1>13. PICK n \in 0..(poolBlocks - 1) : w[n] = prev
  BY <1>12
<1>14. n + 1 \in 1..poolBlocks /\ n + 1 - 1 = n
  BY <1>2
<1>15. w[n + 1] = c[1]
  <2>1. w[n + 1] = pool.header[w[n + 1 - 1]].next
    BY <1>10, <1>13, <1>14 DEF WalkOf
  <2> QED
    BY <1>11, <1>13, <1>14, <2>1
<1>16. n + 1 \in 0..(poolBlocks - 1)
  <2>1. n + 1 # poolBlocks
    BY <1>2, <1>8, <1>9, <1>15
  <2> QED
    BY <1>2, <1>14, <2>1
<1> QED
  BY <1>9, <1>15, <1>16

(* What the walks meet is the free storage, each unit once.                *)
LEMMA SeenCounted ==
  ASSUME PoolIs, NEW U \in SUBSET Blocks, NEW F, F = Maximal(U), Lists(pool, F)
  PROVE  Cardinality(Seen) = Cardinality(U)
<1>1. ASSUME NEW k \in Sizes
      PROVE  WalkOf(Element(k), k, F) /\ Element(k)[0] = pool.freeList[k]
  BY ElementWalks
<1>2. ASSUME NEW s \in Seen
      PROVE  /\ s = <<s[1], s[2], s[3]>>
             /\ s[1] \in Sizes /\ s[2] \in 0..(poolBlocks - 1)
             /\ Element(s[1])[s[2]] # OURNULL
             /\ <<Element(s[1])[s[2]], s[1]>> \in F
             /\ s[3] \in Units(<<Element(s[1])[s[2]], s[1]>>)
             /\ s[3] \in U
  <2>1. /\ s = <<s[1], s[2], s[3]>> /\ s[1] \in Sizes /\ s[2] \in 0..(poolBlocks - 1)
        /\ Element(s[1])[s[2]] # OURNULL
        /\ s[3] \in Extent(Element(s[1])[s[2]], s[1])
    BY DEF Seen, Listed
  <2>2. s[2] \in 0..poolBlocks
    BY <2>1 DEF PoolIs
  <2> DEFINE b == <<Element(s[1])[s[2]], s[1]>>
  <2>3. b \in F
    BY <1>1, <2>1, <2>2 DEF WalkOf
  <2>4. s[3] \in Units(b)
    BY <2>1 DEF Units
  <2>5. Units(b) \subseteq U
    <3> HIDE DEF b
    <3> QED
      BY <2>3, MaximalBlocks
  <2> QED
    BY <2>1, <2>3, <2>4, <2>5
<1> DEFINE f == [s \in Seen |-> s[3]]
<1>3. f \in [Seen -> U]
  BY <1>2
<1>4. ASSUME NEW s \in Seen, NEW t \in Seen, s[3] = t[3]
      PROVE  s = t
  <2> DEFINE b == <<Element(s[1])[s[2]], s[1]>>
             c == <<Element(t[1])[t[2]], t[1]>>
  <2>1. b \in F /\ c \in F /\ s[3] \in Units(b) /\ s[3] \in Units(c)
    BY <1>2, <1>4
  <2>2. b = c
    <3> HIDE DEF b, c
    <3> QED
      BY <2>1, MaximalDisjoint
  <2>3. s[1] = t[1] /\ Element(s[1])[s[2]] = Element(s[1])[t[2]]
    BY <2>2
  <2> DEFINE w == Element(s[1])
             i == s[2]
             j == t[2]
  <2>4. /\ s[1] \in Sizes /\ i \in 0..(poolBlocks - 1) /\ j \in 0..(poolBlocks - 1)
        /\ w[i] # OURNULL /\ w[i] = w[j] /\ WalkOf(w, s[1], F)
    BY <1>1, <1>2, <2>3
  <2> HIDE DEF w, i, j
  <2>5. /\ i \in 0..poolBlocks /\ j \in 0..poolBlocks
        /\ i < j => j \in (i + 1)..poolBlocks
        /\ j < i => i \in (j + 1)..poolBlocks
    BY <2>4 DEF PoolIs
  <2>6. ~(i < j) /\ ~(j < i)
    BY <2>4, <2>5, WalkDistinct
  <2>7. i = j
    BY <2>5, <2>6
  <2>8. s[1] = t[1] /\ s[2] = t[2] /\ s[3] = t[3]
    BY <1>4, <2>3, <2>7 DEF i, j
  <2>9. s = <<s[1], s[2], s[3]>> /\ t = <<t[1], t[2], t[3]>>
    BY <1>2
  <2> QED
    BY <2>8, <2>9
<1>5. ASSUME NEW u \in U
      PROVE  \E s \in Seen : s[3] = u
  <2>1. U \subseteq Nat
    BY BlocksFinite
  <2>2. PICK b \in F : u \in Units(b)
    BY <2>1, MaximalCovers
  <2>3. b \in AllBlocks /\ b[2] \in Sizes /\ b[1] \in Blocks
    <3>1. b \in AllBlocks /\ Units(b) \subseteq Blocks
      BY MaximalBlocks
    <3> QED
      BY <3>1, BlockType, BlockInPool
  <2>4. PICK n \in 0..(poolBlocks - 1) : Element(b[2])[n] = b[1]
    BY <1>1, <2>3, WalkReaches
  <2>5. Element(b[2])[n] # OURNULL
    BY <2>3, <2>4, Distinct
  <2> DEFINE s == <<b[2], n, u>>
  <2>6. s \in Sizes \X Blocks \X Blocks /\ s[1] = b[2] /\ s[2] = n /\ s[3] = u
    BY <2>3, <2>4 DEF Blocks
  <2>7. u \in Extent(Element(b[2])[n], b[2])
    BY <2>2, <2>4 DEF Units
  <2> HIDE DEF s
  <2>8. s \in Seen
    BY <2>4, <2>5, <2>6, <2>7 DEF Seen, Listed
  <2> QED
    BY <2>6, <2>8
<1>6. f \in Injection(Seen, U) /\ f \in Surjection(Seen, U)
  BY <1>3, <1>4, <1>5 DEF Injection, Surjection, IsInjective
<1>7. IsFiniteSet(U)
  BY BlocksFinite
<1> HIDE DEF f
<1> QED
  BY <1>6, <1>7, FS_Injection

(* With the invariant, every test of Check is passed.                      *)
LEMMA BuddyInvChecks ==
  ASSUME BuddyInv
  PROVE  CheckSucceeds
<1>1. PoolIs /\ Layout(pool, Owned, Busy)
  BY BuddyInvPool DEF BuddyInv
<1> DEFINE U == Unused(Owned, Busy)
           F == Maximal(U)
<1>2. /\ U \in SUBSET Blocks /\ Lists(pool, F) /\ pool.freeBytes = Cardinality(U)
      /\ U \cap pool.map = {}
  BY <1>1, FreeNotInMap DEF Layout, Unused
<1>3. \A b \in F : Units(b) \subseteq U
  BY MaximalBlocks
<1> HIDE DEF F
<1>4. Cardinality(Seen) = pool.freeBytes
  BY <1>1, <1>2, SeenCounted DEF F
<1> HIDE DEF U
<1>5. ASSUME NEW k \in Sizes
      PROVE  Element(k)[poolBlocks \div 2^k] = OURNULL
  <2> DEFINE w == Element(k)
             m == poolBlocks \div 2^k
  <2>1. WalkOf(w, k, F)
    BY <1>1, <1>2, <1>5, ElementWalks
  <2> HIDE DEF w
  <2>2. m \in 0..poolBlocks /\ \A n \in m..poolBlocks : w[n] = OURNULL
    BY <1>1, <1>2, <1>5, <2>1, WalkEnds
  <2> HIDE DEF m
  <2>3. w[m] = OURNULL
    BY <1>1, <2>2 DEF PoolIs
  <2> QED
    BY <2>3 DEF w, m
<1>6. ASSUME NEW k \in Sizes, NEW n \in Listed(k)
      PROVE  /\ Intact(pool, Element(k)[n], k)
             /\ Extent(Element(k)[n], k) \cap pool.map = {}
             /\ pool.header[Element(k)[n]].prev = IF n = 0 THEN OURNULL ELSE Element(k)[n - 1]
  <2> DEFINE w == Element(k)
             b == <<w[n], k>>
  <2>1. WalkOf(w, k, F)
    BY <1>1, <1>2, <1>6, ElementWalks
  <2>2. n \in 0..poolBlocks /\ w[n] # OURNULL
    BY <1>1, <1>6 DEF Listed, PoolIs
  <2> HIDE DEF w
  <2>3. b \in F /\ pool.header[w[n]].prev = IF n = 0 THEN OURNULL ELSE w[n - 1]
    BY <2>1, <2>2 DEF WalkOf
  <2>4. b[1] = w[n] /\ b[2] = k /\ Units(b) = Extent(w[n], k)
    BY DEF Units
  <2> HIDE DEF b
  <2>5. Intact(pool, b[1], b[2])
    BY <1>1, <1>2, <2>3, FreeBlocksIntact
  <2>6. Units(b) \cap pool.map = {}
    BY <1>2, <1>3, <2>3
  <2> QED
    BY <2>3, <2>4, <2>5, <2>6 DEF w
<1> QED
  BY <1>4, <1>5, <1>6 DEF CheckSucceeds

(* Check finds nothing wrong after any calls: every list ends in time, its *)
(* elements are free blocks, and together they are all the free storage.   *)
THEOREM CheckerSucceeds == Spec => []CheckSucceeds
BY BuddyInvariant, BuddyInvChecks, PTL
-----------------------------------------------------------------------------
(* BuddyPool is implemented *)

LEMMA PromisedExtents ==
  /\ \A b : Promise!Extent(b) = Units(b)
  /\ Promise!Used = UnitsOf(Busy)
BY DEF Promise!Extent, Promise!Used, Units, Extent, UnitsOf, Busy

(* The places for a block are the aligned blocks within free storage.      *)
LEMMA PlacesAre ==
  ASSUME BuddyInv, NEW bits \in Requests, NEW b
  PROVE  b \in Promise!Places(bits) <=>
           b \in AllBlocks /\ b[2] = bits /\ Units(b) \subseteq Unused(Owned, Busy)
<1>1. bits \in Nat /\ numSizes \in Nat /\ Owned \subseteq Nat
  <2>1. Owned \subseteq Blocks /\ PoolIs
    BY BuddyInvPool DEF BuddyInv, Layout
  <2> QED
    BY <2>1, RequestsNat, AllocatorAssumption, Distinct
<1>2. Promise!Places(bits) =
        IF bits >= numSizes THEN {}
        ELSE {c \in Owned \X {bits} : c[1] % 2^bits = 0 /\ Units(c) \subseteq Unused(Owned, Busy)}
  BY PromisedExtents DEF Promise!Places, Unused
<1>3. ASSUME b \in Promise!Places(bits)
      PROVE  b \in AllBlocks /\ b[2] = bits /\ Units(b) \subseteq Unused(Owned, Busy)
  <2>1. /\ ~(bits >= numSizes) /\ b \in Owned \X {bits} /\ b[1] % 2^bits = 0
        /\ Units(b) \subseteq Unused(Owned, Busy)
    BY <1>2, <1>3
  <2>2. bits \in Sizes
    BY <1>1, <2>1 DEF Sizes
  <2> QED
    BY <1>1, <2>1, <2>2 DEF AllBlocks
<1>4. ASSUME b \in AllBlocks, b[2] = bits, Units(b) \subseteq Unused(Owned, Busy)
      PROVE  b \in Promise!Places(bits)
  <2>1. b[1] \in Units(b) /\ b = <<b[1], bits>> /\ b[1] % 2^bits = 0 /\ bits < numSizes
    BY <1>4, BlockType
  <2>2. b \in Owned \X {bits} /\ ~(bits >= numSizes)
    BY <1>1, <1>4, <2>1 DEF Unused
  <2> QED
    BY <1>2, <1>4, <2>1, <2>2
<1> QED
  BY <1>3, <1>4

LEMMA PromiseInit ==
  ASSUME Init
  PROVE  Promise!Init
BY BuddyInvInit DEF Promise!Init, Busy, Init

(* Each step is one of the abstract pool's, or changes nothing of it.      *)
LEMMA PromiseNext ==
  ASSUME BuddyInv, [Next]_vars
  PROVE  [Promise!Next]_Promise!vars
<1>1. PoolIs /\ Layout(pool, Owned, Busy)
  BY BuddyInvPool DEF BuddyInv
<1>2. Requests = 0..numSizes
  BY DEF Requests
<1>3. CASE SetupUpper \/ SetupFront
  <2>1. Owned \subseteq Owned' /\ Busy' = Busy
    BY <1>3, SetupUpperStep, SetupFrontStep
  <2>2. answer' = answer
    BY <1>3 DEF SetupUpper, SetupFront
  <2>3. Promise!Release
    BY <2>1, <2>2 DEF Promise!Release, Busy
  <2> QED
    BY <2>3 DEF Promise!Next
<1>4. ASSUME NEW bits \in Requests, Malloc(bits)
      PROVE  Promise!Malloc(bits)
  <2> DEFINE c == <<Found(pool, bits), bits>>
  <2>1. /\ c \in AllBlocks /\ c[2] = bits /\ Units(c) \subseteq Unused(Owned, Busy)
        /\ Owned' = Owned /\ Busy' = Busy \cup {c}
    BY <1>4, MallocStep
  <2> HIDE DEF c
  <2>2. c \in Promise!Places(bits)
    BY <2>1, PlacesAre
  <2>3. answer' = <<"success", bits>>
    BY <1>4 DEF Malloc, Answer
  <2> QED
    BY <2>1, <2>2, <2>3 DEF Promise!Malloc, Busy
<1>5. ASSUME NEW bits \in Requests, NoMemory(bits)
      PROVE  Promise!Refuse(bits)
  <2>1. Owned' = Owned /\ Busy' = Busy
    BY <1>5, NoMemoryStep
  <2>2. ~HasMemory(pool, bits) /\ answer' = <<"no memory", bits>>
    BY <1>5 DEF NoMemory, Answer
  <2>3. ASSUME NEW b, b \in Promise!Places(bits)
        PROVE  FALSE
    <3>1. b \in AllBlocks /\ b[2] = bits /\ Units(b) \subseteq Unused(Owned, Busy)
      BY <2>3, PlacesAre
    <3>2. HasMemory(pool, b[2])
      BY <1>1, <3>1, RefusedForWant
    <3> QED
      BY <2>2, <3>1, <3>2
  <2>4. Promise!Places(bits) = {}
    BY <2>3
  <2> QED
    BY <2>1, <2>2, <2>4 DEF Promise!Refuse, Busy
<1>6. ASSUME NEW o \in held, Free(o)
      PROVE  \E b \in Busy : Promise!Free(b)
  <2>1. PICK b \in Busy : b = <<o, AllocSize(pool, o)>>
    BY HeldBlock
  <2>2. Owned' = Owned /\ Busy' = Busy \ {b}
    BY <1>6, <2>1, FreeStep
  <2>3. answer' = <<"success", b[2]>>
    BY <1>6, <2>1 DEF Free, Answer
  <2>4. Promise!Free(b)
    BY <2>2, <2>3 DEF Promise!Free, Busy
  <2> QED
    BY <2>4
<1>7. ASSUME NEW o \in held, NEW bits \in Requests, ReallocShrink(o, bits)
      PROVE  \E b \in Busy : Promise!Shrink(b, bits)
  <2> DEFINE b == <<o, AllocSize(pool, o)>>
  <2>1. b \in Busy /\ b[1] = o /\ b[2] = AllocSize(pool, o)
    BY HeldBlock
  <2>2. Owned' = Owned /\ Busy' = (Busy \ {b}) \cup {<<o, bits>>}
    BY <1>7, ReallocShrinkStep
  <2>3. answer' = <<"success", bits>> /\ bits <= b[2]
    BY <1>7 DEF ReallocShrink, Answer
  <2> HIDE DEF b
  <2>4. Promise!Shrink(b, bits)
    BY <2>1, <2>2, <2>3 DEF Promise!Shrink, Busy
  <2> QED
    BY <2>1, <2>4
<1>8. ASSUME NEW o \in held, NEW bits \in Requests, ReallocGrow(o, bits)
      PROVE  \E b \in Busy : Promise!Grow(b, bits)
  <2> DEFINE b == <<o, AllocSize(pool, o)>>
             c == <<Found(pool, bits), bits>>
  <2>1. b \in Busy /\ b[2] = AllocSize(pool, o)
    BY HeldBlock
  <2>2. /\ c \in AllBlocks /\ c[2] = bits /\ Units(c) \subseteq Unused(Owned, Busy)
        /\ Owned' = Owned /\ Busy' = (Busy \ {b}) \cup {c}
    BY <1>8, ReallocGrowStep
  <2>3. answer' = <<"success", bits>> /\ bits > b[2]
    BY <1>8 DEF ReallocGrow, Answer
  <2> HIDE DEF b, c
  <2>4. c \in Promise!Places(bits)
    BY <2>2, PlacesAre
  <2>5. Promise!Grow(b, bits)
    BY <2>2, <2>3, <2>4 DEF Promise!Grow, Busy
  <2> QED
    BY <2>1, <2>5
<1>9. CASE UNCHANGED vars
  BY <1>9 DEF vars, Promise!vars, Owned, Blocks, AllocSize, Ends
<1>10. CASE Next
  <2>1. CASE \E bits \in Requests : Malloc(bits) \/ NoMemory(bits)
    BY <1>2, <1>4, <1>5, <2>1 DEF Promise!Next
  <2>2. CASE \E o \in held : Free(o)
    BY <1>6, <2>2 DEF Promise!Next, Busy
  <2>3. CASE \E o \in held, bits \in Requests : ReallocShrink(o, bits) \/ ReallocGrow(o, bits)
    BY <1>2, <1>7, <1>8, <2>3 DEF Promise!Next, Busy
  <2> QED
    BY <1>3, <1>10, <2>1, <2>2, <2>3 DEF Next
<1> QED
  BY <1>9, <1>10

(* The bit map and the lists keep the promise of BuddyPool: a call fails   *)
(* for want of memory only where there is no place for the block.          *)
THEOREM PromiseKept == Spec => BuddyPoolSpec
<1>1. Init => Promise!Init
  BY PromiseInit
<1>2. BuddyInv /\ [Next]_vars => [Promise!Next]_Promise!vars
  BY PromiseNext
<1>3. Spec => Promise!Spec
  BY <1>1, <1>2, BuddyInvariant, PTL DEF Spec, Promise!Spec
<1> QED
  BY <1>3 DEF BuddyPoolSpec


=============================================================================
