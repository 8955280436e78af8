---------------------------- MODULE LayoutProofs ----------------------------
(***************************************************************************)
(* The arithmetic of squares, for every set of blobs and every layout.     *)
(*                                                                         *)
(* What the folds and the flattening of the community modules compute is   *)
(* proved by induction over sets of numbers (InductionOnNat): that the     *)
(* recursive function each stands for exists, and then that two of them    *)
(* agree where their definitions do.                                       *)
(***************************************************************************)
EXTENDS SquareReads, FiniteSetTheorems, SequenceTheorems, TLAPS

-----------------------------------------------------------------------------
(* Induction.                                                              *)

\* A set with 0 and the successors of its numbers has all numbers.
LEMMA InductionOnNat ==
  ASSUME NEW S, 0 \in S, \A n \in Nat : n \in S => n + 1 \in S
  PROVE  Nat \subseteq S
<1> DEFINE T == Nat \ S
           R == OpToRel(<, Nat)
<1> SUFFICES ASSUME T # {} PROVE FALSE
  OBVIOUS
<1>1. PICK x \in T : \A y \in T : ~ (<<y, x>> \in R)
  <2>1. IsWellFoundedOn(R, Nat)
    BY NatLessThanWellFounded
  <2> HIDE DEF R
  <2> QED BY <2>1, WFMin
<1>2. x # 0 /\ x - 1 \in Nat /\ x - 1 \notin S
  BY SMT
<1>3. x - 1 \in T /\ x - 1 < x
  BY <1>2
<1>4. <<x - 1, x>> \in R
  BY <1>3 DEF OpToRel
<1> QED BY <1>1, <1>3, <1>4

\* A set of numbers that is not empty has a least one.
LEMMA LeastNumber ==
  ASSUME NEW T \in SUBSET Nat, T # {}
  PROVE  \E x \in T : \A y \in T : x <= y
<1> DEFINE R == OpToRel(<, Nat)
<1>1. PICK x \in T : \A y \in T : ~ (<<y, x>> \in R)
  <2>1. IsWellFoundedOn(R, Nat)
    BY NatLessThanWellFounded
  <2> HIDE DEF R
  <2> QED BY <2>1, WFMin
<1>2. ASSUME NEW y \in T PROVE x <= y
  <2>1. CASE y < x
    <3>1. <<y, x>> \in R
      BY <2>1 DEF OpToRel
    <3> QED BY <1>1, <3>1
  <2> QED BY <2>1
<1> QED BY <1>2

\* A set of some of the first numbers has a greatest one.
LEMMA GreatestIndex ==
  ASSUME NEW n \in Nat, NEW T \in SUBSET (1..n), T # {}
  PROVE  Max(T) \in T /\ \A y \in T : Max(T) >= y
<1> DEFINE D == {d \in Nat : n - d \in T}
<1>1. D \in SUBSET Nat /\ D # {}
  <2>1. PICK y \in T : TRUE
    OBVIOUS
  <2>2. y \in 1..n
    OBVIOUS
  <2>3. n - y \in Nat /\ n - (n - y) = y
    BY <2>2
  <2> QED BY <2>1, <2>3
<1>2. PICK d \in D : \A e \in D : d <= e
  <2> HIDE DEF D
  <2> QED BY <1>1, LeastNumber
<1>3. n - d \in T
  OBVIOUS
<1>4. ASSUME NEW y \in T PROVE n - d >= y
  <2>1. y \in 1..n
    OBVIOUS
  <2>2. n - y \in D
    <3>1. n - y \in Nat /\ n - (n - y) = y
      BY <2>1
    <3> QED BY <3>1
  <2>3. d <= n - y /\ d \in Nat
    BY <1>2, <2>2
  <2> QED BY <2>1, <2>3
<1> QED BY <1>3, <1>4 DEF Max

LEMMA GreatestOfAll ==
  ASSUME NEW n \in Nat \ {0}
  PROVE  Max(1..n) = n /\ (1..n) \ {n} = 1..(n - 1)
<1>1. 1..n # {} /\ (1..n) \in SUBSET (1..n) /\ n \in 1..n
  OBVIOUS
<1>2. Max(1..n) \in 1..n /\ \A y \in 1..n : Max(1..n) >= y
  BY <1>1, GreatestIndex
<1> QED BY <1>1, <1>2

-----------------------------------------------------------------------------
(* The cell after the shares of a sequence of blobs.                       *)

CellAfter(s) == FoldLeft(LAMBDA n, x : n + Shares[x], 1, s)

\* The recursive function that the fold stands for.
IsFold(f, s) ==
  f = [t \in SUBSET DOMAIN s |->
         IF t = {} THEN 1 ELSE f[t \ {Max(t)}] + Shares[s[Max(t)]]]

LEMMA FoldStep ==
  ASSUME NEW s, NEW f, IsFold(f, s), NEW n \in Nat \ {0}, 1..n \subseteq DOMAIN s
  PROVE  f[1..n] = f[1..(n - 1)] + Shares[s[n]]
<1> DEFINE I == 1..n
<1>1. n \in I /\ I \in SUBSET DOMAIN s
  OBVIOUS
<1>2. Max(I) = n /\ I \ {n} = 1..(n - 1)
  BY GreatestOfAll
<1> HIDE DEF I
<1>3. f[I] = f[I \ {Max(I)}] + Shares[s[Max(I)]]
  BY <1>1 DEF IsFold
<1>4. f[I] = f[1..(n - 1)] + Shares[s[n]]
  BY <1>2, <1>3
<1> QED BY <1>4 DEF I

LEMMA CellAfterIsAFold ==
  ASSUME NEW s
  PROVE  CellAfter(s) = (CHOOSE f : IsFold(f, s))[DOMAIN s]
BY DEF CellAfter, FoldLeft, MapThenFoldSet, IsFold

\* A fold as far as the first m blobs.
FoldsUpTo(f, s, m) ==
  /\ f \in [SUBSET (1..m) -> Nat]
  /\ \A t \in SUBSET (1..m) :
       f[t] = IF t = {} THEN 1 ELSE f[t \ {Max(t)}] + Shares[s[Max(t)]]

LEMMA FoldsExist ==
  ASSUME NEW s \in Seq(Blob)
  PROVE  \E f : IsFold(f, s)
<1> DEFINE n == Len(s)
           S == {m \in Nat : m <= n => \E f : FoldsUpTo(f, s, m)}
<1>0. n \in Nat /\ DOMAIN s = 1..n /\ \A i \in 1..n : s[i] \in Blob
  OBVIOUS
<1> HIDE DEF n
<1>1. 0 \in S
  <2> DEFINE f == [t \in SUBSET (1..0) |-> 1]
  <2>1. SUBSET (1..0) = {{}}
    OBVIOUS
  <2>2. FoldsUpTo(f, s, 0)
    BY <2>1 DEF FoldsUpTo
  <2> QED BY <2>2
<1>2. ASSUME NEW m \in Nat, m \in S PROVE m + 1 \in S
  <2> SUFFICES ASSUME m + 1 <= n PROVE \E f : FoldsUpTo(f, s, m + 1)
    OBVIOUS
  <2>1. PICK f : FoldsUpTo(f, s, m)
    BY <1>0, <1>2
  <2> DEFINE k == m + 1
             g == [t \in SUBSET (1..k) |->
                     IF k \in t THEN f[t \ {k}] + Shares[s[k]] ELSE f[t]]
  <2>2. k \in 1..n /\ Shares[s[k]] \in Nat
    BY <1>0, LayoutAssumption
  <2>3. ASSUME NEW t \in SUBSET (1..k)
        PROVE  /\ t \ {k} \in SUBSET (1..m)
               /\ k \notin t => t \in SUBSET (1..m)
    OBVIOUS
  <2>4. g \in [SUBSET (1..k) -> Nat]
    BY <2>1, <2>2, <2>3 DEF FoldsUpTo
  <2>5. ASSUME NEW t \in SUBSET (1..k)
        PROVE  g[t] = IF t = {} THEN 1 ELSE g[t \ {Max(t)}] + Shares[s[Max(t)]]
    <3>1. t # {} => Max(t) \in t /\ \A y \in t : Max(t) >= y
      <4>1. k \in Nat
        OBVIOUS
      <4> HIDE DEF k, g
      <4> QED BY <4>1, GreatestIndex
    <3>2. CASE k \in t
      <4>1. Max(t) = k
        <5>1. k \in Nat
          OBVIOUS
        <5> HIDE DEF k, g
        <5>2. t \subseteq 1..k /\ Max(t) \in t /\ Max(t) >= k
          BY <3>1, <3>2
        <5>3. Max(t) \in 1..k
          BY <5>2
        <5> QED BY <5>1, <5>2, <5>3
      <4>2. g[t] = f[t \ {k}] + Shares[s[k]]
        BY <3>2
      <4>3. t \ {k} \in SUBSET (1..k) /\ k \notin t \ {k}
        OBVIOUS
      <4>4. g[t \ {k}] = f[t \ {k}]
        BY <4>3
      <4> HIDE DEF g
      <4> QED BY <3>2, <4>1, <4>2, <4>4
    <3>3. CASE k \notin t
      <4>1. t \in SUBSET (1..m)
        BY <2>3, <3>3
      <4>2. g[t] = IF t = {} THEN 1 ELSE f[t \ {Max(t)}] + Shares[s[Max(t)]]
        BY <2>1, <3>3, <4>1 DEF FoldsUpTo
      <4>3. t \ {Max(t)} \in SUBSET (1..k) /\ k \notin t \ {Max(t)}
        BY <3>3
      <4>4. g[t \ {Max(t)}] = f[t \ {Max(t)}]
        BY <4>3
      <4> HIDE DEF g
      <4> QED BY <4>2, <4>4
    <3> QED BY <3>2, <3>3
  <2> HIDE DEF g
  <2>6. FoldsUpTo(g, s, k)
    BY <2>4, <2>5 DEF FoldsUpTo
  <2> QED BY <2>6
<1>3. n \in S
  <2> HIDE DEF S
  <2> QED BY <1>0, <1>1, <1>2, InductionOnNat
<1>4. PICK f : FoldsUpTo(f, s, n)
  BY <1>0, <1>3
<1>5. f = [t \in SUBSET DOMAIN s |->
             IF t = {} THEN 1 ELSE f[t \ {Max(t)}] + Shares[s[Max(t)]]]
  BY <1>0, <1>4 DEF FoldsUpTo
<1> QED BY <1>5 DEF IsFold

\* Two folds agree as far as their sequences do.
LEMMA FoldsAgree ==
  ASSUME NEW s \in Seq(Blob), NEW t \in Seq(Blob), NEW f, IsFold(f, s), NEW g, IsFold(g, t),
         NEW n \in Nat, n <= Len(s), n <= Len(t), \A i \in 1..n : s[i] = t[i]
  PROVE  f[1..n] = g[1..n] /\ f[1..n] \in Nat
<1> DEFINE S == {m \in Nat : m <= n => f[1..m] = g[1..m] /\ f[1..m] \in Nat}
<1>0. /\ Len(s) \in Nat /\ DOMAIN s = 1..Len(s) /\ Len(t) \in Nat /\ DOMAIN t = 1..Len(t)
      /\ \A i \in 1..Len(s) : s[i] \in Blob
  OBVIOUS
<1>00. IsFold(f, s) /\ IsFold(g, t)
  OBVIOUS
<1>1. 0 \in S
  <2>1. 1..0 = {} /\ {} \in SUBSET DOMAIN s /\ {} \in SUBSET DOMAIN t
    OBVIOUS
  <2>2. f[{}] = 1 /\ g[{}] = 1
    BY <2>1 DEF IsFold
  <2> QED BY <2>1, <2>2
<1>2. ASSUME NEW m \in Nat, m \in S PROVE m + 1 \in S
  <2> SUFFICES ASSUME m + 1 <= n
               PROVE  f[1..(m + 1)] = g[1..(m + 1)] /\ f[1..(m + 1)] \in Nat
    OBVIOUS
  <2> DEFINE k == m + 1
  <2>1. f[1..m] = g[1..m] /\ f[1..m] \in Nat
    BY <1>2
  <2>2. k \in Nat \ {0} /\ k - 1 = m /\ k \in 1..n /\ k \in 1..Len(s)
    BY <1>0
  <2>3. s[k] = t[k] /\ Shares[s[k]] \in Nat
    BY <1>0, <2>2, LayoutAssumption
  <2>4. 1..k \subseteq DOMAIN s /\ 1..k \subseteq DOMAIN t
    BY <1>0
  <2> HIDE DEF k
  <2>5. f[1..k] = f[1..(k - 1)] + Shares[s[k]]
    BY <1>00, <2>2, <2>4, FoldStep
  <2>6. g[1..k] = g[1..(k - 1)] + Shares[t[k]]
    BY <1>00, <2>2, <2>4, FoldStep
  <2>7. f[1..k] = g[1..k] /\ f[1..k] \in Nat
    BY <2>1, <2>2, <2>3, <2>5, <2>6
  <2> QED BY <2>7 DEF k
<1>3. n \in S
  <2> HIDE DEF S
  <2> QED BY <1>1, <1>2, InductionOnNat
<1> QED BY <1>3

LEMMA AfterNothing == CellAfter(<<>>) = 1
<1>1. <<>> \in Seq(Blob) /\ DOMAIN <<>> = {}
  OBVIOUS
<1> DEFINE f == CHOOSE g : IsFold(g, <<>>)
<1>2. IsFold(f, <<>>)
  BY <1>1, FoldsExist
<1>3. CellAfter(<<>>) = f[{}]
  BY <1>1, CellAfterIsAFold
<1> HIDE DEF f
<1> QED BY <1>1, <1>2, <1>3 DEF IsFold

\* The cells after the first blobs of a layout: each blob begins where the one
\* before it ends.
LEMMA AfterEach ==
  ASSUME NEW s \in Seq(Blob), NEW n \in 1..Len(s)
  PROVE  /\ CellAfter(SubSeq(s, 1, n)) = CellAfter(SubSeq(s, 1, n - 1)) + Shares[s[n]]
         /\ CellAfter(SubSeq(s, 1, n)) \in Nat /\ CellAfter(SubSeq(s, 1, n - 1)) \in Nat
<1> DEFINE u == SubSeq(s, 1, n)
           v == SubSeq(s, 1, n - 1)
           f == CHOOSE h : IsFold(h, u)
           g == CHOOSE h : IsFold(h, v)
<1>1. n \in Nat \ {0} /\ n - 1 \in Nat /\ Len(s) \in Nat /\ s[n] \in Blob
  OBVIOUS
<1>2. u \in Seq(Blob) /\ Len(u) = n /\ DOMAIN u = 1..n /\ \A i \in 1..n : u[i] = s[i]
  OBVIOUS
<1>3. /\ v \in Seq(Blob) /\ Len(v) = n - 1 /\ DOMAIN v = 1..(n - 1)
      /\ \A i \in 1..(n - 1) : v[i] = s[i]
  OBVIOUS
<1> HIDE DEF u, v
<1>4. IsFold(f, u) /\ IsFold(g, v)
  BY <1>2, <1>3, FoldsExist
<1>5. CellAfter(u) = f[1..n] /\ CellAfter(v) = g[1..(n - 1)]
  BY <1>2, <1>3, CellAfterIsAFold
<1> HIDE DEF f, g
<1>6. f[1..n] = f[1..(n - 1)] + Shares[u[n]]
  BY <1>1, <1>2, <1>4, FoldStep
<1>7. f[1..(n - 1)] = g[1..(n - 1)] /\ f[1..(n - 1)] \in Nat
  <2>1. n - 1 <= Len(u) /\ n - 1 <= Len(v) /\ \A i \in 1..(n - 1) : u[i] = v[i]
    BY <1>1, <1>2, <1>3
  <2> QED BY <1>1, <1>2, <1>3, <1>4, <2>1, FoldsAgree
<1>8. u[n] = s[n] /\ Shares[s[n]] \in Nat
  BY <1>1, <1>2, LayoutAssumption
<1> QED BY <1>5, <1>6, <1>7, <1>8 DEF u, v

-----------------------------------------------------------------------------
(* Powers of two.  A power of two counts the subsets of a set of numbers,  *)
(* which is what the library's theorem on SUBSET knows of it.              *)

LEMMA PowerIsCardinality ==
  ASSUME NEW n \in Nat
  PROVE  2^n = Cardinality(SUBSET (1..n)) /\ 2^n \in Nat /\ IsFiniteSet(SUBSET (1..n))
<1>1. IsFiniteSet(1..n) /\ Cardinality(1..n) = n
  BY FS_Interval
<1>2. IsFiniteSet(SUBSET (1..n)) /\ Cardinality(SUBSET (1..n)) = 2^n
  BY <1>1, FS_SUBSET
<1> QED BY <1>2, FS_CardinalityType

LEMMA PowerStep ==
  ASSUME NEW n \in Nat
  PROVE  2^(n + 1) = 2 * 2^n
<1> DEFINE k == n + 1
           S == SUBSET (1..n)
           T == {x \in SUBSET (1..k) : k \in x}
           f == [x \in S |-> x \cup {k}]
<1>1. SUBSET (1..k) = S \cup T /\ S \cap T = {}
  OBVIOUS
<1>2. IsFiniteSet(S) /\ Cardinality(S) = 2^n /\ 2^n \in Nat
  BY PowerIsCardinality
<1>3. f \in Bijection(S, T)
  <2>1. f \in [S -> T]
    OBVIOUS
  <2>2. ASSUME NEW x \in S, NEW y \in S, f[x] = f[y] PROVE x = y
    <3>1. k \notin x /\ k \notin y /\ x \cup {k} = y \cup {k}
      BY <2>2
    <3>2. x = (x \cup {k}) \ {k} /\ y = (y \cup {k}) \ {k}
      <4> HIDE DEF k
      <4> QED BY <3>1
    <3> QED BY <3>1, <3>2
  <2>3. ASSUME NEW y \in T PROVE \E x \in S : f[x] = y
    <3>1. y \ {k} \in S /\ f[y \ {k}] = y
      OBVIOUS
    <3> QED BY <3>1
  <2> QED BY <2>1, <2>2, <2>3 DEF Bijection, Injection, Surjection, IsInjective
<1>4. IsFiniteSet(T) /\ Cardinality(T) = 2^n
  <2> HIDE DEF S, T, f
  <2> QED BY <1>2, <1>3, FS_Bijection DEF ExistsBijection
<1>5. Cardinality(S \cup T) = 2^n + 2^n - Cardinality({})
  <2> HIDE DEF S, T, f
  <2> QED BY <1>1, <1>2, <1>4, FS_Union
<1>6. Cardinality(S \cup T) = 2^k
  <2>1. k \in Nat
    OBVIOUS
  <2> HIDE DEF k, S, T
  <2> QED BY <1>1, <2>1, PowerIsCardinality
<1> QED BY <1>2, <1>5, <1>6, FS_EmptySet

\* A power of two is more than its exponent.
LEMMA PowerExceeds ==
  ASSUME NEW n \in Nat
  PROVE  2^n \in Nat /\ 2^n > n
<1> DEFINE S == {m \in Nat : 2^m > m}
<1>1. 0 \in S
  OBVIOUS
<1>2. ASSUME NEW m \in Nat, m \in S PROVE m + 1 \in S
  <2>1. 2^m \in Nat /\ 2^(m + 1) = 2 * 2^m /\ 2^m > m
    BY <1>2, PowerIsCardinality, PowerStep
  <2> QED BY <2>1
<1>3. n \in S
  <2> HIDE DEF S
  <2> QED BY <1>1, <1>2, InductionOnNat
<1> QED BY <1>3, PowerIsCardinality

LEMMA PowersGrow ==
  ASSUME NEW i \in Nat, NEW n \in Nat
  PROVE  2^i <= 2^(i + n)
<1> DEFINE P(m) == 2^(i + m)
           S == {m \in Nat : 2^i <= P(m)}
<1>1. \A m \in Nat : P(m) \in Nat /\ P(m + 1) = 2 * P(m)
  <2> SUFFICES ASSUME NEW m \in Nat PROVE P(m) \in Nat /\ P(m + 1) = 2 * P(m)
    OBVIOUS
  <2> DEFINE k == i + m
  <2>1. k \in Nat /\ i + (m + 1) = k + 1
    OBVIOUS
  <2> HIDE DEF k
  <2>2. 2^k \in Nat /\ 2^(k + 1) = 2 * 2^k
    BY <2>1, PowerIsCardinality, PowerStep
  <2> QED BY <2>1, <2>2 DEF k
<1>2. P(0) = 2^i
  <2>1. i + 0 = i
    OBVIOUS
  <2> QED BY <2>1
<1> HIDE DEF P
<1>3. 0 \in S
  BY <1>1, <1>2
<1>4. \A m \in Nat : m \in S => m + 1 \in S
  BY <1>1, <1>2
<1>5. n \in S
  <2> HIDE DEF S
  <2> QED BY <1>3, <1>4, InductionOnNat
<1> QED BY <1>5 DEF P

\* Of two powers of two, the lesser one is at most half of the other.
LEMMA PowersDouble ==
  ASSUME NEW j \in Nat, NEW k \in Nat, 2^j < 2^k
  PROVE  2 * 2^j <= 2^k
<1>1. 2^j \in Nat /\ 2^k \in Nat /\ 2^(j + 1) = 2 * 2^j
  BY PowerIsCardinality, PowerStep
<1>2. CASE k <= j
  <2> DEFINE n == j - k
  <2>1. n \in Nat /\ k + n = j
    BY <1>2
  <2> HIDE DEF n
  <2>2. 2^k <= 2^(k + n)
    BY <2>1, PowersGrow
  <2> QED BY <1>1, <2>1, <2>2
<1>3. CASE j < k
  <2> DEFINE n == k - (j + 1)
             a == j + 1
  <2>1. n \in Nat /\ a \in Nat /\ a + n = k
    BY <1>3
  <2>2. 2^a = 2 * 2^j
    BY <1>1
  <2> HIDE DEF n, a
  <2>3. 2^a <= 2^(a + n)
    BY <2>1, PowersGrow
  <2> QED BY <2>1, <2>2, <2>3
<1> QED BY <1>2, <1>3

-----------------------------------------------------------------------------
(* The width of a square.                                                  *)

LEMMA RootIsRoundedUp ==
  ASSUME NEW n \in Nat
  PROVE  LET r == CeilSqrt(n)
         IN  r \in Nat /\ r * r >= n /\ (r = 0 \/ (r - 1) * (r - 1) < n)
<1> DEFINE T == {x \in Nat : x * x >= n}
<1>1. n \in T
  OBVIOUS
<1>2. PICK r \in T : \A y \in T : r <= y
  <2> HIDE DEF T
  <2>1. T \in SUBSET Nat
    BY DEF T
  <2> QED BY <1>1, <2>1, LeastNumber
<1>3. r \in 0..n /\ r * r >= n /\ (r = 0 \/ (r - 1) * (r - 1) < n)
  <2>1. r <= n
    BY <1>1, <1>2
  <2>2. CASE r # 0
    <3>1. r - 1 \in Nat /\ ~ (r <= r - 1)
      BY <2>2
    <3>2. r - 1 \notin T
      BY <1>2, <3>1
    <3>3. (r - 1) * (r - 1) \in Int
      BY <3>1
    <3> QED BY <2>1, <3>1, <3>2, <3>3
  <2>3. CASE r = 0
    BY <2>1, <2>3
  <2> QED BY <2>2, <2>3
<1>4. /\ CeilSqrt(n) \in 0..n
      /\ CeilSqrt(n) * CeilSqrt(n) >= n
      /\ CeilSqrt(n) = 0 \/ (CeilSqrt(n) - 1) * (CeilSqrt(n) - 1) < n
  BY <1>3 DEF CeilSqrt
<1> QED BY <1>4

LEMMA PowerIsRoundedUp ==
  ASSUME NEW n \in Nat \ {0}
  PROVE  LET p == NextPowerOfTwo(n)
         IN  /\ p \in Nat /\ p >= n
             /\ \E k \in 0..n : p = 2^k
             /\ p = 1 \/ p \div 2 < n
<1> DEFINE T == {k \in Nat : 2^k >= n}
<1>1. n \in T
  BY PowerExceeds
<1>2. PICK k \in T : \A j \in T : k <= j
  <2> HIDE DEF T
  <2>1. T \in SUBSET Nat
    BY DEF T
  <2> QED BY <1>1, <2>1, LeastNumber
<1>3. k \in 0..n /\ 2^k \in Nat /\ 2^k >= n
  BY <1>1, <1>2, PowerIsCardinality
<1>4. 2^k = 1 \/ 2^k \div 2 < n
  <2>1. CASE k = 0
    BY <2>1
  <2>2. CASE k # 0
    <3> DEFINE j == k - 1
    <3>1. j \in Nat /\ k = j + 1 /\ ~ (k <= j)
      BY <2>2
    <3>2. j \notin T
      BY <1>2, <3>1
    <3> HIDE DEF j
    <3>3. 2^j \in Nat /\ 2^k = 2 * 2^j
      BY <3>1, PowerIsCardinality, PowerStep
    <3> QED BY <3>1, <3>2, <3>3
  <2> QED BY <2>1, <2>2
<1> DEFINE p == NextPowerOfTwo(n)
<1>5. p \in {2^i : i \in 0..n} /\ p >= n /\ (p = 1 \/ p \div 2 < n)
  BY <1>3, <1>4 DEF NextPowerOfTwo
<1>6. PICK i \in 0..n : p = 2^i
  BY <1>5
<1>7. i \in Nat
  OBVIOUS
<1>8. 2^i \in Nat
  BY <1>7, PowerIsCardinality
<1> QED BY <1>5, <1>6, <1>8

\* The width is a power of two, wide enough, and least (square_width).
LEMMA WidthOfShares ==
  ASSUME NEW n \in Nat \ {0}
  PROVE  LET w == SquareWidth(n)
         IN  /\ w \in Nat \ {0} /\ w * w >= n
             /\ LeastWidth(w, n)
<1> DEFINE root == CeilSqrt(n)
           m == IF root < MinWidth THEN MinWidth ELSE root
           w == NextPowerOfTwo(m)
<1>1. root \in Nat /\ root * root >= n /\ (root = 0 \/ (root - 1) * (root - 1) < n)
  BY RootIsRoundedUp
<1>2. MinWidth \in Nat \ {0}
  BY LayoutAssumption
<1> HIDE DEF root
<1>3. m \in Nat \ {0} /\ m >= MinWidth /\ m >= root /\ (m = MinWidth \/ m = root)
  BY <1>1, <1>2
<1> HIDE DEF m
<1>4. w \in Nat /\ w >= m /\ (w = 1 \/ w \div 2 < m)
  BY <1>3, PowerIsRoundedUp
<1>5. PICK k \in Nat : w = 2^k
  BY <1>3, PowerIsRoundedUp
<1> HIDE DEF w
<1>6. w \in Nat \ {0} /\ w >= MinWidth
  BY <1>2, <1>3, <1>4
<1>7. w * w >= n
  <2>1. w >= root
    BY <1>1, <1>3, <1>4
  <2>2. w * w >= root * root
    BY <1>1, <1>4, <2>1
  <2>3. w * w \in Nat /\ root * root \in Nat
    BY <1>1, <1>4
  <2> QED BY <1>1, <2>2, <2>3
<1>8. Fits(w, n)
  <2>1. k < w
    BY <1>5, PowerExceeds
  <2>2. k \in 0..w
    BY <1>6, <2>1
  <2> QED BY <1>5, <1>6, <1>7, <2>2 DEF Fits
<1>9. ASSUME NEW v \in 1..(w - 1), Fits(v, n) PROVE FALSE
  <2>1. PICK j \in 0..v : v = 2^j
    BY <1>9 DEF Fits
  <2>2. v \in Nat /\ v < w /\ v >= MinWidth /\ v * v >= n
    BY <1>6, <1>9 DEF Fits
  <2>3. 2 * v <= w
    <3>1. j \in Nat /\ 2^j < 2^k
      BY <1>5, <2>1, <2>2
    <3> QED BY <1>5, <2>1, <3>1, PowersDouble
  <2>4. v < m
    <3>1. w # 1 /\ w \div 2 < m
      BY <1>4, <2>2, <2>3
    <3>2. v <= w \div 2
      BY <1>4, <2>2, <2>3
    <3>3. w \div 2 \in Int
      BY <1>4
    <3> QED BY <1>3, <2>2, <3>1, <3>2, <3>3
  <2>5. m = root /\ root # 0
    BY <1>2, <1>3, <2>2, <2>4
  <2>6. v <= root - 1 /\ root - 1 \in Nat /\ (root - 1) * (root - 1) < n
    BY <1>1, <2>2, <2>4, <2>5
  <2>7. v * v <= (root - 1) * (root - 1)
    BY <2>2, <2>6
  <2>8. v * v \in Nat /\ (root - 1) * (root - 1) \in Nat
    BY <2>2, <2>6
  <2> QED BY <2>2, <2>6, <2>7, <2>8
<1>10. LeastWidth(w, n)
  BY <1>8, <1>9 DEF LeastWidth
<1>11. SquareWidth(n) = w
  BY DEF SquareWidth, w, m, root
<1> QED BY <1>6, <1>7, <1>10, <1>11

-----------------------------------------------------------------------------
(* Flattening a sequence of sequences.                                     *)

\* The recursive function that FlattenSeq stands for.
IsFlat(f, s) ==
  f = [i \in 1..Len(s) |-> IF i = 1 THEN s[i] ELSE f[i - 1] \o s[i]]

LEMMA FlattenIsRecursive ==
  ASSUME NEW s, Len(s) # 0
  PROVE  FlattenSeq(s) = (CHOOSE f : IsFlat(f, s))[Len(s)]
BY DEF FlattenSeq, IsFlat

\* A flattening as far as the first m sequences.
FlatUpTo(X, f, s, m) ==
  /\ f \in [1..m -> Seq(X)]
  /\ \A i \in 1..m : f[i] = IF i = 1 THEN s[i] ELSE f[i - 1] \o s[i]

LEMMA FlatExists ==
  ASSUME NEW X, NEW s \in Seq(Seq(X))
  PROVE  \E f : IsFlat(f, s)
<1> DEFINE n == Len(s)
           S == {m \in Nat : m <= n => \E f : FlatUpTo(X, f, s, m)}
<1>0. n \in Nat /\ \A i \in 1..n : s[i] \in Seq(X)
  OBVIOUS
<1> HIDE DEF n
<1>1. 0 \in S
  <2> DEFINE f == [i \in 1..0 |-> <<>>]
  <2>1. FlatUpTo(X, f, s, 0)
    BY DEF FlatUpTo
  <2> QED BY <2>1
<1>2. ASSUME NEW m \in Nat, m \in S PROVE m + 1 \in S
  <2> SUFFICES ASSUME m + 1 <= n PROVE \E f : FlatUpTo(X, f, s, m + 1)
    OBVIOUS
  <2>1. PICK f : FlatUpTo(X, f, s, m)
    BY <1>0, <1>2
  <2> DEFINE k == m + 1
             g == [i \in 1..k |-> IF i < k THEN f[i] ELSE IF k = 1 THEN s[k] ELSE f[m] \o s[k]]
  <2>2. k \in 1..n /\ s[k] \in Seq(X)
    BY <1>0
  <2>3. k # 1 => f[m] \in Seq(X)
    BY <2>1 DEF FlatUpTo
  <2>4. g \in [1..k -> Seq(X)]
    <3> SUFFICES ASSUME NEW i \in 1..k PROVE g[i] \in Seq(X)
      OBVIOUS
    <3>1. CASE i < k
      <4>1. i \in 1..m
        BY <3>1
      <4> QED BY <2>1, <3>1, <4>1 DEF FlatUpTo
    <3>2. CASE i = k
      <4>1. k # 1 => f[m] \o s[k] \in Seq(X)
        <5> HIDE DEF k
        <5> QED BY <2>2, <2>3
      <4> QED BY <2>2, <3>2, <4>1
    <3> QED BY <3>1, <3>2
  <2>5. ASSUME NEW i \in 1..k PROVE g[i] = IF i = 1 THEN s[i] ELSE g[i - 1] \o s[i]
    <3>1. CASE i < k
      <4>1. i \in 1..m /\ g[i] = f[i] /\ (i # 1 => g[i - 1] = f[i - 1])
        BY <3>1
      <4> HIDE DEF g
      <4> QED BY <2>1, <4>1 DEF FlatUpTo
    <3>2. CASE i = k
      <4>1. k # 1 => k - 1 \in 1..k /\ k - 1 < k /\ k - 1 = m
        OBVIOUS
      <4>2. k # 1 => g[k - 1] = f[m]
        BY <4>1
      <4>3. g[k] = IF k = 1 THEN s[k] ELSE f[m] \o s[k]
        OBVIOUS
      <4> HIDE DEF g, k
      <4> QED BY <3>2, <4>2, <4>3
    <3> QED BY <3>1, <3>2
  <2> HIDE DEF g
  <2>6. FlatUpTo(X, g, s, k)
    BY <2>4, <2>5 DEF FlatUpTo
  <2> QED BY <2>6
<1>3. n \in S
  <2> HIDE DEF S
  <2> QED BY <1>0, <1>1, <1>2, InductionOnNat
<1>4. PICK f : FlatUpTo(X, f, s, n)
  BY <1>0, <1>3
<1>5. f = [i \in 1..n |-> IF i = 1 THEN s[i] ELSE f[i - 1] \o s[i]]
  BY <1>4 DEF FlatUpTo
<1> QED BY <1>5 DEF IsFlat, n

LEMMA FlatsAgree ==
  ASSUME NEW X, NEW s \in Seq(Seq(X)), NEW t \in Seq(Seq(X)),
         NEW f, IsFlat(f, s), NEW g, IsFlat(g, t),
         NEW n \in Nat \ {0}, n <= Len(s), n <= Len(t), \A i \in 1..n : s[i] = t[i]
  PROVE  f[n] = g[n] /\ f[n] \in Seq(X)
<1> DEFINE S == {m \in Nat : 0 < m /\ m <= n => f[m] = g[m] /\ f[m] \in Seq(X)}
<1>0. /\ Len(s) \in Nat /\ Len(t) \in Nat
      /\ \A i \in 1..n : i \in 1..Len(s) /\ i \in 1..Len(t) /\ s[i] \in Seq(X)
  OBVIOUS
<1>1. \A i \in 1..n : f[i] = IF i = 1 THEN s[i] ELSE f[i - 1] \o s[i]
  BY <1>0 DEF IsFlat
<1>2. \A i \in 1..n : g[i] = IF i = 1 THEN s[i] ELSE g[i - 1] \o s[i]
  BY <1>0 DEF IsFlat
<1>3. 0 \in S
  OBVIOUS
<1>4. ASSUME NEW m \in Nat, m \in S PROVE m + 1 \in S
  <2> DEFINE k == m + 1
  <2> SUFFICES ASSUME k <= n PROVE f[k] = g[k] /\ f[k] \in Seq(X)
    OBVIOUS
  <2>1. k \in 1..n /\ k - 1 = m /\ (k = 1 \/ (0 < m /\ m <= n))
    OBVIOUS
  <2>2. k # 1 => f[m] = g[m] /\ f[m] \in Seq(X)
    BY <1>4, <2>1
  <2>3. s[k] = t[k] /\ s[k] \in Seq(X)
    BY <1>0, <2>1
  <2> HIDE DEF k
  <2>4. f[k] = (IF k = 1 THEN s[k] ELSE f[m] \o s[k])
    BY <1>1, <2>1
  <2>5. g[k] = (IF k = 1 THEN t[k] ELSE g[m] \o t[k])
    BY <1>2, <2>1
  <2>6. k # 1 => f[m] \o s[k] \in Seq(X)
    BY <2>2, <2>3
  <2> QED BY <2>2, <2>3, <2>4, <2>5, <2>6
<1>5. n \in S
  <2> HIDE DEF S
  <2> QED BY <1>3, <1>4, InductionOnNat
<1> QED BY <1>5

\* Flattening appends one sequence after the other.
LEMMA FlattenStep ==
  ASSUME NEW X, NEW s \in Seq(Seq(X)), NEW n \in 1..Len(s)
  PROVE  /\ FlattenSeq(SubSeq(s, 1, n)) = FlattenSeq(SubSeq(s, 1, n - 1)) \o s[n]
         /\ FlattenSeq(SubSeq(s, 1, n)) \in Seq(X)
         /\ FlattenSeq(SubSeq(s, 1, n - 1)) \in Seq(X)
<1> DEFINE u == SubSeq(s, 1, n)
           v == SubSeq(s, 1, n - 1)
           f == CHOOSE h : IsFlat(h, u)
           g == CHOOSE h : IsFlat(h, v)
<1>1. n \in Nat \ {0} /\ n - 1 \in Nat /\ Len(s) \in Nat /\ s[n] \in Seq(X)
  OBVIOUS
<1>2. u \in Seq(Seq(X)) /\ Len(u) = n /\ \A i \in 1..n : u[i] = s[i]
  OBVIOUS
<1>3. v \in Seq(Seq(X)) /\ Len(v) = n - 1 /\ \A i \in 1..(n - 1) : v[i] = s[i]
  OBVIOUS
<1> HIDE DEF u, v
<1>4. IsFlat(f, u) /\ IsFlat(g, v)
  BY <1>2, <1>3, FlatExists
<1>5. FlattenSeq(u) = f[n] /\ (n # 1 => FlattenSeq(v) = g[n - 1])
  BY <1>1, <1>2, <1>3, FlattenIsRecursive
<1> HIDE DEF f, g
<1>6. f[n] = IF n = 1 THEN s[n] ELSE f[n - 1] \o s[n]
  <2>1. n \in 1..Len(u) /\ u[n] = s[n]
    BY <1>1, <1>2
  <2> QED BY <1>4, <2>1 DEF IsFlat
<1> HIDE DEF IsFlat
<1>7. CASE n = 1
  <2>1. v = <<>> /\ Len(v) = 0
    BY <1>3, <1>7
  <2>2. FlattenSeq(v) = <<>>
    BY <2>1 DEF FlattenSeq
  <2>3. FlattenSeq(u) = s[n]
    BY <1>5, <1>6, <1>7
  <2>4. <<>> \o s[n] = s[n] /\ <<>> \in Seq(X)
    BY <1>1
  <2>5. FlattenSeq(u) = FlattenSeq(v) \o s[n] /\ FlattenSeq(u) \in Seq(X) /\ FlattenSeq(v) \in Seq(X)
    BY <1>1, <2>2, <2>3, <2>4
  <2> QED BY <2>5 DEF u, v
<1>8. CASE n # 1
  <2> DEFINE m == n - 1
  <2>1. m \in Nat \ {0} /\ m <= n /\ 1..m \subseteq 1..n
    BY <1>1, <1>8
  <2>2. \A i \in 1..m : u[i] = v[i]
    BY <1>2, <1>3, <2>1
  <2>3. m <= Len(u) /\ m <= Len(v)
    BY <1>1, <1>2, <1>3, <2>1
  <2>4. f[m] = g[m] /\ f[m] \in Seq(X)
    <3> HIDE DEF m
    <3>1. u \in Seq(Seq(X)) /\ v \in Seq(Seq(X)) /\ IsFlat(f, u) /\ IsFlat(g, v)
      BY <1>2, <1>3, <1>4
    <3> QED BY <2>1, <2>2, <2>3, <3>1, FlatsAgree
  <2>5. FlattenSeq(u) = f[m] \o s[n] /\ FlattenSeq(v) = g[m]
    BY <1>5, <1>6, <1>8
  <2>6. f[m] \o s[n] \in Seq(X)
    BY <1>1, <2>4
  <2>7. FlattenSeq(u) = FlattenSeq(v) \o s[n] /\ FlattenSeq(u) \in Seq(X) /\ FlattenSeq(v) \in Seq(X)
    BY <2>4, <2>5, <2>6
  <2> QED BY <2>7 DEF u, v
<1> QED BY <1>7, <1>8

-----------------------------------------------------------------------------
(* The shares of a layout.                                                 *)

\* The shares of each blob.
Parts(layout) ==
  [i \in 1..Len(layout) |-> [j \in 1..Shares[layout[i]] |-> NsOf[layout[i]]]]

\* The last cell of the n-th blob of a layout, counted from 1.
EndOf(layout, n) == CellAfter(SubSeq(layout, 1, n))

\* The cells of the n-th blob: from the one after those of the blobs before it.
CellsOf(layout, n) == (EndOf(layout, n - 1) + 1)..EndOf(layout, n)

LEMMA EndsGrow ==
  ASSUME NEW layout \in Seq(Blob)
  PROVE  /\ EndOf(layout, 0) = 1
         /\ \A n \in 1..Len(layout) :
              /\ EndOf(layout, n) = EndOf(layout, n - 1) + Shares[layout[n]]
              /\ Shares[layout[n]] \in Nat \ {0}
         /\ \A n \in 0..Len(layout) : EndOf(layout, n) \in Nat \ {0}
<1>1. EndOf(layout, 0) = 1
  <2>1. SubSeq(layout, 1, 0) = <<>>
    OBVIOUS
  <2> QED BY <2>1, AfterNothing DEF EndOf
<1>2. ASSUME NEW n \in 1..Len(layout)
      PROVE  /\ EndOf(layout, n) = EndOf(layout, n - 1) + Shares[layout[n]]
             /\ EndOf(layout, n) \in Nat /\ EndOf(layout, n - 1) \in Nat
             /\ Shares[layout[n]] \in Nat \ {0}
  <2>1. layout[n] \in Blob
    OBVIOUS
  <2> QED BY <2>1, AfterEach, LayoutAssumption DEF EndOf
<1>3. ASSUME NEW n \in 0..Len(layout) PROVE EndOf(layout, n) \in Nat \ {0}
  <2>1. CASE n = 0
    BY <1>1, <2>1
  <2>2. CASE n # 0
    <3>1. n \in 1..Len(layout)
      BY <2>2
    <3> QED BY <1>2, <3>1
  <2> QED BY <2>1, <2>2
<1> QED BY <1>1, <1>2, <1>3

LEMMA EndsAreOrdered ==
  ASSUME NEW layout \in Seq(Blob), NEW m \in 0..Len(layout), NEW n \in 0..Len(layout), m <= n
  PROVE  EndOf(layout, m) <= EndOf(layout, n)
<1> DEFINE S == {d \in Nat : m + d <= Len(layout) => EndOf(layout, m) <= EndOf(layout, m + d)}
<1>1. Len(layout) \in Nat /\ \A k \in 0..Len(layout) : EndOf(layout, k) \in Nat
  BY EndsGrow
<1>2. 0 \in S
  <2>1. m + 0 = m /\ EndOf(layout, m) \in Nat
    BY <1>1
  <2> QED BY <2>1
<1>3. ASSUME NEW d \in Nat, d \in S PROVE d + 1 \in S
  <2> DEFINE k == m + (d + 1)
  <2> SUFFICES ASSUME k <= Len(layout) PROVE EndOf(layout, m) <= EndOf(layout, k)
    OBVIOUS
  <2>1. k \in 1..Len(layout) /\ k - 1 = m + d /\ k - 1 \in 0..Len(layout) /\ k \in 0..Len(layout)
    BY <1>1
  <2>2. EndOf(layout, m) <= EndOf(layout, k - 1)
    BY <1>1, <1>3, <2>1
  <2> HIDE DEF k
  <2>3. EndOf(layout, k) = EndOf(layout, k - 1) + Shares[layout[k]] /\ Shares[layout[k]] \in Nat
    BY <2>1, EndsGrow
  <2>4. EndOf(layout, m) \in Nat /\ EndOf(layout, k - 1) \in Nat
    BY <1>1, <2>1
  <2> QED BY <2>2, <2>3, <2>4
<1> DEFINE e == n - m
<1>4. e \in Nat /\ m + e = n
  BY <1>1
<1> HIDE DEF S, e
<1>5. e \in S
  BY <1>2, <1>3, <1>4, InductionOnNat
<1>6. m + e <= Len(layout) => EndOf(layout, m) <= EndOf(layout, m + e)
  BY <1>5 DEF S
<1> QED BY <1>1, <1>4, <1>6

\* A cell belongs to one blob only.
LEMMA CellsAreDisjoint ==
  ASSUME NEW layout \in Seq(Blob), NEW m \in 1..Len(layout), NEW n \in 1..Len(layout),
         NEW c \in CellsOf(layout, m), NEW d \in CellsOf(layout, n), c <= d
  PROVE  m <= n
<1> SUFFICES ASSUME n < m PROVE FALSE
  OBVIOUS
<1>1. n \in 0..Len(layout) /\ m - 1 \in 0..Len(layout) /\ n <= m - 1 /\ m \in 0..Len(layout)
      /\ n - 1 \in 0..Len(layout)
  OBVIOUS
<1>2. EndOf(layout, n) <= EndOf(layout, m - 1)
  BY <1>1, EndsAreOrdered
<1>3. EndOf(layout, n) \in Nat /\ EndOf(layout, m - 1) \in Nat /\ EndOf(layout, m) \in Nat
      /\ EndOf(layout, n - 1) \in Nat
  BY <1>1, EndsGrow
<1>4. d <= EndOf(layout, n) /\ EndOf(layout, m - 1) + 1 <= c /\ c \in Nat /\ d \in Nat
  BY <1>3 DEF CellsOf
<1> QED BY <1>2, <1>3, <1>4

\* The shares of the first n blobs.
SharesUpTo(layout, n) == <<0>> \o FlattenSeq(SubSeq(Parts(layout), 1, n))

LEMMA PartsAreSequences ==
  ASSUME NEW layout \in Seq(Blob)
  PROVE  Parts(layout) \in Seq(Seq(Nat)) /\ Len(Parts(layout)) = Len(layout)
<1>1. Len(layout) \in Nat /\ \A i \in 1..Len(layout) : layout[i] \in Blob
  OBVIOUS
<1>2. ASSUME NEW i \in 1..Len(layout)
      PROVE  [j \in 1..Shares[layout[i]] |-> NsOf[layout[i]]] \in Seq(Nat)
  <2>1. Shares[layout[i]] \in Nat /\ NsOf[layout[i]] \in Nat
    BY <1>1, LayoutAssumption
  <2> QED BY <2>1
<1> QED BY <1>1, <1>2 DEF Parts

LEMMA PaddingInFront ==
  ASSUME NEW a \in Seq(Nat), NEW b \in Seq(Nat)
  PROVE  <<0>> \o (a \o b) = (<<0>> \o a) \o b
<1>1. \A z \in Seq(Nat) : z \o (a \o b) = (z \o a) \o b
  BY ConcatAssociative
<1>2. <<0>> \in Seq(Nat)
  OBVIOUS
<1> QED BY <1>1, <1>2

LEMMA SharesUpToEach ==
  ASSUME NEW layout \in Seq(Blob), NEW n \in 1..Len(layout)
  PROVE  /\ SharesUpTo(layout, n) = SharesUpTo(layout, n - 1) \o Parts(layout)[n]
         /\ SharesUpTo(layout, n) \in Seq(Nat) /\ SharesUpTo(layout, n - 1) \in Seq(Nat)
<1> DEFINE p == Parts(layout)
           a == FlattenSeq(SubSeq(p, 1, n - 1))
           b == FlattenSeq(SubSeq(p, 1, n))
<1>1. p \in Seq(Seq(Nat)) /\ n \in 1..Len(p) /\ p[n] \in Seq(Nat)
  BY PartsAreSequences
<1>2. b = a \o p[n] /\ a \in Seq(Nat) /\ b \in Seq(Nat)
  <2> HIDE DEF p
  <2> QED BY <1>1, FlattenStep
<1> HIDE DEF a, b, p
<1>3. <<0>> \in Seq(Nat)
  OBVIOUS
<1>4. <<0>> \o (a \o p[n]) = (<<0>> \o a) \o p[n]
  <2> DEFINE u == p[n]
  <2>1. u \in Seq(Nat)
    BY <1>1
  <2> HIDE DEF u
  <2>2. <<0>> \o (a \o u) = (<<0>> \o a) \o u
    BY <1>2, <2>1, PaddingInFront
  <2> QED BY <2>2 DEF u
<1>5. <<0>> \o a \in Seq(Nat) /\ <<0>> \o b \in Seq(Nat)
  BY <1>2, <1>3
<1> QED BY <1>2, <1>4, <1>5 DEF SharesUpTo, a, b, p

LEMMA SharesOfTheFirst ==
  ASSUME NEW layout \in Seq(Blob), NEW n \in 0..Len(layout)
  PROVE  LET data == SharesUpTo(layout, n)
         IN  /\ data \in Seq(Nat)
             /\ Len(data) = EndOf(layout, n)
             /\ data[1] = 0
             /\ \A k \in 1..n : \A c \in CellsOf(layout, k) : data[c] = NsOf[layout[k]]
<1> DEFINE D(m) == SharesUpTo(layout, m)
           S == {m \in Nat : m <= Len(layout) =>
                   /\ D(m) \in Seq(Nat)
                   /\ Len(D(m)) = EndOf(layout, m)
                   /\ D(m)[1] = 0
                   /\ \A k \in 1..m : \A c \in CellsOf(layout, k) : D(m)[c] = NsOf[layout[k]]}
<1>1. Len(layout) \in Nat
  OBVIOUS
<1>2. 0 \in S
  <2>1. SubSeq(Parts(layout), 1, 0) = <<>>
    BY PartsAreSequences
  <2>2. FlattenSeq(<<>>) = <<>>
    BY DEF FlattenSeq
  <2>3. D(0) = <<0>>
    <3>1. <<0>> \in Seq(Nat)
      OBVIOUS
    <3>2. <<0>> \o <<>> = <<0>>
      BY <3>1, ConcatEmptySeq
    <3> QED BY <2>1, <2>2, <3>2 DEF SharesUpTo
  <2>4. EndOf(layout, 0) = 1
    BY EndsGrow
  <2>5. D(0) \in Seq(Nat) /\ Len(D(0)) = 1 /\ D(0)[1] = 0
    <3>1. <<0>> \in Seq(Nat) /\ Len(<<0>>) = 1 /\ <<0>>[1] = 0
      OBVIOUS
    <3> HIDE DEF D
    <3> QED BY <2>3, <3>1
  <2> HIDE DEF D
  <2>6. 1..0 = {}
    OBVIOUS
  <2> QED BY <2>4, <2>5, <2>6
<1>3. ASSUME NEW m \in Nat, m \in S PROVE m + 1 \in S
  <2> DEFINE q == m + 1
             b == layout[q]
             a == D(m)
             u == Parts(layout)[q]
  <2> SUFFICES ASSUME q <= Len(layout)
               PROVE  /\ D(q) \in Seq(Nat)
                      /\ Len(D(q)) = EndOf(layout, q)
                      /\ D(q)[1] = 0
                      /\ \A k \in 1..q : \A c \in CellsOf(layout, k) : D(q)[c] = NsOf[layout[k]]
    OBVIOUS
  <2>1. q \in 1..Len(layout) /\ q - 1 = m /\ m <= Len(layout) /\ m \in 0..Len(layout)
    BY <1>1
  <2>2. /\ a \in Seq(Nat) /\ Len(a) = EndOf(layout, m) /\ a[1] = 0
        /\ \A k \in 1..m : \A c \in CellsOf(layout, k) : a[c] = NsOf[layout[k]]
    BY <1>3, <2>1
  <2>3. u = [j \in 1..Shares[b] |-> NsOf[b]] /\ b \in Blob
    BY <2>1 DEF Parts
  <2>4. Shares[b] \in Nat \ {0} /\ NsOf[b] \in Nat
    BY <2>3, LayoutAssumption
  <2>5. D(q) = a \o u /\ D(q) \in Seq(Nat)
    <3> HIDE DEF q
    <3>1. D(q) = D(q - 1) \o u /\ D(q) \in Seq(Nat)
      BY <2>1, SharesUpToEach
    <3> QED BY <2>1, <3>1
  <2>6. EndOf(layout, q) = EndOf(layout, m) + Shares[b] /\ EndOf(layout, m) \in Nat \ {0}
    <3> HIDE DEF q
    <3>1. EndOf(layout, q) = EndOf(layout, q - 1) + Shares[b]
      BY <2>1, EndsGrow
    <3>2. EndOf(layout, m) \in Nat \ {0}
      BY <2>1, EndsGrow
    <3> QED BY <2>1, <3>1, <3>2
  <2> DEFINE d == D(q)
  <2> HIDE DEF D, a, u, b, q, d
  <2>7. u \in Seq(Nat) /\ Len(u) = Shares[b] /\ \A j \in 1..Shares[b] : u[j] = NsOf[b]
    BY <2>3, <2>4
  <2>8. /\ Len(a \o u) = Len(a) + Len(u)
        /\ \A c \in 1..Len(a) : (a \o u)[c] = a[c]
        /\ \A c \in (Len(a) + 1)..(Len(a) + Len(u)) : (a \o u)[c] = u[c - Len(a)]
    <3>1. /\ Len(a \o u) = Len(a) + Len(u)
          /\ \A i \in 1..(Len(a) + Len(u)) :
               (a \o u)[i] = IF i <= Len(a) THEN a[i] ELSE u[i - Len(a)]
      BY <2>2, <2>7, ConcatProperties
    <3>2. Len(a) \in Nat /\ Len(u) \in Nat
      BY <2>2, <2>7
    <3> QED BY <3>1, <3>2
  <2>9. Len(D(q)) = EndOf(layout, q) /\ D(q)[1] = 0
    BY <2>2, <2>4, <2>5, <2>6, <2>7, <2>8
  <2>10. ASSUME NEW k \in 1..m, NEW c \in CellsOf(layout, k) PROVE D(q)[c] = NsOf[layout[k]]
    <3>1. /\ k \in 0..Len(layout) /\ k - 1 \in 0..Len(layout) /\ k <= m
      BY <2>1
    <3>2. /\ EndOf(layout, k) <= EndOf(layout, m)
          /\ EndOf(layout, k) \in Nat /\ EndOf(layout, k - 1) \in Nat
      BY <2>1, <3>1, EndsAreOrdered, EndsGrow
    <3>3. c \in 1..Len(a)
      BY <2>2, <2>6, <3>2 DEF CellsOf
    <3> QED BY <2>2, <2>5, <2>8, <3>3
  <2>11. ASSUME NEW c \in CellsOf(layout, q) PROVE D(q)[c] = NsOf[layout[q]]
    <3>1. c \in (Len(a) + 1)..(Len(a) + Len(u))
      BY <2>1, <2>2, <2>6, <2>7 DEF CellsOf
    <3>2. c - Len(a) \in 1..Shares[b]
      BY <2>2, <2>4, <2>6, <2>7, <3>1
    <3> QED BY <2>5, <2>7, <2>8, <3>1, <3>2 DEF b
  <2>12. \A k \in 1..q : k \in 1..m \/ k = q
    BY <2>1
  <2> QED BY <2>5, <2>9, <2>10, <2>11, <2>12
<1>4. n \in S
  <2> HIDE DEF S
  <2>1. n \in Nat
    OBVIOUS
  <2> QED BY <1>2, <1>3, <2>1, InductionOnNat
<1>5. n <= Len(layout)
  OBVIOUS
<1> QED BY <1>4, <1>5

-----------------------------------------------------------------------------
(* The padding after the blobs: its number is above that of any namespace. *)

Picked(s) == CHOOSE x \in s : TRUE

\* The recursive function that the sum in TailPadding stands for.
IsSum(f, S) ==
  f = [s \in SUBSET S |-> IF s = {} THEN 0 ELSE Picked(s) + f[s \ {Picked(s)}]]

LEMMA TailPaddingIsASum == TailPadding = 1 + (CHOOSE f : IsSum(f, Ns))[Ns]
BY DEF TailPadding, FoldSet, MapThenFoldSet, IsSum, Picked

SmallSubsets(S, m) == {s \in SUBSET S : Cardinality(s) <= m}

\* A sum as far as the sets of m numbers.
SumUpTo(f, S, m) ==
  /\ f \in [SmallSubsets(S, m) -> Nat]
  /\ \A s \in SmallSubsets(S, m) :
       f[s] = IF s = {} THEN 0 ELSE Picked(s) + f[s \ {Picked(s)}]

LEMMA SumsExist ==
  ASSUME NEW S \in SUBSET Nat, IsFiniteSet(S)
  PROVE  \E f : IsSum(f, S)
<1> DEFINE n == Cardinality(S)
           T == {m \in Nat : \E f : SumUpTo(f, S, m)}
<1>1. n \in Nat
  BY FS_CardinalityType
<1>2. ASSUME NEW s \in SUBSET S
      PROVE  /\ IsFiniteSet(s) /\ Cardinality(s) \in Nat /\ Cardinality(s) <= n
             /\ s = {} <=> Cardinality(s) = 0
             /\ s # {} => /\ Picked(s) \in s /\ Picked(s) \in Nat
                          /\ s \ {Picked(s)} \in SUBSET S
                          /\ Cardinality(s \ {Picked(s)}) = Cardinality(s) - 1
  <2>1. IsFiniteSet(s) /\ Cardinality(s) \in Nat /\ Cardinality(s) <= n
    BY FS_Subset, FS_CardinalityType
  <2>2. s = {} <=> Cardinality(s) = 0
    BY <2>1, FS_EmptySet
  <2>3. s # {} => Picked(s) \in s
    BY DEF Picked
  <2>4. Picked(s) \in s => Cardinality(s \ {Picked(s)}) = Cardinality(s) - 1
    BY <2>1, FS_RemoveElement
  <2> QED BY <2>1, <2>2, <2>3, <2>4
<1> HIDE DEF n
<1>3. 0 \in T
  <2> DEFINE f == [s \in SmallSubsets(S, 0) |-> 0]
  <2>1. ASSUME NEW s \in SmallSubsets(S, 0) PROVE s = {}
    <3>1. s \in SUBSET S /\ Cardinality(s) <= 0
      BY DEF SmallSubsets
    <3>2. Cardinality(s) \in Nat
      BY <1>2, <3>1
    <3>3. Cardinality(s) = 0
      BY <3>1, <3>2
    <3> QED BY <1>2, <3>1, <3>3
  <2>2. SumUpTo(f, S, 0)
    BY <2>1 DEF SumUpTo
  <2> QED BY <2>2
<1>4. ASSUME NEW m \in Nat, m \in T PROVE m + 1 \in T
  <2>1. PICK f : SumUpTo(f, S, m)
    BY <1>4
  <2> DEFINE k == m + 1
             g == [s \in SmallSubsets(S, k) |->
                     IF s = {} THEN 0 ELSE Picked(s) + f[s \ {Picked(s)}]]
  <2>2. ASSUME NEW s \in SmallSubsets(S, k), s # {}
        PROVE  s \ {Picked(s)} \in SmallSubsets(S, m) /\ Picked(s) \in Nat
    BY <1>2, <2>2 DEF SmallSubsets
  <2>3. g \in [SmallSubsets(S, k) -> Nat]
    <3>1. \A s \in SmallSubsets(S, k) :
            s # {} => f[s \ {Picked(s)}] \in Nat /\ Picked(s) \in Nat
      BY <2>1, <2>2 DEF SumUpTo
    <3> QED BY <3>1
  <2>4. ASSUME NEW s \in SmallSubsets(S, m)
        PROVE  s \in SmallSubsets(S, k) /\ g[s] = f[s]
    <3>1. s \in SmallSubsets(S, k)
      <4>1. s \in SUBSET S /\ Cardinality(s) <= m
        BY DEF SmallSubsets
      <4>2. Cardinality(s) \in Nat
        BY <1>2, <4>1
      <4>3. Cardinality(s) <= k
        BY <4>1, <4>2
      <4> QED BY <4>1, <4>3 DEF SmallSubsets
    <3>2. f[s] = IF s = {} THEN 0 ELSE Picked(s) + f[s \ {Picked(s)}]
      BY <2>1 DEF SumUpTo
    <3> HIDE DEF k
    <3> QED BY <3>1, <3>2
  <2>5. ASSUME NEW s \in SmallSubsets(S, k)
        PROVE  g[s] = IF s = {} THEN 0 ELSE Picked(s) + g[s \ {Picked(s)}]
    <3>1. s # {} => g[s \ {Picked(s)}] = f[s \ {Picked(s)}]
      BY <2>2, <2>4
    <3>2. g[s] = IF s = {} THEN 0 ELSE Picked(s) + f[s \ {Picked(s)}]
      OBVIOUS
    <3> HIDE DEF g, k
    <3> QED BY <3>1, <3>2
  <2> HIDE DEF g
  <2>6. SumUpTo(g, S, k)
    BY <2>3, <2>5 DEF SumUpTo
  <2> QED BY <2>6
<1>5. n \in T
  <2> HIDE DEF T
  <2> QED BY <1>1, <1>3, <1>4, InductionOnNat
<1>6. PICK f : SumUpTo(f, S, n)
  BY <1>5
<1>7. SmallSubsets(S, n) = SUBSET S
  BY <1>2 DEF SmallSubsets
<1>8. f = [s \in SUBSET S |-> IF s = {} THEN 0 ELSE Picked(s) + f[s \ {Picked(s)}]]
  BY <1>6, <1>7 DEF SumUpTo
<1> QED BY <1>8 DEF IsSum

IsBound(n, s) == n \in Nat /\ \A x \in s : x <= n

LEMMA SumsAreBounds ==
  ASSUME NEW S \in SUBSET Nat, IsFiniteSet(S), NEW f, IsSum(f, S)
  PROVE  f[S] \in Nat /\ \A x \in S : x <= f[S]
<1> DEFINE T == {m \in Nat : \A s \in SUBSET S : Cardinality(s) = m => IsBound(f[s], s)}
<1>1. ASSUME NEW s \in SUBSET S
      PROVE  /\ IsFiniteSet(s) /\ Cardinality(s) \in Nat
             /\ s = {} <=> Cardinality(s) = 0
  BY FS_Subset, FS_CardinalityType, FS_EmptySet
<1>2. \A s \in SUBSET S : f[s] = IF s = {} THEN 0 ELSE Picked(s) + f[s \ {Picked(s)}]
  BY DEF IsSum
<1>3. 0 \in T
  <2>1. {} \in SUBSET S /\ f[{}] = 0
    BY <1>2
  <2>2. IsBound(f[{}], {})
    BY <2>1 DEF IsBound
  <2> QED BY <1>1, <2>2
<1>4. ASSUME NEW m \in Nat, m \in T PROVE m + 1 \in T
  <2> SUFFICES ASSUME NEW s \in SUBSET S, Cardinality(s) = m + 1 PROVE IsBound(f[s], s)
    OBVIOUS
  <2> DEFINE p == Picked(s)
             t == s \ {Picked(s)}
  <2>1. s # {}
    <3>1. m + 1 # 0
      OBVIOUS
    <3> QED BY <1>1, <3>1
  <2>2. p \in s /\ p \in Nat
    BY <2>1 DEF Picked
  <2>3. t \in SUBSET S /\ Cardinality(t) = m
    <3>1. Cardinality(t) = Cardinality(s) - 1
      BY <1>1, <2>2, FS_RemoveElement
    <3>2. t \in SUBSET S
      OBVIOUS
    <3>3. Cardinality(t) = m
      <4> HIDE DEF t
      <4> QED BY <3>1
    <3> QED BY <3>2, <3>3
  <2>4. f[t] \in Nat /\ \A x \in t : x <= f[t]
    BY <1>4, <2>3 DEF IsBound
  <2>5. f[s] = p + f[t]
    BY <1>2, <2>1
  <2>6. \A x \in s : x \in Nat /\ (x = p \/ x \in t)
    OBVIOUS
  <2> HIDE DEF p, t
  <2> QED BY <2>2, <2>4, <2>5, <2>6 DEF IsBound
<1>5. Cardinality(S) \in T
  <2> HIDE DEF T
  <2> QED BY <1>3, <1>4, InductionOnNat, FS_CardinalityType
<1> QED BY <1>5 DEF IsBound

LEMMA TailPaddingIsLast ==
  /\ TailPadding \in Nat \ {0}
  /\ \A b \in Blob : NsOf[b] < TailPadding
<1>1. Ns \in SUBSET Nat /\ \A b \in Blob : NsOf[b] \in Ns
  BY LayoutAssumption DEF Ns
<1>2. IsFiniteSet(Ns)
  <2>1. NsOf \in Surjection(Blob, Ns)
    BY LayoutAssumption DEF Ns, Surjection
  <2> QED BY <2>1, FS_Surjection, LayoutAssumption
<1> DEFINE f == CHOOSE g : IsSum(g, Ns)
<1>3. IsSum(f, Ns)
  BY <1>1, <1>2, SumsExist
<1>4. TailPadding = 1 + f[Ns]
  BY TailPaddingIsASum
<1> HIDE DEF f
<1>5. f[Ns] \in Nat /\ \A x \in Ns : x <= f[Ns]
  BY <1>1, <1>2, <1>3, SumsAreBounds
<1>6. TailPadding \in Nat \ {0}
  BY <1>4, <1>5
<1>7. \A b \in Blob : NsOf[b] \in Nat /\ NsOf[b] <= f[Ns]
  BY <1>1, <1>5
<1> QED BY <1>4, <1>5, <1>6, <1>7

-----------------------------------------------------------------------------
(* What is known of a layout: its shares, its width, and which squares are *)
(* accepted.                                                               *)

LEMMA SharesOfALayout ==
  ASSUME NEW layout \in Seq(Blob)
  PROVE  LET data == DataShares(layout)
         IN  /\ data \in Seq(Nat)
             /\ Len(data) = EndOf(layout, Len(layout)) /\ Len(data) \in Nat \ {0}
             /\ data[1] = 0
             /\ \A k \in 1..Len(layout) :
                  \A c \in CellsOf(layout, k) : data[c] = NsOf[layout[k]]
<1>1. Len(layout) \in Nat /\ Len(layout) \in 0..Len(layout)
  OBVIOUS
<1>2. SubSeq(Parts(layout), 1, Len(layout)) = Parts(layout)
  BY PartsAreSequences, SubSeqFull
<1>3. DataShares(layout) = SharesUpTo(layout, Len(layout))
  BY <1>2 DEF DataShares, SharesUpTo, Parts
<1>4. EndOf(layout, Len(layout)) \in Nat \ {0}
  BY <1>1, EndsGrow
<1> QED BY <1>1, <1>3, <1>4, SharesOfTheFirst

\* Every cell but the first, of the padding, is one of a blob.
LEMMA CellsAreOfBlobs ==
  ASSUME NEW layout \in Seq(Blob), NEW c \in 2..EndOf(layout, Len(layout))
  PROVE  \E k \in 1..Len(layout) : c \in CellsOf(layout, k)
<1> DEFINE T == {n \in Nat : n <= Len(layout) /\ c <= EndOf(layout, n)}
<1>1. Len(layout) \in Nat /\ \A n \in 0..Len(layout) : EndOf(layout, n) \in Nat
  BY EndsGrow
<1>2. Len(layout) \in T
  BY <1>1
<1>3. PICK n \in T : \A m \in T : n <= m
  <2> HIDE DEF T
  <2>1. T \in SUBSET Nat
    BY DEF T
  <2> QED BY <1>2, <2>1, LeastNumber
<1>4. n # 0
  BY EndsGrow
<1>5. n \in 1..Len(layout) /\ n - 1 \in Nat /\ n - 1 <= Len(layout) /\ n - 1 \in 0..Len(layout)
  BY <1>1, <1>4
<1>6. n - 1 \notin T
  BY <1>3, <1>5
<1>7. c \in Nat /\ EndOf(layout, n - 1) \in Nat /\ EndOf(layout, n) \in Nat /\ c <= EndOf(layout, n)
  BY <1>1, <1>5
<1>8. EndOf(layout, n - 1) + 1 <= c
  BY <1>5, <1>6, <1>7
<1> QED BY <1>5, <1>7, <1>8 DEF CellsOf

LEMMA WidthOfALayout ==
  ASSUME NEW layout \in Seq(Blob)
  PROVE  /\ Width(layout) \in Nat \ {0}
         /\ Width(layout) * Width(layout) >= Len(DataShares(layout))
         /\ WidthIsLeast(layout)
<1>1. Len(DataShares(layout)) \in Nat \ {0}
  BY SharesOfALayout
<1> QED BY <1>1, WidthOfShares DEF Width, WidthIsLeast

\* The widest square holds no more than the width of a layout says.
LEMMA WidthIsBounded ==
  ASSUME NEW layout \in Seq(Blob)
  PROVE  Width(layout) <= MaxWidth <=> Len(DataShares(layout)) <= MaxWidth * MaxWidth
<1> DEFINE w == Width(layout)
           n == Len(DataShares(layout))
<1>1. w \in Nat \ {0} /\ w * w >= n /\ LeastWidth(w, n) /\ n \in Nat
  BY WidthOfALayout, SharesOfALayout DEF WidthIsLeast
<1>2. MaxWidth \in Nat /\ MinWidth <= MaxWidth /\ MinWidth \in Nat \ {0}
  BY LayoutAssumption, WidthAssumption
<1>3. ASSUME w <= MaxWidth PROVE n <= MaxWidth * MaxWidth
  <2> HIDE DEF w, n
  <2>1. w * w <= MaxWidth * MaxWidth
    BY <1>1, <1>2, <1>3
  <2>2. w * w \in Nat /\ MaxWidth * MaxWidth \in Nat
    BY <1>1, <1>2
  <2> QED BY <1>1, <2>1, <2>2
<1>4. ASSUME n <= MaxWidth * MaxWidth PROVE w <= MaxWidth
  <2> HIDE DEF w, n
  <2>1. Fits(MaxWidth, n)
    BY <1>2, <1>4, WidthAssumption DEF Fits
  <2>2. MaxWidth < w => MaxWidth \in 1..(w - 1)
    BY <1>1, <1>2
  <2> QED BY <1>1, <1>2, <2>1, <2>2 DEF LeastWidth
<1> QED BY <1>3, <1>4

\* The namespace of a cell, counted from 1.
CellNs(layout, c) ==
  IF c <= Len(DataShares(layout)) THEN DataShares(layout)[c] ELSE TailPadding

SortedByNs(layout) ==
  \A i, j \in 1..Len(layout) : i < j => NsOf[layout[i]] <= NsOf[layout[j]]

LEMMA SortedCells ==
  ASSUME NEW layout \in Seq(Blob), SortedByNs(layout),
         NEW c \in Nat \ {0}, NEW d \in Nat \ {0}, c <= d
  PROVE  CellNs(layout, c) <= CellNs(layout, d)
<1> DEFINE D == DataShares(layout)
           n == Len(D)
<1>1. /\ D \in Seq(Nat) /\ n \in Nat \ {0} /\ D[1] = 0 /\ n = EndOf(layout, Len(layout))
      /\ \A k \in 1..Len(layout) : \A x \in CellsOf(layout, k) : D[x] = NsOf[layout[k]]
  BY SharesOfALayout
<1>2. \A k \in 1..Len(layout) : layout[k] \in Blob /\ NsOf[layout[k]] \in Nat /\ NsOf[layout[k]] < TailPadding
  BY LayoutAssumption, TailPaddingIsLast
<1>3. ASSUME NEW x \in Nat, x <= n, x >= 2
      PROVE  \E k \in 1..Len(layout) : x \in CellsOf(layout, k) /\ D[x] = NsOf[layout[k]]
  <2>1. x \in 2..EndOf(layout, Len(layout))
    BY <1>1, <1>3
  <2> HIDE DEF D
  <2> QED BY <1>1, <2>1, CellsAreOfBlobs
<1>4. \A x \in Nat \ {0} : x <= n => D[x] \in Nat /\ D[x] < TailPadding
  <2> SUFFICES ASSUME NEW x \in Nat \ {0}, x <= n PROVE D[x] \in Nat /\ D[x] < TailPadding
    OBVIOUS
  <2>1. CASE x = 1
    BY <1>1, <2>1, TailPaddingIsLast
  <2>2. CASE x >= 2
    BY <1>2, <1>3, <2>2
  <2> QED BY <2>1, <2>2
<1>5. CASE d > n
  <2> HIDE DEF D
  <2>1. CellNs(layout, d) = TailPadding /\ TailPadding \in Nat
    BY <1>1, <1>5, TailPaddingIsLast DEF CellNs, D
  <2>2. CellNs(layout, c) = D[c] \/ CellNs(layout, c) = TailPadding
    BY DEF CellNs, D
  <2>3. c <= n => D[c] \in Nat /\ D[c] < TailPadding
    BY <1>4
  <2>4. c > n => CellNs(layout, c) = TailPadding
    BY <1>1 DEF CellNs, D
  <2>5. c <= n => CellNs(layout, c) = D[c]
    BY DEF CellNs, D
  <2> QED BY <1>1, <2>1, <2>3, <2>4, <2>5
<1>6. CASE d <= n
  <2>1. c <= n /\ CellNs(layout, c) = D[c] /\ CellNs(layout, d) = D[d]
    BY <1>1, <1>6 DEF CellNs
  <2> HIDE DEF D
  <2>2. CASE c = 1
    BY <1>1, <1>4, <1>6, <2>1, <2>2
  <2>3. CASE c # 1
    <3>1. c >= 2 /\ d >= 2
      BY <2>3
    <3>2. PICK k \in 1..Len(layout) : c \in CellsOf(layout, k) /\ D[c] = NsOf[layout[k]]
      BY <1>3, <2>1, <3>1
    <3>3. PICK m \in 1..Len(layout) : d \in CellsOf(layout, m) /\ D[d] = NsOf[layout[m]]
      BY <1>3, <1>6, <3>1
    <3>4. k <= m
      BY <3>2, <3>3, CellsAreDisjoint
    <3>5. NsOf[layout[k]] <= NsOf[layout[m]]
      <4>1. CASE k = m
        BY <1>2, <4>1
      <4>2. CASE k < m
        BY <4>2 DEF SortedByNs
      <4> QED BY <3>4, <4>1, <4>2
    <3> QED BY <2>1, <3>2, <3>3, <3>5
  <2> QED BY <2>2, <2>3
<1> QED BY <1>1, <1>5, <1>6

LEMMA SortedSquares ==
  ASSUME NEW layout \in Seq(Blob)
  PROVE  SortedIsAccepted(layout)
<1> DEFINE w == Width(layout)
<1> SUFFICES ASSUME SortedByNs(layout)
             PROVE  Accepts(layout) <=> Len(DataShares(layout)) <= MaxWidth * MaxWidth
  BY DEF SortedIsAccepted, SortedByNs
<1>1. w \in Nat \ {0}
  BY WidthOfALayout
<1>2. ASSUME NEW i \in 0..(w - 1), NEW j \in 0..(w - 2)
      PROVE  /\ NsAt(layout, i, j) <= NsAt(layout, i, j + 1)
             /\ NsAt(layout, j, i) <= NsAt(layout, j + 1, i)
  <2>1. \A r, c \in Nat : NsAt(layout, r, c) = CellNs(layout, r * w + c + 1)
    BY DEF NsAt, CellNs
  <2> HIDE DEF w
  <2>2. /\ i \in Nat /\ j \in Nat /\ j + 1 \in Nat
        /\ i * w \in Nat /\ j * w \in Nat /\ (j + 1) * w \in Nat
        /\ (j + 1) * w = j * w + w
    BY <1>1
  <2>3. /\ i * w + j + 1 \in Nat \ {0} /\ i * w + (j + 1) + 1 \in Nat \ {0}
        /\ i * w + j + 1 <= i * w + (j + 1) + 1
        /\ j * w + i + 1 \in Nat \ {0} /\ (j + 1) * w + i + 1 \in Nat \ {0}
        /\ j * w + i + 1 <= (j + 1) * w + i + 1
    BY <1>1, <2>2
  <2>4. CellNs(layout, i * w + j + 1) <= CellNs(layout, i * w + (j + 1) + 1)
    BY <2>3, SortedCells
  <2>5. CellNs(layout, j * w + i + 1) <= CellNs(layout, (j + 1) * w + i + 1)
    BY <2>3, SortedCells
  <2> QED BY <2>1, <2>2, <2>4, <2>5
<1>3. Accepts(layout) <=> w <= MaxWidth
  BY <1>2 DEF Accepts
<1> QED BY <1>3, WidthIsBounded

-----------------------------------------------------------------------------
(* Ranges of cells.                                                        *)

LEMMA Division ==
  ASSUME NEW a \in Nat, NEW w \in Nat \ {0}
  PROVE  /\ a \div w \in Nat /\ a % w \in 0..(w - 1)
         /\ a = (a \div w) * w + (a % w)
<1>1. a \div w \in Nat /\ a % w \in 0..(w - 1)
  OBVIOUS
<1>2. a = (a \div w) * w + (a % w)
  OBVIOUS
<1> QED BY <1>1, <1>2

LEMMA DivisionIsUnique ==
  ASSUME NEW w \in Nat \ {0}, NEW q \in Nat, NEW c \in 0..(w - 1)
  PROVE  (q * w + c) \div w = q /\ (q * w + c) % w = c
OBVIOUS

LEMMA DivisionIsMonotonic ==
  ASSUME NEW w \in Nat \ {0}, NEW a \in Nat, NEW b \in Nat, a <= b
  PROVE  a \div w <= b \div w
OBVIOUS

\* The first and the last column of a row in the range of cells first..last,
\* and the cells of that row, as ShareRange has them.
FirstCol(w, first, row) == IF row = first \div w THEN first % w ELSE 0

LastCol(w, last, row) == IF row = last \div w THEN last % w ELSE w - 1

RowCells(w, first, last, row) ==
  [k \in 1..(LastCol(w, last, row) - FirstCol(w, first, row) + 1) |->
     <<row, FirstCol(w, first, row) + k - 1>>]

RangeRows(w, first, last) ==
  [k \in 1..Cardinality((first \div w)..(last \div w)) |->
     RowCells(w, first, last, first \div w + k - 1)]

\* The first and the last cell of a row in the range.
RowBegin(w, first, row) == row * w + FirstCol(w, first, row)

RowEnd(w, last, row) == row * w + LastCol(w, last, row)

\* A cell, counted from 0, by row and column.
CellAt(w, a) == <<a \div w, a % w>>

\* What the cells of a row in the range are.
RowIsItsCells(w, first, last, row) ==
  LET a == RowBegin(w, first, row)
      b == RowEnd(w, last, row)
      cells == RowCells(w, first, last, row)
  IN  /\ a \in Nat /\ b \in Nat /\ first <= a /\ a <= b /\ b <= last
      /\ a \div w = row
      /\ cells \in Seq(Nat \X Nat) /\ Len(cells) = b - a + 1
      /\ \A k \in 1..Len(cells) : cells[k] = CellAt(w, a + k - 1)
      /\ row = first \div w => a = first
      /\ row = last \div w => b = last
      /\ row # last \div w => b + 1 = RowBegin(w, first, row + 1)

LEMMA CellsOfARow ==
  ASSUME NEW w \in Nat \ {0}, NEW first \in Nat, NEW last \in Nat, first <= last,
         NEW row \in (first \div w)..(last \div w)
  PROVE  RowIsItsCells(w, first, last, row)
<1> DEFINE s == FirstCol(w, first, row)
           e == LastCol(w, last, row)
           a == row * w + s
           b == row * w + e
           f == first \div w
           l == last \div w
<1>1. /\ f \in Nat /\ first % w \in 0..(w - 1) /\ first = f * w + (first % w)
      /\ l \in Nat /\ last % w \in 0..(w - 1) /\ last = l * w + (last % w)
  BY Division
<1>2. row \in Nat /\ f <= row /\ row <= l /\ f <= l
  BY <1>1
<1>3. s \in 0..(w - 1) /\ e \in 0..(w - 1)
  BY <1>1 DEF FirstCol, LastCol
<1>4. row * w \in Nat /\ f * w \in Nat /\ l * w \in Nat
  BY <1>1, <1>2
<1>5. row = f => a = first
  BY <1>1 DEF FirstCol
<1>6. row = l => b = last
  BY <1>1 DEF LastCol
<1>7. row # f => s = 0 /\ row * w >= f * w + w
  <2>1. row # f => row >= f + 1
    BY <1>1, <1>2
  <2> HIDE DEF f
  <2>2. row >= f + 1 => row * w >= (f + 1) * w
    BY <1>1, <1>2
  <2>3. (f + 1) * w = f * w + w
    BY <1>1
  <2> QED BY <2>1, <2>2, <2>3 DEF FirstCol, f
<1>8. row # l => e = w - 1 /\ l * w >= row * w + w
  <2>1. row # l => l >= row + 1
    BY <1>1, <1>2
  <2> HIDE DEF l
  <2>2. l >= row + 1 => l * w >= (row + 1) * w
    BY <1>1, <1>2
  <2>3. (row + 1) * w = row * w + w
    BY <1>2
  <2> QED BY <2>1, <2>2, <2>3 DEF LastCol, l
<1>9. row # l => FirstCol(w, first, row + 1) = 0 /\ b + 1 = (row + 1) * w
  <2>1. (row + 1) * w = row * w + w /\ row + 1 # f
    BY <1>1, <1>2
  <2>2. FirstCol(w, first, row + 1) = 0
    BY <2>1 DEF FirstCol
  <2> QED BY <1>4, <1>8, <2>1, <2>2
<1> HIDE DEF s, e, f, l
<1>10. a \in Nat /\ b \in Nat
  BY <1>3, <1>4
<1>11. first <= a
  <2>1. CASE row = f
    BY <1>5, <2>1
  <2>2. CASE row # f
    <3>1. first < f * w + w
      BY <1>1, <1>4
    <3>2. a >= f * w + w
      BY <1>3, <1>4, <1>7, <2>2
    <3> QED BY <1>4, <1>10, <3>1, <3>2
  <2> QED BY <2>1, <2>2
<1>12. b <= last
  <2>1. CASE row = l
    BY <1>6, <2>1
  <2>2. CASE row # l
    <3>1. l * w <= last
      <4> DEFINE c == last % w
      <4>1. last = l * w + c /\ c \in Nat
        BY <1>1
      <4> HIDE DEF c
      <4> QED BY <1>4, <4>1
    <3>2. b < l * w
      BY <1>3, <1>4, <1>8, <2>2
    <3> QED BY <1>4, <1>10, <3>1, <3>2
  <2> QED BY <2>1, <2>2
<1>13. a <= b
  <2>1. CASE row = f /\ row = l
    BY <1>5, <1>6, <2>1
  <2>2. CASE row # f
    BY <1>3, <1>4, <1>7, <2>2
  <2>3. CASE row # l
    BY <1>3, <1>4, <1>8, <2>3
  <2> QED BY <2>1, <2>2, <2>3
<1>14. a \div w = row
  BY <1>2, <1>3, DivisionIsUnique
<1> DEFINE cells == RowCells(w, first, last, row)
<1>15. cells = [k \in 1..(e - s + 1) |-> <<row, s + k - 1>>] /\ e - s + 1 = b - a + 1
  BY <1>3, <1>4 DEF RowCells, s, e
<1>16. ASSUME NEW k \in 1..(e - s + 1)
       PROVE  /\ <<row, s + k - 1>> = CellAt(w, a + k - 1)
              /\ <<row, s + k - 1>> \in Nat \X Nat
  <2> DEFINE c == s + k - 1
  <2>1. c \in 0..(w - 1) /\ a + k - 1 = row * w + c
    BY <1>3, <1>4
  <2> HIDE DEF c
  <2>2. (row * w + c) \div w = row /\ (row * w + c) % w = c
    BY <1>2, <2>1, DivisionIsUnique
  <2>3. <<row, c>> = CellAt(w, a + k - 1) /\ <<row, c>> \in Nat \X Nat
    BY <1>2, <2>1, <2>2 DEF CellAt
  <2> QED BY <2>3 DEF c
<1>17. e - s + 1 \in Nat
  BY <1>3, <1>10, <1>13, <1>15
<1> HIDE DEF a, b, cells
<1>18. cells \in Seq(Nat \X Nat) /\ Len(cells) = e - s + 1
  BY <1>15, <1>16, <1>17
<1>19. \A k \in 1..Len(cells) : cells[k] = CellAt(w, a + k - 1)
  BY <1>15, <1>16, <1>18
<1>20. row # l => b + 1 = (row + 1) * w + FirstCol(w, first, row + 1)
  BY <1>2, <1>9
<1> QED BY <1>5, <1>6, <1>10, <1>11, <1>12, <1>13, <1>14, <1>15, <1>18, <1>19, <1>20
        DEF a, b, cells, s, e, f, l, RowBegin, RowEnd, RowIsItsCells

\* The cells of a range, row after row.
LEMMA CellsOfRows ==
  ASSUME NEW w \in Nat \ {0}, NEW first \in Nat, NEW last \in Nat, first <= last
  PROVE  LET cells == FlattenSeq(RangeRows(w, first, last))
         IN  /\ cells \in Seq(Nat \X Nat)
             /\ Len(cells) = last - first + 1
             /\ \A i \in 1..Len(cells) : cells[i] = CellAt(w, first + i - 1)
<1> DEFINE f == first \div w
           l == last \div w
           r == l - f + 1
           s == RangeRows(w, first, last)
           F(n) == FlattenSeq(SubSeq(s, 1, n))
           End(row) == RowEnd(w, last, row)
           Begin(row) == RowBegin(w, first, row)
           Good(n) == /\ F(n) \in Seq(Nat \X Nat)
                      /\ Len(F(n)) = (IF n = 0 THEN first ELSE End(f + n - 1) + 1) - first
                      /\ \A i \in 1..Len(F(n)) : F(n)[i] = CellAt(w, first + i - 1)
           T == {n \in Nat : n <= r => Good(n)}
<1>1. f \in Nat /\ l \in Nat /\ f <= l /\ r \in Nat \ {0} /\ Cardinality(f..l) = r
  <2>1. f \in Nat /\ l \in Nat /\ f <= l
    BY Division, DivisionIsMonotonic
  <2> HIDE DEF f, l
  <2>2. Cardinality(f..l) = r
    BY <2>1, FS_Interval
  <2> QED BY <2>1, <2>2
<1>2. ASSUME NEW n \in 1..r
      PROVE  LET row == f + n - 1
                 cells == RowCells(w, first, last, row)
             IN  /\ row \in f..l
                 /\ Begin(row) \in Nat /\ End(row) \in Nat
                 /\ first <= Begin(row) /\ Begin(row) <= End(row)
                 /\ cells \in Seq(Nat \X Nat) /\ Len(cells) = End(row) - Begin(row) + 1
                 /\ \A k \in 1..Len(cells) : cells[k] = CellAt(w, Begin(row) + k - 1)
                 /\ row = f => Begin(row) = first
                 /\ row = l => End(row) = last
                 /\ row # l => End(row) + 1 = Begin(row + 1)
  <2> DEFINE row == f + n - 1
  <2>1. row \in f..l
    BY <1>1
  <2> DEFINE cells == RowCells(w, first, last, row)
  <2>2. /\ Begin(row) \in Nat /\ End(row) \in Nat
        /\ first <= Begin(row) /\ Begin(row) <= End(row)
        /\ cells \in Seq(Nat \X Nat) /\ Len(cells) = End(row) - Begin(row) + 1
        /\ \A k \in 1..Len(cells) : cells[k] = CellAt(w, Begin(row) + k - 1)
        /\ row = f => Begin(row) = first
        /\ row = l => End(row) = last
        /\ row # l => End(row) + 1 = Begin(row + 1)
    <3>1. RowIsItsCells(w, first, last, row)
      <4> HIDE DEF row
      <4> QED BY <2>1, CellsOfARow
    <3> HIDE DEF row
    <3> QED BY <3>1 DEF RowIsItsCells
  <2> HIDE DEF End, Begin, f, l
  <2> QED BY <2>1, <2>2
<1>3. s \in Seq(Seq(Nat \X Nat)) /\ Len(s) = r
      /\ \A n \in 1..r : s[n] = RowCells(w, first, last, f + n - 1)
  <2>1. s = [k \in 1..r |-> RowCells(w, first, last, f + k - 1)]
    BY <1>1 DEF RangeRows
  <2>2. \A k \in 1..r : RowCells(w, first, last, f + k - 1) \in Seq(Nat \X Nat)
    BY <1>2
  <2> HIDE DEF s, r
  <2> QED BY <1>1, <2>1, <2>2
<1> HIDE DEF s, F, End, Begin, f, l, r
<1>4. 0 \in T
  <2>1. SubSeq(s, 1, 0) = <<>> /\ FlattenSeq(<<>>) = <<>>
    BY <1>3 DEF FlattenSeq
  <2>2. F(0) = <<>>
    BY <2>1 DEF F
  <2>3. F(0) \in Seq(Nat \X Nat) /\ Len(F(0)) = 0
    BY <2>2, EmptySeq
  <2>4. 1..0 = {} /\ first - first = 0
    OBVIOUS
  <2>5. Good(0)
    BY <2>3, <2>4
  <2> QED BY <2>5
<1>5. ASSUME NEW m \in Nat, m \in T PROVE m + 1 \in T
  <2> DEFINE n == m + 1
             row == f + n - 1
             u == s[n]
             a == F(m)
  <2> SUFFICES ASSUME n <= r PROVE Good(n)
    OBVIOUS
  <2>1. n \in 1..r /\ n \in Nat /\ n - 1 = m /\ m <= r /\ n # 0
    BY <1>1
  <2>2. Good(m)
    BY <1>5, <2>1
  <2>3. F(n) = a \o u /\ F(n) \in Seq(Nat \X Nat)
    <3> HIDE DEF n
    <3>1. n \in 1..Len(s)
      BY <1>3, <2>1
    <3> QED BY <1>3, <2>1, <3>1, FlattenStep DEF F
  <2>4. /\ u \in Seq(Nat \X Nat) /\ Len(u) = End(row) - Begin(row) + 1
        /\ \A k \in 1..Len(u) : u[k] = CellAt(w, Begin(row) + k - 1)
        /\ Begin(row) \in Nat /\ End(row) \in Nat
        /\ first <= Begin(row) /\ Begin(row) <= End(row)
    <3> HIDE DEF n
    <3> QED BY <1>2, <1>3, <2>1
  <2>5. Len(a) = Begin(row) - first
    <3>1. CASE m = 0
      <4>1. row = f
        BY <1>1, <3>1
      <4>2. Begin(row) = first
        <5> HIDE DEF row, n
        <5> QED BY <1>2, <2>1, <4>1 DEF row
      <4> QED BY <2>2, <3>1, <4>2
    <3>2. CASE m # 0
      <4>1. m \in 1..r /\ f + m - 1 # l /\ (f + m - 1) + 1 = row
        BY <1>1, <2>1, <3>2 DEF r
      <4>2. End(f + m - 1) + 1 = Begin((f + m - 1) + 1)
        BY <1>2, <4>1
      <4> QED BY <2>2, <3>2, <4>1, <4>2
    <3> QED BY <3>1, <3>2
  <2>6. a \in Seq(Nat \X Nat) /\ \A i \in 1..Len(a) : a[i] = CellAt(w, first + i - 1)
    BY <2>2
  <2>7. row = f + n - 1 /\ F(n) = a \o u
    BY <2>3
  <2> HIDE DEF a, u, n, row
  <2>8. /\ Len(a \o u) = Len(a) + Len(u)
        /\ \A i \in 1..(Len(a) + Len(u)) :
             (a \o u)[i] = IF i <= Len(a) THEN a[i] ELSE u[i - Len(a)]
    BY <2>4, <2>6, ConcatProperties
  <2>9. Len(F(n)) = (End(row) + 1) - first
    BY <2>4, <2>5, <2>7, <2>8
  <2>10. ASSUME NEW i \in 1..Len(F(n)) PROVE F(n)[i] = CellAt(w, first + i - 1)
    <3>1. Len(a) \in Nat /\ Len(u) \in Nat /\ i \in 1..(Len(a) + Len(u))
      BY <2>4, <2>6, <2>7, <2>8
    <3>2. CASE i <= Len(a)
      <4>1. i \in 1..Len(a)
        BY <3>1, <3>2
      <4> QED BY <2>6, <2>7, <2>8, <3>1, <3>2, <4>1
    <3>3. CASE i > Len(a)
      <4>1. i - Len(a) \in 1..Len(u)
        BY <3>1, <3>3
      <4>2. u[i - Len(a)] = CellAt(w, Begin(row) + (i - Len(a)) - 1)
        BY <2>4, <4>1
      <4>3. Begin(row) + (i - Len(a)) - 1 = first + i - 1
        <5> DEFINE b == Begin(row)
        <5>1. b \in Nat /\ Len(a) = b - first /\ i \in Nat
          BY <2>4, <2>5, <3>1
        <5> HIDE DEF b
        <5>2. b + (i - Len(a)) - 1 = first + i - 1
          BY <5>1
        <5> QED BY <5>2 DEF b
      <4>4. F(n)[i] = u[i - Len(a)]
        BY <2>7, <2>8, <3>1, <3>3
      <4> QED BY <4>2, <4>3, <4>4
    <3> QED BY <3>1, <3>2, <3>3
  <2> QED BY <2>1, <2>3, <2>7, <2>9, <2>10
<1>6. r \in T
  <2> HIDE DEF T
  <2> QED BY <1>1, <1>4, <1>5, InductionOnNat
<1>7. Good(r)
  BY <1>1, <1>6
<1>8. End(f + r - 1) = last /\ f + r - 1 = l
  <2>1. r \in 1..r /\ f + r - 1 = l
    BY <1>1 DEF r
  <2> QED BY <1>2, <2>1
<1>9. F(r) = FlattenSeq(s)
  <2>1. SubSeq(s, 1, Len(s)) = s
    BY <1>3, SubSeqFull
  <2> QED BY <1>3, <2>1 DEF F
<1>10. (last + 1) - first = last - first + 1
  OBVIOUS
<1> HIDE DEF T
<1> QED BY <1>1, <1>7, <1>8, <1>9, <1>10 DEF s

-----------------------------------------------------------------------------
(* The answers of SquareReads.                                             *)

\* What a range that is not refused is answered with.
LEMMA RangeIsAnswered ==
  ASSUME NEW layout \in Seq(Blob), NEW start \in Nat, NEW end \in Nat,
         ~ RangeRefused(layout, start, end)
  PROVE  LET w == Width(layout)
             last == IF end < w * w - 1 THEN end ELSE w * w - 1
             r == ShareRange(layout, start, end)
         IN  /\ w \in Nat \ {0} /\ last \in Nat /\ start <= last /\ last < w * w
             /\ r.rows = (start \div w)..(last \div w)
             /\ r.shares \in Seq(Nat \X Nat)
             /\ Len(r.shares) = last - start + 1
             /\ \A i \in 1..Len(r.shares) : r.shares[i] = CellAt(w, start + i - 1)
<1> DEFINE w == Width(layout)
           last == IF end < w * w - 1 THEN end ELSE w * w - 1
           r == ShareRange(layout, start, end)
<1>1. w \in Nat \ {0}
  BY WidthOfALayout
<1> HIDE DEF w
<1>2. OdsWidth(layout) = w
  BY <1>1 DEF OdsWidth, ExtendedWidth, w
<1>3. start <= end /\ start < w * w /\ w * w \in Nat
  BY <1>1, <1>2 DEF RangeRefused
<1>4. last \in Nat /\ start <= last /\ last < w * w
  BY <1>3
<1>5. r.rows = (start \div w)..(last \div w) /\ r.shares = FlattenSeq(RangeRows(w, start, last))
  BY <1>2 DEF ShareRange, RangeRows, RowCells, FirstCol, LastCol
<1> HIDE DEF last, r
<1>6. LET cells == FlattenSeq(RangeRows(w, start, last))
      IN  /\ cells \in Seq(Nat \X Nat)
          /\ Len(cells) = last - start + 1
          /\ \A i \in 1..Len(cells) : cells[i] = CellAt(w, start + i - 1)
  BY <1>1, <1>4, CellsOfRows
<1>7. /\ r.shares \in Seq(Nat \X Nat)
      /\ Len(r.shares) = last - start + 1
      /\ \A i \in 1..Len(r.shares) : r.shares[i] = CellAt(w, start + i - 1)
  BY <1>5, <1>6
<1> QED BY <1>1, <1>4, <1>5, <1>7 DEF w, last, r

\* The rows of a range are those of its cells.
LEMMA RowsOfCells ==
  ASSUME NEW w \in Nat \ {0}, NEW first \in Nat, NEW last \in Nat, first <= last
  PROVE  /\ \A a \in first..last : a \div w \in (first \div w)..(last \div w)
         /\ \A q \in (first \div w)..(last \div w) : \E a \in first..last : a \div w = q
<1>1. /\ first \div w \in Nat /\ last \div w \in Nat
      /\ \A a \in first..last : a \in Nat
  BY Division
<1>2. ASSUME NEW a \in first..last PROVE a \div w \in (first \div w)..(last \div w)
  <2>1. a \in Nat /\ first <= a /\ a <= last
    OBVIOUS
  <2>2. first \div w <= a \div w /\ a \div w <= last \div w /\ a \div w \in Nat
    BY <2>1, Division, DivisionIsMonotonic
  <2> QED BY <1>1, <2>2
<1>3. ASSUME NEW p \in (first \div w)..(last \div w) PROVE \E a \in first..last : a \div w = p
  <2> DEFINE a == RowBegin(w, first, p)
             b == RowEnd(w, last, p)
  <2>1. a \in Nat /\ b \in Nat /\ first <= a /\ a <= b /\ b <= last /\ a \div w = p
    <3>1. RowIsItsCells(w, first, last, p)
      BY CellsOfARow
    <3> HIDE DEF a, b
    <3> QED BY <3>1 DEF RowIsItsCells, a, b
  <2> HIDE DEF a, b
  <2>2. a \in first..last
    BY <2>1
  <2> QED BY <2>1, <2>2
<1> QED BY <1>2, <1>3

LEMMA RangesAreCells ==
  ASSUME NEW layout \in Seq(Blob), NEW start \in Nat, NEW end \in Nat
  PROVE  RangeIsItsCells(layout, start, end)
<1> SUFFICES ASSUME ~ RangeRefused(layout, start, end)
             PROVE  LET w == Width(layout)
                        r == ShareRange(layout, start, end)
                        n == Cardinality((start..end) \cap (0..(w * w - 1)))
                    IN  /\ [i \in 1..Len(r.shares) |-> r.shares[i][1] * w + r.shares[i][2]]
                             = [i \in 1..n |-> start + i - 1]
                        /\ r.rows = {r.shares[i][1] : i \in 1..Len(r.shares)}
  BY DEF RangeIsItsCells
<1> DEFINE w == Width(layout)
           last == IF end < w * w - 1 THEN end ELSE w * w - 1
           r == ShareRange(layout, start, end)
           n == Cardinality((start..end) \cap (0..(w * w - 1)))
<1>1. /\ w \in Nat \ {0} /\ last \in Nat /\ start <= last /\ last < w * w
      /\ r.rows = (start \div w)..(last \div w)
      /\ Len(r.shares) = last - start + 1
      /\ \A i \in 1..Len(r.shares) : r.shares[i] = CellAt(w, start + i - 1)
  BY RangeIsAnswered
<1> HIDE DEF w
<1>2. w * w \in Nat
  BY <1>1
<1>3. (start..end) \cap (0..(w * w - 1)) = start..last
  <2> DEFINE m == w * w
  <2>1. m \in Nat
    BY <1>2
  <2> HIDE DEF m
  <2>2. start < m => (start..end) \cap (0..(m - 1)) = start..(IF end < m - 1 THEN end ELSE m - 1)
    <3>1. CASE end < m - 1
      BY <2>1, <3>1
    <3>2. CASE ~ (end < m - 1)
      BY <2>1, <3>2
    <3> QED BY <3>1, <3>2
  <2>3. start < m
    BY <1>1, <2>1 DEF m
  <2> QED BY <2>2, <2>3 DEF m
<1> HIDE DEF last, r
<1>4. n = last - start + 1
  <2>1. start \in Int /\ last \in Int /\ ~ (start > last)
    BY <1>1
  <2>2. Cardinality(start..last) = last - start + 1
    BY <2>1, FS_Interval
  <2> QED BY <1>3, <2>2
<1> HIDE DEF n
<1>5. n \in Nat /\ Len(r.shares) = n
  BY <1>1, <1>4
<1>6. ASSUME NEW i \in 1..n
      PROVE  /\ start + i - 1 \in start..last
             /\ r.shares[i][1] = (start + i - 1) \div w
             /\ r.shares[i][1] * w + r.shares[i][2] = start + i - 1
  <2> DEFINE a == start + i - 1
  <2>1. a \in Nat /\ a \in start..last
    BY <1>1, <1>4, <1>5
  <2>2. r.shares[i] = CellAt(w, a)
    BY <1>1, <1>5
  <2> HIDE DEF a
  <2>3. r.shares[i][1] = a \div w /\ r.shares[i][2] = a % w
    BY <2>2 DEF CellAt
  <2>4. a = (a \div w) * w + (a % w)
    BY <1>1, <2>1, Division
  <2> QED BY <2>1, <2>3, <2>4 DEF a
<1>7. [i \in 1..Len(r.shares) |-> r.shares[i][1] * w + r.shares[i][2]]
        = [i \in 1..n |-> start + i - 1]
  BY <1>5, <1>6
<1>8. r.rows = {r.shares[i][1] : i \in 1..Len(r.shares)}
  <2>1. ASSUME NEW i \in 1..n PROVE r.shares[i][1] \in r.rows
    <3> DEFINE a == start + i - 1
    <3>1. a \in start..last /\ r.shares[i][1] = a \div w
      BY <1>6
    <3> HIDE DEF a
    <3>2. a \div w \in (start \div w)..(last \div w)
      BY <1>1, <3>1, RowsOfCells
    <3> QED BY <1>1, <3>1, <3>2
  <2>2. ASSUME NEW q \in r.rows PROVE \E i \in 1..n : r.shares[i][1] = q
    <3>0. q \in (start \div w)..(last \div w)
      BY <1>1
    <3>1. \A p \in (start \div w)..(last \div w) : \E a \in start..last : a \div w = p
      BY <1>1, RowsOfCells
    <3>4. PICK a \in start..last : a \div w = q
      BY <3>0, <3>1
    <3> DEFINE i == a - start + 1
    <3>2. i \in 1..n /\ start + i - 1 = a
      <4>1. a \in Nat /\ start <= a /\ a <= last
        BY <1>1
      <4> QED BY <1>1, <1>4, <4>1
    <3> HIDE DEF i
    <3>3. r.shares[i][1] = q
      BY <1>6, <3>2, <3>4
    <3> QED BY <3>2, <3>3
  <2>3. {r.shares[i][1] : i \in 1..Len(r.shares)} = {r.shares[i][1] : i \in 1..n}
    BY <1>5
  <2> DEFINE rows == r.rows
             row(i) == r.shares[i][1]
  <2>4. /\ \A i \in 1..n : row(i) \in rows
        /\ \A q \in rows : \E i \in 1..n : row(i) = q
    BY <2>1, <2>2
  <2> HIDE DEF rows, row
  <2>5. rows = {row(i) : i \in 1..n}
    BY <2>4
  <2> QED BY <2>3, <2>5 DEF rows, row
<1> QED BY <1>7, <1>8 DEF w, r, n

\* Where a blob of a layout begins and ends, counted from 0.
LEMMA CellsOfABlob ==
  ASSUME NEW layout \in Seq(Blob), IsInjective(layout), NEW k \in 1..Len(layout)
  PROVE  LET b == layout[k]
         IN  /\ FirstCell(layout, b) = EndOf(layout, k - 1)
             /\ FirstCell(layout, b) \in Nat
             /\ FirstCell(layout, b) + Shares[b] = EndOf(layout, k)
             /\ FirstCell(layout, b) + Shares[b] <= Len(DataShares(layout))
<1> DEFINE b == layout[k]
<1>1. \A i \in 1..Len(layout) : layout[i] = b => i = k
  BY DEF IsInjective
<1>2. (CHOOSE i \in 1..Len(layout) : layout[i] = b) = k
  BY <1>1
<1>3. FirstCell(layout, b) = EndOf(layout, k - 1)
  BY <1>2 DEF FirstCell, EndOf, CellAfter
<1>4. /\ EndOf(layout, k) = EndOf(layout, k - 1) + Shares[b]
      /\ k - 1 \in 0..Len(layout) /\ EndOf(layout, k - 1) \in Nat
      /\ k \in 0..Len(layout) /\ Len(layout) \in 0..Len(layout) /\ k <= Len(layout)
  <2>1. Len(layout) \in Nat /\ k - 1 \in 0..Len(layout) /\ k \in 0..Len(layout)
    OBVIOUS
  <2> QED BY <2>1, EndsGrow
<1>5. EndOf(layout, k) <= Len(DataShares(layout))
  BY <1>4, EndsAreOrdered, SharesOfALayout
<1> QED BY <1>3, <1>4, <1>5

\* The rows that hold a blob are those from that of its first cell to that of
\* its last, all of them in the square.
LEMMA RowsOfABlob ==
  ASSUME NEW layout \in Seq(Blob), IsInjective(layout), NEW b \in ToSet(layout)
  PROVE  LET index == FirstCell(layout, b)
             end == index + Shares[b] - 1
             w == Width(layout)
         IN  /\ index \in Nat /\ end \in Nat /\ index <= end
             /\ w \in Nat \ {0} /\ end < Len(DataShares(layout))
             /\ w * w \in Nat /\ end <= w * w - 1
             /\ HoldingRows(layout, b) = (index \div w)..(end \div w)
<1>1. PICK k \in 1..Len(layout) : layout[k] = b
  BY DEF ToSet
<1> DEFINE index == FirstCell(layout, b)
           end == index + Shares[b] - 1
           w == Width(layout)
           D == DataShares(layout)
<1>2. b \in Blob /\ Shares[b] \in Nat \ {0}
  BY <1>1, LayoutAssumption
<1>3. index \in Nat /\ index + Shares[b] <= Len(D)
  BY <1>1, CellsOfABlob
<1>4. w \in Nat \ {0} /\ w * w >= Len(D) /\ Len(D) \in Nat
  BY WidthOfALayout, SharesOfALayout
<1>5. end \in Nat /\ index <= end /\ end < Len(D) /\ w * w \in Nat /\ end <= w * w - 1
  BY <1>2, <1>3, <1>4
<1> HIDE DEF w, D
<1>6. HoldingRows(layout, b) = (index \div w)..(end \div w)
  <2> HIDE DEF end, index
  <2> DEFINE rows == (index \div w)..(end \div w)
  <2>1. \A q : q \in rows <=> \E a \in index..end : a \div w = q
    <3>1. /\ \A a \in index..end : a \div w \in (index \div w)..(end \div w)
          /\ \A q \in (index \div w)..(end \div w) : \E a \in index..end : a \div w = q
      BY <1>3, <1>4, <1>5, RowsOfCells
    <3> QED BY <3>1
  <2>2. ASSUME NEW q \in rows PROVE q \in 0..(w - 1)
    <3>1. PICK a \in index..end : a \div w = q
      BY <2>1
    <3>2. a \in Nat /\ a <= w * w - 1 /\ q \in Nat /\ q * w <= a
      <4>1. a \in Nat /\ a <= w * w - 1
        BY <1>3, <1>5
      <4>2. q \in Nat /\ a % w \in Nat /\ a = q * w + (a % w)
        <5>1. a \div w \in Nat /\ a % w \in 0..(w - 1) /\ a = (a \div w) * w + (a % w)
          BY <1>4, <4>1, Division
        <5> QED BY <1>4, <3>1, <5>1
      <4> DEFINE c == a % w
      <4>3. a = q * w + c /\ c \in Nat /\ q * w \in Nat
        BY <1>4, <4>2
      <4> HIDE DEF c
      <4> QED BY <4>1, <4>2, <4>3
    <3>3. q < w
      <4>1. CASE w <= q
        <5>1. w * w <= q * w
          BY <1>4, <3>2, <4>1
        <5>2. q * w \in Nat
          BY <1>4, <3>2
        <5> QED BY <1>5, <3>2, <5>1, <5>2
      <4> QED BY <1>4, <3>2, <4>1
    <3> QED BY <1>4, <3>2, <3>3
  <2>3. HoldingRows(layout, b) = {q \in 0..(w - 1) : \E a \in index..end : a \div w = q}
    BY DEF HoldingRows, index, end, w
  <2> HIDE DEF rows
  <2>4. rows = HoldingRows(layout, b)
    BY <2>1, <2>2, <2>3
  <2> QED BY <2>4 DEF rows
<1> QED BY <1>3, <1>4, <1>5, <1>6 DEF w, D

LEMMA BlobsHaveTheirRange ==
  ASSUME NEW layout \in Seq(Blob), IsInjective(layout), NEW b \in ToSet(layout)
  PROVE  RangeOfBlobIsTheBlob(layout, b)
<1>1. PICK k \in 1..Len(layout) : layout[k] = b
  BY DEF ToSet
<1> DEFINE index == FirstCell(layout, b)
           end == index + Shares[b] - 1
           w == Width(layout)
           r == ShareRange(layout, index, end)
           D == DataShares(layout)
<1>2. b \in Blob /\ Shares[b] \in Nat \ {0}
  BY <1>1, LayoutAssumption
<1>3. /\ index = EndOf(layout, k - 1) /\ index \in Nat
      /\ index + Shares[b] = EndOf(layout, k) /\ index + Shares[b] <= Len(D)
  BY <1>1, CellsOfABlob
<1>4. w \in Nat \ {0} /\ w * w >= Len(D) /\ Len(D) \in Nat
  BY WidthOfALayout, SharesOfALayout
<1>5. end \in Nat /\ index <= end /\ end < Len(D) /\ w * w \in Nat /\ end <= w * w - 1
  BY <1>2, <1>3, <1>4
<1> HIDE DEF w, D
<1>6. ~ RangeRefused(layout, index, end)
  <2>1. OdsWidth(layout) = w
    BY <1>4 DEF OdsWidth, ExtendedWidth, w
  <2> HIDE DEF end, index
  <2> QED BY <1>3, <1>5, <2>1 DEF RangeRefused
<1> DEFINE last == IF end < w * w - 1 THEN end ELSE w * w - 1
<1>7. last = end
  BY <1>5
<1>8. /\ r.rows = (index \div w)..(end \div w)
      /\ Len(r.shares) = end - index + 1
      /\ \A i \in 1..Len(r.shares) : r.shares[i] = CellAt(w, index + i - 1)
  <2> HIDE DEF end, index
  <2>1. /\ r.rows = (index \div w)..(last \div w)
        /\ Len(r.shares) = last - index + 1
        /\ \A i \in 1..Len(r.shares) : r.shares[i] = CellAt(w, index + i - 1)
    BY <1>3, <1>5, <1>6, RangeIsAnswered DEF w
  <2> QED BY <1>7, <2>1
<1>9. Len(r.shares) = Shares[b]
  BY <1>2, <1>3, <1>8
<1>10. ASSUME NEW i \in 1..Len(r.shares)
       PROVE  NsAt(layout, r.shares[i][1], r.shares[i][2]) = NsOf[b]
  <2> DEFINE a == index + i - 1
  <2>1. a \in Nat /\ a + 1 \in (index + 1)..(index + Shares[b]) /\ a + 1 <= Len(D)
    <3> HIDE DEF index, r
    <3>1. i \in 1..Shares[b]
      BY <1>9
    <3> DEFINE n == Shares[b]
    <3>2. /\ i \in 1..n /\ index \in Nat /\ n \in Nat
          /\ index + n <= Len(D) /\ Len(D) \in Nat
      BY <1>2, <1>3, <1>4, <3>1
    <3> HIDE DEF n
    <3>3. a \in Nat /\ a + 1 \in (index + 1)..(index + n)
      BY <3>2
    <3>4. a + 1 <= index + n
      BY <3>2
    <3>5. a + 1 <= Len(D)
      BY <3>2, <3>3, <3>4
    <3> QED BY <3>3, <3>5 DEF n
  <2>2. r.shares[i] = CellAt(w, a)
    BY <1>8
  <2> HIDE DEF a, r
  <2>3. r.shares[i][1] = a \div w /\ r.shares[i][2] = a % w
    BY <2>2 DEF CellAt
  <2>4. (a \div w) * w + (a % w) = a
    BY <1>4, <2>1, Division
  <2>5. NsAt(layout, r.shares[i][1], r.shares[i][2]) = D[a + 1]
    BY <2>1, <2>3, <2>4 DEF NsAt, w, D
  <2>6. a + 1 \in CellsOf(layout, k)
    BY <1>3, <2>1 DEF CellsOf
  <2> QED BY <1>1, <2>5, <2>6, SharesOfALayout DEF D
<1>11. r.rows = HoldingRows(layout, b)
  <2>1. HoldingRows(layout, b) = (index \div w)..(end \div w)
    BY RowsOfABlob DEF w
  <2> QED BY <1>8, <2>1
<1>12. r.ns = NsOf[b]
  <2>1. r.ns = NsAt(layout, r.shares[1][1], r.shares[1][2])
    BY DEF ShareRange
  <2> HIDE DEF r
  <2>2. 1 \in 1..Len(r.shares)
    BY <1>2, <1>9
  <2> QED BY <1>10, <2>1, <2>2
<1>13. r.proofs = {[row |-> row, ns |-> r.ns] : row \in r.rows}
  BY DEF ShareRange
<1>14. r.proofs = {[row |-> row, ns |-> NsOf[b]] : row \in HoldingRows(layout, b)}
  <2> HIDE DEF r
  <2> QED BY <1>11, <1>12, <1>13
<1> QED BY <1>9, <1>10, <1>12, <1>14 DEF RangeOfBlobIsTheBlob

\* The row of a cell in a square of twice the width: the same for the first row,
\* and a row further up for all others.
LEMMA RowOfTwiceTheWidth ==
  ASSUME NEW w \in Nat \ {0}, NEW a \in Nat
  PROVE  /\ a \div w = 0 => a \div (2 * w) = 0
         /\ a \div w # 0 => a \div (2 * w) < a \div w
<1> DEFINE l == a \div w
           c == a % w
           q == a \div (2 * w)
           d == a % (2 * w)
<1>1. l \in Nat /\ c \in 0..(w - 1) /\ a = l * w + c
  BY Division
<1>2. 2 * w \in Nat \ {0}
  OBVIOUS
<1>3. q \in Nat /\ d \in 0..(2 * w - 1) /\ a = q * (2 * w) + d
  BY <1>2, Division
<1> HIDE DEF l, c, q, d
<1>4. q * (2 * w) = (2 * q) * w
  BY <1>3
<1> DEFINE p == 2 * q
<1>5. p \in Nat
  BY <1>3
<1> HIDE DEF p
<1>6. p <= l
  <2>1. CASE l + 1 <= p
    <3>1. PICK n \in Nat : p = l + 1 + n
      <4>1. p - (l + 1) \in Nat /\ p = l + 1 + (p - (l + 1))
        BY <1>1, <1>5, <2>1
      <4> QED BY <4>1
    <3>2. p * w = l * w + w + n * w /\ n * w \in Nat /\ l * w \in Nat
      BY <1>1, <3>1
    <3>3. a = p * w + d
      BY <1>3, <1>4 DEF p
    <3> DEFINE lw == l * w
               nw == n * w
    <3>4. lw \in Nat /\ nw \in Nat /\ a = lw + c /\ a = lw + w + nw + d
      BY <1>1, <3>2, <3>3
    <3> HIDE DEF lw, nw
    <3>5. c \in Nat /\ d \in Nat /\ c < w
      BY <1>1, <1>3
    <3> QED BY <3>4, <3>5
  <2>2. CASE p <= l
    BY <2>2
  <2> QED BY <1>1, <1>5, <2>1, <2>2
<1>7. 2 * q <= l
  BY <1>6 DEF p
<1> QED BY <1>1, <1>3, <1>7 DEF l, q

\* A blob in the first row is proved and looked for there; of any other blob the
\* last row that holds it is neither.
LEMMA ProofsAreRightInTheFirstRow ==
  ASSUME NEW layout \in Seq(Blob), IsInjective(layout), NEW b \in ToSet(layout)
  PROVE  LET inFirstRow == HoldingRows(layout, b) = {0}
         IN  /\ ProofIsOfHolders(layout, b) <=> inFirstRow
             /\ HolderIsIncluded(layout, b) <=> inFirstRow
<1> DEFINE index == FirstCell(layout, b)
           end == index + Shares[b] - 1
           w == Width(layout)
           rows == ProofRows(layout, b, index)
           held == HoldingRows(layout, b)
<1>1. /\ index \in Nat /\ end \in Nat /\ index <= end /\ w \in Nat \ {0}
      /\ held = (index \div w)..(end \div w)
  BY RowsOfABlob
<1>2. /\ rows = (index \div (2 * w))..(end \div (2 * w))
      /\ IncludedRows(layout, b, index) = rows
  BY DEF ProofRows, IncludedRows, ExtendedWidth
<1>3. ProofIsOfHolders(layout, b) <=> rows = held
  <2>1. ProofIsOfHolders(layout, b)
          <=> {[row |-> r, ns |-> NsOf[b]] : r \in rows} = {[row |-> r, ns |-> NsOf[b]] : r \in held}
    BY DEF ProofIsOfHolders, BlobProof
  <2> DEFINE proof(r) == [row |-> r, ns |-> NsOf[b]]
  <2>2. \A r, s : proof(r) = proof(s) => r = s
    <3> SUFFICES ASSUME NEW r, NEW s, proof(r) = proof(s) PROVE r = s
      OBVIOUS
    <3>1. proof(r).row = r /\ proof(s).row = s
      OBVIOUS
    <3> QED BY <3>1
  <2> HIDE DEF proof, rows, held
  <2>3. ASSUME NEW A, NEW B, {proof(r) : r \in A} \subseteq {proof(r) : r \in B}
        PROVE  A \subseteq B
    <3> SUFFICES ASSUME NEW r \in A PROVE r \in B
      OBVIOUS
    <3>1. proof(r) \in {proof(s) : s \in A}
      OBVIOUS
    <3>2. proof(r) \in {proof(s) : s \in B}
      BY <2>3, <3>1
    <3>3. PICK s \in B : proof(r) = proof(s)
      BY <3>2
    <3> QED BY <2>2, <3>3
  <2>4. {proof(r) : r \in rows} = {proof(r) : r \in held} => rows = held
    BY <2>3
  <2> QED BY <2>1, <2>4 DEF proof
<1>4. HolderIsIncluded(layout, b) <=> held \subseteq rows
  <2>1. ASSUME NEW r
        PROVE  BlobIncluded(layout, b, index, [row |-> r, ns |-> NsOf[b]]) <=> r \in rows
    BY <1>2 DEF BlobIncluded, Verifies
  <2> QED BY <2>1 DEF HolderIsIncluded
<1> DEFINE first == index \div w
           last == end \div w
           first2 == index \div (2 * w)
           last2 == end \div (2 * w)
<1> HIDE DEF rows, held, index, end, w
<1>5. first \in Nat /\ last \in Nat /\ first <= last
  BY <1>1, Division, DivisionIsMonotonic
<1>6. 2 * w \in Nat \ {0}
  BY <1>1
<1>7. first2 \in Nat /\ last2 \in Nat
  BY <1>1, <1>6, Division
<1>8. /\ first = 0 => first2 = 0
      /\ last = 0 => last2 = 0
      /\ last # 0 => last2 < last
  BY <1>1, RowOfTwiceTheWidth
<1>9. held = first..last /\ rows = first2..last2
  BY <1>1, <1>2
<1> HIDE DEF first, last, first2, last2
<1>10. held = {0} <=> last = 0
  <2>1. last \in held
    BY <1>5, <1>9
  <2>2. last = 0 => held = 0..0
    BY <1>5, <1>9
  <2> QED BY <2>1, <2>2
<1>11. CASE last = 0
  <2>1. held = 0..0 /\ rows = 0..0
    BY <1>5, <1>8, <1>9, <1>11
  <2> QED BY <1>3, <1>4, <1>10, <1>11, <2>1 DEF index, held
<1>12. CASE last # 0
  <2>1. last \in held /\ last \notin rows
    BY <1>5, <1>7, <1>8, <1>9, <1>12
  <2> QED BY <1>3, <1>4, <1>10, <1>12, <2>1 DEF index, held
<1> QED BY <1>11, <1>12
=============================================================================
