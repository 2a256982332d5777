--------------------------- MODULE Records_proofs ---------------------------
(***************************************************************************)
(* Proofs about the ledger of hashrates and the record of payouts, for     *)
(* every capacity, span, window and number of payouts kept, whatever is    *)
(* mined, saved and lost.                                                  *)
(*                                                                         *)
(* Both are folds over sequences: a ledger is loaded minute by minute, a   *)
(* rate is a sum, a book is read payout by payout.  What a fold computes   *)
(* is got from the least number for which it would not: LeastNumber is the *)
(* one use of induction, and a fold is a table over the subsets of its     *)
(* indices (FoldTable), read along 1..0, 1..1, 1..2 and so on.             *)
(***************************************************************************)
EXTENDS Ledger, Payouts, FiniteSetTheorems, SequenceTheorems,
        WellFoundedInduction, TLAPS

-----------------------------------------------------------------------------
(* Least numbers, and tables of folds.                                     *)

\* Induction, in the only form the provers can use: a set of numbers has a
\* least one.
LEMMA LeastNumber ==
  ASSUME NEW S \in SUBSET Nat, S # {}
  PROVE  \E m \in S : \A n \in S : m <= n
<1> DEFINE R == OpToRel(<, Nat)
<1>1. IsWellFoundedOn(R, Nat)
  BY NatLessThanWellFounded
<1>2. \A m, n \in Nat : n < m => <<n, m>> \in R
  BY DEF OpToRel
<1> HIDE DEF R
<1>3. PICK m \in S : \A n \in S : <<n, m>> \notin R
  BY <1>1, WFMin
<1>4. ASSUME NEW n \in S PROVE m <= n
  <2>1. m \in Nat /\ n \in Nat
    OBVIOUS
  <2>2. ~(n < m)
    BY <1>2, <1>3, <2>1
  <2>3. QED
    BY <2>1, <2>2
<1>5. QED
  BY <1>4

\* A set of numbers with a bound has a greatest one, which Max is.
LEMMA GreatestNumber ==
  ASSUME NEW S \in SUBSET Nat, S # {}, NEW b \in Nat, \A x \in S : x <= b
  PROVE  Max(S) \in S /\ \A y \in S : y <= Max(S)
<1> DEFINE Above == {u \in Nat : \A x \in S : x <= u}
<1>1. PICK u \in Above : \A v \in Above : u <= v
  BY LeastNumber
<1>2. u \in S
  <2>1. PICK x \in S : TRUE
    OBVIOUS
  <2>2. SUFFICES ASSUME u \notin S PROVE FALSE
    OBVIOUS
  <2>3. \A y \in S : y \in Nat /\ u \in Nat /\ y <= u /\ y # u
    BY <2>2
  <2>4. u - 1 \in Nat /\ \A y \in S : y <= u - 1
    BY <2>1, <2>3
  <2>5. u <= u - 1
    BY <1>1, <2>4
  <2>6. QED
    BY <2>3, <2>5
<1>3. \A y \in S : u >= y
  OBVIOUS
<1>4. Max(S) \in S /\ \A y \in S : Max(S) >= y
  BY <1>2, <1>3 DEF Max
<1>5. QED
  BY <1>4

\* Min is the least.
LEMMA MinIsLeast ==
  ASSUME NEW S \in SUBSET Nat, S # {}
  PROVE  Min(S) \in S /\ \A y \in S : Min(S) <= y
BY LeastNumber DEF Min

\* A function on the subsets of a finite set can be defined by what it makes
\* of one element and of what is left.
Picks(c, D) == \A S \in SUBSET D : S # {} => c[S] \in S
Maps(g, D, X) == \A d \in D : \A x \in X : g[d][x] \in X
Foldable(D, X, b, c, g) == \E h \in [SUBSET D -> X] : \A S \in SUBSET D :
  h[S] = IF S = {} THEN b ELSE g[c[S]][h[S \ {c[S]}]]

\* Every such definition has a table.
LEMMA FoldTable ==
  ASSUME NEW D, IsFiniteSet(D), NEW X, NEW b \in X,
         NEW c, Picks(c, D), NEW g, Maps(g, D, X)
  PROVE  Foldable(D, X, b, c, g)
<1> USE DEF Picks, Maps
<1> DEFINE Right(h, S) == h[S] = IF S = {} THEN b ELSE g[c[S]][h[S \ {c[S]}]]
           Has(k) == \E h \in [SUBSET D -> X] : \A S \in SUBSET D :
                       Cardinality(S) <= k => Right(h, S)
           Fails == {k \in Nat : ~Has(k)}
<1>1. \A S \in SUBSET D : IsFiniteSet(S) /\ Cardinality(S) \in Nat /\ Cardinality(S) <= Cardinality(D)
  BY FS_Subset, FS_CardinalityType
<1>0. \A S \in SUBSET D : Cardinality(S) = 0 <=> S = {}
  BY <1>1, FS_EmptySet
<1>2. Fails = {}
  <2>1. SUFFICES ASSUME Fails # {} PROVE FALSE
    OBVIOUS
  <2>2. PICK k \in Fails : \A l \in Fails : k <= l
    <3> HIDE DEF Has
    <3> QED BY <2>1, LeastNumber
  <2>0. k \in Nat
    OBVIOUS
  <2>3. CASE k = 0
    <3> DEFINE h == [S \in SUBSET D |-> b]
    <3>1. \A S \in SUBSET D : Cardinality(S) <= 0 => S = {}
      BY <1>0, <1>1
    <3>2. \A S \in SUBSET D : Cardinality(S) <= 0 => Right(h, S)
      BY <3>1
    <3>3. h \in [SUBSET D -> X]
      OBVIOUS
    <3>4. Has(0)
      <4> HIDE DEF h
      <4> QED BY <3>2, <3>3
    <3>5. QED
      BY <2>3, <3>4
  <2>4. CASE k > 0
    <3>1. k - 1 \in Nat /\ Has(k - 1)
      <4>1. k - 1 \in Nat /\ ~(k <= k - 1)
        BY <2>4
      <4>2. k - 1 \notin Fails
        BY <2>2, <4>1
      <4> QED BY <4>1, <4>2
    <3>2. PICK h \in [SUBSET D -> X] : \A S \in SUBSET D :
                 Cardinality(S) <= k - 1 => Right(h, S)
      BY <3>1
    <3> DEFINE h2 == [S \in SUBSET D |->
                        IF Cardinality(S) = k THEN g[c[S]][h[S \ {c[S]}]] ELSE h[S]]
    <3>3. \A S \in SUBSET D : S # {} =>
            /\ c[S] \in D /\ S \ {c[S]} \in SUBSET D
            /\ Cardinality(S \ {c[S]}) = Cardinality(S) - 1
      BY <1>1, FS_RemoveElement
    <3>4. \A S \in SUBSET D : Cardinality(S) = k => S # {}
      BY <1>0, <2>0, <2>4
    <3>5. h2 \in [SUBSET D -> X]
      <4>1. \A S \in SUBSET D : h[S] \in X
        OBVIOUS
      <4>2. \A S \in SUBSET D : Cardinality(S) = k => g[c[S]][h[S \ {c[S]}]] \in X
        BY <3>3, <3>4, <4>1
      <4>3. \A S \in SUBSET D :
              (IF Cardinality(S) = k THEN g[c[S]][h[S \ {c[S]}]] ELSE h[S]) \in X
        BY <4>1, <4>2
      <4>4. QED
        BY <4>3
    <3>6. ASSUME NEW S \in SUBSET D, Cardinality(S) <= k PROVE Right(h2, S)
      <4>1. CASE S = {}
        <5>1. Cardinality(S) = 0
          BY <4>1, FS_EmptySet
        <5>2. h[S] = b
          <6>1. Cardinality(S) <= k - 1
            BY <5>1, <3>1
          <6>2. Right(h, S)
            BY <3>2, <6>1
          <6>3. QED
            BY <4>1, <6>2
        <5>3. h2[S] = h[S]
          <6>1. Cardinality(S) # k
            BY <5>1, <2>4
          <6>2. QED
            BY <6>1
        <5>4. QED
          BY <4>1, <5>2, <5>3
      <4>2. CASE S # {}
        <5>1. /\ S \ {c[S]} \in SUBSET D
              /\ Cardinality(S \ {c[S]}) = Cardinality(S) - 1 /\ Cardinality(S) \in Nat
          BY <1>1, <3>3, <4>2
        <5>2. h2[S \ {c[S]}] = h[S \ {c[S]}]
          BY <3>6, <5>1
        <5>3. h2[S] = g[c[S]][h[S \ {c[S]}]]
          <6>1. CASE Cardinality(S) = k
            BY <6>1, Zenon
          <6>2. CASE Cardinality(S) # k
            <7>1. Cardinality(S) <= k - 1
              BY <3>6, <5>1, <6>2, <2>0
            <7>2. Right(h, S)
              BY <3>2, <7>1
            <7>3. QED
              BY <4>2, <6>2, <7>2
          <6>3. QED
            BY <6>1, <6>2
        <5>4. QED
          BY <4>2, <5>2, <5>3
      <4>3. QED
        BY <4>1, <4>2
    <3>7. Has(k)
      <4> HIDE DEF h2, Right
      <4> QED BY <3>5, <3>6
    <3>8. QED
      BY <3>7
  <2>5. QED
    BY <2>3, <2>4
<1>3. Has(Cardinality(D))
  <2> HIDE DEF Has
  <2> QED BY <1>1, <1>2
<1>4. QED
  BY <1>1, <1>3 DEF Foldable

\* FoldLeft goes through the prefixes 1..k of a sequence, in this order.
LeftFoldable(D, X, b, g) == \E h \in [SUBSET D -> X] : \A S \in SUBSET D :
  h[S] = IF S = {} THEN b ELSE g[Max(S)][h[S \ {Max(S)}]]

\* The last of 1..k, and what is left without it.
LEMMA PrefixMax ==
  ASSUME NEW k \in Nat, k > 0
  PROVE  Max(1..k) = k /\ (1..k) \ {k} = 1..(k - 1)
<1>1. Max(1..k) \in 1..k /\ \A y \in 1..k : y <= Max(1..k)
  <2>1. (1..k) \in SUBSET Nat /\ (1..k) # {} /\ \A x \in 1..k : x <= k
    OBVIOUS
  <2>2. QED
    BY <2>1, GreatestNumber
<1>2. Max(1..k) = k
  BY <1>1
<1>3. (1..k) \ {k} = 1..(k - 1)
  OBVIOUS
<1>4. QED
  BY <1>2, <1>3

\* FoldLeft takes the greatest index first, so it has a table.
LEMMA LeftTable ==
  ASSUME NEW X, NEW b \in X, NEW n \in Nat, NEW D, D = 1..n,
         NEW g, Maps(g, D, X)
  PROVE  LeftFoldable(D, X, b, g)
<1> DEFINE c == [S \in SUBSET D |-> Max(S)]
<1>1. Picks(c, D)
  <2>1. ASSUME NEW S \in SUBSET D, S # {} PROVE Max(S) \in S
    <3>1. S \in SUBSET Nat /\ \A x \in S : x <= n
      OBVIOUS
    <3>2. QED
      BY <2>1, <3>1, GreatestNumber
  <2>2. QED
    BY <2>1 DEF Picks
<1>2. IsFiniteSet(D)
  BY FS_Interval
<1>3. \A S \in SUBSET D : c[S] = Max(S)
  OBVIOUS
<1> HIDE DEF c
<1>4. Foldable(D, X, b, c, g)
  BY <1>1, <1>2, FoldTable
<1>5. PICK h \in [SUBSET D -> X] : \A S \in SUBSET D :
        h[S] = IF S = {} THEN b ELSE g[c[S]][h[S \ {c[S]}]]
  BY <1>4 DEF Foldable
<1>6. ASSUME NEW S \in SUBSET D
      PROVE  h[S] = IF S = {} THEN b ELSE g[Max(S)][h[S \ {Max(S)}]]
  <2>1. c[S] = Max(S)
    BY <1>3
  <2>2. h[S] = IF S = {} THEN b ELSE g[c[S]][h[S \ {c[S]}]]
    BY <1>5
  <2>3. QED
    BY <2>1, <2>2
<1>7. QED
  BY <1>6 DEF LeftFoldable

\* Induction over the prefixes of a sequence.
LEMMA AllPrefixes ==
  ASSUME NEW X, NEW n \in Nat, NEW it, it[{}] \in X,
         \A k \in 1..n : it[1..(k - 1)] \in X => it[1..k] \in X
  PROVE  \A k \in 0..n : it[1..k] \in X
<1> DEFINE Fails == {k \in 0..n : it[1..k] \notin X}
<1>1. SUFFICES ASSUME Fails # {} PROVE FALSE
  OBVIOUS
<1>2. PICK k \in Fails : \A l \in Fails : k <= l
  <2>1. Fails \in SUBSET Nat
    OBVIOUS
  <2> HIDE DEF Fails
  <2>2. QED
    BY <1>1, <2>1, LeastNumber
<1>3. k # 0
  <2>1. 1..0 = {}
    OBVIOUS
  <2>2. QED
    BY <2>1
<1>4. k - 1 \in 0..n /\ k \in 1..n /\ ~(k <= k - 1)
  BY <1>3
<1>5. it[1..(k - 1)] \in X
  BY <1>2, <1>4
<1>6. QED
  BY <1>4, <1>5

\* Induction as far as a bound.
LEMMA StepByStep ==
  ASSUME NEW n \in Nat, NEW Good \in SUBSET Nat, 0 \in Good,
         \A k \in 1..n : k - 1 \in Good => k \in Good
  PROVE  n \in Good
<1> DEFINE Fails == {k \in 0..n : k \notin Good}
<1>1. SUFFICES ASSUME Fails # {} PROVE FALSE
  OBVIOUS
<1>2. PICK k \in Fails : \A l \in Fails : k <= l
  <2>1. Fails \in SUBSET Nat
    OBVIOUS
  <2> HIDE DEF Fails
  <2>2. QED
    BY <1>1, <2>1, LeastNumber
<1>3. k - 1 \in 0..n /\ k \in 1..n /\ ~(k <= k - 1)
  OBVIOUS
<1>4. QED
  BY <1>2, <1>3

-----------------------------------------------------------------------------
(* The record of payouts.                                                  *)

\* As a list is kept: newest first, no payout twice, at most payoutsKept.
Lists == {ps \in Seq(Heights) : Ordered(ps) /\ Len(ps) <= payoutsKept}

LEMMA Kepts == /\ payoutsKept \in Nat \ {0} /\ Shared \in Nat
               /\ Heights \subseteq Nat
  BY PayoutsAssumption DEF PayoutsAssumption

LEMMA UpTo ==
  ASSUME NEW n \in Nat
  PROVE  IsFiniteSet(1..n) /\ Cardinality(1..n) = n
BY FS_Interval

LEMMA TupleIsSeq ==
  ASSUME NEW n \in Nat, NEW S, NEW f \in [1..n -> S]
  PROVE  f \in Seq(S) /\ Len(f) = n
<1>1. f \in Seq(S)
  BY SeqDef
<1>2. QED
  BY <1>1

\* A finite set of numbers can be listed in descending order.
Listed(S) == \E ps \in [1..Cardinality(S) -> S] : Ordered(ps)

\* By the least size of a set that could not be.
LEMMA CanBeListed ==
  ASSUME NEW S \in SUBSET Nat, IsFiniteSet(S)
  PROVE  Listed(S)
<1> DEFINE Fails == {k \in Nat : \E T \in SUBSET Nat :
                       IsFiniteSet(T) /\ Cardinality(T) = k /\ ~Listed(T)}
<1>1. SUFFICES ASSUME Fails # {} PROVE FALSE
  BY FS_CardinalityType
<1>2. PICK k \in Fails : \A l \in Fails : k <= l
  <2>1. Fails \in SUBSET Nat
    OBVIOUS
  <2> HIDE DEF Fails
  <2>2. QED
    BY <1>1, <2>1, LeastNumber
<1>3. PICK T \in SUBSET Nat : IsFiniteSet(T) /\ Cardinality(T) = k /\ ~Listed(T)
  OBVIOUS
<1>4. k \in Nat
  OBVIOUS
<1>5. CASE k = 0
  <2>1. <<>> \in [1..0 -> T] /\ Ordered(<<>>)
    BY DEF Ordered
  <2>2. QED
    BY <1>3, <1>5, <2>1 DEF Listed
<1>6. CASE k # 0
  <2> DEFINE m == Min(T)
             R == T \ {m}
  <2>1. T # {}
    BY <1>3, <1>6, FS_EmptySet
  <2>2. m \in T /\ \A y \in T : m <= y
    BY <2>1, MinIsLeast
  <2>3. /\ IsFiniteSet(R) /\ Cardinality(R) = k - 1
        /\ k - 1 \in Nat /\ ~(k <= k - 1) /\ R \in SUBSET Nat
    <3>1. IsFiniteSet(R) /\ Cardinality(R) = k - 1
      <4> HIDE DEF m
      <4> QED BY <1>3, <2>2, FS_RemoveElement
    <3>2. k - 1 \in Nat /\ ~(k <= k - 1)
      BY <1>4, <1>6
    <3>3. QED
      BY <3>1, <3>2
  <2>4. Listed(R)
    <3>1. k - 1 \notin Fails
      BY <1>2, <2>3
    <3> HIDE DEF R
    <3>2. QED
      BY <3>1, <2>3
  <2>5. PICK ps \in [1..(k - 1) -> R] : Ordered(ps)
    BY <2>3, <2>4 DEF Listed
  <2> DEFINE qs == [i \in 1..k |-> IF i = k THEN m ELSE ps[i]]
  <2>6. qs \in [1..k -> T]
    BY <1>4, <1>6, <2>2, <2>5
  <2>7. ASSUME NEW i \in 1..k, NEW j \in 1..k, i < j
        PROVE  qs[i] > qs[j]
    <3>1. i \in 1..(k - 1) /\ qs[i] = ps[i] /\ ps[i] \in R
      BY <1>4, <2>5, <2>7
    <3>2. CASE j = k
      <4>1. ps[i] \in Nat /\ m \in Nat /\ m <= ps[i] /\ m # ps[i]
        BY <2>2, <3>1
      <4>2. QED
        BY <3>1, <3>2, <4>1
    <3>3. CASE j # k
      <4>1. j \in 1..(k - 1) /\ qs[j] = ps[j] /\ DOMAIN ps = 1..(k - 1)
        BY <1>4, <3>3
      <4>2. QED
        BY <2>5, <2>7, <3>1, <4>1 DEF Ordered
    <3>4. QED
      BY <3>2, <3>3
  <2>8. Ordered(qs)
    <3>1. DOMAIN qs = 1..k
      OBVIOUS
    <3> HIDE DEF qs
    <3>2. QED
      BY <2>7, <3>1 DEF Ordered
  <2>9. Listed(T)
    <3> HIDE DEF qs
    <3> QED BY <1>3, <2>6, <2>8 DEF Listed
  <2>10. QED
    BY <1>3, <2>9
<1>7. QED
  BY <1>5, <1>6

\* What newestFirst lists: the whole set, in descending order.
LEMMA NewestFirst ==
  ASSUME NEW S \in SUBSET Nat, IsFiniteSet(S), NEW ps, ps = newestFirst(S)
  PROVE  /\ ps \in [1..Cardinality(S) -> S] /\ Ordered(ps)
         /\ \A x \in S : \E i \in 1..Cardinality(S) : ps[i] = x
<1> DEFINE n == Cardinality(S)
<1>1. n \in Nat
  BY FS_CardinalityType
<1>2. ps \in [1..n -> S] /\ Ordered(ps)
  BY CanBeListed DEF Listed, newestFirst
<1>3. ps \in Injection(1..n, S)
  <2>1. ASSUME NEW i \in 1..n, NEW j \in 1..n, ps[i] = ps[j], i # j PROVE FALSE
    <3>1. i < j \/ j < i
      BY <2>1
    <3>2. ps[i] > ps[j] \/ ps[j] > ps[i]
      BY <1>2, <3>1 DEF Ordered
    <3>3. ps[i] \in Nat /\ ps[j] \in Nat
      BY <1>2
    <3>4. QED
      BY <2>1, <3>2, <3>3
  <2>2. QED
    BY <1>2, <2>1 DEF Injection, IsInjective
<1>4. Cardinality(1..n) = n
  BY <1>1, UpTo
<1>5. ps \in Surjection(1..n, S)
  BY <1>3, <1>4, FS_Injection
<1>6. QED
  BY <1>2, <1>5 DEF Surjection

LEMMA MinOfTwo ==
  ASSUME NEW i \in Nat, NEW j \in Nat
  PROVE  Min({i, j}) = IF i <= j THEN i ELSE j
<1>1. Min({i, j}) \in {i, j} /\ \A y \in {i, j} : Min({i, j}) <= y
  BY MinIsLeast
<1>2. QED
  BY <1>1

LEMMA Between ==
  ASSUME NEW a \in Nat, NEW b \in Nat, NEW k \in Nat, a <= b, b <= k, a >= k
  PROVE  a = b /\ b = k
OBVIOUS

\* Keeps, said of a list: with payoutsKept later ones it is full of them.
LEMMA KeepsOfList ==
  ASSUME NEW ps \in Lists, NEW x \in Heights
  PROVE  Keeps(ps, x) <=> \/ x \in Range(ps)
                          \/ Len(ps) = payoutsKept /\ \A i \in 1..Len(ps) : ps[i] > x
<1> DEFINE later == {i \in DOMAIN ps : ps[i] > x}
<1>1. /\ DOMAIN ps = 1..Len(ps) /\ Len(ps) \in Nat /\ Len(ps) <= payoutsKept
  BY DEF Lists
<1>2. IsFiniteSet(1..Len(ps)) /\ Cardinality(1..Len(ps)) = Len(ps)
  BY <1>1, UpTo
<1>3. later \in SUBSET (1..Len(ps))
  BY <1>1
<1>4. /\ Cardinality(later) \in Nat /\ Cardinality(later) <= Len(ps)
      /\ Cardinality(later) = Len(ps) => later = 1..Len(ps)
  <2> HIDE DEF later
  <2>1. IsFiniteSet(later)
    BY <1>2, <1>3, FS_Subset
  <2>2. QED
    BY <1>2, <1>3, <2>1, FS_Subset, FS_CardinalityType
<1>5. Cardinality(later) >= payoutsKept
        <=> Len(ps) = payoutsKept /\ later = 1..Len(ps)
  <2> HIDE DEF later
  <2>1. ASSUME Cardinality(later) >= payoutsKept
        PROVE  Len(ps) = payoutsKept /\ later = 1..Len(ps)
    <3>1. Cardinality(later) \in Nat /\ Cardinality(later) <= Len(ps)
      BY <1>4
    <3>2. /\ Len(ps) \in Nat /\ Len(ps) <= payoutsKept
          /\ payoutsKept \in Nat
      BY <1>1, Kepts
    <3>3. Cardinality(later) = Len(ps) /\ Len(ps) = payoutsKept
      BY <2>1, <3>1, <3>2, Between
    <3>4. QED
      BY <1>4, <3>3
  <2>2. ASSUME Len(ps) = payoutsKept, later = 1..Len(ps)
        PROVE  Cardinality(later) >= payoutsKept
    BY <2>2, <1>2, Kepts
  <2>3. QED
    BY <2>1, <2>2
<1>6. later = 1..Len(ps) <=> \A i \in 1..Len(ps) : ps[i] > x
  BY <1>1
<1>7. QED
  <2> HIDE DEF later
  <2>1. Keeps(ps, x) <=> x \in Range(ps) \/ Cardinality(later) >= payoutsKept
    BY DEF Keeps, later
  <2>2. QED
    BY <2>1, <1>5, <1>6

\* A list names as many payouts as it is long.
LEMMA RangeOfList ==
  ASSUME NEW ps \in Lists
  PROVE  /\ Range(ps) \in SUBSET Heights /\ IsFiniteSet(Range(ps))
         /\ Cardinality(Range(ps)) = Len(ps)
<1>1. /\ DOMAIN ps = 1..Len(ps) /\ Len(ps) \in Nat /\ Ordered(ps)
      /\ \A i \in 1..Len(ps) : ps[i] \in Heights
  BY DEF Lists
<1>2. Range(ps) \in SUBSET Heights
  BY <1>1 DEF Range
<1>3. ps \in [1..Len(ps) -> Range(ps)]
  BY DEF Lists, Range
<1>4. ps \in Surjection(1..Len(ps), Range(ps))
  BY <1>1, <1>3 DEF Surjection, Range
<1>5. IsInjective(ps)
  <2>1. ASSUME NEW i \in 1..Len(ps), NEW j \in 1..Len(ps), ps[i] = ps[j], i # j
        PROVE  FALSE
    <3>1. i < j \/ j < i
      BY <2>1
    <3>2. ps[i] > ps[j] \/ ps[j] > ps[i]
      BY <1>1, <3>1 DEF Ordered
    <3>3. ps[i] \in Nat /\ ps[j] \in Nat
      BY <1>1, Kepts
    <3>4. QED
      BY <2>1, <3>2, <3>3
  <2>2. QED
    BY <1>1, <2>1 DEF IsInjective
<1>6. ps \in Injection(1..Len(ps), Range(ps))
  BY <1>3, <1>5 DEF Injection
<1>7. IsFiniteSet(1..Len(ps)) /\ Cardinality(1..Len(ps)) = Len(ps)
  BY <1>1, UpTo
<1>8. QED
  BY <1>2, <1>4, <1>6, <1>7, FS_Surjection

\* A payout is recorded, and the record goes without none it must have:
\* Payouts.Record drops only what is older than payoutsKept others.
LEMMA RecordKeeps ==
  ASSUME NEW ps \in Lists, NEW h \in Heights, NEW qs, qs = Record(ps, h)
  PROVE  /\ qs \in Lists /\ Keeps(qs, h)
         /\ \A x \in Heights : Keeps(ps, x) => Keeps(qs, x)
<1>1. CASE h \in Range(ps)
  <2>1. qs = ps
    BY <1>1 DEF Record
  <2>2. Keeps(ps, h)
    BY <1>1, KeepsOfList
  <2>3. QED
    BY <2>1, <2>2
<1>2. CASE h \notin Range(ps)
  <2> DEFINE S == Range(ps) \cup {h}
             n == Len(ps) + 1
             es == newestFirst(S)
  <2>1. /\ S \in SUBSET Heights /\ S \in SUBSET Nat
        /\ IsFiniteSet(S) /\ Cardinality(S) = n /\ n \in Nat
    <3>1. Len(ps) \in Nat
      BY DEF Lists
    <3>2. IsFiniteSet(S) /\ Cardinality(S) = n
      BY <1>2, <3>1, RangeOfList, FS_AddElement
    <3>3. S \in SUBSET Heights
      BY RangeOfList
    <3>4. S \in SUBSET Nat
      BY <3>3, Kepts
    <3> HIDE DEF S
    <3>5. QED
      BY <3>1, <3>2, <3>3, <3>4
  <2>2. /\ es \in [1..n -> S] /\ Ordered(es)
        /\ \A x \in S : \E i \in 1..n : es[i] = x
    <3> HIDE DEF S, n
    <3> QED BY <2>1, NewestFirst
  <2> DEFINE k == IF payoutsKept <= n THEN payoutsKept ELSE n
  <2>3. es \in Seq(Heights) /\ Len(es) = n
    <3> HIDE DEF es, S, n
    <3>1. n \in Nat /\ es \in [1..n -> Heights]
      BY <2>1, <2>2
    <3>2. QED
      BY <3>1, TupleIsSeq
  <2>4. qs = SubSeq(es, 1, k)
    <3>1. qs = SubSeq(es, 1, Min({payoutsKept, Len(es)}))
      BY <1>2 DEF Record
    <3> HIDE DEF es, n
    <3>2. QED
      BY <2>1, <2>3, <3>1, MinOfTwo, Kepts
  <2> HIDE DEF es, S
  <2>5. k \in Nat /\ k <= n /\ k <= payoutsKept
    BY <2>1, Kepts
  <2>6. /\ qs \in Seq(Heights) /\ Len(qs) = k /\ DOMAIN qs = 1..k
        /\ \A i \in 1..k : qs[i] = es[i]
    BY <2>3, <2>4, <2>5
  <2>7. \A i, j \in 1..n : i < j => es[i] > es[j]
    BY <2>2 DEF Ordered
  <2>8. qs \in Lists
    <3>1. Ordered(qs)
      BY <2>1, <2>5, <2>6, <2>7 DEF Ordered
    <3>2. QED
      BY <2>5, <2>6, <3>1 DEF Lists
  <2>9. ASSUME NEW x \in S PROVE Keeps(qs, x)
    <3>1. x \in Heights
      BY <2>1
    <3>2. PICK i \in 1..n : es[i] = x
      BY <2>2
    <3>3. CASE i <= k
      <4>1. i \in DOMAIN qs /\ qs[i] = x
        BY <2>1, <2>5, <2>6, <3>2, <3>3
      <4>2. QED
        BY <2>8, <3>1, <4>1, KeepsOfList DEF Range
    <3>4. CASE i > k
      <4>1. k = payoutsKept
        BY <2>1, <3>4
      <4>2. \A j \in 1..k : qs[j] > x
        BY <2>1, <2>5, <2>6, <2>7, <3>2, <3>4
      <4>3. QED
        BY <2>6, <2>8, <3>1, <4>1, <4>2, KeepsOfList
    <3>5. QED
      BY <2>1, <2>5, <3>3, <3>4
  <2>10. ASSUME NEW x \in Heights, Keeps(ps, x) PROVE Keeps(qs, x)
    <3>1. CASE x \in Range(ps)
      BY <2>9, <3>1 DEF S
    <3>2. CASE Len(ps) = payoutsKept /\ \A i \in 1..Len(ps) : ps[i] > x
      <4>1. k = payoutsKept /\ k + 1 \in 1..n
        BY <3>2, Kepts
      <4>2. ASSUME NEW y \in Range(ps) PROVE y > x
        BY <3>2 DEF Range, Lists
      <4>3. ASSUME NEW j \in 1..k PROVE qs[j] > x
        <5>1. es[j] \in S /\ es[k + 1] \in S /\ es[j] > es[k + 1]
          BY <2>2, <2>5, <2>7, <4>1
        <5>2. es[j] \in Nat /\ es[k + 1] \in Nat /\ x \in Nat
          BY <2>1, <5>1, Kepts
        <5>3. CASE es[j] \in Range(ps)
          BY <2>6, <4>2, <5>3
        <5>4. CASE es[j] = h
          <6>1. es[k + 1] \in Range(ps)
            BY <5>1, <5>2, <5>4 DEF S
          <6>2. QED
            BY <2>6, <4>2, <5>1, <5>2, <6>1
        <5>5. QED
          BY <5>1, <5>3, <5>4 DEF S
      <4>4. QED
        BY <2>6, <2>8, <4>1, <4>3, KeepsOfList
    <3>3. QED
      BY <2>10, <3>1, <3>2, KeepsOfList
  <2>11. QED
    BY <2>8, <2>9, <2>10 DEF S
<1>3. QED
  BY <1>1, <1>2

\* FoldLeft(Record, ps, hs) records the payouts of hs one after the other.
LEMMA RecordFold ==
  ASSUME NEW ps \in Lists, NEW hs \in Seq(Heights),
         \A qs \in Lists : \A h \in Heights : Record(qs, h) \in Lists
  PROVE  \E pre \in [0..Len(hs) -> Lists] :
           /\ pre[0] = ps
           /\ \A k \in 1..Len(hs) : pre[k] = Record(pre[k - 1], hs[k])
           /\ FoldLeft(Record, ps, hs) = pre[Len(hs)]
<1> DEFINE n == Len(hs)
           g == [d \in 1..n |-> [qs \in Lists |-> Record(qs, hs[d])]]
           Table(it) == it = [S \in SUBSET DOMAIN hs |->
                               IF S = {} THEN ps
                               ELSE LET x == Max(S)
                                    IN  Record(it[S \ {x}], hs[x])]
           it == CHOOSE it : Table(it)
<1>1. n \in Nat /\ DOMAIN hs = 1..n /\ \A d \in 1..n : hs[d] \in Heights
  OBVIOUS
<1>2. \A d \in 1..n : \A qs \in Lists : g[d][qs] = Record(qs, hs[d]) /\ g[d][qs] \in Lists
  BY <1>1
<1>3. \E h : Table(h)
  <2> DEFINE D == DOMAIN hs
  <2>1. PICK h \in [SUBSET D -> Lists] : \A S \in SUBSET D :
           h[S] = IF S = {} THEN ps ELSE g[Max(S)][h[S \ {Max(S)}]]
    <3>1. n \in Nat /\ D = 1..n /\ Maps(g, D, Lists)
      BY <1>1, <1>2 DEF Maps
    <3> HIDE DEF g, n, D
    <3>2. LeftFoldable(D, Lists, ps, g)
      BY <3>1, LeftTable
    <3>3. QED
      BY <3>2 DEF LeftFoldable
  <2>2. ASSUME NEW S \in SUBSET D, S # {}
        PROVE  h[S] = Record(h[S \ {Max(S)}], hs[Max(S)])
    <3>1. Max(S) \in D
      <4>1. S \in SUBSET Nat /\ \A x \in S : x <= n
        BY <1>1
      <4>2. QED
        BY <1>1, <2>2, <4>1, GreatestNumber
    <3>2. h[S \ {Max(S)}] \in Lists
      OBVIOUS
    <3> HIDE DEF g
    <3>3. QED
      BY <1>1, <2>1, <2>2, <3>1, <3>2, <1>2
  <2>3. Table(h)
    <3> HIDE DEF g
    <3> QED BY <1>1, <2>1, <2>2
  <2>4. QED
    BY <2>3
<1>4. Table(it)
  BY <1>3
<1>5. FoldLeft(Record, ps, hs) = it[DOMAIN hs]
  BY DEF FoldLeft, MapThenFoldSet
<1> HIDE DEF it
<1>6. it[{}] = ps
  BY <1>4
<1>7. ASSUME NEW k \in 1..n PROVE it[1..k] = Record(it[1..(k - 1)], hs[k])
  <2>1. Max(1..k) = k /\ (1..k) \ {k} = 1..(k - 1)
    BY PrefixMax
  <2>2. 1..k \in SUBSET DOMAIN hs /\ 1..k # {}
    BY <1>1
  <2>3. it[1..k] = Record(it[(1..k) \ {Max(1..k)}], hs[Max(1..k)])
    BY <1>4, <2>2
  <2>4. QED
    BY <2>1, <2>3
<1>8. \A k \in 0..n : it[1..k] \in Lists
  <2>1. \A k \in 1..n : it[1..(k - 1)] \in Lists => it[1..k] \in Lists
    BY <1>1, <1>7
  <2> HIDE DEF n
  <2>2. QED
    BY <1>1, <1>6, <2>1, AllPrefixes
<1> DEFINE pre == [k \in 0..n |-> it[1..k]]
<1>9. pre \in [0..n -> Lists]
  BY <1>8
<1>10. pre[0] = ps
  <2>1. 1..0 = {} /\ 0 \in 0..n
    BY <1>1
  <2>2. QED
    BY <1>6, <2>1
<1>11. ASSUME NEW k \in 1..n PROVE pre[k] = Record(pre[k - 1], hs[k])
  <2>1. k \in 0..n /\ k - 1 \in 0..n
    BY <1>1
  <2>2. QED
    BY <1>7, <2>1
<1>12. FoldLeft(Record, ps, hs) = pre[n]
  BY <1>1, <1>5
<1>13. QED
  <2> HIDE DEF pre
  <2> QED BY <1>9, <1>10, <1>11, <1>12

\* Recording one after the other keeps all of them, and what was kept.
LEMMA FoldKeeps ==
  ASSUME NEW ps \in Lists, NEW hs \in Seq(Heights),
         NEW qs, qs = FoldLeft(Record, ps, hs)
  PROVE  /\ qs \in Lists
         /\ \A x \in Heights : Keeps(ps, x) => Keeps(qs, x)
         /\ \A x \in Range(hs) : Keeps(qs, x)
<1> DEFINE n == Len(hs)
<1>1. n \in Nat /\ DOMAIN hs = 1..n /\ \A k \in 1..n : hs[k] \in Heights
  OBVIOUS
<1>2. PICK pre \in [0..n -> Lists] :
        /\ pre[0] = ps
        /\ \A k \in 1..n : pre[k] = Record(pre[k - 1], hs[k])
        /\ qs = pre[n]
  <2>1. \A ls \in Lists : \A h \in Heights : Record(ls, h) \in Lists
    BY RecordKeeps
  <2>2. QED
    BY <2>1, RecordFold
<1> HIDE DEF n
<1>3. ASSUME NEW k \in 1..n
      PROVE  /\ Keeps(pre[k], hs[k])
             /\ \A x \in Heights : Keeps(pre[k - 1], x) => Keeps(pre[k], x)
  <2>1. pre[k - 1] \in Lists /\ hs[k] \in Heights /\ pre[k] = Record(pre[k - 1], hs[k])
    BY <1>1, <1>2
  <2>2. QED
    BY <2>1, RecordKeeps
<1>4. ASSUME NEW x \in Heights, Keeps(ps, x) PROVE Keeps(qs, x)
  <2> DEFINE Good == {k \in 0..n : Keeps(pre[k], x)}
  <2>1. Good \in SUBSET Nat /\ 0 \in Good
    BY <1>1, <1>2, <1>4
  <2>2. \A k \in 1..n : k - 1 \in Good => k \in Good
    BY <1>1, <1>3
  <2>3. n \in Good
    <3> HIDE DEF Good
    <3> QED BY <1>1, <2>1, <2>2, StepByStep
  <2>4. QED
    BY <1>2, <2>3
<1>5. ASSUME NEW x \in Range(hs) PROVE Keeps(qs, x)
  <2>1. PICK j \in 1..n : x = hs[j]
    BY <1>1 DEF Range
  <2>2. x \in Heights
    BY <1>1, <2>1
  <2> DEFINE Good == {k \in 0..n : k >= j => Keeps(pre[k], x)}
  <2>3. Good \in SUBSET Nat /\ 0 \in Good
    BY <1>1
  <2>4. ASSUME NEW k \in 1..n, k - 1 \in Good PROVE k \in Good
    <3>1. k \in 0..n
      BY <1>1
    <3>2. CASE k = j
      BY <1>3, <2>1, <3>1, <3>2
    <3>3. CASE k > j
      <4>1. k - 1 >= j
        BY <1>1, <3>3
      <4>2. Keeps(pre[k - 1], x)
        BY <2>4, <4>1
      <4>3. QED
        BY <1>3, <2>2, <3>1, <4>2
    <3>4. CASE k < j
      BY <3>1, <3>4
    <3>5. QED
      BY <1>1, <3>2, <3>3, <3>4
  <2>5. n \in Good
    <3> HIDE DEF Good
    <3> QED BY <1>1, <2>3, <2>4, StepByStep
  <2>6. n >= j
    BY <1>1
  <2>7. QED
    BY <1>2, <2>5, <2>6
<1>6. qs \in Lists
  BY <1>1, <1>2
<1>7. QED
  BY <1>4, <1>5, <1>6

LEMMA EmptyList == <<>> \in Lists /\ Range(<<>>) = {}
  BY Kepts DEF Lists, Ordered, Range

LEMMA RecentIs ==
  ASSUME list \in Seq(Heights)
  PROVE  Recent(Shared) \in Seq(Heights)
<1>1. Len(list) \in Nat /\ Shared \in Nat
  BY Kepts
<1>2. Min({Shared, Len(list)}) = IF Shared <= Len(list) THEN Shared ELSE Len(list)
  BY <1>1, MinOfTwo
<1> DEFINE k == Min({Shared, Len(list)})
<1>3. k \in Nat /\ k <= Len(list)
  <2> HIDE DEF k
  <2>1. k = IF Shared <= Len(list) THEN Shared ELSE Len(list)
    BY <1>2 DEF k
  <2>2. QED
    BY <1>1, <2>1
<1> HIDE DEF k
<1>4. SubSeq(list, 1, k) \in Seq(Heights)
  BY <1>3
<1>5. QED
  BY <1>4 DEF Recent, k

-----------------------------------------------------------------------------
\* What every step of the hub and of the desktop leaves true: their records,
\* and the file and what is left of its writing, are lists as Record makes
\* them, and what is on file the running hub has, its next file included.
PayoutsInv ==
  /\ PayoutsTypeOK
  /\ list \in Lists /\ seen \in Lists /\ book \in Lists /\ bookTmp \in Lists
  /\ booking # "idle" => hub # "off"
  /\ booking = "rename" => bookTmp = list
  /\ hub # "off" => \A h \in Range(book) : Keeps(list, h)

LEMMA PayoutsStart == PayoutsInit => PayoutsInv
<1> SUFFICES ASSUME PayoutsInit PROVE PayoutsInv
  OBVIOUS
<1>1. MaxTurns \in Nat \ {0} /\ MaxEnds \in Nat /\ MaxMoves \in Nat
  BY PayoutsAssumption DEF PayoutsAssumption
<1>2. None \in [Stats -> 0..MaxTurns]
  BY <1>1 DEF None
<1>3. PayoutsTypeOK
  BY <1>1, <1>2 DEF PayoutsInit, PayoutsTypeOK, Places
<1>4. QED
  BY <1>3, EmptyList DEF PayoutsInit, PayoutsInv

LEMMA ListsAreSeqs == Lists \subseteq Seq(Heights)
  BY DEF Lists

\* Every step keeps the invariant, and on file what was there.
LEMMA PayoutsStep ==
  ASSUME PayoutsInv, [PayoutsNext]_payoutsVars
  PROVE  PayoutsInv' /\ \A h \in Range(book) : Keeps(book', h)
<1>1. MaxTurns \in Nat \ {0} /\ MaxEnds \in Nat /\ MaxMoves \in Nat
  BY PayoutsAssumption DEF PayoutsAssumption
<1>2. None \in [Stats -> 0..MaxTurns]
  BY <1>1 DEF None
<1>3. \A h \in Range(book) : h \in Heights /\ Keeps(book, h)
  BY KeepsOfList, RangeOfList DEF PayoutsInv
<1> USE DEF PayoutsInv
<1>4. CASE UNCHANGED payoutsVars
  BY <1>3, <1>4 DEF payoutsVars, records, figures, desktop, limits, PayoutsTypeOK
<1>5. CASE LoadPayouts
  <2>1. CASE book = <<>>
    <3>1. list' = list /\ book' = book /\ bookTmp' = bookTmp /\ seen' = seen
      BY <1>5, <2>1 DEF LoadPayouts, desktop
    <3>2. PayoutsTypeOK'
      BY <1>5, <3>1 DEF LoadPayouts, PayoutsTypeOK, figures, desktop, limits
    <3>3. QED
      BY <1>3, <1>5, <2>1, <3>1, <3>2, EmptyList DEF LoadPayouts
  <2>2. CASE book # <<>>
    <3>1. list' = FoldLeft(Record, <<>>, book)
      BY <1>5, <2>2 DEF LoadPayouts
    <3>2. list' \in Lists /\ \A h \in Range(book) : Keeps(list', h)
      BY <3>1, EmptyList, ListsAreSeqs, FoldKeeps
    <3>3. PayoutsTypeOK'
      BY <1>5, <3>2, ListsAreSeqs DEF LoadPayouts, PayoutsTypeOK, figures, desktop, limits
    <3>4. QED
      BY <1>3, <1>5, <3>2, <3>3 DEF LoadPayouts, desktop
  <2>3. QED
    BY <2>1, <2>2
<1>6. CASE Serves
  <2>1. PayoutsTypeOK'
    BY <1>6 DEF Serves, PayoutsTypeOK, records, figures, desktop, limits
  <2>2. QED
    BY <1>3, <1>6, <2>1 DEF Serves, records, desktop
<1>7. CASE StartFails
  <2>1. PayoutsTypeOK'
    BY <1>1, <1>7 DEF StartFails, PayoutsTypeOK, records, figures, desktop, limits
  <2>2. QED
    BY <1>3, <1>7, <2>1 DEF StartFails, records, desktop
<1>8. CASE HubEnds
  <2>1. PayoutsTypeOK'
    BY <1>1, <1>2, <1>8 DEF HubEnds, PayoutsTypeOK, records, figures, desktop, limits
  <2>2. QED
    BY <1>3, <1>8, <2>1, EmptyList DEF HubEnds, desktop
<1>9. CASE Prints
  <2>1. lines' \in Seq(Heights)
    BY <1>9 DEF Prints, PayoutsTypeOK
  <2>2. PayoutsTypeOK'
    BY <1>9, <2>1 DEF Prints, PayoutsTypeOK, records, figures, desktop, limits
  <2>3. QED
    BY <1>3, <1>9, <2>2 DEF Prints, records, desktop
<1>10. CASE Reads
  <2>1. Head(lines) \in Heights /\ Tail(lines) \in Seq(Heights)
    BY <1>10 DEF Reads, PayoutsTypeOK
  <2>2. /\ list' = Record(list, Head(lines))
        /\ booking' \in {"idle", "write"} /\ booking' # "rename" /\ hub # "off"
    BY <1>10 DEF Reads, Running
  <2>3. list' \in Lists /\ \A x \in Heights : Keeps(list, x) => Keeps(list', x)
    BY <2>1, <2>2, RecordKeeps
  <2>4. PayoutsTypeOK'
    BY <1>10, <2>1, <2>2, <2>3, ListsAreSeqs
       DEF Reads, PayoutsTypeOK, figures, desktop, limits
  <2>5. QED
    BY <1>3, <1>10, <2>2, <2>3, <2>4 DEF Reads, desktop
<1>11. CASE BookWritten
  <2>1. PayoutsTypeOK'
    BY <1>11 DEF BookWritten, PayoutsTypeOK, figures, desktop, limits
  <2>2. QED
    BY <1>3, <1>11, <2>1 DEF BookWritten, desktop
<1>12. CASE BookRenamed
  <2>1. book' = list /\ list' = list /\ bookTmp' = <<>> /\ hub' = hub /\ hub # "off"
    BY <1>12 DEF BookRenamed
  <2>2. \A h \in Range(list) : Keeps(list, h)
    BY KeepsOfList, RangeOfList
  <2>3. PayoutsTypeOK'
    BY <1>12, <2>1, EmptyList, ListsAreSeqs DEF BookRenamed, PayoutsTypeOK, figures, desktop, limits
  <2>4. QED
    BY <1>12, <2>1, <2>2, <2>3, EmptyList DEF BookRenamed, desktop
<1>13. CASE BookFails
  <2>1. PayoutsTypeOK'
    BY <1>13 DEF BookFails, PayoutsTypeOK, figures, desktop, limits
  <2>2. QED
    BY <1>3, <1>13, <2>1 DEF BookFails, desktop
<1>14. CASE NewFigures
  <2>1. PayoutsTypeOK'
    BY <1>1, <1>14 DEF NewFigures, PayoutsTypeOK, records, figures, desktop, limits
  <2>2. QED
    BY <1>3, <1>14, <2>1 DEF NewFigures, records, desktop
<1>15. CASE WriteStats
  <2>1. stats' \in [Stats -> 0..MaxTurns]
    BY <1>15 DEF WriteStats, PayoutsTypeOK
  <2>2. PayoutsTypeOK'
    BY <1>15, <2>1 DEF WriteStats, PayoutsTypeOK, records, figures, desktop, limits
  <2>3. QED
    BY <1>3, <1>15, <2>2 DEF WriteStats, records, desktop
<1>16. CASE readStats
  <2>1. PayoutsTypeOK'
    BY <1>16 DEF readStats, PayoutsTypeOK, records, figures, desktop, limits
  <2>2. QED
    BY <1>3, <1>16, <2>1 DEF readStats, records, desktop
<1>17. CASE DeskRestarts
  <2>1. PayoutsTypeOK'
    BY <1>1, <1>2, <1>17, EmptyList DEF DeskRestarts, PayoutsTypeOK, records, figures, desktop, limits
  <2>2. QED
    BY <1>3, <1>17, <2>1, EmptyList DEF DeskRestarts, records
<1>18. CASE Moves
  <2>1. PayoutsTypeOK'
    BY <1>1, <1>18 DEF Moves, PayoutsTypeOK, records, figures, desktop, limits
  <2>2. QED
    BY <1>3, <1>18, <2>1 DEF Moves, records, desktop
<1>19. CASE watchHousehold
  <2>1. seen' = FoldLeft(Record, seen, Recent(Shared)) /\ house' = cached
    BY <1>19 DEF watchHousehold
  <2>2. seen' \in Lists
    <3>1. Recent(Shared) \in Seq(Heights)
      BY RecentIs, ListsAreSeqs
    <3>2. QED
      BY <2>1, <3>1, FoldKeeps
  <2>3. PayoutsTypeOK'
    BY <1>19, <2>1, <2>2, ListsAreSeqs
       DEF watchHousehold, PayoutsTypeOK, records, figures, desktop, limits
  <2>4. QED
    BY <1>3, <1>19, <2>2, <2>3 DEF watchHousehold, records
<1>20. QED
  BY <1>4, <1>5, <1>6, <1>7, <1>8, <1>9, <1>10, <1>11, <1>12, <1>13, <1>14,
     <1>15, <1>16, <1>17, <1>18, <1>19 DEF PayoutsNext

\* A payout once saved is listed and stays on file, through ends, failed
\* starts and failed saves, for as long as it is among the newest payoutsKept;
\* and no list has one twice or out of order (Payouts.Record, core.go's
\* loadPayouts and recordPayout).
THEOREM PayoutsAreKept == PayoutsSpec => PayoutsKept
<1>1. PayoutsInit => PayoutsInv
  BY PayoutsStart
<1>2. PayoutsInv /\ [PayoutsNext]_payoutsVars => PayoutsInv'
  BY PayoutsStep
<1>3. PayoutsInv => Kept
  BY DEF PayoutsInv, Kept, Lists, Running
<1>4. ASSUME PayoutsInv, [PayoutsNext]_payoutsVars
      PROVE  [Kept' /\ \A h \in Range(book) : Keeps(book, h)']_payoutsVars
  <2>1. PayoutsInv' /\ \A h \in Range(book) : Keeps(book', h)
    BY <1>4, PayoutsStep
  <2>2. PayoutsInv' => Kept'
    BY DEF PayoutsInv, Kept, Lists, Running
  <2>3. QED
    BY <2>1, <2>2 DEF Keeps
<1>5. QED
  BY <1>1, <1>2, <1>4, PTL DEF PayoutsSpec, PayoutsKept

-----------------------------------------------------------------------------
(* The ledger.                                                             *)

Minute == [at : Nat, sum : Nat, n : Nat]

\* A ledger whose minutes begin when a minute does, ...
Marked == {ms \in Ledgers : \A i \in DOMAIN ms : ms[i].at % 2 = 0}

\* ... one with its minutes in order and none to come, ...
Sound(ms, now) == /\ \A i, j \in DOMAIN ms : i < j => ms[i].at < ms[j].at
                  /\ \A i \in DOMAIN ms : ms[i].at <= now

\* ... and one that has of the last day all that another has.
Covers(a, b, now) ==
  \A i \in DOMAIN a : a[i].at >= now - LedgerSpan =>
    \E j \in DOMAIN b : b[j].at = a[i].at /\ b[j].n >= a[i].n /\ b[j].sum >= a[i].sum

LEMMA Constants == /\ Capacity \in Nat \ {0} /\ LedgerSpan \in Nat
                   /\ Hashrates \subseteq Nat /\ Windows \subseteq Nat
                   /\ Absent \notin Ledgers /\ Torn \notin Ledgers /\ Absent # Torn
                   /\ MaxClock \in Nat /\ MaxSamples \in Nat /\ MaxSaves \in Nat
                   /\ MaxSteps \in Nat /\ MaxLives \in Nat
  BY LedgerAssumption DEF LedgerAssumption

LEMMA MarkedIs ==
  ASSUME NEW ms \in Marked
  PROVE  /\ ms \in Seq(Minute) /\ Len(ms) \in Nat /\ DOMAIN ms = 1..Len(ms)
         /\ \A i \in 1..Len(ms) : /\ ms[i] \in Minute /\ ms[i].at \in Nat
                                  /\ ms[i].n \in Nat /\ ms[i].sum \in Nat
                                  /\ ms[i].at % 2 = 0
<1>1. ms \in Seq(Minute) /\ \A i \in DOMAIN ms : ms[i].at % 2 = 0
  BY DEF Marked, Ledgers, Minute
<1>2. Len(ms) \in Nat /\ DOMAIN ms = 1..Len(ms) /\ \A i \in 1..Len(ms) : ms[i] \in Minute
  BY <1>1
<1>3. \A m \in Minute : m.at \in Nat /\ m.n \in Nat /\ m.sum \in Nat
  BY DEF Minute
<1>4. QED
  BY <1>1, <1>2, <1>3

LEMMA CoversItself ==
  ASSUME NEW ms \in Marked, NEW now \in Nat
  PROVE  Covers(ms, ms, now)
  BY MarkedIs DEF Covers

\* Having all that another has is transitive.
LEMMA CoversAll ==
  ASSUME NEW a \in Marked, NEW b \in Marked, NEW c \in Marked,
         NEW now \in Nat, Covers(a, b, now), Covers(b, c, now)
  PROVE  Covers(a, c, now)
<1>1. ASSUME NEW i \in DOMAIN a, a[i].at >= now - LedgerSpan
      PROVE  \E k \in DOMAIN c : c[k].at = a[i].at /\ c[k].n >= a[i].n /\ c[k].sum >= a[i].sum
  <2>1. PICK j \in DOMAIN b : b[j].at = a[i].at /\ b[j].n >= a[i].n /\ b[j].sum >= a[i].sum
    BY <1>1 DEF Covers
  <2>2. PICK k \in DOMAIN c : c[k].at = b[j].at /\ c[k].n >= b[j].n /\ c[k].sum >= b[j].sum
    BY <1>1, <2>1 DEF Covers
  <2>3. /\ a[i].n \in Nat /\ b[j].n \in Nat /\ c[k].n \in Nat
        /\ a[i].sum \in Nat /\ b[j].sum \in Nat /\ c[k].sum \in Nat
    BY MarkedIs
  <2>4. QED
    BY <2>1, <2>2, <2>3
<1>2. QED
  BY <1>1 DEF Covers

\* What is said of a moment holds of later ones.
LEMMA CoversLater ==
  ASSUME NEW a \in Marked, NEW b, NEW now \in Nat, Covers(a, b, now)
  PROVE  Covers(a, b, now + 1)
<1> DEFINE t == now + 1
<1>1. \A x \in Nat : x >= t - LedgerSpan => x >= now - LedgerSpan
  BY Constants
<1>2. \A i \in DOMAIN a : a[i].at \in Nat
  BY MarkedIs
<1>3. \A i \in DOMAIN a : a[i].at >= t - LedgerSpan => a[i].at >= now - LedgerSpan
  BY <1>1, <1>2
<1> HIDE DEF t
<1>4. Covers(a, b, t)
  BY <1>3 DEF Covers
<1>5. QED
  BY <1>4 DEF t

LEMMA SoundLater ==
  ASSUME NEW ms \in Marked, NEW now \in Nat, Sound(ms, now)
  PROVE  Sound(ms, now + 1)
<1>1. \A i \in DOMAIN ms : ms[i].at <= now => ms[i].at <= now + 1
  BY MarkedIs
<1>2. QED
  BY <1>1 DEF Sound

\* Ledger.prune drops minutes from the front, and none of the last day.
LEMMA PruneIs ==
  ASSUME NEW ms \in Marked, NEW now \in Nat
  PROVE  \E k \in 0..Len(ms) :
           /\ prune(ms, now) = [i \in 1..(Len(ms) - k) |-> ms[i + k]]
           /\ \A i \in 1..k : ms[i].at < now - LedgerSpan
<1> DEFINE kept == {i \in DOMAIN ms : ms[i].at >= now - LedgerSpan}
<1>1. /\ Len(ms) \in Nat /\ DOMAIN ms = 1..Len(ms) /\ ms \in Seq(Minute)
      /\ \A i \in 1..Len(ms) : ms[i].at \in Nat
  BY MarkedIs
<1>2. CASE kept = {}
  <2>1. prune(ms, now) = <<>>
    BY <1>2 DEF prune
  <2>2. prune(ms, now) = [i \in 1..(Len(ms) - Len(ms)) |-> ms[i + Len(ms)]]
    BY <1>1, <2>1
  <2>3. \A i \in 1..Len(ms) : ms[i].at < now - LedgerSpan
    BY <1>1, <1>2, Constants
  <2>4. QED
    BY <1>1, <2>2, <2>3
<1>3. CASE kept # {}
  <2> DEFINE m == Min(kept)
  <2>1. m \in kept /\ \A y \in kept : m <= y
    <3>1. kept \in SUBSET Nat
      BY <1>1
    <3> HIDE DEF kept
    <3>2. QED
      BY <1>3, <3>1, MinIsLeast
  <2>2. prune(ms, now) = SubSeq(ms, m, Len(ms))
    BY <1>3 DEF prune
  <2>3. m \in 1..Len(ms)
    BY <1>1, <2>1
  <2>4. \A i \in 1..(m - 1) : ms[i].at < now - LedgerSpan
    <3> HIDE DEF m
    <3>1. ASSUME NEW i \in 1..(m - 1) PROVE i \notin kept /\ i \in 1..Len(ms)
      BY <1>1, <2>1, <2>3
    <3>2. QED
      BY <1>1, <3>1, Constants
  <2> HIDE DEF m
  <2>5. SubSeq(ms, m, Len(ms)) = [i \in 1..(Len(ms) - (m - 1)) |-> ms[i + (m - 1)]]
    <3>1. SubSeq(ms, m, Len(ms)) = [i \in 1..(Len(ms) - m + 1) |-> ms[i + m - 1]]
      BY <1>1, <2>3
    <3>2. Len(ms) - m + 1 = Len(ms) - (m - 1) /\ \A i \in Int : i + m - 1 = i + (m - 1)
      BY <1>1, <2>3
    <3>3. QED
      BY <3>1, <3>2
  <2>6. m - 1 \in 0..Len(ms)
    BY <1>1, <2>3
  <2>7. QED
    BY <2>2, <2>4, <2>5, <2>6
<1>4. QED
  BY <1>2, <1>3

\* What prune leaves is in order, and has all of the last day.
LEMMA PruneKeeps ==
  ASSUME NEW ms \in Marked, NEW now \in Nat
  PROVE  /\ prune(ms, now) \in Marked
         /\ Covers(ms, prune(ms, now), now)
         /\ \A t : Sound(ms, t) => Sound(prune(ms, now), t)
<1>1. PICK k \in 0..Len(ms) :
        /\ prune(ms, now) = [i \in 1..(Len(ms) - k) |-> ms[i + k]]
        /\ \A i \in 1..k : ms[i].at < now - LedgerSpan
  BY PruneIs
<1> DEFINE r == prune(ms, now)
           l == Len(ms) - k
<1>2. /\ Len(ms) \in Nat /\ DOMAIN ms = 1..Len(ms)
      /\ \A i \in 1..Len(ms) : ms[i] \in Minute /\ ms[i].at \in Nat /\ ms[i].at % 2 = 0
      /\ \A i \in 1..Len(ms) : ms[i].n \in Nat /\ ms[i].sum \in Nat
  BY MarkedIs
<1>3. l \in Nat /\ \A i \in 1..l : i + k \in 1..Len(ms)
  BY <1>2
<1>4. DOMAIN r = 1..l /\ \A i \in 1..l : r[i] = ms[i + k]
  BY <1>1
<1>5. r \in Ledgers
  <2>1. r \in [1..l -> Minute]
    BY <1>1, <1>2, <1>3
  <2> HIDE DEF r, l
  <2>2. QED
    BY <1>3, <2>1, TupleIsSeq DEF Ledgers, Minute
<1> HIDE DEF r, l
<1>6. r \in Marked
  BY <1>2, <1>3, <1>4, <1>5 DEF Marked
<1>7. Covers(ms, r, now)
  <2>1. ASSUME NEW i \in 1..Len(ms), ms[i].at >= now - LedgerSpan
        PROVE  \E j \in 1..l : r[j] = ms[i]
    <3>1. i > k
      <4>1. ~(ms[i].at < now - LedgerSpan)
        BY <1>2, <2>1, Constants
      <4>2. QED
        BY <1>1, <1>2, <4>1
    <3>2. i - k \in 1..l /\ (i - k) + k = i
      BY <1>2, <3>1 DEF l
    <3>3. QED
      BY <1>4, <3>2
  <2>2. \A i \in 1..Len(ms) : ms[i].n >= ms[i].n /\ ms[i].sum >= ms[i].sum
    BY <1>2
  <2>3. QED
    BY <1>2, <1>4, <2>1, <2>2 DEF Covers
<1>8. ASSUME NEW t, Sound(ms, t) PROVE Sound(r, t)
  <2>1. \A i, j \in 1..l : i < j => i + k < j + k
    BY <1>2, <1>3
  <2>2. QED
    BY <1>2, <1>3, <1>4, <1>8, <2>1 DEF Sound
<1>9. QED
  BY <1>6, <1>7, <1>8 DEF r

\* Ledger.Add keeps what there is, in order for as long as the clock goes on.
LEMMA AddKeeps ==
  ASSUME NEW ms \in Marked, NEW s \in Samples
  PROVE  /\ LedgerAdd(ms, s) \in Marked
         /\ Sound(ms, s.at) => Sound(LedgerAdd(ms, s), s.at)
         /\ Covers(ms, LedgerAdd(ms, s), s.at)
<1> DEFINE at == MinuteOf(s.at)
           last == Len(ms)
<1>1. s.at \in Nat /\ s.rate \in Nat
  BY DEF Samples
<1>2. at \in Nat /\ at % 2 = 0 /\ at <= s.at /\ s.at - at < 2
  BY <1>1 DEF MinuteOf
<1>3. /\ last \in Nat /\ DOMAIN ms = 1..last /\ ms \in Seq(Minute)
      /\ \A i \in 1..last : ms[i] \in Minute /\ ms[i].at \in Nat /\ ms[i].at % 2 = 0
      /\ \A i \in 1..last : ms[i].n \in Nat /\ ms[i].sum \in Nat
  BY MarkedIs
<1>4. CASE ms # <<>> /\ ms[last].at = at
  <2> DEFINE m == [at |-> ms[last].at, sum |-> ms[last].sum + s.rate, n |-> ms[last].n + 1]
             r == [ms EXCEPT ![last] = m]
  <2>1. last \in 1..last
    BY <1>3, <1>4
  <2>2. LedgerAdd(ms, s) = [ms EXCEPT ![last].sum = @ + s.rate, ![last].n = @ + 1]
    BY <1>4 DEF LedgerAdd
  <2>3. LedgerAdd(ms, s) = r
    BY <1>3, <2>1, <2>2 DEF Minute
  <2>4. m \in Minute /\ m.at = ms[last].at /\ m.n >= ms[last].n /\ m.sum >= ms[last].sum
    BY <1>1, <1>3, <2>1 DEF Minute
  <2> HIDE DEF m
  <2>6. \A i \in 1..last : r[i] = IF i = last THEN m ELSE ms[i]
    BY <1>3
  <2>5. r \in Seq(Minute) /\ DOMAIN r = 1..last
    <3>1. r \in [1..last -> Minute]
      BY <1>3, <2>4, <2>6
    <3>2. QED
      BY <1>3, <3>1, TupleIsSeq
  <2> HIDE DEF r
  <2>7. ASSUME NEW i \in 1..last
        PROVE  r[i].at = ms[i].at /\ r[i].n >= ms[i].n /\ r[i].sum >= ms[i].sum
    <3>1. CASE i = last
      BY <2>4, <2>6, <3>1
    <3>2. CASE i # last
      <4>1. r[i] = ms[i]
        BY <2>6, <3>2
      <4>2. ms[i].n \in Nat /\ ms[i].sum \in Nat
        BY <1>3
      <4>3. QED
        BY <4>1, <4>2
    <3>3. QED
      BY <3>1, <3>2
  <2>8. r \in Marked
    BY <1>3, <2>5, <2>7 DEF Marked, Ledgers, Minute
  <2>9. QED
    BY <1>3, <2>3, <2>5, <2>7, <2>8 DEF Sound, Covers
<1>5. CASE ~(ms # <<>> /\ ms[last].at = at)
  <2> DEFINE m == [at |-> at, sum |-> s.rate, n |-> 1]
             r == Append(ms, m)
  <2>1. LedgerAdd(ms, s) = prune(r, s.at)
    BY <1>5 DEF LedgerAdd
  <2>2. m \in Minute /\ m.at = at
    BY <1>1, <1>2 DEF Minute
  <2> HIDE DEF m, at
  <2>3. /\ r \in Seq(Minute) /\ DOMAIN r = 1..(last + 1)
        /\ \A i \in 1..last : r[i] = ms[i]
        /\ r[last + 1] = m
    BY <1>3, <2>2
  <2> HIDE DEF r
  <2>4. r \in Marked
    <3>1. ASSUME NEW i \in 1..(last + 1) PROVE r[i].at % 2 = 0
      <4>1. i \in 1..last \/ i = last + 1
        BY <1>3
      <4>2. QED
        BY <1>2, <1>3, <2>2, <2>3, <4>1
    <3>2. QED
      BY <2>3, <3>1 DEF Marked, Ledgers, Minute
  <2>5. ASSUME Sound(ms, s.at) PROVE Sound(r, s.at)
    <3>0. ASSUME NEW i \in 1..last PROVE ms[i].at < at
      <4>1. last \in 1..last /\ ms # <<>>
        BY <1>3, <3>0
      <4>2. ms[i].at <= ms[last].at
        <5>1. CASE i = last
          BY <1>3, <5>1
        <5>2. CASE i # last
          <6>1. i < last
            <7>1. \A l \in Nat : \A x \in 1..l : x # l => x < l
              OBVIOUS
            <7>2. QED
              BY <1>3, <3>0, <5>2, <7>1
          <6>2. ms[i].at < ms[last].at
            BY <1>3, <2>5, <4>1, <6>1 DEF Sound
          <6>3. QED
            BY <1>3, <4>1, <6>2
        <5>3. QED
          BY <5>1, <5>2
      <4>3. ms[last].at <= s.at /\ ms[last].at # at
        BY <1>3, <1>5, <2>5, <4>1 DEF Sound
      <4>4. ms[last].at \in Nat /\ ms[last].at % 2 = 0 /\ ms[i].at \in Nat
        BY <1>3, <4>1
      <4> DEFINE x == ms[last].at
                 y == ms[i].at
      <4>5. x \in Nat /\ y \in Nat /\ x % 2 = 0 /\ y <= x /\ x <= s.at /\ x # at
        BY <4>2, <4>3, <4>4
      <4> HIDE DEF x, y
      <4>6. y < at
        BY <1>1, <1>2, <4>5
      <4>7. QED
        BY <4>6 DEF y
    <3>1. ASSUME NEW i \in 1..(last + 1), NEW j \in 1..(last + 1), i < j
          PROVE  r[i].at < r[j].at
      <4>1. i \in 1..last
        BY <1>3, <3>1
      <4>2. CASE j = last + 1
        BY <2>2, <2>3, <3>0, <4>1, <4>2
      <4>3. CASE j # last + 1
        <5>1. j \in 1..last
          BY <1>3, <4>3
        <5>2. QED
          BY <1>3, <2>3, <2>5, <3>1, <4>1, <5>1 DEF Sound
      <4>4. QED
        BY <4>2, <4>3
    <3>2. ASSUME NEW i \in 1..(last + 1) PROVE r[i].at <= s.at
      <4>1. i \in 1..last \/ i = last + 1
        BY <1>3
      <4>2. QED
        BY <1>2, <1>3, <2>2, <2>3, <2>5, <4>1 DEF Sound
    <3>3. QED
      BY <2>3, <3>1, <3>2 DEF Sound
  <2>6. Covers(ms, r, s.at)
    <3>1. \A i \in 1..last : /\ i \in DOMAIN r /\ r[i] = ms[i]
                             /\ ms[i].n >= ms[i].n /\ ms[i].sum >= ms[i].sum
      BY <1>3, <2>3
    <3>2. QED
      BY <1>3, <3>1 DEF Covers
  <2>7. /\ prune(r, s.at) \in Marked /\ Covers(r, prune(r, s.at), s.at)
        /\ Sound(r, s.at) => Sound(prune(r, s.at), s.at)
    BY <1>1, <2>4, PruneKeeps
  <2>8. Covers(ms, prune(r, s.at), s.at)
    BY <1>1, <2>4, <2>6, <2>7, CoversAll
  <2>9. QED
    BY <2>1, <2>5, <2>7, <2>8
<1>6. QED
  BY <1>4, <1>5

\* One minute of a file is taken, or left.
Taken(ms, m, now) == IF m.at > now \/ (ms # <<>> /\ m.at <= Last(ms).at)
                     THEN ms ELSE Append(ms, m)

LEMMA LastIs ==
  ASSUME NEW ms \in Marked, ms # <<>>
  PROVE  Len(ms) \in 1..Len(ms) /\ Last(ms) = ms[Len(ms)]
  BY MarkedIs DEF Last

\* Each minute taken leaves the ledger in order.
LEMMA TakenKeeps ==
  ASSUME NEW ms \in Marked, NEW now \in Nat, NEW m \in Minute, m.at % 2 = 0
  PROVE  /\ Taken(ms, m, now) \in Marked
         /\ Sound(ms, now) => Sound(Taken(ms, m, now), now)
<1>1. CASE m.at > now \/ (ms # <<>> /\ m.at <= Last(ms).at)
  BY <1>1 DEF Taken
<1>2. CASE ~(m.at > now \/ (ms # <<>> /\ m.at <= Last(ms).at))
  <2> DEFINE r == Append(ms, m)
             last == Len(ms)
  <2>1. Taken(ms, m, now) = r
    BY <1>2 DEF Taken
  <2>2. /\ last \in Nat /\ DOMAIN ms = 1..last /\ ms \in Seq(Minute)
        /\ \A i \in 1..last : ms[i] \in Minute /\ ms[i].at \in Nat /\ ms[i].at % 2 = 0
    BY MarkedIs
  <2>3. m.at \in Nat /\ m.at <= now
    BY <1>2 DEF Minute
  <2>4. /\ r \in Seq(Minute) /\ DOMAIN r = 1..(last + 1)
        /\ \A i \in 1..last : r[i] = ms[i]
        /\ r[last + 1] = m
    BY <2>2
  <2> HIDE DEF r
  <2>5. r \in Marked
    <3>1. ASSUME NEW i \in 1..(last + 1) PROVE r[i].at % 2 = 0
      <4>1. i \in 1..last \/ i = last + 1
        BY <2>2, <3>1
      <4>2. QED
        BY <2>2, <2>4, <4>1
    <3>2. QED
      BY <2>4, <3>1 DEF Marked, Ledgers, Minute
  <2>6. ASSUME Sound(ms, now) PROVE Sound(r, now)
    <3>0. ASSUME NEW i \in 1..last PROVE ms[i].at < m.at
      <4>1. last \in 1..last /\ ms # <<>>
        BY <2>2, <3>0
      <4>2. CASE i = last
        BY <1>2, <2>2, <2>3, <4>1, <4>2, LastIs
      <4>3. CASE i # last
        <5>1. i < last
          <6>1. \A l \in Nat : \A x \in 1..l : x # l => x < l
            OBVIOUS
          <6>2. QED
            BY <2>2, <3>0, <4>3, <6>1
        <5>2. ms[i].at < ms[last].at
          BY <2>2, <2>6, <3>0, <4>1, <5>1 DEF Sound
        <5>3. ms[i].at \in Nat /\ ms[last].at \in Nat /\ ~(m.at <= ms[last].at)
          BY <1>2, <2>2, <3>0, <4>1, LastIs
        <5>4. QED
          BY <2>3, <5>2, <5>3
      <4>4. QED
        BY <4>2, <4>3
    <3>1. ASSUME NEW i \in 1..(last + 1), NEW j \in 1..(last + 1), i < j
          PROVE  r[i].at < r[j].at
      <4>1. i \in 1..last
        BY <2>2, <3>1
      <4>2. CASE j = last + 1
        BY <2>4, <3>0, <4>1, <4>2
      <4>3. CASE j # last + 1
        <5>1. j \in 1..last
          BY <2>2, <4>3
        <5>2. QED
          BY <2>2, <2>4, <2>6, <3>1, <4>1, <5>1 DEF Sound
      <4>4. QED
        BY <4>2, <4>3
    <3>2. ASSUME NEW i \in 1..(last + 1) PROVE r[i].at <= now
      <4>1. i \in 1..last \/ i = last + 1
        BY <2>2
      <4>2. QED
        BY <2>2, <2>3, <2>4, <2>6, <4>1 DEF Sound
    <3>3. QED
      BY <2>4, <3>1, <3>2 DEF Sound
  <2>7. QED
    BY <2>1, <2>5, <2>6
<1>3. QED
  BY <1>1, <1>2

LEMMA EmptyLedger ==
  /\ <<>> \in Marked
  /\ \A now : Sound(<<>>, now)
  BY DEF Marked, Ledgers, Sound

\* Load takes a file's minutes one after the other, and prunes.
LEMMA LoadFold ==
  ASSUME NEW f \in Marked, NEW now \in Nat
  PROVE  \E pre \in [0..Len(f) -> Marked] :
           /\ pre[0] = <<>>
           /\ \A k \in 1..Len(f) : pre[k] = Taken(pre[k - 1], f[k], now)
           /\ Load(f, now) = prune(pre[Len(f)], now)
<1> DEFINE n == Len(f)
           g == [d \in 1..n |-> [ms \in Marked |-> Taken(ms, f[d], now)]]
           Table(it) == it = [S \in SUBSET DOMAIN f |->
                               IF S = {} THEN <<>>
                               ELSE LET x == Max(S)
                                    IN  Taken(it[S \ {x}], f[x], now)]
           it == CHOOSE it : Table(it)
<1>1. /\ n \in Nat /\ DOMAIN f = 1..n
      /\ \A d \in 1..n : f[d] \in Minute /\ f[d].at % 2 = 0
  BY MarkedIs
<1>2. \A d \in 1..n : \A ms \in Marked : g[d][ms] = Taken(ms, f[d], now) /\ g[d][ms] \in Marked
  BY <1>1, TakenKeeps
<1>3. \E h : Table(h)
  <2> DEFINE D == DOMAIN f
  <2>1. PICK h \in [SUBSET D -> Marked] : \A S \in SUBSET D :
           h[S] = IF S = {} THEN <<>> ELSE g[Max(S)][h[S \ {Max(S)}]]
    <3>1. n \in Nat /\ D = 1..n /\ Maps(g, D, Marked)
      BY <1>1, <1>2 DEF Maps
    <3> HIDE DEF g, n, D
    <3>2. LeftFoldable(D, Marked, <<>>, g)
      BY <3>1, LeftTable, EmptyLedger
    <3>3. QED
      BY <3>2 DEF LeftFoldable
  <2>2. ASSUME NEW S \in SUBSET D, S # {}
        PROVE  h[S] = Taken(h[S \ {Max(S)}], f[Max(S)], now)
    <3>1. Max(S) \in D
      <4>1. S \in SUBSET Nat /\ \A x \in S : x <= n
        BY <1>1
      <4>2. QED
        BY <1>1, <2>2, <4>1, GreatestNumber
    <3>2. h[S \ {Max(S)}] \in Marked
      OBVIOUS
    <3> HIDE DEF g
    <3>3. QED
      BY <1>1, <2>1, <2>2, <3>1, <3>2, <1>2
  <2>3. Table(h)
    <3> HIDE DEF g
    <3> QED BY <1>1, <2>1, <2>2
  <2>4. QED
    BY <2>3
<1>4. Table(it)
  BY <1>3
<1>5. Load(f, now) = prune(it[DOMAIN f], now)
  <2>1. f \notin {Absent, Torn}
    BY Constants DEF Marked
  <2>2. QED
    BY <2>1 DEF Load, FoldLeft, MapThenFoldSet, Taken
<1> HIDE DEF it
<1>6. it[{}] = <<>>
  BY <1>4
<1>7. ASSUME NEW k \in 1..n PROVE it[1..k] = Taken(it[1..(k - 1)], f[k], now)
  <2>1. Max(1..k) = k /\ (1..k) \ {k} = 1..(k - 1)
    BY PrefixMax
  <2>2. 1..k \in SUBSET DOMAIN f /\ 1..k # {}
    <3>1. n \in Nat /\ DOMAIN f = 1..n
      BY <1>1
    <3> HIDE DEF n
    <3>2. k \in Nat /\ k >= 1 /\ k <= n
      BY <1>7, <3>1
    <3>3. 1..k \in SUBSET (1..n)
      BY <3>1, <3>2
    <3>4. 1 \in 1..k
      BY <3>2
    <3>5. QED
      BY <3>1, <3>3, <3>4
  <2>3. it[1..k] = Taken(it[(1..k) \ {Max(1..k)}], f[Max(1..k)], now)
    BY <1>4, <2>2
  <2>4. QED
    BY <2>1, <2>3
<1>8. \A k \in 0..n : it[1..k] \in Marked
  <2>1. \A k \in 1..n : it[1..(k - 1)] \in Marked => it[1..k] \in Marked
    BY <1>1, <1>7, TakenKeeps
  <2> HIDE DEF n
  <2>2. QED
    BY <1>1, <1>6, <2>1, AllPrefixes, EmptyLedger
<1> DEFINE pre == [k \in 0..n |-> it[1..k]]
<1>9. pre \in [0..n -> Marked]
  BY <1>8
<1>10. pre[0] = <<>>
  <2>1. 1..0 = {} /\ 0 \in 0..n
    BY <1>1
  <2>2. QED
    BY <1>6, <2>1
<1>11. ASSUME NEW k \in 1..n PROVE pre[k] = Taken(pre[k - 1], f[k], now)
  <2>1. k \in 0..n /\ k - 1 \in 0..n
    BY <1>1
  <2>2. QED
    BY <1>7, <2>1
<1>12. Load(f, now) = prune(pre[n], now)
  BY <1>1, <1>5
<1>13. QED
  <2> HIDE DEF pre
  <2> QED BY <1>9, <1>10, <1>11, <1>12

\* Ledger.Load restores a ledger that is in order, whatever the file holds,
\* and all that a file in order has of the last day.
LEMMA LoadKeeps ==
  ASSUME NEW f \in Marked \cup {Absent, Torn}, NEW now \in Nat
  PROVE  /\ Load(f, now) \in Marked /\ Sound(Load(f, now), now)
         /\ f \in Marked /\ Sound(f, now) => Covers(f, Load(f, now), now)
<1>1. CASE f \in {Absent, Torn}
  <2>1. f \notin Marked
    BY <1>1, Constants DEF Marked
  <2>2. Load(f, now) = <<>>
    BY <1>1 DEF Load
  <2>3. QED
    BY <2>1, <2>2, EmptyLedger
<1>2. CASE f \in Marked
  <2> DEFINE n == Len(f)
  <2>1. PICK pre \in [0..n -> Marked] :
          /\ pre[0] = <<>>
          /\ \A k \in 1..n : pre[k] = Taken(pre[k - 1], f[k], now)
          /\ Load(f, now) = prune(pre[n], now)
    BY <1>2, LoadFold
  <2>2. /\ n \in Nat /\ DOMAIN f = 1..n /\ f \in Seq(Minute)
        /\ \A k \in 1..n : f[k] \in Minute /\ f[k].at \in Nat /\ f[k].at % 2 = 0
    BY <1>2, MarkedIs
  <2> HIDE DEF n
  <2>3. Sound(pre[n], now)
    <3> DEFINE Good == {k \in 0..n : Sound(pre[k], now)}
    <3>1. Good \in SUBSET Nat /\ 0 \in Good
      BY <2>1, <2>2, EmptyLedger
    <3>2. ASSUME NEW k \in 1..n, k - 1 \in Good PROVE k \in Good
      <4>1. k \in 0..n /\ pre[k - 1] \in Marked /\ Sound(pre[k - 1], now)
        BY <2>1, <2>2, <3>2
      <4>2. QED
        BY <2>1, <2>2, <4>1, TakenKeeps
    <3>3. n \in Good
      <4> HIDE DEF Good
      <4> QED BY <2>2, <3>1, <3>2, StepByStep
    <3>4. QED
      BY <3>3
  <2>4. pre[n] \in Marked
    BY <2>1, <2>2
  <2>5. Load(f, now) \in Marked /\ Sound(Load(f, now), now) /\ Covers(pre[n], Load(f, now), now)
    BY <2>1, <2>3, <2>4, PruneKeeps
  <2>6. ASSUME Sound(f, now) PROVE pre[n] = f
    <3> DEFINE Good == {k \in 0..n : pre[k] = SubSeq(f, 1, k)}
    <3>1. Good \in SUBSET Nat /\ 0 \in Good
      <4>1. SubSeq(f, 1, 0) = <<>>
        BY <2>2
      <4>2. QED
        BY <2>1, <2>2, <4>1
    <3>2. ASSUME NEW k \in 1..n, k - 1 \in Good PROVE k \in Good
      <4> DEFINE ms == SubSeq(f, 1, k - 1)
      <4>1. k \in 0..n /\ k - 1 \in 0..n /\ pre[k - 1] = ms /\ pre[k] = Taken(ms, f[k], now)
        <5>1. k \in 0..n /\ k - 1 \in 0..n
          BY <2>2, <3>2
        <5>2. pre[k - 1] = ms
          BY <3>2
        <5>3. QED
          BY <2>1, <3>2, <5>1, <5>2
      <4>2. Len(ms) = k - 1 /\ ms \in Marked /\ \A i \in 1..(k - 1) : ms[i] = f[i]
        <5>1. Len(ms) = k - 1 /\ \A i \in 1..(k - 1) : ms[i] = f[i]
          BY <2>2, <4>1 DEF n
        <5>2. pre[k - 1] \in Marked
          BY <2>1, <4>1
        <5>3. QED
          BY <4>1, <5>1, <5>2
      <4>3. ~(f[k].at > now)
        BY <2>2, <2>6 DEF Sound
      <4>4. ASSUME ms # <<>> PROVE ~(f[k].at <= Last(ms).at)
        <5> HIDE DEF ms
        <5>1. k - 1 \in 1..(k - 1) /\ Last(ms) = f[k - 1]
          BY <4>2, <4>4, LastIs
        <5>2. k - 1 \in 1..n /\ k \in 1..n /\ k - 1 < k
          BY <2>2, <5>1
        <5>3. f[k - 1].at < f[k].at
          BY <2>2, <2>6, <5>2 DEF Sound
        <5>4. QED
          BY <2>2, <5>1, <5>2, <5>3
      <4>5. pre[k] = Append(ms, f[k])
        BY <4>1, <4>3, <4>4 DEF Taken
      <4>6. Append(ms, f[k]) = SubSeq(f, 1, k)
        BY <2>2, <4>1 DEF n
      <4>7. QED
        BY <4>1, <4>5, <4>6
    <3>3. n \in Good
      <4> HIDE DEF Good
      <4> QED BY <2>2, <3>1, <3>2, StepByStep
    <3>4. SubSeq(f, 1, n) = f
      BY <2>2 DEF n
    <3>5. QED
      BY <3>3, <3>4
  <2>7. QED
    BY <2>5, <2>6
<1>3. QED
  BY <1>1, <1>2

-----------------------------------------------------------------------------
(* The ring.                                                               *)

\* The tail of a sequence, by index.
LEMMA TailIs ==
  ASSUME NEW S, NEW ss \in Seq(S), NEW k \in 0..Len(ss)
  PROVE  /\ SubSeq(ss, k + 1, Len(ss)) = [x \in 1..(Len(ss) - k) |-> ss[x + k]]
         /\ SubSeq(ss, k + 1, Len(ss)) \in Seq(S)
         /\ Len(SubSeq(ss, k + 1, Len(ss))) = Len(ss) - k
<1> DEFINE n == Len(ss)
<1>1. n \in Nat /\ k \in Nat /\ k <= n /\ \A i \in 1..n : ss[i] \in S
  OBVIOUS
<1>2. SubSeq(ss, k + 1, n) = [x \in 1..(n - (k + 1) + 1) |-> ss[x + (k + 1) - 1]]
  <2> HIDE DEF n
  <2> QED BY <1>1
<1> HIDE DEF n
<1>3. /\ n - (k + 1) + 1 = n - k /\ n - k \in Nat
      /\ \A x \in 1..(n - k) : x + (k + 1) - 1 = x + k /\ x + k \in 1..n
  BY <1>1
<1>4. SubSeq(ss, k + 1, n) = [x \in 1..(n - k) |-> ss[x + k]]
  BY <1>2, <1>3
<1>5. [x \in 1..(n - k) |-> ss[x + k]] \in [1..(n - k) -> S]
  BY <1>1, <1>3
<1> DEFINE f == [x \in 1..(n - k) |-> ss[x + k]]
<1>6. f \in Seq(S) /\ Len(f) = n - k
  <2>1. n - k \in Nat /\ f \in [1..(n - k) -> S]
    BY <1>3, <1>5
  <2> HIDE DEF f
  <2>2. QED
    BY <2>1, TupleIsSeq
<1>7. QED
  BY <1>4, <1>6 DEF n

\* The ring's next place wraps at its end.
LEMMA NextPlace ==
  ASSUME NEW c \in Nat \ {0}, NEW i \in 0..(c - 1)
  PROVE  (i + 1) % c = IF i + 1 = c THEN 0 ELSE i + 1
<1>1. CASE i + 1 = c
  <2>1. c % c = 0
    OBVIOUS
  <2>2. QED
    BY <1>1, <2>1
<1>2. CASE i + 1 # c
  <2>1. i + 1 \in Nat /\ i + 1 < c
    BY <1>2
  <2>2. QED
    BY <1>2, <2>1
<1>3. QED
  BY <1>1, <1>2

\* Where in the ring each sample of this life is: up to next the newest, and
\* after it, once the ring is full, the ones before them.
RingInv ==
  LET n == Len(history)
  IN  /\ IF full THEN n >= Capacity ELSE next = n
      /\ \A i \in 0..(next - 1) : buf[i] = history[n - next + i + 1]
      /\ full => \A i \in next..(Capacity - 1) :
                   buf[i] = history[n - next - Capacity + i + 1]

\* Ring.Add keeps the places.
LEMMA RingStep ==
  ASSUME LedgerTypeOK, RingInv, NEW s \in Samples, RingAdd(s),
         history' = Append(history, s)
  PROVE  RingInv' /\ next' \in 0..(Capacity - 1) /\ full' \in BOOLEAN
         /\ buf' \in [0..(Capacity - 1) -> Samples]
<1> DEFINE c == Capacity
           n == Len(history)
<1>1. c \in Nat \ {0} /\ next \in 0..(c - 1)
  BY Constants DEF LedgerTypeOK
<1>2. /\ n \in Nat /\ Len(history') = n + 1 /\ history'[n + 1] = s
      /\ \A j \in 1..n : history'[j] = history[j]
  BY DEF LedgerTypeOK
<1>3. /\ next' = IF next + 1 = c THEN 0 ELSE next + 1
      /\ full' = (full \/ next' = 0)
  BY <1>1, NextPlace DEF RingAdd
<1>4. buf' \in [0..(c - 1) -> Samples]
      /\ \A i \in 0..(c - 1) : buf'[i] = IF i = next THEN s ELSE buf[i]
  BY DEF RingAdd, LedgerTypeOK
<1>5. /\ IF full THEN n >= c ELSE next = n
      /\ \A i \in 0..(next - 1) : buf[i] = history[n - next + i + 1]
      /\ full => \A i \in next..(c - 1) : buf[i] = history[n - next - c + i + 1]
  BY DEF RingInv
<1>6. full \in BOOLEAN
  BY DEF LedgerTypeOK
<1>7. RingInv'
  <2> HIDE DEF c, n
  <2>1. CASE next + 1 = c
    <3>0. next' = 0 /\ n + 1 >= c
      BY <1>1, <1>2, <1>3, <1>5, <2>1
    <3>1. next' = 0 /\ full' = TRUE /\ n + 1 >= c
      BY <1>3, <3>0, Zenon
    <3>2. ASSUME NEW i \in 0..(c - 1)
          PROVE  buf'[i] = history'[(n + 1) - 0 - c + i + 1]
      <4>1. CASE i = next
        <5>1. (n + 1) - 0 - c + i + 1 = n + 1
          BY <1>1, <1>2, <2>1, <4>1
        <5>2. QED
          BY <1>2, <1>4, <4>1, <5>1
      <4>2. CASE i # next
        <5>1. i \in 0..(next - 1) /\ (n + 1) - 0 - c + i + 1 = n - next + i + 1
          BY <1>1, <1>2, <2>1, <4>2
        <5>2. n - next + i + 1 \in 1..n
          BY <1>1, <1>2, <1>5, <2>1, <5>1
        <5>3. QED
          BY <1>2, <1>4, <1>5, <4>2, <5>1, <5>2
      <4>3. QED
        BY <4>1, <4>2
    <3>3. \A i \in 0..(0 - 1) : FALSE
      OBVIOUS
    <3>4. QED
      BY <1>2, <3>1, <3>2, <3>3 DEF RingInv, c
  <2>2. CASE next + 1 # c
    <3>1. next' = next + 1 /\ full' = full
      BY <1>1, <1>3, <1>6, <2>2
    <3>2. IF full THEN n + 1 >= c ELSE next + 1 = n + 1
      BY <1>1, <1>2, <1>5
    <3>3. ASSUME NEW i \in 0..next
          PROVE  buf'[i] = history'[(n + 1) - (next + 1) + i + 1]
      <4>1. CASE i = next
        <5>1. (n + 1) - (next + 1) + i + 1 = n + 1
          BY <1>1, <1>2, <4>1
        <5>2. QED
          BY <1>1, <1>2, <1>4, <4>1, <5>1
      <4>2. CASE i # next
        <5>1. i \in 0..(next - 1) /\ (n + 1) - (next + 1) + i + 1 = n - next + i + 1
          BY <1>1, <1>2, <4>2
        <5>2. n - next + i + 1 \in 1..n /\ i \in 0..(c - 1)
          <6>1. n >= next
            BY <1>1, <1>2, <1>5
          <6>2. QED
            BY <1>1, <1>2, <5>1, <6>1
        <5>3. QED
          BY <1>2, <1>4, <1>5, <4>2, <5>1, <5>2
      <4>3. QED
        BY <4>1, <4>2
    <3>4. ASSUME full, NEW i \in (next + 1)..(c - 1)
          PROVE  buf'[i] = history'[(n + 1) - (next + 1) - c + i + 1]
      <4>1. i \in next..(c - 1) /\ i # next /\ i \in 0..(c - 1)
        BY <1>1, <3>4
      <4>2. (n + 1) - (next + 1) - c + i + 1 = n - next - c + i + 1
        BY <1>1, <1>2, <4>1
      <4>3. n - next - c + i + 1 \in 1..n
        BY <1>1, <1>2, <1>5, <3>4, <4>1
      <4>4. QED
        BY <1>2, <1>4, <1>5, <3>4, <4>1, <4>2, <4>3
    <3>5. (next + 1) - 1 = next
      BY <1>1
    <3>6. QED
      BY <1>2, <3>1, <3>2, <3>3, <3>4, <3>5 DEF RingInv, c
  <2>3. QED
    BY <2>1, <2>2
<1>8. next' \in 0..(c - 1) /\ full' \in BOOLEAN
  BY <1>1, <1>3
<1>9. QED
  BY <1>4, <1>7, <1>8

LEMMA MaxOfTwo ==
  ASSUME NEW i \in Int, NEW j \in Int
  PROVE  Max({i, j}) = IF i <= j THEN j ELSE i
<1> DEFINE m == IF i <= j THEN j ELSE i
<1>1. m \in {i, j} /\ \A y \in {i, j} : m >= y
  OBVIOUS
<1>2. Max({i, j}) \in {i, j} /\ \A y \in {i, j} : Max({i, j}) >= y
  BY <1>1 DEF Max
<1>3. QED
  BY <1>2

\* Ring.Snapshot: the last samples, in the order they came.
LEMMA SnapshotIs ==
  ASSUME LedgerTypeOK, RingInv
  PROVE  \E k \in 0..Len(history) :
           /\ k = Max({0, Len(history) - Capacity})
           /\ Snapshot = SubSeq(history, k + 1, Len(history))
<1> DEFINE c == Capacity
           n == Len(history)
           k == IF n <= c THEN 0 ELSE n - c
<1>1. c \in Nat \ {0} /\ next \in 0..(c - 1) /\ n \in Nat /\ full \in BOOLEAN
      /\ history \in Seq(Samples) /\ buf \in [0..(c - 1) -> Samples]
  BY Constants DEF LedgerTypeOK
<1>2. /\ IF full THEN n >= c ELSE next = n
      /\ \A i \in 0..(next - 1) : buf[i] = history[n - next + i + 1]
      /\ full => \A i \in next..(c - 1) : buf[i] = history[n - next - c + i + 1]
  BY DEF RingInv
<1>3. k = Max({0, n - c}) /\ k \in 0..n
  BY <1>1, MaxOfTwo
<1> DEFINE last == SubSeq(history, k + 1, n)
           upto(i, j) == [x \in 1..(j - i) |-> buf[i + x - 1]]
<1>4. last = [x \in 1..(n - k) |-> history[x + k]]
  BY <1>1, <1>3, TailIs
<1>5. CASE ~full
  <2>1. Snapshot = upto(0, next)
    BY <1>5 DEF Snapshot
  <2>2. next = n /\ k = 0
    BY <1>1, <1>2, <1>5
  <2>3. \A x \in 1..n : buf[0 + x - 1] = history[x + 0]
    <3>1. ASSUME NEW x \in 1..n PROVE buf[0 + x - 1] = history[x + 0]
      <4>1. x - 1 \in 0..(next - 1) /\ n - next + (x - 1) + 1 = x /\ 0 + x - 1 = x - 1 /\ x + 0 = x
        BY <1>1, <2>2
      <4>2. QED
        BY <1>2, <4>1
    <3>2. QED
      BY <3>1
  <2>4. n - 0 = n
    BY <1>1
  <2>5. QED
    <3> HIDE DEF n, k, last
    <3>1. Snapshot = last
      BY <1>4, <2>1, <2>2, <2>3, <2>4
    <3>2. QED
      BY <1>3, <3>1 DEF last, n
<1>6. CASE full
  <2>1. Snapshot = upto(next, c) \o upto(0, next)
    BY <1>6 DEF Snapshot
  <2> DEFINE a == upto(next, c)
             b == upto(0, next)
  <2>2. a \in Seq(Samples) /\ Len(a) = c - next /\ \A x \in 1..(c - next) : a[x] = buf[next + x - 1]
    <3>1. c - next \in Nat /\ \A x \in 1..(c - next) : next + x - 1 \in 0..(c - 1)
      BY <1>1
    <3>2. a \in [1..(c - next) -> Samples]
      BY <1>1, <3>1
    <3>3. \A x \in 1..(c - next) : a[x] = buf[next + x - 1]
      OBVIOUS
    <3> HIDE DEF a
    <3>4. QED
      BY <3>1, <3>2, <3>3, TupleIsSeq
  <2>3. b \in Seq(Samples) /\ Len(b) = next /\ \A x \in 1..next : b[x] = buf[0 + x - 1]
    <3>1. next \in Nat /\ next - 0 = next /\ \A x \in 1..next : 0 + x - 1 \in 0..(c - 1)
      BY <1>1
    <3>2. b \in [1..next -> Samples]
      BY <1>1, <3>1
    <3>3. \A x \in 1..next : b[x] = buf[0 + x - 1]
      BY <3>1
    <3> HIDE DEF b
    <3>4. QED
      BY <3>1, <3>2, <3>3, TupleIsSeq
  <2> HIDE DEF a, b
  <2>4. /\ a \o b \in Seq(Samples) /\ Len(a \o b) = c
        /\ \A x \in 1..c : (a \o b)[x] = IF x <= c - next THEN a[x] ELSE b[x - (c - next)]
    <3>1. a \o b \in Seq(Samples) /\ Len(a \o b) = Len(a) + Len(b)
      BY <2>2, <2>3, ConcatProperties
    <3>2. (c - next) + next = c
      BY <1>1
    <3>3. \A x \in 1..(Len(a) + Len(b)) :
            (a \o b)[x] = IF x <= Len(a) THEN a[x] ELSE b[x - Len(a)]
      BY <2>2, <2>3, ConcatProperties
    <3>4. QED
      BY <2>2, <2>3, <3>1, <3>2, <3>3
  <2>5. k = n - c /\ n - k = c /\ n >= c
    BY <1>1, <1>2, <1>6
  <2> HIDE DEF k, n, c
  <2>6. ASSUME NEW x \in 1..c PROVE (a \o b)[x] = history[x + k]
    <3>1. CASE x <= c - next
      <4>1. x \in 1..(c - next) /\ next + x - 1 \in next..(c - 1)
            /\ n - next - c + (next + x - 1) + 1 = x + k
        BY <1>1, <2>5, <2>6, <3>1
      <4>2. QED
        BY <1>2, <1>6, <2>2, <2>4, <2>6, <3>1, <4>1
    <3>2. CASE ~(x <= c - next)
      <4> DEFINE y == x - (c - next)
      <4>1. y \in 1..next /\ 0 + y - 1 \in 0..(next - 1)
            /\ n - next + (0 + y - 1) + 1 = x + k
        BY <1>1, <2>5, <2>6, <3>2
      <4>2. (a \o b)[x] = b[y]
        BY <2>4, <2>6, <3>2
      <4> HIDE DEF y
      <4>3. QED
        BY <1>2, <2>3, <4>1, <4>2
    <3>3. QED
      BY <3>1, <3>2
  <2>7. last \in Seq(Samples) /\ Len(last) = c /\ \A x \in 1..c : last[x] = history[x + k]
    <3>1. last \in Seq(Samples) /\ Len(last) = n - k
      BY <1>1, <1>3, TailIs DEF n, k
    <3> HIDE DEF last
    <3>2. QED
      BY <1>4, <2>5, <3>1
  <2> HIDE DEF last
  <2>8. a \o b = last
    BY <2>4, <2>6, <2>7, SeqEqual
  <2>9. QED
    BY <1>3, <2>1, <2>8 DEF n, c, last, a, b
<1>7. QED
  BY <1>1, <1>5, <1>6

-----------------------------------------------------------------------------
(* What the chart shows, and what rates are quoted.                        *)

\* Where in what is in order the last of it that is not older than b begins.
Climbs(at, n) == /\ at \in [1..n -> Nat]
                 /\ \A i, j \in 1..n : i < j => at[i] <= at[j]
Cut(at, n, b) == Max({0} \cup {i \in 1..n : at[i] < b})

\* In what climbs, what is not older than b is a tail.
LEMMA CutAt ==
  ASSUME NEW n \in Nat, NEW at, Climbs(at, n), NEW b \in Int,
         NEW k, k = Cut(at, n, b)
  PROVE  k \in 0..n /\ {i \in 1..n : at[i] >= b} = (k + 1)..n
<1> USE DEF Climbs, Cut
<1> DEFINE old == {0} \cup {i \in 1..n : at[i] < b}
<1>1. k \in old /\ \A y \in old : y <= k
  <2>1. old \in SUBSET Nat /\ old # {} /\ \A x \in old : x <= n
    OBVIOUS
  <2> HIDE DEF old
  <2>2. QED
    BY <2>1, GreatestNumber DEF old
<1>2. k \in 0..n
  BY <1>1
<1>3. ASSUME NEW i \in 1..n PROVE at[i] >= b <=> i \in (k + 1)..n
  <2>1. CASE i > k
    <3>1. i \notin old
      BY <1>1, <1>2, <2>1
    <3>2. ~(at[i] < b) /\ at[i] \in Nat
      BY <1>3, <3>1
    <3>3. QED
      BY <1>2, <1>3, <2>1, <3>2
  <2>2. CASE i <= k
    <3>1. k \in 1..n /\ at[k] < b
      BY <1>1, <1>2, <1>3, <2>2
    <3>2. at[i] <= at[k] /\ at[i] \in Nat /\ at[k] \in Nat
      <4>1. i = k \/ i < k
        BY <1>2, <1>3, <2>2
      <4>2. at[i] \in Nat /\ at[k] \in Nat
        BY <1>3, <3>1
      <4>3. QED
        BY <1>3, <3>1, <4>1, <4>2
    <3>3. QED
      BY <1>2, <1>3, <2>2, <3>1, <3>2
  <2>3. QED
    BY <1>2, <1>3, <2>1, <2>2
<1>4. {i \in 1..n : at[i] >= b} = (k + 1)..n
  <2> HIDE DEF old
  <2>1. \A i \in (k + 1)..n : i \in 1..n
    BY <1>2
  <2>2. QED
    BY <1>3, <2>1
<1>5. QED
  BY <1>2, <1>4

LEMMA IntervalSize ==
  ASSUME NEW n \in Nat, NEW k \in 0..n
  PROVE  IsFiniteSet((k + 1)..n) /\ Cardinality((k + 1)..n) = n - k
<1>1. /\ IsFiniteSet((k + 1)..n)
      /\ Cardinality((k + 1)..n) = IF k + 1 > n THEN 0 ELSE n - (k + 1) + 1
  BY FS_Interval
<1>2. (IF k + 1 > n THEN 0 ELSE n - (k + 1) + 1) = n - k
  OBVIOUS
<1>3. QED
  BY <1>1, <1>2

Rising(ss, now) == /\ \A i, j \in DOMAIN ss : i < j => ss[i].at <= ss[j].at
                   /\ \A i \in DOMAIN ss : ss[i].at <= now

\* Since counts the samples of the window.
LEMMA SinceCounts ==
  ASSUME NEW ss \in Seq(Samples), NEW t, Rising(ss, t), NEW w \in Nat
  PROVE  Len(Since(ss, w)) = Cardinality({i \in DOMAIN ss : ss[i].at >= Last(ss).at - w})
<1> DEFINE n == Len(ss)
<1>1. /\ n \in Nat /\ DOMAIN ss = 1..n
      /\ \A i \in 1..n : ss[i].at \in Nat
  <2>1. n \in Nat /\ DOMAIN ss = 1..n /\ \A i \in 1..n : ss[i] \in Samples
    OBVIOUS
  <2>2. \A s \in Samples : s.at \in Nat
    BY DEF Samples
  <2>3. QED
    BY <2>1, <2>2
<1>2. CASE ss = <<>>
  <2>1. Since(ss, w) = <<>> /\ DOMAIN ss = {}
    BY <1>2 DEF Since
  <2>2. {i \in DOMAIN ss : ss[i].at >= Last(ss).at - w} = {}
    BY <2>1
  <2>3. QED
    BY <2>1, <2>2, FS_EmptySet
<1>3. CASE ss # <<>>
  <2> DEFINE b == Last(ss).at - w
             k == Max({0} \cup {i \in DOMAIN ss : ss[i].at < b})
             at == [i \in 1..n |-> ss[i].at]
  <2>1. Since(ss, w) = SubSeq(ss, k + 1, n)
    BY <1>3 DEF Since
  <2>2. b \in Int
    <3>1. n \in 1..n /\ Last(ss) = ss[n]
      BY <1>1, <1>3 DEF Last
    <3>2. QED
      BY <1>1, <3>1
  <2>3. Climbs(at, n)
    BY <1>1 DEF Rising, Climbs
  <2>4. k = Cut(at, n, b)
    <3>1. {i \in DOMAIN ss : ss[i].at < b} = {i \in 1..n : at[i] < b}
      BY <1>1
    <3>2. QED
      BY <3>1 DEF Cut
  <2>5. {i \in DOMAIN ss : ss[i].at >= b} = {i \in 1..n : at[i] >= b}
    BY <1>1
  <2> HIDE DEF k, b, at, n
  <2>6. k \in 0..n /\ {i \in 1..n : at[i] >= b} = (k + 1)..n
    BY <1>1, <2>2, <2>3, <2>4, CutAt
  <2>7. Len(Since(ss, w)) = n - k
    BY <2>1, <2>6, TailIs DEF n
  <2>8. Cardinality((k + 1)..n) = n - k
    BY <1>1, <2>6, IntervalSize
  <2>9. QED
    BY <2>5, <2>6, <2>7, <2>8 DEF b
<1>4. QED
  BY <1>2, <1>3

\* HistoryIsLast follows from where the ring has its samples.
LEMMA HistoryShown ==
  ASSUME LedgerTypeOK, RingInv,
         phase # "off" /\ ~stepped => Rising(history, clock)
  PROVE  HistoryIsLast
<1> DEFINE n == Len(history)
<1>1. PICK k \in 0..n : /\ k = Max({0, n - Capacity})
                        /\ Snapshot = SubSeq(history, k + 1, n)
  BY SnapshotIs
<1> DEFINE kept == SubSeq(history, k + 1, n)
<1>2. n \in Nat /\ history \in Seq(Samples) /\ DOMAIN history = 1..n
  BY DEF LedgerTypeOK
<1>3. /\ kept = [x \in 1..(n - k) |-> history[x + k]]
      /\ kept \in Seq(Samples) /\ Len(kept) = n - k
  BY <1>2, TailIs
<1>4. ASSUME Rising(history, clock) PROVE Rising(kept, clock)
  <2>1. DOMAIN kept = 1..(n - k) /\ \A x \in 1..(n - k) : kept[x] = history[x + k]
    BY <1>3
  <2> HIDE DEF kept, n
  <2>2. /\ \A x \in 1..(n - k) : x + k \in 1..n
        /\ \A x, y \in 1..(n - k) : x < y => x + k < y + k
    BY <1>2
  <2>3. QED
    BY <1>2, <1>4, <2>1, <2>2 DEF Rising
<1>5. ASSUME Rising(history, clock), NEW w \in Windows
      PROVE  Mean(kept, w).n = Cardinality({i \in DOMAIN kept : kept[i].at >= Last(kept).at - w})
  <2>1. w \in Nat
    BY Constants, <1>5
  <2>2. Rising(kept, clock)
    BY <1>4, <1>5
  <2>3. Mean(kept, w).n = Len(Since(kept, w))
    BY DEF Mean
  <2> HIDE DEF kept
  <2>4. QED
    BY <1>3, <2>1, <2>2, <2>3, SinceCounts
<1>6. QED
  <2>1. Snapshot = kept
    BY <1>1
  <2>2. CASE phase # "off"
    <3>1. ~stepped => \A w \in Windows :
            Mean(Snapshot, w).n = Cardinality({i \in DOMAIN kept : kept[i].at >= Last(kept).at - w})
      BY <1>5, <2>1, <2>2
    <3>2. QED
      BY <1>1, <2>1, <3>1 DEF HistoryIsLast
  <2>3. CASE phase = "off"
    BY <2>3 DEF HistoryIsLast
  <2>4. QED
    BY <2>2, <2>3

\* A table of sums: what each set of indices adds up to, in whatever order.
Sums(D, w, h) ==
  /\ h \in [SUBSET D -> Nat] /\ h[{}] = 0
  /\ \A S \in SUBSET D : \A y \in S : h[S] = h[S \ {y}] + w[y]

\* One picked in some order is such a table.
Adds(D, c, w, h) == \A S \in SUBSET D :
  h[S] = IF S = {} THEN 0 ELSE h[S \ {c[S]}] + w[c[S]]

\* By the least size of a set whose sum would depend on the order.
LEMMA SumsAnyOrder ==
  ASSUME NEW D, IsFiniteSet(D), NEW w \in [D -> Nat], NEW c, Picks(c, D),
         NEW h, Adds(D, c, w, h), h = [S \in SUBSET D |-> h[S]]
  PROVE  Sums(D, w, h)
<1> DEFINE Right(S) == h[S] \in Nat /\ \A y \in S : h[S] = h[S \ {y}] + w[y]
           Fails == {k \in Nat : \E S \in SUBSET D : Cardinality(S) = k /\ ~Right(S)}
<1>1. \A S \in SUBSET D : IsFiniteSet(S) /\ Cardinality(S) \in Nat
  BY FS_Subset, FS_CardinalityType
<1>2. ASSUME NEW S \in SUBSET D, NEW y \in S
      PROVE  /\ S \ {y} \in SUBSET D /\ w[y] \in Nat
             /\ Cardinality(S \ {y}) = Cardinality(S) - 1
             /\ Cardinality(S) - 1 \in Nat
  <2>1. IsFiniteSet(S) /\ Cardinality(S) \in Nat
    BY <1>1
  <2>2. Cardinality(S \ {y}) = Cardinality(S) - 1
    BY <2>1, FS_RemoveElement
  <2>3. S \ {y} \in SUBSET D /\ w[y] \in Nat
    OBVIOUS
  <2>4. Cardinality(S \ {y}) \in Nat
    BY <1>1, <2>3
  <2>5. QED
    BY <2>2, <2>3, <2>4
<1>3. Fails = {}
  <2>1. SUFFICES ASSUME Fails # {} PROVE FALSE
    OBVIOUS
  <2>2. PICK k \in Fails : \A l \in Fails : k <= l
    <3>1. Fails \in SUBSET Nat
      OBVIOUS
    <3> HIDE DEF Fails
    <3>2. QED
      BY <2>1, <3>1, LeastNumber
  <2>3. PICK S \in SUBSET D : Cardinality(S) = k /\ ~Right(S)
    OBVIOUS
  <2>4. ASSUME NEW y \in S PROVE Right(S \ {y})
    <3>1. S \ {y} \in SUBSET D /\ Cardinality(S \ {y}) = k - 1 /\ k - 1 \in Nat
      BY <1>2, <2>3, <2>4
    <3>2. ~(k <= k - 1)
      BY <3>1
    <3>3. k - 1 \notin Fails
      BY <2>2, <3>2
    <3> HIDE DEF Right
    <3>4. QED
      BY <3>1, <3>3
  <2>5. CASE S = {}
    <3>1. h[S] = 0
      BY <2>5 DEF Adds
    <3>2. \A y \in S : FALSE
      BY <2>5
    <3>3. Right(S)
      BY <3>1, <3>2
    <3>4. QED
      BY <2>3, <3>3
  <2>6. CASE S # {}
    <3> DEFINE x == c[S]
    <3>1. x \in S /\ h[S] = h[S \ {x}] + w[x]
      BY <2>6 DEF Picks, Adds
    <3> HIDE DEF x
    <3>2. h[S \ {x}] \in Nat /\ w[x] \in Nat
      BY <1>2, <2>4, <3>1
    <3>3. h[S] \in Nat
      BY <3>1, <3>2
    <3>4. ASSUME NEW y \in S, y # x PROVE h[S] = h[S \ {y}] + w[y]
      <4>1. y \in S \ {x} /\ x \in S \ {y}
        BY <3>1, <3>4
      <4>2. h[S \ {x}] = h[(S \ {x}) \ {y}] + w[y]
        BY <2>4, <3>1, <4>1
      <4>3. h[S \ {y}] = h[(S \ {y}) \ {x}] + w[x]
        BY <2>4, <4>1
      <4>4. (S \ {x}) \ {y} = (S \ {y}) \ {x}
        OBVIOUS
      <4> DEFINE z == h[(S \ {y}) \ {x}]
      <4>5. z \in Nat
        <5>1. /\ S \ {y} \in SUBSET D /\ IsFiniteSet(S \ {y})
          BY <1>1, <1>2
        <5>2. Cardinality((S \ {y}) \ {x}) = (k - 1) - 1 /\ (k - 1) - 1 \in Nat
              /\ (S \ {y}) \ {x} \in SUBSET D
          BY <1>2, <2>3, <4>1, <5>1
        <5>3. ~(k <= (k - 1) - 1)
          BY <5>2
        <5>4. (k - 1) - 1 \notin Fails
          BY <2>2, <5>3
        <5>5. Right((S \ {y}) \ {x})
          <6> HIDE DEF Right
          <6> QED BY <5>2, <5>4
        <5>6. QED
          BY <5>5
      <4>6. w[y] \in Nat
        BY <1>2, <3>4
      <4> HIDE DEF z
      <4>7. h[S \ {x}] = z + w[y] /\ h[S \ {y}] = z + w[x]
        BY <4>2, <4>3, <4>4 DEF z
      <4>8. QED
        BY <3>1, <3>2, <4>5, <4>6, <4>7
    <3>5. Right(S)
      BY <3>1, <3>3, <3>4
    <3>6. QED
      BY <2>3, <3>5
  <2>7. QED
    BY <2>5, <2>6
<1>4. ASSUME NEW S \in SUBSET D PROVE Right(S)
  <2> HIDE DEF Right
  <2> QED BY <1>1, <1>3
<1>5. h[{}] = 0
  BY DEF Adds
<1>6. QED
  BY <1>4, <1>5 DEF Sums

\* There is one, for any order.
LEMMA CanAdd ==
  ASSUME NEW D, IsFiniteSet(D), NEW w \in [D -> Nat], NEW c, Picks(c, D)
  PROVE  \E h \in [SUBSET D -> Nat] : Adds(D, c, w, h)
<1> DEFINE g == [d \in D |-> [x \in Nat |-> x + w[d]]]
<1>1. Maps(g, D, Nat)
  BY DEF Maps
<1>2. \A d \in D : \A x \in Nat : g[d][x] = x + w[d]
  OBVIOUS
<1> HIDE DEF g
<1>3. Foldable(D, Nat, 0, c, g)
  BY <1>1, FoldTable
<1>4. PICK h \in [SUBSET D -> Nat] : \A S \in SUBSET D :
        h[S] = IF S = {} THEN 0 ELSE g[c[S]][h[S \ {c[S]}]]
  BY <1>3 DEF Foldable
<1>5. ASSUME NEW S \in SUBSET D, S # {}
      PROVE  h[S] = h[S \ {c[S]}] + w[c[S]]
  <2>1. c[S] \in D /\ h[S \ {c[S]}] \in Nat
    BY <1>5 DEF Picks
  <2>2. QED
    BY <1>2, <1>4, <1>5, <2>1
<1>6. Adds(D, c, w, h)
  BY <1>4, <1>5 DEF Adds
<1>7. QED
  BY <1>6

\* The sum over the last indices is the sum over the tail.
Shifted(v, w, m, k) == \A i \in 1..m : v[i] = w[i + k]

LEMMA SumOfTail ==
  ASSUME NEW n \in Nat, NEW k \in 0..n, NEW m \in Nat, m = n - k,
         NEW v, NEW a, NEW A, A = 1..m, Sums(A, v, a),
         NEW w, NEW b, NEW B, B = (k + 1)..n, Sums(B, w, b),
         Shifted(v, w, m, k)
  PROVE  a[A] = b[B]
<1> USE DEF Shifted
<1> DEFINE Good == {i \in 0..m : a[1..i] = b[(k + 1)..(k + i)]}
<1>1. Good \in SUBSET Nat /\ 0 \in Good
  <2>1. 1..0 = {} /\ (k + 1)..(k + 0) = {}
    OBVIOUS
  <2>2. a[1..0] = b[(k + 1)..(k + 0)]
    BY <2>1 DEF Sums
  <2>3. QED
    BY <2>2
<1>2. ASSUME NEW i \in 1..m, i - 1 \in Good PROVE i \in Good
  <2>1. i \in 0..m /\ 1..i \in SUBSET A /\ i \in 1..i /\ (1..i) \ {i} = 1..(i - 1)
    OBVIOUS
  <2>2. /\ (k + 1)..(k + i) \in SUBSET B /\ k + i \in (k + 1)..(k + i)
        /\ ((k + 1)..(k + i)) \ {k + i} = (k + 1)..(k + (i - 1))
    OBVIOUS
  <2>3. a[1..i] = a[1..(i - 1)] + v[i]
    <3> DEFINE S == 1..i
    <3>1. S \in SUBSET A /\ i \in S /\ S \ {i} = 1..(i - 1)
      BY <2>1
    <3> HIDE DEF S
    <3>2. a[S] = a[S \ {i}] + v[i]
      BY <3>1 DEF Sums
    <3>3. QED
      BY <3>1, <3>2 DEF S
  <2>4. b[(k + 1)..(k + i)] = b[(k + 1)..(k + (i - 1))] + w[k + i]
    <3> DEFINE S == (k + 1)..(k + i)
    <3>1. /\ S \in SUBSET B /\ k + i \in S
          /\ S \ {k + i} = (k + 1)..(k + (i - 1))
      BY <2>2
    <3> HIDE DEF S
    <3>2. b[S] = b[S \ {k + i}] + w[k + i]
      BY <3>1 DEF Sums
    <3>3. QED
      BY <3>1, <3>2 DEF S
  <2>5. v[i] = w[k + i]
    <3>1. k + i = i + k
      OBVIOUS
    <3>2. QED
      BY <3>1
  <2>6. QED
    BY <1>2, <2>1, <2>3, <2>4, <2>5
<1>3. m \in Good
  <2> HIDE DEF Good
  <2> QED BY <1>1, <1>2, StepByStep
<1>4. k + m = n
  OBVIOUS
<1>5. QED
  BY <1>3, <1>4

-----------------------------------------------------------------------------
\* What FoldLeft and FoldSet make of a field of a ledger's minutes are such
\* sums.
LEMMA LeftSum ==
  ASSUME NEW ss \in Marked, NEW f \in {"n", "sum"}
  PROVE  \E h : /\ Sums(DOMAIN ss, [i \in DOMAIN ss |-> ss[i][f]], h)
                /\ FoldLeft(LAMBDA x, m : x + m[f], 0, ss) = h[DOMAIN ss]
<1> DEFINE D == DOMAIN ss
           w == [i \in D |-> ss[i][f]]
           c == [S \in SUBSET D |-> Max(S)]
           Table(h) == h = [S \in SUBSET DOMAIN ss |->
                               IF S = {} THEN 0
                               ELSE LET x == Max(S)
                                    IN  h[S \ {x}] + ss[x][f]]
           it == CHOOSE h : Table(h)
<1>1. Len(ss) \in Nat /\ D = 1..Len(ss) /\ \A i \in D : ss[i][f] \in Nat
  BY MarkedIs
<1>2. IsFiniteSet(D) /\ w \in [D -> Nat]
  BY <1>1, FS_Interval
<1>3. Picks(c, D)
  <2>1. ASSUME NEW S \in SUBSET D, S # {} PROVE Max(S) \in S
    <3>1. S \in SUBSET Nat /\ \A x \in S : x <= Len(ss)
      BY <1>1
    <3>2. QED
      BY <1>1, <2>1, <3>1, GreatestNumber
  <2>2. QED
    BY <2>1 DEF Picks
<1>4. \A S \in SUBSET D : c[S] = Max(S)
  OBVIOUS
<1>5. \A i \in D : w[i] = ss[i][f]
  OBVIOUS
<1> HIDE DEF c, w
<1>6. \E h : Table(h)
  <2>1. PICK h \in [SUBSET D -> Nat] : Adds(D, c, w, h)
    BY <1>2, <1>3, CanAdd
  <2>2. ASSUME NEW S \in SUBSET D, S # {}
        PROVE  h[S] = h[S \ {Max(S)}] + ss[Max(S)][f]
    BY <1>3, <1>4, <1>5, <2>1, <2>2 DEF Adds, Picks
  <2>3. h[{}] = 0
    BY <2>1 DEF Adds
  <2>4. Table(h)
    BY <2>2, <2>3
  <2>5. QED
    BY <2>4
<1>7. Table(it)
  BY <1>6
<1>8. FoldLeft(LAMBDA x, m : x + m[f], 0, ss) = it[D]
  BY DEF FoldLeft, MapThenFoldSet
<1> HIDE DEF it
<1>9. Adds(D, c, w, it) /\ it = [S \in SUBSET D |-> it[S]]
  <2>1. ASSUME NEW S \in SUBSET D, S # {} PROVE it[S] = it[S \ {c[S]}] + w[c[S]]
    <3>1. c[S] \in D
      BY <1>3, <2>1 DEF Picks
    <3>2. it[S] = it[S \ {Max(S)}] + ss[Max(S)][f]
      BY <1>7, <2>1
    <3>3. QED
      BY <1>4, <1>5, <3>1, <3>2
  <2>2. it[{}] = 0 /\ it = [S \in SUBSET D |-> it[S]]
    BY <1>7
  <2>3. QED
    BY <2>1, <2>2 DEF Adds
<1>10. Sums(D, w, it)
  BY <1>2, <1>3, <1>9, SumsAnyOrder
<1>11. QED
  BY <1>8, <1>10 DEF w

LEMMA SetSum ==
  ASSUME NEW ss \in Marked, NEW D \in SUBSET DOMAIN ss, NEW f \in {"n", "sum"}
  PROVE  \E h : /\ Sums(D, [i \in D |-> ss[i][f]], h)
                /\ FoldSet(LAMBDA i, x : x + ss[i][f], 0, D) = h[D]
<1> DEFINE w == [i \in D |-> ss[i][f]]
           c == [S \in SUBSET D |-> CHOOSE x \in S : TRUE]
           Table(h) == h = [S \in SUBSET D |->
                               IF S = {} THEN 0
                               ELSE LET x == CHOOSE y \in S : TRUE
                                    IN  h[S \ {x}] + ss[x][f]]
           it == CHOOSE h : Table(h)
<1>1. Len(ss) \in Nat /\ D \in SUBSET (1..Len(ss)) /\ \A i \in D : ss[i][f] \in Nat
  BY MarkedIs
<1>2. IsFiniteSet(D) /\ w \in [D -> Nat]
  <2>1. IsFiniteSet(D)
    BY <1>1, UpTo, FS_Subset
  <2>2. QED
    BY <1>1, <2>1
<1>3. Picks(c, D)
  <2>1. ASSUME NEW S \in SUBSET D, S # {} PROVE (CHOOSE y \in S : TRUE) \in S
    BY <2>1
  <2>2. QED
    BY <2>1 DEF Picks
<1>4. \A S \in SUBSET D : c[S] = (CHOOSE y \in S : TRUE)
  OBVIOUS
<1>5. \A i \in D : w[i] = ss[i][f]
  OBVIOUS
<1> HIDE DEF c, w
<1>6. \E h : Table(h)
  <2>1. PICK h \in [SUBSET D -> Nat] : Adds(D, c, w, h)
    BY <1>2, <1>3, CanAdd
  <2>2. ASSUME NEW S \in SUBSET D, S # {}
        PROVE  h[S] = h[S \ {(CHOOSE y \in S : TRUE)}] + ss[(CHOOSE y \in S : TRUE)][f]
    BY <1>3, <1>4, <1>5, <2>1, <2>2 DEF Adds, Picks
  <2>3. h[{}] = 0
    BY <2>1 DEF Adds
  <2>4. Table(h)
    BY <2>2, <2>3
  <2>5. QED
    BY <2>4
<1>7. Table(it)
  BY <1>6
<1>8. FoldSet(LAMBDA i, x : x + ss[i][f], 0, D) = it[D]
  BY DEF FoldSet, MapThenFoldSet
<1> HIDE DEF it
<1>9. Adds(D, c, w, it) /\ it = [S \in SUBSET D |-> it[S]]
  <2>1. ASSUME NEW S \in SUBSET D, S # {} PROVE it[S] = it[S \ {c[S]}] + w[c[S]]
    <3>1. c[S] \in D
      BY <1>3, <2>1 DEF Picks
    <3>2. it[S] = it[S \ {(CHOOSE y \in S : TRUE)}] + ss[(CHOOSE y \in S : TRUE)][f]
      BY <1>7, <2>1
    <3>3. QED
      BY <1>4, <1>5, <3>1, <3>2
  <2>2. it[{}] = 0 /\ it = [S \in SUBSET D |-> it[S]]
    BY <1>7
  <2>3. QED
    BY <2>1, <2>2 DEF Adds
<1>10. Sums(D, w, it)
  BY <1>2, <1>3, <1>9, SumsAnyOrder
<1>11. QED
  BY <1>8, <1>10 DEF w

\* A rate is of the minutes of its window, each of them once.
LEMMA RatesHonest ==
  ASSUME clock \in Nat, minutes \in Marked,
         phase # "off" /\ ~stepped => Sound(minutes, clock)
  PROVE  RateHonest
<1> SUFFICES ASSUME Sound(minutes, clock), NEW w \in Windows
             PROVE  LET in == {i \in DOMAIN minutes : minutes[i].at \in (clock - w)..clock}
                        r == Rate(w)
                    IN  /\ r.n = FoldSet(LAMBDA i, x : x + minutes[i].n, 0, in)
                        /\ r.sum = FoldSet(LAMBDA i, x : x + minutes[i].sum, 0, in)
                        /\ r.ok => 4 * Cardinality({minutes[i].at : i \in in}) >= w
  BY DEF RateHonest
<1> DEFINE n == Len(minutes)
           b == clock - w
           at == [i \in 1..n |-> minutes[i].at]
           k == Max({0} \cup {i \in DOMAIN minutes : minutes[i].at < b})
           m == n - k
           tail == SubSeq(minutes, k + 1, n)
           in == {i \in DOMAIN minutes : minutes[i].at \in b..clock}
<1>1. /\ n \in Nat /\ DOMAIN minutes = 1..n /\ minutes \in Seq(Minute)
      /\ \A i \in 1..n : minutes[i].at \in Nat /\ minutes[i].at % 2 = 0
  BY MarkedIs
<1>2. b \in Int /\ w \in Nat
  <2>1. w \in Nat
    BY Constants
  <2>2. QED
    BY <2>1
<1>3. Climbs(at, n)
  <2>1. \A i \in 1..n : at[i] = minutes[i].at /\ at[i] \in Nat
    BY <1>1
  <2>2. at \in [1..n -> Nat]
    BY <1>1
  <2>3. ASSUME NEW i \in 1..n, NEW j \in 1..n, i < j PROVE at[i] <= at[j]
    <3>1. minutes[i].at < minutes[j].at
      BY <1>1, <2>3 DEF Sound
    <3>2. QED
      BY <2>1, <2>3, <3>1
  <2> HIDE DEF at, n
  <2>4. QED
    BY <2>2, <2>3 DEF Climbs
<1>4. k = Cut(at, n, b)
  <2>1. {i \in DOMAIN minutes : minutes[i].at < b} = {i \in 1..n : at[i] < b}
    BY <1>1
  <2>2. QED
    BY <2>1 DEF Cut
<1>5. in = {i \in 1..n : at[i] >= b}
  <2>1. \A i \in 1..n : at[i] = minutes[i].at /\ at[i] \in Nat /\ at[i] <= clock
    BY <1>1 DEF Sound
  <2> HIDE DEF at, b, n
  <2>2. \A i \in 1..n : minutes[i].at \in b..clock <=> at[i] >= b
    BY <1>2, <2>1
  <2>3. QED
    BY <1>1, <2>2
<1> DEFINE fn == FoldLeft(LAMBDA x, y : x + y.n, 0, tail)
           fs == FoldLeft(LAMBDA x, y : x + y.sum, 0, tail)
           ok == tail # <<>> /\ 4 * Len(tail) >= w
<1>6. Rate(w).n = fn /\ Rate(w).sum = fs /\ Rate(w).ok = ok
  <2>1. Rate(w) = [ok |-> ok, sum |-> fs, n |-> fn]
    BY DEF Rate
  <2> HIDE DEF fn, fs, ok
  <2>2. QED
    BY <2>1
<1> HIDE DEF at, b, k, n
<1>7. k \in 0..n /\ in = (k + 1)..n
  <2> HIDE DEF in
  <2> QED BY <1>1, <1>2, <1>3, <1>4, <1>5, CutAt
<1> HIDE DEF in
<1>8. m \in Nat /\ \A i \in 1..m : i + k \in 1..n
  BY <1>1, <1>7
<1>9. tail = [x \in 1..m |-> minutes[x + k]] /\ tail \in Seq(Minute) /\ Len(tail) = m
  BY <1>1, <1>7, TailIs DEF n
<1> HIDE DEF tail, m
<1>10. DOMAIN tail = 1..m /\ \A i \in 1..m : tail[i] = minutes[i + k]
  BY <1>9
<1>11. tail \in Marked
  <2>1. \A i \in 1..m : tail[i].at % 2 = 0
    BY <1>1, <1>8, <1>10
  <2>2. QED
    BY <1>9, <1>10, <2>1 DEF Marked, Ledgers, Minute
<1>12. ASSUME NEW f \in {"n", "sum"}
       PROVE  FoldLeft(LAMBDA x, y : x + y[f], 0, tail)
                = FoldSet(LAMBDA i, x : x + minutes[i][f], 0, in)
  <2> DEFINE v == [i \in DOMAIN tail |-> tail[i][f]]
             u == [i \in in |-> minutes[i][f]]
  <2>1. PICK a : /\ Sums(DOMAIN tail, v, a)
                 /\ FoldLeft(LAMBDA x, y : x + y[f], 0, tail) = a[DOMAIN tail]
    BY <1>11, <1>12, LeftSum
  <2>2. PICK c : /\ Sums(in, u, c)
                 /\ FoldSet(LAMBDA i, x : x + minutes[i][f], 0, in) = c[in]
    <3>1. in \in SUBSET DOMAIN minutes
      BY DEF in
    <3>2. QED
      BY <3>1, <1>12, SetSum
  <2>3. ASSUME NEW i \in 1..m PROVE v[i] = u[i + k]
    <3>1. i + k \in in
      BY <1>1, <1>7, <1>8, <2>3
    <3>2. QED
      BY <1>10, <2>3, <3>1
  <2> DEFINE A == DOMAIN tail
  <2>4. A = 1..m
    BY <1>10
  <2>5. a[A] = c[in]
    <3>1. m = n - k
      BY DEF m
    <3>2. Sums(in, u, c)
      BY <2>2
    <3>3. Shifted(v, u, m, k)
      BY <2>3 DEF Shifted
    <3> HIDE DEF v, u, A
    <3>4. Sums(A, v, a)
      BY <2>1 DEF A
    <3>5. n \in Nat /\ k \in 0..n /\ m \in Nat /\ in = (k + 1)..n
      BY <1>1, <1>7, <1>8
    <3>6. QED
      BY <2>4, <3>1, <3>2, <3>3, <3>4, <3>5, SumOfTail
  <2>6. QED
    BY <2>1, <2>2, <2>5
<1>13. FoldLeft(LAMBDA x, y : x + y.n, 0, tail)
         = FoldSet(LAMBDA i, x : x + minutes[i].n, 0, in)
  BY <1>12
<1>14. FoldLeft(LAMBDA x, y : x + y.sum, 0, tail)
         = FoldSet(LAMBDA i, x : x + minutes[i].sum, 0, in)
  BY <1>12
<1>15. Cardinality({minutes[i].at : i \in in}) = m
  <2> DEFINE T == {minutes[i].at : i \in in}
             f == [i \in in |-> minutes[i].at]
  <2>1. IsFiniteSet(in) /\ Cardinality(in) = m
    BY <1>1, <1>7, IntervalSize DEF m
  <2>2. f \in Surjection(in, T)
    BY DEF Surjection
  <2>3. ASSUME NEW i \in in, NEW j \in in, f[i] = f[j], i # j PROVE FALSE
    <3>1. i \in 1..n /\ j \in 1..n
      BY <1>1, <2>3 DEF in
    <3>2. i < j \/ j < i
      BY <2>3, <3>1
    <3>3. minutes[i].at < minutes[j].at \/ minutes[j].at < minutes[i].at
      BY <1>1, <3>1, <3>2 DEF Sound
    <3>4. minutes[i].at \in Nat /\ minutes[j].at \in Nat /\ minutes[i].at = minutes[j].at
      BY <1>1, <2>3, <3>1
    <3>5. QED
      BY <3>3, <3>4
  <2>4. f \in Injection(in, T)
    BY <2>3 DEF Injection, IsInjective
  <2> HIDE DEF f, T
  <2>5. Cardinality(T) = Cardinality(in)
    BY <2>1, <2>2, <2>4, FS_Surjection
  <2>6. QED
    BY <2>1, <2>5 DEF T
<1>16. Rate(w).ok => 4 * m >= w
  <2>1. Rate(w).ok => 4 * Len(tail) >= w
    <3> HIDE DEF fn, fs
    <3> QED BY <1>6
  <2>2. QED
    BY <2>1, <1>9
<1>17. Rate(w).n = FoldSet(LAMBDA i, x : x + minutes[i].n, 0, in)
  BY <1>6, <1>13
<1>18. Rate(w).sum = FoldSet(LAMBDA i, x : x + minutes[i].sum, 0, in)
  BY <1>6, <1>14
<1>19. Rate(w).ok => 4 * Cardinality({minutes[i].at : i \in in}) >= w
  BY <1>15, <1>16
<1>20. QED
  BY <1>17, <1>18, <1>19 DEF in, b

-----------------------------------------------------------------------------
\* Who is writing, and what: the file, until the clock is set back or two
\* Saves meet, goes on to what the ledger has by way of one Save's bytes and
\* its temporary file, each with all of the last day that the one before has.
AtFile(p) == save[p] \in {"write", "rename"}
Has(f, ms) == f # Absent => Covers(f, ms, clock)
SavesInv ==
  /\ \A p, q \in Savers : AtFile(p) /\ AtFile(q) => p = q
  /\ file # Torn /\ tmp # Torn
  /\ \A f \in {file, tmp} : f # Absent => Sound(f, clock)
  /\ \A p \in Savers : Sound(data[p], clock)
  /\ phase # "off" => Has(file, minutes)
  /\ \A p \in Savers :
       /\ save[p] = "write" => Has(file, data[p]) /\ Has(data[p], minutes)
       /\ save[p] = "rename" => tmp # Absent /\ Has(file, tmp) /\ Has(tmp, minutes)

LedgerInv ==
  /\ LedgerTypeOK
  /\ minutes \in Marked /\ \A p \in Savers : data[p] \in Marked
  /\ file \in Marked \cup {Absent, Torn} /\ tmp \in Marked \cup {Absent, Torn}
  /\ RingInv
  /\ phase = "off" => history = <<>> /\ \A p \in Savers : ~AtFile(p)
  /\ phase # "off" /\ ~stepped => Rising(history, clock) /\ Sound(minutes, clock)
  /\ steps = 0 => ~stepped
  /\ steps = 0 /\ ~overlapped => SavesInv

LEMMA LedgerStarts == LedgerInit => LedgerInv
<1> SUFFICES ASSUME LedgerInit PROVE LedgerInv
  OBVIOUS
<1> USE DEF LedgerInit
<1>1. Blank \in Samples
  BY DEF Blank, Samples
<1>2. <<>> \in Marked /\ <<>> \in Ledgers
  BY EmptyLedger DEF Marked
<1>3. LedgerTypeOK
  BY <1>1, <1>2, Constants DEF LedgerTypeOK, NoSave
<1>4. RingInv
  <2>1. Len(history) = 0 /\ \A i \in 0..(next - 1) : FALSE
    OBVIOUS
  <2>2. QED
    BY <2>1 DEF RingInv
<1>5. \A p \in Savers : data[p] = <<>> /\ ~AtFile(p)
  BY DEF NoSave, AtFile
<1>6. SavesInv
  <2>1. \A p \in Savers : save[p] # "write" /\ save[p] # "rename"
    BY <1>5 DEF AtFile
  <2>2. QED
    BY <1>5, <2>1, EmptyLedger, Constants DEF SavesInv
<1>7. QED
  BY <1>2, <1>3, <1>4, <1>5, <1>6 DEF LedgerInv

\* The parts of LedgerInv that a step which leaves what they speak of alone
\* leaves true.
LEMMA RingSame ==
  ASSUME RingInv, UNCHANGED <<ring, history>>
  PROVE  RingInv'
  BY DEF RingInv, ring

LEMMA SaverOf ==
  ASSUME LedgerInv, NEW p \in Savers, AtFile(p)
  PROVE  phase # "off"
  BY DEF LedgerInv

LEMMA MarkedIsLedger == Marked \subseteq Ledgers
  BY DEF Marked

\* The ledger restored has what the file has of the last day.
LEMMA StepStart ==
  ASSUME LedgerInv, Start
  PROVE  LedgerInv'
<1> DEFINE ms == Load(file, clock)
<1>1. clock \in Nat
  BY Constants DEF LedgerInv, LedgerTypeOK
<1>2. /\ ms \in Marked /\ Sound(ms, clock)
      /\ file \in Marked /\ Sound(file, clock) => Covers(file, ms, clock)
  BY <1>1, LoadKeeps DEF LedgerInv
<1>3. /\ minutes' = ms /\ phase = "off" /\ phase' = "mining" /\ history' = history
      /\ clock' = clock /\ stepped' = stepped /\ overlapped' = overlapped /\ steps' = steps
      /\ UNCHANGED <<buf, next, full, file, tmp, save, data, samples, saves>>
      /\ lives' = lives + 1 /\ lives < MaxLives
  BY DEF Start, ring, disk, saving
<1> HIDE DEF ms
<1>4. LedgerTypeOK'
  BY <1>2, <1>3, MarkedIsLedger, Constants DEF LedgerInv, LedgerTypeOK
<1>5. RingInv'
  BY <1>3, RingSame DEF LedgerInv, ring
<1>6. history' = <<>> /\ \A p \in Savers : ~AtFile(p) /\ ~AtFile(p)'
  BY <1>3 DEF LedgerInv, AtFile
<1>7. Rising(history', clock')
  BY <1>6 DEF Rising
<1>8. steps' = 0 /\ ~overlapped' => SavesInv'
  <2> SUFFICES ASSUME steps' = 0, ~overlapped' PROVE SavesInv'
    OBVIOUS
  <2>1. SavesInv
    BY <1>3 DEF LedgerInv
  <2>2. Has(file, ms)
    BY <1>2, <2>1 DEF Has, SavesInv, LedgerInv
  <2>3. Has(file, minutes)'
    BY <1>3, <2>2 DEF Has
  <2>4. \A p \in Savers : save'[p] # "write" /\ save'[p] # "rename"
    BY <1>6 DEF AtFile
  <2>5. QED
    BY <1>3, <1>6, <2>1, <2>3, <2>4 DEF SavesInv
<1>9. QED
  BY <1>2, <1>3, <1>4, <1>5, <1>6, <1>7, <1>8 DEF LedgerInv

LEMMA SamplesAre ==
  ASSUME LedgerTypeOK
  PROVE  /\ history \in Seq(Samples) /\ Len(history) \in Nat
         /\ DOMAIN history = 1..Len(history)
         /\ \A i \in DOMAIN history : history[i].at \in Nat
<1>1. /\ history \in Seq(Samples) /\ Len(history) \in Nat
      /\ DOMAIN history = 1..Len(history)
      /\ \A i \in DOMAIN history : history[i] \in Samples
  BY DEF LedgerTypeOK
<1>2. \A s \in Samples : s.at \in Nat
  BY DEF Samples
<1>3. QED
  BY <1>1, <1>2

\* Time that passes only shortens the last day.
LEMMA StepPasses ==
  ASSUME LedgerInv, Passes
  PROVE  LedgerInv'
<1>1. /\ clock \in Nat /\ clock' = clock + 1 /\ clock < MaxClock
      /\ UNCHANGED <<phase, buf, next, full, minutes, file, tmp, save, data, history,
                     stepped, overlapped, samples, saves, steps, lives>>
  BY Constants DEF Passes, ring, disk, saving, bounds, LedgerInv, LedgerTypeOK
<1>2. LedgerTypeOK'
  BY <1>1, Constants DEF LedgerInv, LedgerTypeOK
<1>3. RingInv'
  BY <1>1, RingSame DEF LedgerInv, ring
<1>4. ASSUME Rising(history, clock) PROVE Rising(history, clock)'
  <2>1. \A i \in DOMAIN history : history[i].at \in Nat
    BY SamplesAre DEF LedgerInv
  <2>2. QED
    BY <1>1, <1>4, <2>1 DEF Rising
<1>5. ASSUME NEW ms \in Marked, Sound(ms, clock) PROVE Sound(ms, clock')
  BY <1>1, <1>5, SoundLater
<1>6. ASSUME NEW a \in Marked \cup {Absent}, NEW b, a # Absent => Covers(a, b, clock)
      PROVE  a # Absent => Covers(a, b, clock')
  BY <1>1, <1>6, CoversLater
<1>7. steps' = 0 /\ ~overlapped' => SavesInv'
  <2> SUFFICES ASSUME steps' = 0, ~overlapped' PROVE SavesInv'
    OBVIOUS
  <2>1. SavesInv
    BY <1>1 DEF LedgerInv
  <2>2. /\ file \in Marked \cup {Absent} /\ tmp \in Marked \cup {Absent}
        /\ minutes \in Marked /\ \A p \in Savers : data[p] \in Marked
    BY <2>1 DEF LedgerInv, SavesInv
  <2>3. \A f \in {file, tmp} : f # Absent => Sound(f, clock')
    BY <1>5, <2>1, <2>2 DEF SavesInv
  <2>4. \A p \in Savers : Sound(data[p], clock')
    BY <1>5, <2>1, <2>2 DEF SavesInv
  <2>5. phase # "off" => Has(file, minutes)'
    BY <1>1, <1>6, <2>1, <2>2 DEF SavesInv, Has
  <2>6. ASSUME NEW p \in Savers, save[p] = "write"
        PROVE  Has(file, data[p])' /\ Has(data[p], minutes)'
    <3>1. Has(file, data[p]) /\ Has(data[p], minutes) /\ data[p] \in Marked
      BY <2>1, <2>2, <2>6 DEF SavesInv
    <3>2. QED
      BY <1>1, <1>6, <2>2, <3>1 DEF Has
  <2>7. ASSUME NEW p \in Savers, save[p] = "rename"
        PROVE  tmp # Absent /\ Has(file, tmp)' /\ Has(tmp, minutes)'
    <3>1. tmp # Absent /\ Has(file, tmp) /\ Has(tmp, minutes)
      BY <2>1, <2>7 DEF SavesInv
    <3>2. QED
      BY <1>1, <1>6, <2>2, <3>1 DEF Has
  <2>8. QED
    BY <1>1, <2>1, <2>3, <2>4, <2>5, <2>6, <2>7 DEF SavesInv, AtFile
<1>8. QED
  BY <1>1, <1>2, <1>3, <1>4, <1>5, <1>7 DEF LedgerInv, AtFile

LEMMA StepSetBack ==
  ASSUME LedgerInv, SetBack
  PROVE  LedgerInv'
<1>1. /\ clock' \in 0..(clock - 1) /\ steps' = steps + 1 /\ steps < MaxSteps
      /\ stepped' = (phase # "off")
      /\ UNCHANGED <<phase, buf, next, full, minutes, file, tmp, save, data, history,
                     overlapped, samples, saves, lives>>
  BY DEF SetBack, ring, disk, saving
<1>2. clock \in Nat /\ clock <= MaxClock /\ steps \in Nat
  BY Constants DEF LedgerInv, LedgerTypeOK
<1>3. clock' \in 0..MaxClock /\ steps' \in 0..MaxSteps /\ steps' # 0
  BY <1>1, <1>2, Constants
<1>4. LedgerTypeOK'
  BY <1>1, <1>3 DEF LedgerInv, LedgerTypeOK
<1>5. RingInv'
  BY <1>1, RingSame DEF LedgerInv, ring
<1>6. QED
  BY <1>1, <1>3, <1>4, <1>5 DEF LedgerInv, AtFile

LEMMA StepStop ==
  ASSUME LedgerInv, Stop
  PROVE  LedgerInv'
<1>1. /\ phase = "mining" /\ phase' = "stopping"
      /\ UNCHANGED <<clock, buf, next, full, minutes, file, tmp, save, data, history,
                     stepped, overlapped, samples, saves, steps, lives>>
  BY DEF Stop, ring, disk, saving, bounds
<1>2. LedgerTypeOK'
  BY <1>1 DEF LedgerInv, LedgerTypeOK
<1>3. RingInv'
  BY <1>1, RingSame DEF LedgerInv, ring
<1>4. steps' = 0 /\ ~overlapped' => SavesInv'
  BY <1>1 DEF LedgerInv, SavesInv, AtFile, Has
<1>5. QED
  BY <1>1, <1>2, <1>3, <1>4 DEF LedgerInv, AtFile

LEMMA StepEnds ==
  ASSUME LedgerInv, Ends
  PROVE  LedgerInv'
<1>1. /\ phase' = "off" /\ history' = <<>> /\ minutes' = <<>> /\ stepped' = FALSE
      /\ next' = 0 /\ full' = FALSE /\ buf' = [i \in 0..(Capacity - 1) |-> Blank]
      /\ save' = [p \in Savers |-> "idle"] /\ data' = [p \in Savers |-> <<>>]
      /\ UNCHANGED <<clock, file, tmp, overlapped, samples, saves, steps, lives>>
  BY DEF Ends, disk, bounds
<1>2. Blank \in Samples
  BY DEF Blank, Samples
<1>3. LedgerTypeOK'
  <2>1. buf' \in [0..(Capacity - 1) -> Samples] /\ next' \in 0..(Capacity - 1)
    BY <1>1, <1>2, Constants
  <2>2. <<>> \in Ledgers /\ <<>> \in Seq(Samples)
    BY EmptyLedger, MarkedIsLedger
  <2>3. /\ save' \in [Savers -> {"idle", "write", "rename", "done"}]
        /\ data' \in [Savers -> Ledgers]
    BY <1>1, <2>2
  <2>4. QED
    BY <1>1, <2>1, <2>2, <2>3 DEF LedgerInv, LedgerTypeOK
<1>4. RingInv'
  <2>1. Len(history') = 0 /\ next' = 0 /\ ~full' /\ \A i \in 0..(0 - 1) : FALSE
    BY <1>1
  <2>2. QED
    BY <2>1 DEF RingInv
<1>5. \A p \in Savers : data'[p] = <<>> /\ save'[p] = "idle"
  BY <1>1
<1>6. steps' = 0 /\ ~overlapped' => SavesInv'
  <2> SUFFICES ASSUME steps' = 0, ~overlapped' PROVE SavesInv'
    OBVIOUS
  <2>1. SavesInv
    BY <1>1 DEF LedgerInv
  <2>2. QED
    BY <1>1, <1>5, <2>1, EmptyLedger DEF SavesInv, AtFile
<1>7. QED
  BY <1>1, <1>3, <1>4, <1>5, <1>6, EmptyLedger DEF LedgerInv, AtFile

\* A sample goes into the ring and into the ledger.
LEMMA StepRecord ==
  ASSUME LedgerInv, record
  PROVE  LedgerInv'
<1>1. PICK rate \in Hashrates :
        /\ RingAdd([at |-> clock, rate |-> rate])
        /\ minutes' = LedgerAdd(minutes, [at |-> clock, rate |-> rate])
        /\ history' = Append(history, [at |-> clock, rate |-> rate])
  BY DEF record
<1> DEFINE s == [at |-> clock, rate |-> rate]
<1>2. /\ phase = "mining" /\ samples' = samples + 1 /\ samples < MaxSamples
      /\ UNCHANGED <<clock, phase, file, tmp, save, data, stepped, overlapped, saves,
                     steps, lives>>
  BY DEF record, disk, saving
<1>3. clock \in Nat /\ s \in Samples /\ s.at = clock
  BY Constants DEF LedgerInv, LedgerTypeOK, Samples
<1>4. RingAdd(s) /\ minutes' = LedgerAdd(minutes, s) /\ history' = Append(history, s)
  BY <1>1
<1> HIDE DEF s
<1>5. /\ minutes' \in Marked /\ Covers(minutes, minutes', clock)
      /\ Sound(minutes, clock) => Sound(minutes', clock)
  BY <1>3, <1>4, AddKeeps DEF LedgerInv
<1>6. /\ RingInv' /\ next' \in 0..(Capacity - 1) /\ full' \in BOOLEAN
      /\ buf' \in [0..(Capacity - 1) -> Samples]
  BY <1>3, <1>4, RingStep DEF LedgerInv
<1>7. history' \in Seq(Samples)
  BY <1>3, <1>4 DEF LedgerInv, LedgerTypeOK
<1>8. LedgerTypeOK'
  BY <1>2, <1>5, <1>6, <1>7, MarkedIsLedger, Constants DEF LedgerInv, LedgerTypeOK
<1>9. ASSUME Rising(history, clock) PROVE Rising(history', clock)
  <2> DEFINE n == Len(history)
  <2>1. /\ n \in Nat /\ DOMAIN history = 1..n /\ \A i \in 1..n : history[i].at \in Nat
    BY SamplesAre DEF LedgerInv
  <2>2. /\ DOMAIN history' = 1..(n + 1) /\ history'[n + 1] = s
        /\ \A i \in 1..n : history'[i] = history[i]
    BY <1>3, <1>4, SamplesAre DEF LedgerInv
  <2> HIDE DEF n
  <2>3. ASSUME NEW i \in 1..(n + 1) PROVE history'[i].at <= clock /\ history'[i].at \in Nat
    <3>1. i \in 1..n \/ i = n + 1
      BY <2>1, <2>3
    <3>2. QED
      BY <1>3, <1>9, <2>1, <2>2, <3>1 DEF Rising
  <2>4. ASSUME NEW i \in 1..(n + 1), NEW j \in 1..(n + 1), i < j
        PROVE  history'[i].at <= history'[j].at
    <3>1. i \in 1..n
      BY <2>1, <2>4
    <3>2. CASE j = n + 1
      BY <1>3, <2>2, <2>3, <3>2
    <3>3. CASE j # n + 1
      <4>1. j \in 1..n
        BY <2>1, <3>3
      <4>2. QED
        BY <1>9, <2>1, <2>2, <2>4, <3>1, <4>1 DEF Rising
    <3>4. QED
      BY <3>2, <3>3
  <2>5. QED
    BY <2>2, <2>3, <2>4 DEF Rising
<1>10. ASSUME NEW a \in Marked \cup {Absent}, Has(a, minutes) PROVE Has(a, minutes')
  BY <1>3, <1>5, <1>10, CoversAll DEF Has, LedgerInv
<1>11. steps' = 0 /\ ~overlapped' => SavesInv'
  <2> SUFFICES ASSUME steps' = 0, ~overlapped' PROVE SavesInv'
    OBVIOUS
  <2>1. SavesInv
    BY <1>2 DEF LedgerInv
  <2>2. /\ file \in Marked \cup {Absent} /\ tmp \in Marked \cup {Absent}
        /\ \A p \in Savers : data[p] \in Marked
    BY <2>1 DEF LedgerInv, SavesInv
  <2>3. phase # "off" => Has(file, minutes')
    BY <1>10, <2>1, <2>2 DEF SavesInv
  <2>4. \A p \in Savers : save[p] = "write" => Has(file, data[p]) /\ Has(data[p], minutes')
    BY <1>10, <2>1, <2>2 DEF SavesInv
  <2>5. \A p \in Savers : save[p] = "rename" =>
                            tmp # Absent /\ Has(file, tmp) /\ Has(tmp, minutes')
    BY <1>10, <2>1, <2>2 DEF SavesInv
  <2>6. QED
    BY <1>2, <2>1, <2>3, <2>4, <2>5 DEF SavesInv, AtFile, Has
<1>12. QED
  BY <1>2, <1>5, <1>6, <1>8, <1>9, <1>11 DEF LedgerInv, AtFile

\* The bytes of a Save that has the file to itself are the ledger.
LEMMA StepSaveBegins ==
  ASSUME LedgerInv, NEW p \in Savers, SaveBegins(p)
  PROVE  LedgerInv'
<1>1. /\ phase # "off" /\ save[p] = "idle" /\ save' = [save EXCEPT ![p] = "write"]
      /\ saves' = saves + 1 /\ saves < MaxSaves
      /\ data' = [data EXCEPT ![p] = minutes]
      /\ overlapped' = (overlapped \/ \E q \in Savers \ {p} : save[q] \in {"write", "rename"})
      /\ UNCHANGED <<clock, phase, buf, next, full, minutes, file, tmp, history, stepped,
                     samples, steps, lives>>
  BY DEF SaveBegins, Goes, ring, disk
<1>2. minutes \in Marked /\ minutes \in Ledgers
  BY MarkedIsLedger DEF LedgerInv
<1>3. LedgerTypeOK'
  <2>1. /\ save' \in [Savers -> {"idle", "write", "rename", "done"}]
        /\ data' \in [Savers -> Ledgers]
    BY <1>1, <1>2 DEF LedgerInv, LedgerTypeOK
  <2>2. saves' \in 0..MaxSaves
    BY <1>1, Constants DEF LedgerInv, LedgerTypeOK
  <2>3. overlapped' \in BOOLEAN
    BY <1>1
  <2>4. QED
    BY <1>1, <2>1, <2>2, <2>3 DEF LedgerInv, LedgerTypeOK
<1>4. RingInv'
  BY <1>1, RingSame DEF LedgerInv, ring
<1>5. /\ save'[p] = "write" /\ data'[p] = minutes
      /\ \A q \in Savers : q # p => save'[q] = save[q] /\ data'[q] = data[q]
  BY <1>1 DEF LedgerInv, LedgerTypeOK
<1>6. \A q \in Savers : data'[q] \in Marked
  BY <1>2, <1>5 DEF LedgerInv
<1>7. steps' = 0 /\ ~overlapped' => SavesInv'
  <2> SUFFICES ASSUME steps' = 0, ~overlapped' PROVE SavesInv'
    OBVIOUS
  <2>1. SavesInv /\ ~stepped
    BY <1>1 DEF LedgerInv
  <2>2. \A q \in Savers : q # p => save'[q] # "write" /\ save'[q] # "rename"
    BY <1>1, <1>5
  <2>3. Sound(minutes, clock) /\ Has(file, minutes)
    BY <1>1, <2>1 DEF LedgerInv, SavesInv
  <2>4. Has(minutes, minutes)
    <3>1. clock \in Nat
      BY Constants DEF LedgerInv, LedgerTypeOK
    <3>2. QED
      BY <1>2, <3>1, CoversItself DEF Has
  <2>5. \A q \in Savers : Sound(data'[q], clock)
    BY <1>5, <2>1, <2>3 DEF SavesInv
  <2>6. \A q, r \in Savers : AtFile(q)' /\ AtFile(r)' => q = r
    BY <2>2 DEF AtFile
  <2>7. QED
    BY <1>1, <1>5, <2>1, <2>2, <2>3, <2>4, <2>5, <2>6 DEF SavesInv, Has
<1>8. QED
  BY <1>1, <1>2, <1>3, <1>4, <1>6, <1>7 DEF LedgerInv

\* What is written is what was read under the lock.
LEMMA StepTmpWritten ==
  ASSUME LedgerInv, NEW p \in Savers, TmpWritten(p)
  PROVE  LedgerInv'
<1>1. /\ save[p] = "write" /\ save' = [save EXCEPT ![p] = "rename"]
      /\ tmp' \in {data[p]} \cup IF overlapped THEN {Torn} ELSE {}
      /\ data' = [data EXCEPT ![p] = <<>>]
      /\ UNCHANGED <<clock, phase, buf, next, full, minutes, file, history, stepped,
                     overlapped, samples, saves, steps, lives>>
  BY DEF TmpWritten, Goes, ring, bounds
<1>2. /\ <<>> \in Marked /\ <<>> \in Ledgers /\ data[p] \in Marked /\ data[p] \in Ledgers
      /\ phase # "off"
  BY <1>1, EmptyLedger, MarkedIsLedger, SaverOf DEF LedgerInv, AtFile
<1>3. tmp' \in Marked \cup {Absent, Torn} /\ tmp' \in Ledgers \cup {Absent, Torn}
  BY <1>1, <1>2
<1>4. LedgerTypeOK'
  <2>1. /\ save' \in [Savers -> {"idle", "write", "rename", "done"}]
        /\ data' \in [Savers -> Ledgers]
    BY <1>1, <1>2 DEF LedgerInv, LedgerTypeOK
  <2>2. QED
    BY <1>1, <1>3, <2>1 DEF LedgerInv, LedgerTypeOK
<1>5. RingInv'
  BY <1>1, RingSame DEF LedgerInv, ring
<1>6. /\ save'[p] = "rename" /\ data'[p] = <<>>
      /\ \A q \in Savers : q # p => save'[q] = save[q] /\ data'[q] = data[q]
  BY <1>1 DEF LedgerInv, LedgerTypeOK
<1>7. \A q \in Savers : data'[q] \in Marked
  BY <1>2, <1>6 DEF LedgerInv
<1>8. steps' = 0 /\ ~overlapped' => SavesInv'
  <2> SUFFICES ASSUME steps' = 0, ~overlapped' PROVE SavesInv'
    OBVIOUS
  <2>1. SavesInv
    BY <1>1 DEF LedgerInv
  <2>2. \A q \in Savers : q # p => save'[q] # "write" /\ save'[q] # "rename"
    BY <1>1, <1>6, <2>1 DEF SavesInv, AtFile
  <2>3. tmp' = data[p]
    BY <1>1
  <2>4. tmp' # Absent /\ tmp' # Torn /\ Sound(tmp', clock)
    BY <1>2, <2>1, <2>3, Constants DEF SavesInv
  <2>5. Has(file, data[p]) /\ Has(data[p], minutes)
    BY <1>1, <2>1 DEF SavesInv
  <2>6. \A q \in Savers : Sound(data'[q], clock)
    BY <1>6, <2>1, EmptyLedger DEF SavesInv
  <2>7. \A q, r \in Savers : AtFile(q)' /\ AtFile(r)' => q = r
    BY <2>2 DEF AtFile
  <2>8. QED
    BY <1>1, <1>6, <2>1, <2>2, <2>3, <2>4, <2>5, <2>6, <2>7 DEF SavesInv, Has
<1>9. QED
  BY <1>1, <1>2, <1>3, <1>4, <1>5, <1>7, <1>8 DEF LedgerInv

\* The rename puts on file what was written, and loses nothing.
LEMMA StepRenamed ==
  ASSUME LedgerInv, NEW p \in Savers, Renamed(p)
  PROVE  /\ LedgerInv'
         /\ steps' = 0 /\ ~overlapped' => Has(file, file')
<1> DEFINE to == IF p = "timer" THEN "idle" ELSE "done"
<1>1. /\ save[p] = "rename" /\ save' = [save EXCEPT ![p] = to]
      /\ UNCHANGED <<clock, phase, buf, next, full, minutes, data, history, stepped,
                     overlapped, samples, saves, steps, lives>>
  BY DEF Renamed, Goes, ring, bounds
<1>2. \/ tmp = Absent /\ file' = file /\ tmp' = tmp
      \/ /\ tmp # Absent /\ tmp' = Absent
         /\ file' \in {tmp} \cup IF overlapped THEN {Torn} ELSE {}
  BY DEF Renamed, disk
<1>3. phase # "off"
  BY <1>1, SaverOf DEF AtFile
<1>4. file' \in Marked \cup {Absent, Torn} /\ tmp' \in Marked \cup {Absent, Torn}
  BY <1>2 DEF LedgerInv
<1>5. LedgerTypeOK'
  <2>1. save' \in [Savers -> {"idle", "write", "rename", "done"}]
    BY <1>1 DEF LedgerInv, LedgerTypeOK
  <2>2. QED
    BY <1>1, <1>4, <2>1, MarkedIsLedger DEF LedgerInv, LedgerTypeOK
<1>6. RingInv'
  BY <1>1, RingSame DEF LedgerInv, ring
<1>7. /\ save'[p] \notin {"write", "rename"}
      /\ \A q \in Savers : q # p => save'[q] = save[q]
  BY <1>1 DEF LedgerInv, LedgerTypeOK
<1>8. ASSUME steps' = 0, ~overlapped' PROVE SavesInv' /\ Has(file, file')
  <2>1. SavesInv
    BY <1>1, <1>8 DEF LedgerInv
  <2>2. \A q \in Savers : save'[q] # "write" /\ save'[q] # "rename"
    BY <1>1, <1>7, <2>1 DEF SavesInv, AtFile
  <2>3. tmp # Absent /\ Has(file, tmp) /\ Has(tmp, minutes)
    BY <1>1, <2>1 DEF SavesInv
  <2>4. file' = tmp /\ tmp' = Absent
    BY <1>1, <1>2, <1>8, <2>3
  <2>5. \A q, r \in Savers : AtFile(q)' /\ AtFile(r)' => q = r
    BY <2>2 DEF AtFile
  <2>6. SavesInv'
    BY <1>1, <2>1, <2>2, <2>3, <2>4, <2>5, Constants DEF SavesInv, Has
  <2>7. QED
    BY <2>3, <2>4, <2>6
<1>9. LedgerInv'
  BY <1>1, <1>3, <1>4, <1>5, <1>6, <1>8 DEF LedgerInv
<1>10. QED
  BY <1>8, <1>9

LEMMA StepSaveFails ==
  ASSUME LedgerInv, NEW p \in Savers, SaveFails(p)
  PROVE  LedgerInv'
<1> DEFINE to == IF p = "timer" THEN "idle" ELSE "done"
<1>1. /\ save[p] = "write" /\ save' = [save EXCEPT ![p] = to]
      /\ data' = [data EXCEPT ![p] = <<>>]
      /\ UNCHANGED <<clock, phase, buf, next, full, minutes, file, tmp, history, stepped,
                     overlapped, samples, saves, steps, lives>>
  BY DEF SaveFails, Goes, ring, disk, bounds
<1>2. <<>> \in Marked /\ <<>> \in Ledgers /\ phase # "off"
  BY <1>1, EmptyLedger, MarkedIsLedger, SaverOf DEF AtFile
<1>3. LedgerTypeOK'
  <2>1. /\ save' \in [Savers -> {"idle", "write", "rename", "done"}]
        /\ data' \in [Savers -> Ledgers]
    BY <1>1, <1>2 DEF LedgerInv, LedgerTypeOK
  <2>2. QED
    BY <1>1, <2>1 DEF LedgerInv, LedgerTypeOK
<1>4. RingInv'
  BY <1>1, RingSame DEF LedgerInv, ring
<1>5. /\ save'[p] \notin {"write", "rename"} /\ data'[p] = <<>>
      /\ \A q \in Savers : q # p => save'[q] = save[q] /\ data'[q] = data[q]
  BY <1>1 DEF LedgerInv, LedgerTypeOK
<1>6. \A q \in Savers : data'[q] \in Marked
  BY <1>2, <1>5 DEF LedgerInv
<1>7. steps' = 0 /\ ~overlapped' => SavesInv'
  <2> SUFFICES ASSUME steps' = 0, ~overlapped' PROVE SavesInv'
    OBVIOUS
  <2>1. SavesInv
    BY <1>1 DEF LedgerInv
  <2>2. \A q \in Savers : save'[q] # "write" /\ save'[q] # "rename"
    BY <1>1, <1>5, <2>1 DEF SavesInv, AtFile
  <2>3. \A q \in Savers : Sound(data'[q], clock)
    BY <1>5, <2>1, EmptyLedger DEF SavesInv
  <2>4. \A q, r \in Savers : AtFile(q)' /\ AtFile(r)' => q = r
    BY <2>2 DEF AtFile
  <2>5. QED
    BY <1>1, <2>1, <2>2, <2>3, <2>4 DEF SavesInv, Has
<1>8. QED
  BY <1>1, <1>2, <1>3, <1>4, <1>6, <1>7 DEF LedgerInv

LEMMA LedgerStep == LedgerInv /\ [LedgerNext]_ledgerVars => LedgerInv'
<1> SUFFICES ASSUME LedgerInv, [LedgerNext]_ledgerVars PROVE LedgerInv'
  OBVIOUS
<1>1. CASE UNCHANGED ledgerVars
  <2>1. UNCHANGED <<clock, phase, buf, next, full, minutes, file, tmp, save, data, history,
                    stepped, overlapped, samples, saves, steps, lives>>
    BY <1>1 DEF ledgerVars, ring, disk, saving, bounds
  <2>2. LedgerTypeOK' /\ RingInv'
    BY <2>1, RingSame DEF LedgerInv, LedgerTypeOK, ring
  <2>3. SavesInv => SavesInv'
    BY <2>1 DEF SavesInv, AtFile, Has
  <2>4. QED
    BY <2>1, <2>2, <2>3 DEF LedgerInv, AtFile
<1>2. CASE LedgerNext
  BY <1>2, StepStart, StepRecord, StepPasses, StepSetBack, StepStop, StepEnds,
     StepSaveBegins, StepTmpWritten, StepRenamed, StepSaveFails DEF LedgerNext
<1>3. QED
  BY <1>1, <1>2

\* What the invariant says of every state.
LEMMA LedgerInvSafe == LedgerInv => LedgerSafe
<1> SUFFICES ASSUME LedgerInv PROVE LedgerSafe
  OBVIOUS
<1>1. LedgerTypeOK /\ clock \in Nat
  BY Constants DEF LedgerInv, LedgerTypeOK
<1>2. HistoryIsLast
  BY <1>1, HistoryShown DEF LedgerInv
<1>3. RateHonest
  BY <1>1, RatesHonest DEF LedgerInv
<1>4. QED
  BY <1>1, <1>2, <1>3 DEF LedgerSafe

\* In every state the chart shows the last samples of this life, and a rate
\* that is quoted is the mean of what is kept of distinct minutes of its
\* window, whatever was on file (stats.Ring, stats.Ledger).
THEOREM LedgerIsSafe == LedgerSpec => []LedgerSafe
<1>1. LedgerInit => LedgerInv
  BY LedgerStarts
<1>2. LedgerInv /\ [LedgerNext]_ledgerVars => LedgerInv'
  BY LedgerStep
<1>3. LedgerInv => LedgerSafe
  BY LedgerInvSafe
<1>4. QED
  BY <1>1, <1>2, <1>3, PTL DEF LedgerSpec

\* The file goes without nothing it held of the last day, however the program
\* ends and starts again (Ledger.Save, Ledger.Load), until the clock is set
\* back or two Saves meet.
THEOREM LedgerFileKeeps == LedgerSpec => FileKeeps
<1>1. ASSUME LedgerInv, [LedgerNext]_ledgerVars, steps' = 0, ~overlapped'
      PROVE  steps = 0 /\ ~overlapped /\ Has(file, file')
  <2>1. steps = 0
    <3>1. steps \in Nat /\ (steps' = steps \/ steps' = steps + 1)
      BY <1>1, Constants DEF LedgerInv, LedgerTypeOK, LedgerNext, Start, record, Passes, SetBack,
         Stop, Ends, SaveBegins, TmpWritten, Renamed, SaveFails, ledgerVars, bounds
    <3>2. QED
      BY <1>1, <3>1
  <2>2. ~overlapped
    BY <1>1 DEF LedgerNext, Start, record, Passes, SetBack,
       Stop, Ends, SaveBegins, TmpWritten, Renamed, SaveFails, ledgerVars, bounds
  <2>3. CASE \E p \in Savers : Renamed(p)
    <3>1. PICK p \in Savers : Renamed(p)
      BY <2>3
    <3>2. steps' = 0 /\ ~overlapped' => Has(file, file')
      BY <1>1, <3>1, StepRenamed
    <3>3. QED
      BY <1>1, <2>1, <2>2, <3>2
  <2>4. CASE ~ \E p \in Savers : Renamed(p)
    <3>1. file' = file
      BY <1>1, <2>4 DEF LedgerNext, Start, record, Passes, SetBack,
         Stop, Ends, SaveBegins, TmpWritten, SaveFails, ledgerVars, disk
    <3>2. file \in Marked \cup {Absent} /\ clock \in Nat
      BY <1>1, <2>1, <2>2, Constants DEF LedgerInv, LedgerTypeOK, SavesInv
    <3>3. QED
      <4>1. file # Absent => Covers(file, file, clock)
        BY <3>2, CoversItself
      <4>2. Has(file, file)
        BY <4>1 DEF Has
      <4>3. QED
        BY <2>1, <2>2, <3>1, <4>2
  <2>5. QED
    BY <2>1, <2>2, <2>3, <2>4
<1>2. ASSUME LedgerInv, LedgerInv', [LedgerNext]_ledgerVars
      PROVE  [steps' = 0 /\ ~overlapped' /\ file # Absent =>
                /\ file \in Ledgers /\ file' \in Ledgers
                /\ \A i \in DOMAIN file : file[i].at >= clock - LedgerSpan =>
                     \E j \in DOMAIN file' : /\ file'[j].at = file[i].at
                                             /\ file'[j].n >= file[i].n
                                             /\ file'[j].sum >= file[i].sum]_ledgerVars
  <2> SUFFICES ASSUME steps' = 0, ~overlapped', file # Absent
               PROVE  file \in Ledgers /\ file' \in Ledgers /\ Covers(file, file', clock)
    BY DEF Covers
  <2>1. steps = 0 /\ ~overlapped /\ Has(file, file')
    BY <1>1, <1>2
  <2>2. SavesInv /\ SavesInv'
    BY <1>2, <2>1 DEF LedgerInv
  <2>3. file # Torn /\ file' # Torn
    BY <2>2 DEF SavesInv
  <2>4. file' # Absent
    BY <1>2, <2>1, <2>2, StepRenamed DEF LedgerNext, Start, record, Passes, SetBack,
       Stop, Ends, SaveBegins, TmpWritten, Renamed, SaveFails, ledgerVars, disk, SavesInv
  <2>5. QED
    BY <1>2, <2>1, <2>3, <2>4, MarkedIsLedger DEF LedgerInv, Has
<1>3. QED
  BY <1>1, <1>2, LedgerStarts, LedgerStep, PTL DEF LedgerSpec, FileKeeps
=============================================================================
