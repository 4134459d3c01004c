------------------------------ MODULE MinFacts ------------------------------
(***************************************************************************)
(* What Min and Max of the community modules return, for the proofs that   *)
(* meet them, and induction up to a number, over a set: what is not in it  *)
(* has a least element.                                                    *)
(***************************************************************************)
EXTENDS Integers, FiniteSetsExt, TLAPS, WellFoundedInduction

\* A set of numbers that is not empty has a least element.
LEMMA MinMember ==
  ASSUME NEW S \in SUBSET Nat, S # {}
  PROVE  Min(S) \in S /\ \A k \in S : Min(S) <= k
<1> DEFINE R == {ss \in Nat \X Nat : ss[1] < ss[2]}
<1>1. IsWellFoundedOn(R, Nat)
  BY NatLessThanWellFounded, Zenon DEF OpToRel
<1>2. \A j, k \in Nat : j < k => <<j, k>> \in R
  <2>1. TAKE j, k \in Nat
  <2>2. HAVE j < k
  <2> DEFINE p == <<j, k>>
  <2>3. p \in Nat \X Nat /\ p[1] < p[2]
    BY <2>2
  <2>4. QED
    BY <2>3
<1> HIDE DEF R
<1>3. PICK m \in S : \A k \in S : ~ (<<k, m>> \in R)
  BY <1>1, WFMin
<1>4. ASSUME NEW k \in S
      PROVE  m <= k
  <2>1. m \in Nat /\ k \in Nat
    OBVIOUS
  <2>2. ~ (k < m)
    BY <1>2, <1>3, <2>1, Zenon
  <2>3. QED
    BY <2>1, <2>2
<1>5. QED
  BY <1>4 DEF Min

\* The smaller one of two numbers, without looking for it.
LEMMA MinOfTwo ==
  ASSUME NEW a \in Int, NEW b \in Int
  PROVE  Min({a, b}) \in Int /\ Min({a, b}) <= a /\ Min({a, b}) <= b
<1> DEFINE IsMin(x) == \A y \in {a, b} : x <= y
<1>1. \E x \in {a, b} : IsMin(x)
  <2>1. CASE a <= b
    BY <2>1
  <2>2. CASE b <= a
    BY <2>2
  <2>3. QED
    BY <2>1, <2>2
<1>2. IsMin(CHOOSE x \in {a, b} : IsMin(x))
  BY <1>1
<1>3. QED
  BY <1>2 DEF Min

\* An element that none exceeds is the maximum.
LEMMA MaxIs ==
  ASSUME NEW S \in SUBSET Int, NEW m \in S, \A x \in S : x <= m
  PROVE  Max(S) = m
<1> DEFINE IsMax(y) == \A x \in S : y >= x
           c == CHOOSE y \in S : IsMax(y)
<1>1. m >= m /\ IsMax(m)
  OBVIOUS
<1>2. IsMax(c) /\ c \in S
  BY <1>1
<1>3. Max(S) = c
  BY DEF Max
<1> HIDE DEF c
<1>4. QED
  BY <1>2, <1>3

\* A set with 0 that has every number up to n whose predecessor it has.
LEMMA InductionUpTo ==
  ASSUME NEW n \in Nat, NEW P,
         0 \in P, \A k \in 1..n : k - 1 \in P => k \in P
  PROVE  \A k \in 0..n : k \in P
<1> DEFINE S == {k \in 0..n : k \notin P}
<1>1. SUFFICES ASSUME S # {} PROVE FALSE
  BY <1>1, Zenon
<1>2. S \in SUBSET Nat
  OBVIOUS
<1>3. PICK k \in S : \A j \in S : k <= j
  BY <1>1, <1>2, MinMember, Zenon
<1>4. k \in 0..n /\ k \notin P
  BY <1>3, Zenon
<1>5. k # 0
  BY <1>4
<1>6. k \in 1..n /\ k - 1 \in 0..n /\ ~ (k <= k - 1)
  BY <1>4, <1>5
<1>7. k - 1 \in P
  BY <1>3, <1>6, Zenon
<1>8. QED
  BY <1>4, <1>6, <1>7, Zenon
=============================================================================
