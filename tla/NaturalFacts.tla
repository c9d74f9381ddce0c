---------------------------- MODULE NaturalFacts ----------------------------
(***************************************************************************)
(* Least numbers and induction, stated with sets: the provers instantiate  *)
(* a set where they could not instantiate a predicate; and how the number  *)
(* of members of a set follows one of them.                                *)
(***************************************************************************)
EXTENDS Integers, WellFoundedInduction, FiniteSetTheorems, TLAPS

LEMMA LessIsWellFounded ==
  \E R : IsWellFoundedOn(R, Nat) /\ \A x, y \in Nat : y < x => <<y, x>> \in R
<1> DEFINE R == OpToRel(<, Nat)
<1>1. IsWellFoundedOn(R, Nat)
  BY NatLessThanWellFounded, Zenon
<1>2. \A x, y \in Nat : y < x => <<y, x>> \in R
  BY DEF OpToRel
<1> HIDE DEF R
<1> QED BY <1>1, <1>2

\* A set of naturals that is not empty has a least element.
LEMMA LeastNumber ==
  ASSUME NEW T \in SUBSET Nat, T # {}
  PROVE  \E x \in T : \A y \in T : x <= y
<1>1. PICK R : IsWellFoundedOn(R, Nat) /\ \A x, y \in Nat : y < x => <<y, x>> \in R
  BY LessIsWellFounded
<1>2. T \subseteq Nat
  OBVIOUS
<1>3. PICK x \in T : \A y \in T : ~(<<y, x>> \in R)
  BY <1>1, <1>2, WFMin
<1>4. ASSUME NEW y \in T PROVE x <= y
  <2>1. x \in Nat /\ y \in Nat /\ ~(y < x)
    BY <1>1, <1>3
  <2> QED BY <2>1
<1> QED BY <1>4

\* A set that has 0, and the successor of each number in it, has every number.
LEMMA InductionBySet ==
  ASSUME NEW S, 0 \in S, \A n \in Nat : n \in S => n + 1 \in S
  PROVE  Nat \subseteq S
<1> SUFFICES ASSUME Nat \ S # {} PROVE FALSE
  OBVIOUS
<1>1. PICK x \in Nat \ S : \A y \in Nat \ S : x <= y
  <2>1. Nat \ S \in SUBSET Nat
    OBVIOUS
  <2> QED BY <2>1, LeastNumber
<1>2. x # 0 /\ x - 1 \in Nat /\ x - 1 + 1 = x
  BY <1>1
<1>3. x - 1 \in S
  BY <1>1, <1>2
<1> QED BY <1>1, <1>2, <1>3

\* A function defined by recursion on 0..n exists: each value follows from the one before.
Iterations(S, n, base, g) ==
  {f \in [0..n -> S] : f[0] = base /\ \A k \in 1..n : f[k] = g[k][f[k - 1]]}

LEMMA Iterates ==
  ASSUME NEW S, NEW n \in Nat, NEW base \in S, NEW g \in [1..n -> [S -> S]]
  PROVE  Iterations(S, n, base, g) # {}
<1> DEFINE Upto(m) == \E f \in [0..m -> S] : f[0] = base /\ \A k \in 1..m : f[k] = g[k][f[k - 1]]
           T       == {m \in Nat : m <= n => Upto(m)}
<1>1. 0 \in T
  <2> DEFINE f == [k \in 0..0 |-> base]
  <2>1. f \in [0..0 -> S] /\ f[0] = base /\ \A k \in 1..0 : f[k] = g[k][f[k - 1]]
    OBVIOUS
  <2> HIDE DEF f
  <2> QED BY <2>1
<1>2. ASSUME NEW m \in Nat, m \in T PROVE m + 1 \in T
  <2> SUFFICES ASSUME m + 1 <= n PROVE Upto(m + 1)
    OBVIOUS
  <2>1. m <= n /\ m + 1 \in 1..n
    OBVIOUS
  <2>2. PICK f \in [0..m -> S] : f[0] = base /\ \A k \in 1..m : f[k] = g[k][f[k - 1]]
    BY <1>2, <2>1
  <2> DEFINE last == g[m + 1][f[m]]
             h    == [k \in 0..(m + 1) |-> IF k = m + 1 THEN last ELSE f[k]]
  <2>3. last \in S
    <3>1. f[m] \in S
      BY <2>2
    <3>2. g[m + 1] \in [S -> S]
      BY <2>1
    <3> QED BY <3>1, <3>2
  <2>4. h \in [0..(m + 1) -> S]
    <3>1. \A k \in 0..(m + 1) : k # m + 1 => k \in 0..m
      OBVIOUS
    <3> HIDE DEF last
    <3> QED BY <2>2, <2>3, <3>1
  <2>5. h[0] = base
    BY <2>2
  <2>6. ASSUME NEW k \in 1..(m + 1) PROVE h[k] = g[k][h[k - 1]]
    <3>1. k - 1 \in 0..m /\ k - 1 # m + 1
      OBVIOUS
    <3>2. h[k - 1] = f[k - 1]
      BY <3>1
    <3>3. CASE k = m + 1
      <4>1. k - 1 = m /\ k \in 0..(m + 1)
        BY <3>3
      <4>2. h[k] = last
        BY <3>3, <4>1
      <4>3. last = g[k][h[k - 1]]
        BY <3>2, <3>3, <4>1
      <4> QED BY <4>2, <4>3
    <3>4. CASE k # m + 1
      <4>1. k \in 1..m /\ k \in 0..(m + 1)
        BY <3>4
      <4>2. h[k] = f[k]
        BY <3>4, <4>1
      <4> QED BY <2>2, <3>2, <4>1, <4>2
    <3> QED BY <3>3, <3>4
  <2> HIDE DEF h
  <2> QED BY <2>4, <2>5, <2>6
<1>3. Nat \subseteq T
  <2> HIDE DEF T
  <2> QED BY <1>1, <1>2, InductionBySet
<1>4. n \in T
  BY <1>3
<1> QED BY <1>4 DEF Iterations

\* Two finite sets that agree except on x have as many members, but for x.
LEMMA PointChange ==
  ASSUME NEW S, IsFiniteSet(S), NEW A \in SUBSET S, NEW B \in SUBSET S, NEW x \in S,
         \A y \in S : y # x => (y \in A <=> y \in B)
  PROVE  /\ Cardinality(A) \in Nat /\ Cardinality(B) \in Nat
         /\ Cardinality(B) + (IF x \in A THEN 1 ELSE 0) = Cardinality(A) + (IF x \in B THEN 1 ELSE 0)
<1>1. IsFiniteSet(A) /\ IsFiniteSet(B)
  BY FS_Subset
<1>2. Cardinality(A) \in Nat /\ Cardinality(B) \in Nat
  BY <1>1, FS_CardinalityType
<1>3. CASE x \in A /\ x \notin B
  <2>1. A = B \cup {x}
    BY <1>3
  <2>2. Cardinality(A) = Cardinality(B) + 1
    BY <1>1, <1>3, <2>1, FS_AddElement
  <2> QED BY <1>2, <1>3, <2>2
<1>4. CASE x \notin A /\ x \in B
  <2>1. B = A \cup {x}
    BY <1>4
  <2>2. Cardinality(B) = Cardinality(A) + 1
    BY <1>1, <1>4, <2>1, FS_AddElement
  <2> QED BY <1>2, <1>4, <2>2
<1>5. CASE x \in A <=> x \in B
  <2>1. A = B
    BY <1>5
  <2> QED BY <1>2, <1>5, <2>1
<1> QED BY <1>3, <1>4, <1>5

=============================================================================
