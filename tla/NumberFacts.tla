----------------------------- MODULE NumberFacts -----------------------------
(***************************************************************************)
(* Facts about sets of natural numbers: a bounded one has a largest        *)
(* element, the one Max chooses; one that is not empty has a least; and    *)
(* induction, said of a set of numbers. They come from the strict          *)
(* inclusion of finite sets, which is well-founded.                        *)
(***************************************************************************)
EXTENDS Naturals, FiniteSets, FiniteSetsExt, FiniteSetTheorems, WellFoundedInduction, TLAPS

(* A set of finite sets has a member none of whose parts is another.        *)
LEMMA SmallestSet ==
    ASSUME NEW A, IsFiniteSet(A), NEW T, \A X \in T : X \subseteq A, T # {}
    PROVE  \E X \in T : \A Y \in T : Y \subseteq X => Y = X
<1>1. IsWellFoundedOn(StrictSubsetOrdering(A), FiniteSubsetsOf(A))
  BY FS_StrictSubsetOrderingWellFounded
<1>2. T \subseteq FiniteSubsetsOf(A)
  BY FS_FiniteSubsetsOfFinite
<1>3. PICK X \in T : \A Y \in T : ~ (<<Y, X>> \in StrictSubsetOrdering(A))
  BY <1>1, <1>2, WFMin
<1>. QED
  BY <1>3 DEF StrictSubsetOrdering

LEMMA Bounded ==
    ASSUME NEW N \in Nat, NEW S \in SUBSET (0 .. N)
    PROVE  IsFiniteSet(S)
<1>1. IsFiniteSet(0 .. N)
  BY FS_Interval
<1>. QED
  BY <1>1, FS_Subset

(* Max is the largest element of a set of numbers that has a bound.         *)
LEMMA MaxFact ==
    ASSUME NEW N \in Nat, NEW S \in SUBSET (0 .. N), S # {}
    PROVE  Max(S) \in S /\ \A y \in S : y <= Max(S)
<1>. DEFINE Above(x) == {y \in S : y > x}
            T == {Above(x) : x \in S}
<1>0. S \subseteq Nat
  OBVIOUS
<1>1. (\A X \in T : X \subseteq S) /\ T # {}
  OBVIOUS
<1>. HIDE DEF T
<1>2. PICK X \in T : \A Y \in T : Y \subseteq X => Y = X
  <2>1. IsFiniteSet(S)
    BY Bounded
  <2>. QED
    BY <1>1, <2>1, SmallestSet
<1>3. PICK x \in S : X = Above(x)
  BY DEF T
<1>4. ASSUME NEW y \in S, y > x
      PROVE  FALSE
  <2>1. Above(y) \in T
    BY DEF T
  <2>2. Above(y) \subseteq X /\ y \in X /\ y \notin Above(y)
    <3>1. \A z \in S : z > y => z > x
      BY <1>0, <1>4
    <3>2. ~ (y > y)
      BY <1>0
    <3>. QED
      BY <1>3, <1>4, <3>1, <3>2
  <2>. QED
    BY <1>2, <2>1, <2>2
<1>5. \A y \in S : x >= y
  BY <1>0, <1>4
<1>. QED
  BY <1>0, <1>5 DEF Max

(* The least number principle.                                              *)
LEMMA LeastFact ==
    ASSUME NEW S \in SUBSET Nat, S # {}
    PROVE  \E x \in S : \A y \in S : x <= y
<1>. PICK n \in S : TRUE
  OBVIOUS
<1>. DEFINE Below(x) == {y \in S : y < x}
            Low == {x \in S : x <= n}
            T == {Below(x) : x \in Low}
<1>0. S \subseteq Nat /\ n \in Nat
  OBVIOUS
<1>1. (\A X \in T : X \subseteq 0 .. n) /\ T # {}
  <2>1. n \in Low
    BY <1>0
  <2>2. ASSUME NEW x \in Low
        PROVE  Below(x) \subseteq 0 .. n
    <3>1. x \in Nat /\ x <= n
      BY <1>0
    <3>2. ASSUME NEW z \in Below(x)
          PROVE  z \in 0 .. n
      <4>1. z \in Nat /\ z < x
        BY <1>0
      <4>. QED
        BY <1>0, <3>1, <4>1
    <3>. QED
      BY <3>2
  <2>. QED
    BY <2>1, <2>2
<1>f. IsFiniteSet(0 .. n)
  BY <1>0, FS_Interval
<1>. HIDE DEF T
<1>2. PICK X \in T : \A Y \in T : Y \subseteq X => Y = X
  BY <1>1, <1>f, SmallestSet
<1>3. PICK x \in S : x <= n /\ X = Below(x)
  BY DEF T
<1>4. ASSUME NEW y \in S, y < x
      PROVE  FALSE
  <2>1. y <= n
    BY <1>3, <1>4
  <2>2. Below(y) \in T
    BY <2>1 DEF T
  <2>3. Below(y) \subseteq X /\ y \in X /\ y \notin Below(y)
    <3>1. \A z \in S : z < y => z < x
      BY <1>0, <1>4
    <3>2. ~ (y < y)
      BY <1>0
    <3>. QED
      BY <1>3, <1>4, <3>1, <3>2
  <2>. QED
    BY <1>2, <2>2, <2>3
<1>. QED
  BY <1>0, <1>4

(* Induction: a set that holds 0 and with a number its successor holds all.  *)
LEMMA InductionFact ==
    ASSUME NEW S, 0 \in S, \A n \in Nat : n \in S => n + 1 \in S
    PROVE  Nat \subseteq S
<1>. SUFFICES ASSUME Nat \ S # {} PROVE FALSE
  OBVIOUS
<1>1. PICK x \in Nat \ S : \A y \in Nat \ S : x <= y
  BY LeastFact
<1>2. x - 1 \in Nat /\ x - 1 \in S
  BY <1>1
<1>. QED
  BY <1>2
==============================================================================
