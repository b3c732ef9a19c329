---------------------------- MODULE NatSetLemmas ----------------------------
(* Greatest and least elements of the sets of numbers 1..n. *)
EXTENDS Naturals, FiniteSetsExt, FiniteSetTheorems, WellFoundedInduction, TLAPS

\* A non-empty set of numbers up to n has a greatest element: one whose
\* interval to n is minimal.
LEMMA Greatest ==
  ASSUME NEW n \in Nat, NEW T \in SUBSET (1..n), T # {}
  PROVE  \E x \in T : \A y \in T : x >= y
<1> DEFINE R == StrictSubsetOrdering(1..n)
           F == {x..n : x \in T}
<1>1. IsWellFoundedOn(R, FiniteSubsetsOf(1..n))
  BY FS_StrictSubsetOrderingWellFounded, Zenon
<1>2. F \subseteq FiniteSubsetsOf(1..n)
  <2>1. IsFiniteSet(1..n)
    BY FS_Interval
  <2>2. \A x \in T : x..n \in SUBSET (1..n)
    OBVIOUS
  <2> QED BY <2>1, <2>2, FS_FiniteSubsetsOfFinite, Zenon
<1>3. F # {}
  OBVIOUS
<1>4. PICK X \in F : \A Y \in F : <<Y, X>> \notin R
  <2> HIDE DEF R, F
  <2> QED BY <1>1, <1>2, <1>3, WFMin, Zenon
<1>5. PICK x \in T : X = x..n
  OBVIOUS
<1>6. ASSUME NEW y \in T, y > x PROVE FALSE
  <2>1. y..n \subseteq x..n /\ y..n # x..n
    BY <1>6
  <2>2. <<y..n, x..n>> \in R
    BY <2>1 DEF StrictSubsetOrdering
  <2> QED BY <1>4, <1>5, <2>2
<1> QED BY <1>6

\* Max of a set of numbers up to n is one of them.
LEMMA MaxIn ==
  ASSUME NEW n \in Nat, NEW T \in SUBSET (1..n), T # {}
  PROVE  Max(T) \in T
BY Greatest DEF Max

\* So is Min: n + 1 - x mirrors the set.
LEMMA MinIn ==
  ASSUME NEW n \in Nat, NEW T \in SUBSET (1..n), T # {}
  PROVE  Min(T) \in T
<1> DEFINE M == {n + 1 - x : x \in T}
<1>1. M \in SUBSET (1..n) /\ M # {}
  <2>1. \A x \in T : n + 1 - x \in 1..n
    OBVIOUS
  <2> QED BY <2>1
<1>2. PICK z \in M : \A y \in M : z >= y
  <2> HIDE DEF M
  <2> QED BY <1>1, Greatest
<1>3. PICK x \in T : z = n + 1 - x
  OBVIOUS
<1>4. \A y \in T : x =< y
  <2> TAKE y \in T
  <2>1. n + 1 - y \in M
    OBVIOUS
  <2>2. z >= n + 1 - y
    BY <1>2, <2>1
  <2>3. x \in Nat /\ y \in Nat
    OBVIOUS
  <2> HIDE DEF M
  <2> QED BY <1>3, <2>2, <2>3
<1> QED BY <1>4 DEF Min
=============================================================================
