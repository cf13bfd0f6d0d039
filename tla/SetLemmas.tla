----------------------------- MODULE SetLemmas ------------------------------
(***************************************************************************)
(* That the greatest element of a set is there: Max chooses it, and a      *)
(* choice says nothing of a set that has none.  It is proved from the      *)
(* natural numbers being well-founded, by a least counterexample.          *)
(***************************************************************************)
EXTENDS Integers, FiniteSets, FiniteSetsExt, FiniteSetTheorems, WellFoundedInduction, TLAPS

\* A set of natural numbers that is not empty has a least one.
LEMMA Least ==
    ASSUME NEW S, S \subseteq Nat, S # {}
    PROVE  \E m \in S : \A s \in S : m <= s
<1>1. PICK m \in S : \A s \in S : ~(<<s, m>> \in OpToRel(<, Nat))
  BY NatLessThanWellFounded, WFMin
<1>2. \A s \in S : ~(s < m)
  BY <1>1 DEF OpToRel
<1> QED
  BY <1>2

\* A set of numbers with a bound has a greatest one.
LEMMA Greatest ==
    ASSUME NEW S, S \subseteq Int, S # {}, NEW n \in Int, \A s \in S : s <= n
    PROVE  Max(S) \in S /\ \A s \in S : s <= Max(S)
<1> DEFINE T == {n - s : s \in S}
<1>1. T \subseteq Nat /\ T # {}
  <2>1. \A s \in S : s \in Int /\ s <= n
    OBVIOUS
  <2>2. \A s \in S : n - s \in Nat
    BY <2>1
  <2> QED BY <2>2
<1>2. PICK m \in T : \A t \in T : m <= t
  BY <1>1, Least
<1>3. \A t \in T : ~(t < m)
  BY <1>1, <1>2
<1>4. PICK x \in S : m = n - x
  BY <1>2
<1>5. \A s \in S : x >= s
  <2> TAKE s \in S
  <2>1. n - s \in T /\ x \in Int /\ s \in Int
    OBVIOUS
  <2>2. ~(n - s < n - x)
    BY <1>3, <1>4, <2>1
  <2> HIDE DEF T
  <2> QED BY <2>1, <2>2
<1>6. \E y \in S : \A s \in S : y >= s
  BY <1>5
<1>7. Max(S) \in S /\ \A s \in S : Max(S) >= s
  BY <1>6 DEF Max
<1>8. \A s \in S : s <= Max(S)
  BY <1>7
<1> QED
  BY <1>7, <1>8

\* A set of numbers up to n that is not empty has a greatest one.
LEMMA MaxExists ==
    ASSUME NEW n \in Nat, NEW S, S \subseteq 1 .. n, S # {}
    PROVE  Max(S) \in S /\ \A s \in S : s <= Max(S)
<1>1. S \subseteq Int /\ n \in Int
  OBVIOUS
<1>2. \A s \in S : s <= n
  OBVIOUS
<1> QED
  BY <1>1, <1>2, Greatest

\* A function on a finite set has a bound.
LEMMA Bounded ==
    ASSUME NEW S, IsFiniteSet(S), NEW f \in [S -> Int]
    PROVE  \E b \in Int : \A s \in S : f[s] <= b
<1>1. PICK n \in Nat : ExistsSurjection(1 .. n, S)
  BY FS_NatSurjection
<1>2. PICK g \in [1 .. n -> S] : \A s \in S : \E i \in 1 .. n : g[i] = s
  BY <1>1 DEF ExistsSurjection, Surjection
<1> DEFINE Below(k) == \E b \in Int : \A i \in 1 .. k : f[g[i]] <= b
           T == {k \in 0 .. n : ~Below(k)}
<1>3. T = {}
  <2> SUFFICES ASSUME T # {} PROVE FALSE
    OBVIOUS
  <2>1. T \subseteq Nat
    OBVIOUS
  <2>2. PICK m \in T : \A t \in T : ~(<<t, m>> \in OpToRel(<, Nat))
    BY <2>1, NatLessThanWellFounded, WFMin
  <2>3. m \in 0 .. n /\ ~Below(m)
    OBVIOUS
  <2>4. m # 0
    <3>1. \A i \in 1 .. 0 : f[g[i]] <= 0
      OBVIOUS
    <3> QED BY <2>3, <3>1
  <2>5. Below(m - 1)
    <3>1. m - 1 \in 0 .. n /\ m - 1 < m /\ m - 1 \in Nat /\ m \in Nat
      BY <2>3, <2>4
    <3>2. m - 1 \notin T
      BY <2>2, <3>1 DEF OpToRel
    <3> QED BY <3>1, <3>2
  <2>6. PICK b \in Int : \A i \in 1 .. m - 1 : f[g[i]] <= b
    BY <2>5
  <2>7. m \in 1 .. n /\ f[g[m]] \in Int
    BY <1>2, <2>3, <2>4
  <2>8. \A i \in 1 .. m : i \in 1 .. m - 1 \/ i = m
    BY <2>7
  <2>9. \A i \in 1 .. m : f[g[i]] \in Int
    <3> TAKE i \in 1 .. m
    <3>1. i \in 1 .. n
      BY <2>7
    <3> QED BY <1>2, <3>1
  <2>10. CASE f[g[m]] <= b
    BY <2>3, <2>6, <2>8, <2>10
  <2>11. CASE f[g[m]] > b
    <3>1. ASSUME NEW i \in 1 .. m PROVE f[g[i]] <= f[g[m]]
      <4>1. f[g[i]] \in Int /\ (f[g[i]] <= b \/ i = m)
        BY <2>6, <2>8, <2>9
      <4>2. CASE i = m
        BY <2>7, <4>2
      <4>3. CASE f[g[i]] <= b
        <5>1. \A x, y, z \in Int : x <= y /\ z > y => x <= z
          OBVIOUS
        <5>2. f[g[i]] \in Int /\ f[g[m]] \in Int /\ b \in Int
          BY <2>7, <4>1
        <5> QED BY <2>11, <4>3, <5>1, <5>2
      <4> QED BY <4>1, <4>2, <4>3
    <3> QED BY <2>3, <2>7, <3>1
  <2> QED BY <2>7, <2>10, <2>11
<1>4. Below(n)
  <2>1. n \in 0 .. n
    OBVIOUS
  <2> QED BY <1>3, <2>1
<1> QED
  BY <1>2, <1>4

\* What a function takes on a finite set is a finite set.
LEMMA FiniteImage ==
    ASSUME NEW S, IsFiniteSet(S), NEW f, S \subseteq DOMAIN f
    PROVE  IsFiniteSet({f[x] : x \in S})
<1> DEFINE T == {f[x] : x \in S}
           g == [x \in S |-> f[x]]
<1>1. g \in Surjection(S, T)
  BY DEF Surjection
<1> HIDE DEF g, T
<1>2. IsFiniteSet(T)
  BY <1>1, FS_Surjection
<1> QED
  BY <1>2 DEF T
=============================================================================
