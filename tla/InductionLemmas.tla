-------------------------- MODULE InductionLemmas --------------------------
(***************************************************************************)
(* Induction and recursive functions, in a form the provers can use: the   *)
(* property proved by induction is a set, and the step of a recursion is a *)
(* function, so that no lemma has an operator as a parameter.              *)
(***************************************************************************)
EXTENDS Integers, FiniteSetTheorems, TLAPS

(* A set of natural numbers has a least element.                           *)
LEMMA LeastElement ==
  ASSUME NEW T \in SUBSET Nat, T # {}
  PROVE  \E m \in T : \A k \in T : m <= k
<1> DEFINE R == OpToRel(<, Nat)
<1>1. IsWellFoundedOn(R, Nat)
  BY NatLessThanWellFounded
<1>2. \A a, b \in Nat : a < b => <<a, b>> \in R
  BY DEF OpToRel
<1> HIDE DEF R
<1>3. PICK m \in T : \A k \in T : <<k, m>> \notin R
  BY <1>1, WFMin
<1>4. \A k \in T : ~(k < m)
  BY <1>2, <1>3
<1> QED BY <1>4

(* Induction up to n.                                                      *)
LEMMA InductionUpTo ==
  ASSUME NEW n \in Nat, NEW S,
         0 \in S, \A k \in 0 .. n - 1 : k \in S => k + 1 \in S
  PROVE  0 .. n \subseteq S
<1> SUFFICES ASSUME NEW x \in 0 .. n, x \notin S
             PROVE  FALSE
  OBVIOUS
<1> DEFINE T == {k \in 0 .. n : k \notin S}
<1>1. PICK m \in T : \A k \in T : m <= k
  <2>1. T \in SUBSET Nat /\ T # {}
    OBVIOUS
  <2> HIDE DEF T
  <2> QED BY <2>1, LeastElement
<1>2. m - 1 \in 0 .. n - 1 /\ m - 1 \notin T /\ (m - 1) + 1 = m
  BY <1>1
<1> QED BY <1>1, <1>2

(* g is the function defined by recursion up to n from s0 with step.       *)
Recursive(g, n, S, s0, step) ==
  /\ g \in [0 .. n -> S]
  /\ g[0] = s0
  /\ \A k \in 1 .. n : g[k] = step[k - 1][g[k - 1]]

(* Such a function exists.                                                 *)
LEMMA Recursion ==
  ASSUME NEW n \in Nat, NEW S, NEW s0 \in S,
         NEW step \in [0 .. n - 1 -> [S -> S]]
  PROVE  \E g : Recursive(g, n, S, s0, step)
<1> DEFINE Defined(l) == \E g \in [0 .. l -> S] :
             g[0] = s0 /\ \A k \in 1 .. l : g[k] = step[k - 1][g[k - 1]]
           D == {l \in 0 .. n : Defined(l)}
<1>1. Defined(0)
  <2>1. [k \in 0 .. 0 |-> s0] \in [0 .. 0 -> S] /\ 1 .. 0 = {}
    OBVIOUS
  <2>2. \E g \in [0 .. 0 -> S] :
          g[0] = s0 /\ \A k \in 1 .. 0 : g[k] = step[k - 1][g[k - 1]]
    <3> WITNESS [k \in 0 .. 0 |-> s0] \in [0 .. 0 -> S]
    <3> QED BY <2>1
  <2> QED BY <2>2
<1>2. ASSUME NEW l \in 0 .. n - 1, Defined(l)
      PROVE  Defined(l + 1)
  <2>1. PICK g \in [0 .. l -> S] :
          g[0] = s0 /\ \A k \in 1 .. l : g[k] = step[k - 1][g[k - 1]]
    BY <1>2
  <2> DEFINE h == [k \in 0 .. l + 1 |-> IF k <= l THEN g[k] ELSE step[l][g[l]]]
  <2>2. h \in [0 .. l + 1 -> S]
    <3>1. step[l][g[l]] \in S
      BY <1>2
    <3> QED BY <3>1
  <2>3. h[0] = s0 /\ \A k \in 1 .. l + 1 : h[k] = step[k - 1][h[k - 1]]
    <3> SUFFICES ASSUME NEW k \in 1 .. l + 1
                 PROVE  h[k] = step[k - 1][h[k - 1]]
      BY <2>1
    <3>1. CASE k <= l
      BY <2>1, <3>1
    <3>2. CASE k = l + 1
      BY <3>2
    <3> QED BY <3>1, <3>2
  <2> HIDE DEF h
  <2> QED BY <2>2, <2>3
<1>3. 0 .. n \subseteq D
  <2> HIDE DEF Defined
  <2>1. 0 \in D /\ \A l \in 0 .. n - 1 : l \in D => l + 1 \in D
    BY <1>1, <1>2
  <2> HIDE DEF D
  <2> QED BY <2>1, InductionUpTo
<1>4. Defined(n)
  <2> HIDE DEF Defined
  <2> QED BY <1>3
<1> QED BY <1>4 DEF Recursive

(* Two functions with the same recursion are equal.                        *)
LEMMA SameRecursion ==
  ASSUME NEW n \in Nat, NEW f, NEW g,
         f[0] = g[0],
         \A k \in 1 .. n : f[k - 1] = g[k - 1] => f[k] = g[k]
  PROVE  \A k \in 0 .. n : f[k] = g[k]
<1> DEFINE S == {k \in 0 .. n : f[k] = g[k]}
<1>1. 0 \in S
  OBVIOUS
<1>2. ASSUME NEW k \in 0 .. n - 1, k \in S
      PROVE  k + 1 \in S
  <2>1. k + 1 \in 1 .. n /\ (k + 1) - 1 = k /\ k + 1 \in 0 .. n
    OBVIOUS
  <2>2. f[k] = g[k]
    BY <1>2
  <2> QED BY <2>1, <2>2
<1>3. 0 .. n \subseteq S
  <2> HIDE DEF S
  <2> QED BY <1>1, <1>2, InductionUpTo
<1> QED BY <1>3

(* Two sums whose terms differ by the steps of d differ by d.              *)
LEMMA SumsDiffer ==
  ASSUME NEW n \in Nat,
         NEW f \in [0 .. n -> Int], NEW g \in [0 .. n -> Int],
         NEW d \in [0 .. n -> Int],
         f[0] = g[0] + d[0],
         \A k \in 1 .. n : f[k] - f[k - 1] = (g[k] - g[k - 1]) + (d[k] - d[k - 1])
  PROVE  f[n] = g[n] + d[n]
<1> DEFINE S == {k \in 0 .. n : f[k] = g[k] + d[k]}
<1>1. 0 \in S
  OBVIOUS
<1>2. ASSUME NEW k \in 0 .. n - 1, k \in S
      PROVE  k + 1 \in S
  <2>1. k + 1 \in 1 .. n /\ (k + 1) - 1 = k /\ k \in 0 .. n /\ k + 1 \in 0 .. n
    OBVIOUS
  <2>2. f[k + 1] - f[k] = (g[k + 1] - g[k]) + (d[k + 1] - d[k])
    BY <2>1
  <2>3. f[k] = g[k] + d[k]
    BY <1>2
  <2>4. /\ f[k] \in Int /\ f[k + 1] \in Int /\ g[k] \in Int /\ g[k + 1] \in Int
        /\ d[k] \in Int /\ d[k + 1] \in Int
    BY <2>1
  <2>5. f[k + 1] = g[k + 1] + d[k + 1]
    <3> DEFINE f0 == f[k]
               f1 == f[k + 1]
               g0 == g[k]
               g1 == g[k + 1]
               d0 == d[k]
               d1 == d[k + 1]
    <3>1. /\ f1 - f0 = (g1 - g0) + (d1 - d0) /\ f0 = g0 + d0
          /\ f0 \in Int /\ f1 \in Int /\ g0 \in Int /\ g1 \in Int
          /\ d0 \in Int /\ d1 \in Int
      BY <2>2, <2>3, <2>4
    <3> HIDE DEF f0, f1, g0, g1, d0, d1
    <3>2. f1 = g1 + d1
      BY <3>1
    <3> QED BY <3>2 DEF f1, g1, d1
  <2> QED BY <2>1, <2>5
<1>3. 0 .. n \subseteq S
  <2> HIDE DEF S
  <2> QED BY <1>1, <1>2, InductionUpTo
<1> QED BY <1>3

(* A sum with greater terms is greater.                                    *)
LEMMA SumsCompare ==
  ASSUME NEW n \in Nat,
         NEW f \in [0 .. n -> Int], NEW g \in [0 .. n -> Int],
         f[0] <= g[0],
         \A k \in 1 .. n : f[k] - f[k - 1] <= g[k] - g[k - 1]
  PROVE  f[n] <= g[n]
<1> DEFINE S == {k \in 0 .. n : f[k] <= g[k]}
<1>1. 0 \in S
  OBVIOUS
<1>2. ASSUME NEW k \in 0 .. n - 1, k \in S
      PROVE  k + 1 \in S
  <2>1. k + 1 \in 1 .. n /\ (k + 1) - 1 = k /\ k \in 0 .. n /\ k + 1 \in 0 .. n
    OBVIOUS
  <2>2. f[k + 1] - f[k] <= g[k + 1] - g[k]
    BY <2>1
  <2>3. f[k] <= g[k]
    BY <1>2
  <2>4. f[k] \in Int /\ f[k + 1] \in Int /\ g[k] \in Int /\ g[k + 1] \in Int
    BY <2>1
  <2>5. f[k + 1] <= g[k + 1]
    BY <2>2, <2>3, <2>4
  <2> QED BY <2>1, <2>5
<1>3. 0 .. n \subseteq S
  <2> HIDE DEF S
  <2> QED BY <1>1, <1>2, InductionUpTo
<1> QED BY <1>3
=============================================================================
