------------------------------ MODULE Recursion ------------------------------
(***************************************************************************)
(* Induction on the natural numbers without an operator parameter: the     *)
(* formula is given as the set of the numbers it holds of.  With it, that  *)
(* bounded sets have a greatest element, and that a function defined by    *)
(* recursion on 0 .. n exists.                                             *)
(***************************************************************************)
EXTENDS Integers, FiniteSetsExt, WellFoundedInduction, TLAPS

Less == {pair \in Nat \X Nat : pair[1] < pair[2]}

LEMMA LessIsWellFounded == IsWellFoundedOn(Less, Nat)
BY NatLessThanWellFounded DEF OpToRel, Less

(* A set of natural numbers that is not empty has a least element. *)
LEMMA LeastElement ==
  ASSUME NEW S, S \subseteq Nat, S # {}
  PROVE  \E x \in S : \A y \in S : x <= y
<1>1. \E x \in S : \A y \in S : ~ (<<y, x>> \in Less)
  <2>1. IsWellFoundedOn(Less, S)
    BY LessIsWellFounded, IsWellFoundedOnSubset
  <2>2. QED
    BY <2>1, WFMin
<1>2. PICK x \in S : \A y \in S : ~ (y < x)
  BY <1>1 DEF Less
<1>3. QED
  BY <1>2

LEMMA SetInduction ==
  ASSUME NEW S, 0 \in S, \A n \in Nat : n \in S => n + 1 \in S
  PROVE  Nat \subseteq S
<1>1. SUFFICES ASSUME Nat \ S # {} PROVE FALSE
  OBVIOUS
<1>2. PICK x \in Nat \ S : \A y \in Nat \ S : x <= y
  <2>1. Nat \ S \subseteq Nat
    OBVIOUS
  <2>2. QED
    BY <1>1, <2>1, LeastElement
<1>3. x # 0 /\ x - 1 \in Nat
  BY <1>2
<1>4. x - 1 \in S
  BY <1>2, <1>3
<1>5. QED
  BY <1>2, <1>3, <1>4

(* A bounded set of integers has a greatest element. *)
LEMMA MaxOf ==
  ASSUME NEW S, S # {}, S \subseteq Int, NEW B \in Int, \A x \in S : x <= B
  PROVE  Max(S) \in S /\ \A x \in S : x <= Max(S)
<1> DEFINE T == {B - x : x \in S}
<1>1. T \subseteq Nat /\ T # {}
  <2>1. \A x \in S : B - x \in Nat
    OBVIOUS
  <2>2. QED
    BY <2>1
<1>2. PICK t \in T : \A u \in T : t <= u
  <2> HIDE DEF T
  <2>1. QED
    BY <1>1, LeastElement
<1>3. PICK x \in S : t = B - x
  BY <1>2
<1>4. \A y \in S : x >= y
  <2>1. \A y \in S : B - x <= B - y
    BY <1>2, <1>3
  <2>2. QED
    BY <1>3, <2>1
<1>5. Max(S) \in S /\ \A y \in S : Max(S) >= y
  BY <1>3, <1>4 DEF Max
<1>6. QED
  BY <1>5

(* So has a list of natural numbers. *)
LEMMA Bounded ==
  ASSUME NEW f, NEW n \in Nat, \A k \in 1 .. n : f[k] \in Nat
  PROVE  \E B \in Nat : \A k \in 1 .. n : f[k] <= B
<1> DEFINE Good == {m \in Nat : m <= n => \E B \in Nat : \A k \in 1 .. m : f[k] <= B}
<1>1. 0 \in Good
  OBVIOUS
<1>2. ASSUME NEW m \in Nat, m \in Good, m + 1 <= n PROVE m + 1 \in Good
  <2>1. PICK B \in Nat : \A k \in 1 .. m : f[k] <= B
    BY <1>2
  <2>2. f[m + 1] \in Nat
    BY <1>2
  <2>3. B + f[m + 1] \in Nat /\ \A k \in 1 .. m + 1 : f[k] <= B + f[m + 1]
    <3>1. ASSUME NEW k \in 1 .. m + 1 PROVE f[k] <= B + f[m + 1]
      <4>1. CASE k = m + 1
        BY <2>2, <4>1
      <4>2. CASE k # m + 1
        <5>1. k \in 1 .. m /\ f[k] \in Nat /\ f[k] <= B
          BY <1>2, <2>1, <4>2
        <5>2. QED
          BY <2>2, <5>1
      <4>3. QED
        BY <4>1, <4>2
    <3>2. QED
      BY <2>2, <3>1
  <2>4. QED
    BY <2>3
<1>3. \A m \in Nat : m \in Good => m + 1 \in Good
  <2>1. SUFFICES ASSUME NEW m \in Nat, m \in Good, ~(m + 1 <= n) PROVE m + 1 \in Good
    BY <1>2
  <2>2. QED
    BY <2>1
<1>4. Nat \subseteq Good
  <2> HIDE DEF Good
  <2>1. QED
    BY <1>1, <1>3, SetInduction
<1>5. n \in Good
  BY <1>4
<1>6. QED
  BY <1>5

-----------------------------------------------------------------------------
(* f begins with base and goes on as step says, up to n. *)
Solves(f, n, base, step) ==
  f[0] = base /\ \A k \in 1 .. n : f[k] = step[<<k, f[k - 1]>>]

LEMMA SolutionExists ==
  ASSUME NEW S, NEW base \in S, NEW N \in Nat, NEW step \in [(1 .. N) \X S -> S]
  PROVE  \E f \in [0 .. N -> S] : Solves(f, N, base, step)
<1> DEFINE Good == {n \in Nat : n <= N => \E f \in [0 .. n -> S] : Solves(f, n, base, step)}
<1>1. 0 \in Good
  <2>1. [k \in 0 .. 0 |-> base] \in [0 .. 0 -> S] /\ Solves([k \in 0 .. 0 |-> base], 0, base, step)
    BY DEF Solves
  <2>2. QED
    BY <2>1
<1>2. ASSUME NEW n \in Nat, n \in Good, n + 1 <= N PROVE n + 1 \in Good
  <2>1. PICK f \in [0 .. n -> S] : Solves(f, n, base, step)
    BY <1>2
  <2> DEFINE new == step[<<n + 1, f[n]>>]
             g   == [k \in 0 .. n + 1 |-> IF k <= n THEN f[k] ELSE new]
  <2>2. new \in S
    <3>1. <<n + 1, f[n]>> \in (1 .. N) \X S
      BY <1>2
    <3>2. QED
      BY <3>1
  <2>3. g \in [0 .. n + 1 -> S]
    BY <2>2
  <2>4. Solves(g, n + 1, base, step)
    <3>1. g[0] = base
      BY <2>1 DEF Solves
    <3>2. ASSUME NEW k \in 1 .. n + 1 PROVE g[k] = step[<<k, g[k - 1]>>]
      <4>1. CASE k <= n
        BY <2>1, <4>1 DEF Solves
      <4>2. CASE k = n + 1
        <5>1. g[n + 1] = new /\ g[n] = f[n]
          OBVIOUS
        <5>2. QED
          <6> HIDE DEF g
          <6>1. QED
            BY <4>2, <5>1
      <4>3. QED
        BY <4>1, <4>2
    <3>3. QED
      BY <3>1, <3>2 DEF Solves
  <2>5. QED
    BY <2>3, <2>4
<1>3. \A n \in Nat : n \in Good => n + 1 \in Good
  <2>1. SUFFICES ASSUME NEW n \in Nat, n \in Good, ~(n + 1 <= N) PROVE n + 1 \in Good
    BY <1>2
  <2>2. QED
    BY <2>1
<1>4. Nat \subseteq Good
  <2> HIDE DEF Good
  <2>1. QED
    BY <1>1, <1>3, SetInduction
<1>5. QED
  BY <1>4
=============================================================================
