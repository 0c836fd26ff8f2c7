--------------------------- MODULE RecursionLemmas ---------------------------
(***************************************************************************)
(* Recursion and induction over the numbers up to a bound.  A recursive      *)
(* function is the CHOOSE of one that solves its equations, and says nothing *)
(* until such a one is known to exist.  Both come from a least number, which *)
(* WFMin gives.                                                              *)
(***************************************************************************)
EXTENDS Integers, WellFoundedInduction, TLAPS

\* A set of numbers has a least one.
LEMMA LeastIs ==
    ASSUME NEW S \in SUBSET Nat, S # {}
    PROVE  \E a \in S : \A b \in S : a <= b
<1>1. OpToRel(<, Nat) = {ss \in Nat \X Nat : ss[1] < ss[2]}
  BY DEF OpToRel
<1>2. \A a, b \in Nat : <<b, a>> \in OpToRel(<, Nat) <=> b < a
  BY <1>1
<1>3. \E a \in S : \A b \in S : ~(<<b, a>> \in OpToRel(<, Nat))
  BY NatLessThanWellFounded, WFMin
<1>4. PICK a \in S : \A b \in S : ~(<<b, a>> \in OpToRel(<, Nat))
  BY <1>3
<1>5. \A b \in S : a <= b
  <2> SUFFICES ASSUME NEW b \in S PROVE a <= b
    OBVIOUS
  <2>1. a \in Nat /\ b \in Nat /\ ~(b < a)
    BY <1>2, <1>4
  <2> QED BY <2>1
<1> QED BY <1>5

\* The function f on the numbers up to N begins with c and goes on by step.
Solves(f, S, c, N, step) ==
    f \in [0..N -> S] /\ f[0] = c /\ \A n \in 1..N : f[n] = step[<<n, f[n - 1]>>]

\* A recursion over the numbers up to N has a solution.
LEMMA Recursion ==
    ASSUME NEW S, NEW c \in S, NEW N \in Nat, NEW step \in [(1..N) \X S -> S]
    PROVE  \E f : Solves(f, S, c, N, step)
<1> USE DEF Solves
<1> DEFINE Bad == {k \in 0..N : ~\E f : Solves(f, S, c, k, step)}
<1>1. ASSUME Bad # {} PROVE FALSE
  <2>1. Bad \in SUBSET Nat
    OBVIOUS
  <2>2. PICK m \in Bad : \A k \in Bad : m <= k
    <3> HIDE DEF Bad
    <3> QED BY <1>1, <2>1, LeastIs
  <2>3. m \in 0..N /\ ~\E f : Solves(f, S, c, m, step)
    OBVIOUS
  <2>4. m # 0
    <3>1. Solves([i \in 0..0 |-> c], S, c, 0, step)
      OBVIOUS
    <3> QED BY <2>3, <3>1
  <2>5. m - 1 \in 0..N /\ m - 1 \notin Bad
    BY <2>2, <2>3, <2>4
  <2>6. PICK g : Solves(g, S, c, m - 1, step)
    BY <2>5
  <2> DEFINE f == [i \in 0..m |-> IF i < m THEN g[i] ELSE step[<<m, g[m - 1]>>]]
  <2>7. m \in 1..N /\ g \in [0..m - 1 -> S] /\ g[m - 1] \in S
    BY <2>3, <2>4, <2>6
  <2>8. <<m, g[m - 1]>> \in (1..N) \X S
    BY <2>7
  <2>9. step[<<m, g[m - 1]>>] \in S
    BY <2>8
  <2>10. f \in [0..m -> S] /\ f[0] = c
    BY <2>6, <2>7, <2>9
  <2>11. \A n \in 1..m : f[n] = step[<<n, f[n - 1]>>]
    <3> SUFFICES ASSUME NEW n \in 1..m PROVE f[n] = step[<<n, f[n - 1]>>]
      OBVIOUS
    <3>1. CASE n = m
      <4>1. m \in 0..m /\ m - 1 \in 0..m /\ ~(m < m) /\ m - 1 < m
        BY <2>7
      <4>2. f[m] = step[<<m, g[m - 1]>>] /\ f[m - 1] = g[m - 1]
        BY <4>1
      <4> HIDE DEF f
      <4> QED BY <3>1, <4>2
    <3>2. CASE n # m
      <4>1. n < m /\ n - 1 < m /\ n \in 0..m /\ n - 1 \in 0..m /\ n \in 1..m - 1
        BY <2>7, <3>2
      <4>2. f[n] = g[n] /\ f[n - 1] = g[n - 1]
        BY <4>1
      <4> QED BY <2>6, <4>1, <4>2
    <3> QED BY <3>1, <3>2
  <2>12. Solves(f, S, c, m, step)
    BY <2>10, <2>11
  <2> QED BY <2>3, <2>12
<1>2. N \in 0..N
  OBVIOUS
<1>3. \E f : Solves(f, S, c, N, step)
  BY <1>1, <1>2
<1> QED BY <1>3

\* What holds of 0 and goes from each number to the next holds up to N.
LEMMA Induction ==
    ASSUME NEW N \in Nat, NEW G, 0 \in G, \A n \in 1..N : n - 1 \in G => n \in G
    PROVE  0..N \subseteq G
<1> DEFINE Bad == {k \in 0..N : k \notin G}
<1>1. ASSUME Bad # {} PROVE FALSE
  <2>1. Bad \in SUBSET Nat
    OBVIOUS
  <2>2. PICK m \in Bad : \A k \in Bad : m <= k
    <3> HIDE DEF Bad
    <3> QED BY <1>1, <2>1, LeastIs
  <2>3. m \in 1..N /\ m \notin G
    OBVIOUS
  <2>4. m - 1 \in 0..N /\ m - 1 \notin Bad
    BY <2>2, <2>3
  <2> QED BY <2>3, <2>4
<1> QED BY <1>1
==============================================================================
