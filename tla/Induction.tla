----------------------------- MODULE Induction -----------------------------
(* Induction over the natural numbers without an operator for a parameter,  *)
(* by the smallest counterexample, and with it that a recursive definition  *)
(* on 0 .. n defines what it says.                                          *)
EXTENDS Integers, WellFoundedInduction, TLAPS

LEMMA SmallestOf ==
  ASSUME NEW S \in SUBSET Nat, S # {}
  PROVE  \E m \in S : \A x \in S : m <= x
<1>1. PICK m \in S : \A y \in S : ~ (<<y, m>> \in OpToRel(<, Nat))
  BY NatLessThanWellFounded, WFMin
<1>2. ASSUME NEW y \in S PROVE m <= y
  <2>1. <<y, m>> \in Nat \X Nat
    OBVIOUS
  <2>2. ~(y < m)
    BY <1>1, <2>1 DEF OpToRel
  <2> QED BY <2>2
<1> QED BY <1>2

LEMMA EveryNat ==
  ASSUME NEW S, 0 \in S, \A k \in Nat : k \in S => k + 1 \in S
  PROVE  \A k \in Nat : k \in S
<1> DEFINE Bad == { k \in Nat : k \notin S }
<1>1. SUFFICES ASSUME Bad # {} PROVE FALSE
  OBVIOUS
<1>2. PICK m \in Bad : \A x \in Bad : m <= x
  BY <1>1, SmallestOf
<1>3. m # 0 /\ m - 1 \in Nat /\ m - 1 \notin Bad
  BY <1>2
<1> QED BY <1>3

(* From the bottom of an interval to its top.                               *)
LEMMA EveryStep ==
  ASSUME NEW n \in Nat, NEW S, 0 \in S, \A k \in 1 .. n : k - 1 \in S => k \in S
  PROVE  \A k \in 0 .. n : k \in S
<1> DEFINE T == { k \in Nat : k <= n => k \in S }
<1>1. 0 \in T
  OBVIOUS
<1>2. ASSUME NEW k \in Nat, k \in T PROVE k + 1 \in T
  <2>1. CASE k + 1 <= n
    <3>1. k + 1 \in 1 .. n /\ (k + 1) - 1 = k /\ k \in S
      BY <1>2, <2>1
    <3> QED BY <3>1
  <2> QED BY <2>1
<1> HIDE DEF T
<1>3. \A k \in Nat : k \in T
  BY <1>1, <1>2, EveryNat
<1> QED BY <1>3 DEF T

LEMMA AtTheTop ==
  ASSUME NEW n \in Nat, NEW S, 0 \in S, \A k \in 1 .. n : k - 1 \in S => k \in S
  PROVE  n \in S
<1>1. \A k \in 0 .. n : k \in S
  BY EveryStep
<1> QED BY <1>1

(* A loop from b: each of its n turns makes a value of X of the last one.   *)
IsTurn(turn, n, X) == turn \in [X \X (1 .. n) -> X]
IsLoop(f, n, X, b, turn) ==
  /\ f \in [0 .. n -> X]
  /\ f[0] = b
  /\ \A k \in 1 .. n : f[k] = turn[<<f[k - 1], k>>]

LEMMA LoopExists ==
  ASSUME NEW n \in Nat, NEW X, NEW b \in X, NEW turn, IsTurn(turn, n, X)
  PROVE  \E f : IsLoop(f, n, X, b, turn)
<1> USE DEF IsTurn
<1> DEFINE Runs(m, f) == \A k \in 0 .. m : f[k] = IF k = 0 THEN b ELSE turn[<<f[k - 1], k>>]
           S == { m \in 0 .. n : \E f \in [0 .. m -> X] : Runs(m, f) }
<1>1. 0 \in S
  <2> DEFINE f == [k \in 0 .. 0 |-> b]
  <2>1. f \in [0 .. 0 -> X] /\ f[0] = b
    OBVIOUS
  <2> HIDE DEF f
  <2>2. Runs(0, f)
    BY <2>1
  <2> HIDE DEF Runs
  <2> QED BY <2>1, <2>2
<1>2. ASSUME NEW m \in 1 .. n, m - 1 \in S PROVE m \in S
  <2>1. PICK f \in [0 .. m - 1 -> X] : Runs(m - 1, f)
    BY <1>2
  <2> DEFINE g == [k \in 0 .. m |-> IF k = m THEN turn[<<f[m - 1], m>>] ELSE f[k]]
  <2>2. f[m - 1] \in X /\ turn[<<f[m - 1], m>>] \in X
    OBVIOUS
  <2>3. g \in [0 .. m -> X]
    BY <2>2
  <2>4. ASSUME NEW k \in 0 .. m
        PROVE  g[k] = IF k = 0 THEN b ELSE turn[<<g[k - 1], k>>]
    <3>1. k # 0 => k - 1 \in 0 .. m /\ k - 1 # m /\ g[k - 1] = f[k - 1]
      OBVIOUS
    <3>2. CASE k = m
      <4>1. g[k] = turn[<<f[m - 1], m>>] /\ g[k - 1] = f[m - 1]
        BY <3>1, <3>2
      <4> HIDE DEF g
      <4> QED BY <3>2, <4>1
    <3>3. CASE k # m
      <4>1. k \in 0 .. m - 1 /\ g[k] = f[k]
        BY <3>3
      <4> HIDE DEF g
      <4> QED BY <2>1, <3>1, <4>1
    <3> QED BY <3>2, <3>3
  <2> HIDE DEF g
  <2>5. Runs(m, g)
    BY <2>4
  <2> QED BY <2>3, <2>5
<1> HIDE DEF S
<1>3. n \in S
  BY <1>1, <1>2, EveryStep
<1>4. PICK f \in [0 .. n -> X] : Runs(n, f)
  BY <1>3 DEF S
<1>5. \A k \in 1 .. n : f[k] = turn[<<f[k - 1], k>>]
  BY <1>4
<1>6. f[0] = b
  <2>1. 0 \in 0 .. n
    OBVIOUS
  <2> QED BY <1>4, <2>1
<1> QED BY <1>4, <1>5, <1>6 DEF IsLoop

(* What every turn of a loop keeps in X is in X throughout.                 *)
Keeps(f, n, X) ==
  /\ f = [k \in 0 .. n |-> f[k]]
  /\ f[0] \in X
  /\ \A k \in 1 .. n : f[k - 1] \in X => f[k] \in X

LEMMA LoopTyped ==
  ASSUME NEW n \in Nat, NEW f, NEW X, Keeps(f, n, X)
  PROVE  f \in [0 .. n -> X]
<1> DEFINE S == { k \in 0 .. n : f[k] \in X }
<1>1. 0 \in S /\ \A k \in 1 .. n : k - 1 \in S => k \in S
  BY DEF Keeps
<1> HIDE DEF S
<1>2. \A k \in 0 .. n : k \in S
  BY <1>1, EveryStep
<1> QED BY <1>2 DEF S, Keeps
=============================================================================
