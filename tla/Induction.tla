------------------------------ MODULE Induction ------------------------------
(* Induction over the natural numbers, stated with sets: what is shown of 0  *)
(* and of each successor fills Nat, or an initial piece of it.               *)
EXTENDS Integers, WellFoundedInduction, TLAPS

(* A set of natural numbers has a least element.                            *)
LEMMA Least ==
    ASSUME NEW S \in SUBSET Nat, S # {}
    PROVE  \E x \in S : \A y \in S : x <= y
<1> DEFINE R == OpToRel(<, Nat)
<1>1. \E x \in S : \A y \in S : ~(<<y, x>> \in R)
  BY NatLessThanWellFounded, WFMin
<1>2. \A x, y \in Nat : y < x => <<y, x>> \in R
  BY DEF OpToRel
<1>3. PICK x \in S : \A y \in S : ~(<<y, x>> \in R)
  BY <1>1
<1>4. \A y \in S : ~(y < x)
  BY <1>2, <1>3
<1>5. \A y \in S : x <= y
  BY <1>4
<1>6. QED  BY <1>5

(* A set that contains 0 and, up to max, the successors of its elements     *)
(* contains the numbers up to max.                                          *)
LEMMA UpTo ==
    ASSUME NEW max \in Nat, NEW S, 0 \in S,
           \A n \in 0..max-1 : n \in S => n + 1 \in S
    PROVE  0..max \subseteq S
<1> DEFINE T == {n \in 0..max : n \notin S}
<1>1. SUFFICES ASSUME T # {} PROVE FALSE
  OBVIOUS
<1>2. PICK n \in T : \A k \in T : n <= k
  <2>1. T \in SUBSET Nat
    OBVIOUS
  <2>2. QED  BY <1>1, <2>1, Least
<1>3. n # 0 /\ n - 1 \in 0..max-1 /\ n - 1 \notin T
  BY <1>2
<1>4. n - 1 \in S /\ (n - 1) + 1 = n
  BY <1>3
<1>5. n \in S
  BY <1>3, <1>4
<1>6. QED  BY <1>5
=============================================================================
