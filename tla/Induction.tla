------------------------------ MODULE Induction ------------------------------
(***************************************************************************)
(* Induction over the natural numbers without an operator parameter: a set *)
(* takes the place of the predicate, and that < is well-founded, which is  *)
(* a theorem of the library, takes the place of the induction rule.  From  *)
(* it, that a function defined by recursion exists and keeps its equation. *)
(***************************************************************************)
EXTENDS Integers, TLAPS, WellFoundedInduction

(* A set of natural numbers that has any element has a least one. *)
LEMMA LeastElement ==
    ASSUME NEW T \in SUBSET Nat, T # {}
    PROVE  \E x \in T : \A y \in T : x <= y
  <1>1. PICK x \in T : \A y \in T : <<y, x>> \notin OpToRel(<, Nat)
    BY NatLessThanWellFounded, WFMin
  <1>2. \A y \in T : ~(y < x)
    BY <1>1 DEF OpToRel
  <1> QED BY <1>2

(* A set that has 0, and with each number the next, has them all. *)
LEMMA SetInduction ==
    ASSUME NEW T, 0 \in T, \A n \in T \cap Nat : n + 1 \in T
    PROVE  Nat \subseteq T
  <1> SUFFICES ASSUME Nat \ T # {} PROVE FALSE
    OBVIOUS
  <1>1. PICK x \in Nat \ T : \A y \in Nat \ T : x <= y
    BY LeastElement
  <1>2. x # 0 /\ x - 1 \in Nat /\ x - 1 \in T
    BY <1>1
  <1>3. (x - 1) + 1 \in T
    BY <1>2
  <1> QED BY <1>3

(* f begins with first, and goes on from each value to the next as step says. *)
Computes(f, first, step, N) ==
    /\ f[0] = first
    /\ \A n \in 1 .. N : f[n] = step[n][f[n - 1]]

(* Whatever step says of each number and the value before it, some function does. *)
LEMMA FiniteRecursion ==
    ASSUME NEW V, NEW first \in V, NEW step \in [Nat \ {0} -> [V -> V]], NEW N \in Nat
    PROVE  \E f \in [0 .. N -> V] : Computes(f, first, step, N)
  <1> USE DEF Computes
  <1> DEFINE Steps(f, n) == Computes(f, first, step, n)
             T           == {n \in Nat : \E f \in [0 .. n -> V] : Steps(f, n)}
  <1>1. 0 \in T
    <2> DEFINE f == [i \in 0 .. 0 |-> first]
    <2>1. f \in [0 .. 0 -> V] /\ f[0] = first
      OBVIOUS
    <2>2. 1 .. 0 = {}
      OBVIOUS
    <2> QED BY <2>1, <2>2
  <1>2. ASSUME NEW n \in T \cap Nat PROVE n + 1 \in T
    <2>1. PICK f \in [0 .. n -> V] : Steps(f, n)
      BY <1>2
    <2>2. f[n] \in V /\ n + 1 \in Nat \ {0}
      BY <1>2
    <2>3. step[n + 1][f[n]] \in V
      BY <2>2
    <2> DEFINE g == [i \in 0 .. n + 1 |-> IF i = n + 1 THEN step[n + 1][f[n]] ELSE f[i]]
    <2>4. g \in [0 .. n + 1 -> V]
      BY <2>3, <1>2
    <2>5. g[0] = first
      BY <2>1, <1>2
    <2>6. ASSUME NEW i \in 1 .. n + 1 PROVE g[i] = step[i][g[i - 1]]
      <3>1. i \in 0 .. n + 1 /\ i - 1 \in 0 .. n + 1 /\ i - 1 # n + 1 /\ i \in Int
        BY <1>2
      <3>2. g[i - 1] = f[i - 1]
        BY <3>1
      <3>3. CASE i = n + 1
        <4>1. i - 1 = n
          BY <1>2, <3>3
        <4> QED BY <3>1, <3>2, <3>3, <4>1
      <3>4. CASE i # n + 1
        <4>1. i \in 1 .. n /\ g[i] = f[i]
          BY <1>2, <3>1, <3>4
        <4> QED BY <2>1, <3>2, <4>1
      <3> QED BY <3>3, <3>4
    <2> HIDE DEF g
    <2>7. Steps(g, n + 1)
      BY <2>5, <2>6
    <2>8. n + 1 \in Nat
      BY <2>2
    <2> QED BY <2>4, <2>7, <2>8
  <1> HIDE DEF T
  <1>3. N \in T
    BY <1>1, <1>2, SetInduction
  <1> QED BY <1>3 DEF T
=============================================================================
