-------------------------- MODULE NaturalRecursion --------------------------
(***************************************************************************)
(* Induction and recursion over the natural numbers, stated for sets and   *)
(* functions, so that the provers can use them by name.                    *)
(***************************************************************************)
EXTENDS Integers, WellFoundedInduction, TLAPS

\* A set of natural numbers has a least element.
LEMMA LeastNatural ==
    ASSUME NEW T \in SUBSET Nat, T # {}
    PROVE  \E x \in T : \A y \in T : x <= y
<1>1. PICK x \in T : \A y \in T : ~ (<<y, x>> \in OpToRel(<, Nat))
  BY WFMin, NatLessThanWellFounded
<1>2. ASSUME NEW y \in T PROVE x <= y
  <2>1. x \in Nat /\ y \in Nat /\ ~(y < x)
    BY <1>1 DEF OpToRel
  <2> QED
    BY <2>1
<1> QED
  BY <1>2

\* What holds of 0 and of n + 1 whenever of n holds of all natural numbers.
LEMMA Induction ==
    ASSUME NEW T, 0 \in T, \A n \in Nat : n \in T => n + 1 \in T
    PROVE  \A n \in Nat : n \in T
<1> SUFFICES ASSUME NEW n \in Nat, n \notin T PROVE FALSE
  OBVIOUS
<1>1. PICK x \in Nat \ T : \A y \in Nat \ T : x <= y
  <2>1. Nat \ T # {}
    OBVIOUS
  <2> QED
    BY <2>1, LeastNatural
<1>2. x # 0 /\ x - 1 \in Nat /\ x - 1 \in T
  BY <1>1
<1> QED
  BY <1>1, <1>2

\* The function that starts with a and goes on with step.
Iterates(f, m, S, a, step) ==
    /\ f \in [0..m -> S]
    /\ f[0] = a
    /\ \A k \in 1..m : f[k] = step[k][f[k - 1]]

\* There is one.
LEMMA Recursion ==
    ASSUME NEW m \in Nat, NEW S, NEW a \in S, NEW step \in [1..m -> [S -> S]]
    PROVE  \E f : Iterates(f, m, S, a, step)
<1> DEFINE T == {j \in Nat : j <= m => \E f : Iterates(f, j, S, a, step)}
<1>1. 0 \in T
  <2>1. Iterates([k \in 0..0 |-> a], 0, S, a, step)
    BY DEF Iterates
  <2> QED
    BY <2>1
<1>2. ASSUME NEW j \in Nat, j \in T PROVE j + 1 \in T
  <2> SUFFICES ASSUME j + 1 <= m PROVE \E f : Iterates(f, j + 1, S, a, step)
    OBVIOUS
  <2>1. PICK f : Iterates(f, j, S, a, step)
    BY <1>2
  <2>2. f \in [0..j -> S] /\ f[j] \in S /\ step[j + 1] \in [S -> S]
    BY <2>1 DEF Iterates
  <2> DEFINE g == [k \in 0..j + 1 |-> IF k = j + 1 THEN step[j + 1][f[j]] ELSE f[k]]
  <2>3. g \in [0..j + 1 -> S]
    BY <2>2
  <2>4. /\ g[j + 1] = step[j + 1][f[j]]
        /\ \A k \in 0..j : g[k] = f[k]
    OBVIOUS
  <2> HIDE DEF g
  <2>5. g[0] = a
    BY <2>1, <2>4 DEF Iterates
  <2>6. ASSUME NEW k \in 1..j + 1 PROVE g[k] = step[k][g[k - 1]]
    <3>1. CASE k = j + 1
      <4>1. k - 1 = j /\ j \in 0..j
        BY <3>1
      <4> QED  BY <2>4, <3>1, <4>1
    <3>2. CASE k \in 1..j
      <4>1. k \in 0..j /\ k - 1 \in 0..j
        BY <3>2
      <4> QED  BY <2>1, <2>4, <3>2, <4>1 DEF Iterates
    <3> QED  BY <3>1, <3>2
  <2>7. Iterates(g, j + 1, S, a, step)
    BY <2>3, <2>5, <2>6 DEF Iterates
  <2> QED  BY <2>7
<1> HIDE DEF T
<1>3. m \in T
  BY <1>1, <1>2, Induction
<1> QED
  BY <1>3 DEF T
=============================================================================
