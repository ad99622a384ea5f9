-------------------------- MODULE Recursion_proofs ---------------------------
(* Induction and definitions by recursion over the numbers up to some m.      *)
EXTENDS Integers, NaturalsInduction, WellFoundedInduction, TLAPS

\* A set of natural numbers that is not empty has a least element.
LEMMA Smallest ==
  ASSUME NEW I, I \subseteq Nat, I # {}
  PROVE  \E x \in I : \A y \in I : x <= y
<1>1. IsWellFoundedOn(OpToRel(<, Nat), Nat)
  BY NatLessThanWellFounded
<1>2. PICK x \in I : \A y \in I : ~(<<y, x>> \in OpToRel(<, Nat))
  BY <1>1, WFMin
<1>3. \A y \in I : ~(y < x)
  BY <1>2 DEF OpToRel
<1>4. QED
  BY <1>3

\* Induction over the numbers up to m.
LEMMA Inductively ==
  ASSUME NEW m \in Nat, NEW T, 0 \in T, \A k \in 0 .. m - 1 : k \in T => k + 1 \in T
  PROVE  \A k \in 0 .. m : k \in T
<1> DEFINE I == {k \in 0 .. m : k \notin T}
<1>1. SUFFICES ASSUME I # {} PROVE FALSE
  OBVIOUS
<1>2. I \subseteq Nat
  OBVIOUS
<1>3. PICK n \in I : \A y \in I : n <= y
  <2> HIDE DEF I
  <2>1. QED
    BY <1>1, <1>2, Smallest
<1>4. n # 0 /\ n - 1 \in 0 .. m - 1 /\ n - 1 \notin I
  BY <1>3
<1>5. n - 1 \in T
  BY <1>4
<1>6. (n - 1) + 1 \in T /\ (n - 1) + 1 = n
  BY <1>4, <1>5
<1>7. QED
  BY <1>3, <1>6

\* What begins with v and goes on as G says.
Runs(V, v, G, n) ==
  {f \in [0 .. n -> V] : f[0] = v /\ \A k \in 1 .. n : f[k] = G[<<f[k - 1], k>>]}

\* A recursion over the numbers up to m has a solution: the first number for which it
\* had none would follow one for which it has.
LEMMA RunExists ==
  ASSUME NEW V, NEW v \in V, NEW m \in Nat, NEW G \in [V \X (1 .. m) -> V]
  PROVE  Runs(V, v, G, m) # {}
<1> DEFINE I == {n \in 0 .. m : Runs(V, v, G, n) = {}}
<1>1. SUFFICES ASSUME I # {} PROVE FALSE
  OBVIOUS
<1>a. I \subseteq Nat
  OBVIOUS
<1>2. PICK n \in I : \A y \in I : n <= y
  <2> HIDE DEF I
  <2>1. QED
    BY <1>1, <1>a, Smallest
<1>3. CASE n = 0
  <2> DEFINE f == [k \in 0 .. 0 |-> v]
  <2>1. f \in Runs(V, v, G, 0)
    BY DEF Runs
  <2>2. QED
    BY <1>2, <1>3, <2>1
<1>4. CASE n # 0
  <2>1. n \in 1 .. m /\ n - 1 \in 0 .. m /\ n - 1 \notin I
    BY <1>2, <1>4
  <2>2. PICK f \in Runs(V, v, G, n - 1) : TRUE
    BY <2>1
  <2>3. /\ f \in [0 .. n - 1 -> V] /\ f[0] = v
        /\ \A k \in 1 .. n - 1 : f[k] = G[<<f[k - 1], k>>]
    BY <2>2 DEF Runs
  <2> DEFINE g == [k \in 0 .. n |-> IF k = n THEN G[<<f[n - 1], n>>] ELSE f[k]]
  <2>4. f[n - 1] \in V /\ <<f[n - 1], n>> \in V \X (1 .. m)
    BY <2>1, <2>3
  <2>5. G[<<f[n - 1], n>>] \in V
    BY <2>4
  <2>6. g \in [0 .. n -> V]
    BY <2>1, <2>3, <2>5
  <2>7. g[0] = v
    BY <2>1, <2>3
  <2>8. ASSUME NEW k \in 1 .. n PROVE g[k] = G[<<g[k - 1], k>>]
    <3>1. k - 1 \in 0 .. n - 1 /\ k - 1 # n /\ k - 1 \in 0 .. n
      BY <2>1
    <3>2. g[k - 1] = f[k - 1]
      BY <3>1
    <3>3. CASE k = n
      <4>1. k \in 0 .. n /\ g[k] = G[<<f[n - 1], n>>]
        BY <3>3
      <4>2. QED
        BY <3>2, <3>3, <4>1
    <3>4. CASE k # n
      <4>1. k \in 1 .. n - 1 /\ k \in 0 .. n
        BY <2>1, <3>4
      <4>2. g[k] = f[k]
        BY <3>4, <4>1
      <4>3. QED
        BY <2>3, <3>2, <4>1, <4>2
    <3>5. QED
      BY <3>3, <3>4
  <2>9. g \in Runs(V, v, G, n)
    BY <2>6, <2>7, <2>8 DEF Runs
  <2>10. QED
    BY <1>2, <2>9
<1>5. QED
  BY <1>3, <1>4

\* The function that a recursion over the numbers up to m defines.
Recursive(f, v, G, m) == f = [n \in 0 .. m |-> IF n = 0 THEN v ELSE G[<<f[n - 1], n>>]]

LEMMA Recursion ==
  ASSUME NEW V, NEW v \in V, NEW m \in Nat, NEW G \in [V \X (1 .. m) -> V]
  PROVE  \E f \in [0 .. m -> V] : Recursive(f, v, G, m)
<1>1. PICK f \in Runs(V, v, G, m) : TRUE
  BY RunExists
<1>2. /\ f \in [0 .. m -> V] /\ f[0] = v
      /\ \A k \in 1 .. m : f[k] = G[<<f[k - 1], k>>]
  BY <1>1 DEF Runs
<1> DEFINE h == [n \in 0 .. m |-> IF n = 0 THEN v ELSE G[<<f[n - 1], n>>]]
<1>3. \A n \in 0 .. m : f[n] = h[n]
  BY <1>2
<1>4. f = h
  BY <1>2, <1>3
<1>5. QED
  BY <1>2, <1>4 DEF Recursive

=============================================================================
