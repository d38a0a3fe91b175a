------------------------------ MODULE Induction ------------------------------
(***************************************************************************)
(* Induction over the natural numbers, stated with sets and functions in   *)
(* place of operators: a proof puts the numbers that have a property into  *)
(* a set, and the steps of a recursive definition into a function.         *)
(***************************************************************************)
EXTENDS Integers, WellFoundedInduction, TLAPS

LEMMA SmallestElement ==
  ASSUME NEW T \in SUBSET Nat, T # {}
  PROVE  \E x \in T : \A y \in T : x <= y
<1> DEFINE R == OpToRel(<, Nat)
<1>1. IsWellFoundedOn(R, Nat)
  BY NatLessThanWellFounded
<1>2. \A x, y \in Nat : x < y => <<x, y>> \in R
  BY DEF OpToRel
<1> HIDE DEF R
<1>3. PICK x \in T : \A y \in T : ~ (<<y, x>> \in R)
  BY <1>1, WFMin
<1>4. \A y \in T : ~ (y < x)
  BY <1>2, <1>3
<1> QED
  BY <1>4

LEMMA SetInduction ==
  ASSUME NEW T, 0 \in T, \A n \in Nat : n \in T => n + 1 \in T
  PROVE  Nat \subseteq T
<1> SUFFICES ASSUME Nat \ T # {} PROVE FALSE
  OBVIOUS
<1>1. PICK x \in Nat \ T : \A y \in Nat \ T : x <= y
  BY SmallestElement
<1>2. x # 0 /\ x - 1 \in Nat /\ x - 1 \in T
  BY <1>1
<1> QED
  BY <1>1, <1>2

(* The first n + 1 values of the function that starts with a and goes on   *)
(* from v at n with Step[n][v].                                            *)
Begins(g, n, a, Step) ==
  /\ g[0] = a
  /\ \A k \in 0..(n-1) : g[k+1] = Step[k][g[k]]

(* Whatever a and Step are, there is a function on all of Nat that begins  *)
(* with a and follows Step: what a definition f[k \in Nat] == ... chooses.  *)
LEMMA RecursionOnNat ==
  ASSUME NEW S, NEW a \in S, NEW Step \in [Nat -> [S -> S]]
  PROVE  \E f \in [Nat -> S] :
           \A k \in Nat : f[k] = IF k = 0 THEN a ELSE Step[k-1][f[k-1]]
<1> DEFINE Partial == {n \in Nat : \E g \in [Nat -> S] : Begins(g, n, a, Step)}
<1>1. 0 \in Partial
  <2>1. [k \in Nat |-> a] \in [Nat -> S] /\ Begins([k \in Nat |-> a], 0, a, Step)
    BY DEF Begins
  <2> QED  BY <2>1
<1>2. ASSUME NEW n \in Nat, n \in Partial PROVE n + 1 \in Partial
  <2>1. PICK g \in [Nat -> S] : Begins(g, n, a, Step)
    BY <1>2
  <2> DEFINE h == [g EXCEPT ![n+1] = Step[n][g[n]]]
  <2>2. h \in [Nat -> S]
    OBVIOUS
  <2>3. Begins(h, n+1, a, Step)
    BY <2>1 DEF Begins
  <2> HIDE DEF h
  <2> QED  BY <2>2, <2>3
<1>3. Nat \subseteq Partial
  <2> HIDE DEF Partial
  <2> QED  BY <1>1, <1>2, SetInduction
<1> DEFINE G[n \in Nat] == CHOOSE g \in [Nat -> S] : Begins(g, n, a, Step)
<1>4. \A n \in Nat : G[n] \in [Nat -> S] /\ Begins(G[n], n, a, Step)
  BY <1>3
<1> HIDE DEF G
<1>5. \A n, m \in Nat : n <= m => G[n][n] = G[m][n]
  <2> DEFINE Same == {n \in Nat : \A m \in Nat : n <= m => \A k \in 0..n : G[n][k] = G[m][k]}
  <2>1. 0 \in Same
    BY <1>4 DEF Begins
  <2>2. ASSUME NEW n \in Nat, n \in Same PROVE n + 1 \in Same
    <3> SUFFICES ASSUME NEW m \in Nat, n + 1 <= m, NEW k \in 0..(n+1)
                 PROVE  G[n+1][k] = G[m][k]
      OBVIOUS
    <3>1. CASE k \in 0..n
      <4>1. G[n][k] = G[m][k] /\ G[n][k] = G[n+1][k]
        BY <2>2, <3>1
      <4> QED  BY <4>1
    <3>2. CASE k = n + 1
      <4>1. G[n][n] = G[m][n] /\ G[n][n] = G[n+1][n]
        BY <2>2
      <4>2. G[n+1][n+1] = Step[n][G[n+1][n]]
        BY <1>4 DEF Begins
      <4>3. G[m][n+1] = Step[n][G[m][n]]
        BY <1>4 DEF Begins
      <4> QED  BY <3>2, <4>1, <4>2, <4>3
    <3> QED  BY <3>1, <3>2
  <2>3. Nat \subseteq Same
    <3> HIDE DEF Same
    <3> QED  BY <2>1, <2>2, SetInduction
  <2> QED  BY <2>3
<1> DEFINE f == [n \in Nat |-> G[n][n]]
<1>6. f \in [Nat -> S] /\ f[0] = a
  BY <1>4 DEF Begins
<1>7. ASSUME NEW n \in Nat PROVE f[n+1] = Step[n][f[n]]
  <2>1. G[n+1][n+1] = Step[n][G[n+1][n]]
    BY <1>4 DEF Begins
  <2>2. G[n+1][n] = G[n][n]
    BY <1>5
  <2> QED  BY <2>1, <2>2
<1>8. ASSUME NEW k \in Nat, k # 0 PROVE f[k] = Step[k-1][f[k-1]]
  <2> HIDE DEF f
  <2>1. k - 1 \in Nat /\ (k - 1) + 1 = k
    BY <1>8
  <2> QED  BY <1>7, <2>1
<1> QED
  <2> HIDE DEF f
  <2> QED  BY <1>6, <1>8

(* The same with one Step throughout. *)
LEMMA IterationOnNat ==
  ASSUME NEW S, NEW a, NEW F, a \in S, F \in [S -> S]
  PROVE  \E f \in [Nat -> S] :
           \A k \in Nat : f[k] = IF k = 0 THEN a ELSE F[f[k-1]]
<1> DEFINE Step == [k \in Nat |-> F]
<1>1. a \in S /\ Step \in [Nat -> [S -> S]]
  OBVIOUS
<1>2. PICK f \in [Nat -> S] :
        \A k \in Nat : f[k] = IF k = 0 THEN a ELSE Step[k-1][f[k-1]]
  <2> HIDE DEF Step
  <2> QED  BY ONLY <1>1, RecursionOnNat
<1>3. ASSUME NEW k \in Nat, k # 0 PROVE f[k] = F[f[k-1]]
  <2>1. k - 1 \in Nat
    BY <1>3
  <2> QED  BY <1>2, <1>3, <2>1
<1> QED
  BY <1>2, <1>3
==============================================================================
