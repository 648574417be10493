---------------------------- MODULE LoopTheorems ----------------------------
(***************************************************************************)
(* Loops: a recursive function of the number of rounds exists, and what    *)
(* holds at first and is kept by a round holds after any number of them.   *)
(***************************************************************************)
EXTENDS Integers, NaturalsInduction, WellFoundedInduction, TLAPS

\* Every set of natural numbers has a least element ...
LEMMA LeastNat ==
  ASSUME NEW T \in SUBSET Nat, T # {}
  PROVE  \E m \in T : \A n \in T : m <= n
<1> DEFINE R == { p \in Nat \X Nat : p[1] < p[2] }
<1>1. IsWellFoundedOn(R, Nat)
  <2>1. R = OpToRel(<, Nat)
    BY DEF OpToRel
  <2> QED
    BY <2>1, NatLessThanWellFounded
<1>2. PICK m \in T : \A n \in T : ~ (<< n, m >> \in R)
  BY <1>1, WFMin
<1>3. ASSUME NEW n \in T
      PROVE  m <= n
  <2>1. << n, m >> \in Nat \X Nat /\ << n, m >>[1] = n /\ << n, m >>[2] = m
    OBVIOUS
  <2>2. ~ (n < m)
    BY <1>2, <2>1
  <2> QED
    BY <2>2
<1> QED
  BY <1>3

\* ... so that what holds at 0, and after n at n + 1, holds everywhere.
LEMMA Induction ==
  ASSUME NEW T \in SUBSET Nat, 0 \in T, \A n \in T : n + 1 \in T
  PROVE  T = Nat
<1>1. SUFFICES ASSUME Nat \ T # {}
               PROVE  FALSE
  OBVIOUS
<1>2. PICK m \in Nat \ T : \A n \in Nat \ T : m <= n
  BY <1>1, LeastNat
<1>3. m # 0 /\ m - 1 \in Nat /\ m - 1 \in T
  BY <1>2
<1> QED
  BY <1>2, <1>3

\* A function that is applied again and again.
Loop(S, a, f) ==
  CHOOSE g : /\ g \in [Nat -> S] /\ g[0] = a
             /\ \A n \in Nat : g[n + 1] = f[n][g[n]]

LEMMA Iterate ==
  ASSUME NEW S, NEW a \in S, NEW f \in [Nat -> [S -> S]]
  PROVE  /\ Loop(S, a, f) \in [Nat -> S] /\ Loop(S, a, f)[0] = a
         /\ \A n \in Nat : Loop(S, a, f)[n + 1] = f[n][Loop(S, a, f)[n]]
<1> DEFINE Fits(g, m) == /\ g \in [0 .. m -> S] /\ g[0] = a
                         /\ \A n \in 0 .. m - 1 : g[n + 1] = f[n][g[n]]
           T == { m \in Nat : \E g : Fits(g, m) }
<1>1. 0 \in T
  <2>1. Fits([n \in 0 .. 0 |-> a], 0)
    OBVIOUS
  <2> QED
    BY <2>1
<1>2. ASSUME NEW m \in T
      PROVE  m + 1 \in T
  <2>1. PICK g : Fits(g, m)
    OBVIOUS
  <2> DEFINE h == [n \in 0 .. m + 1 |-> IF n = m + 1 THEN f[m][g[m]] ELSE g[n]]
  <2>2. h \in [0 .. m + 1 -> S] /\ h[0] = a
    BY <2>1
  <2>3. ASSUME NEW n \in 0 .. m
        PROVE  h[n + 1] = f[n][h[n]]
    <3>1. CASE n = m
      <4>1. h[n + 1] = f[m][g[m]]
        BY <3>1
      <4>2. h[n] = g[m]
        BY <3>1
      <4> QED
        BY <3>1, <4>1, <4>2
    <3>2. CASE n # m
      <4>1. n \in 0 .. m - 1 /\ n + 1 \in 0 .. m /\ n + 1 # m + 1 /\ n # m + 1
        BY <3>2
      <4>2. h[n + 1] = g[n + 1] /\ h[n] = g[n]
        BY <4>1
      <4>3. g[n + 1] = f[n][g[n]]
        BY <2>1, <4>1
      <4> QED
        BY <4>2, <4>3
    <3> QED
      BY <3>1, <3>2
  <2> HIDE DEF h
  <2>4. 0 .. (m + 1) - 1 = 0 .. m
    OBVIOUS
  <2>5. Fits(h, m + 1)
    BY <2>2, <2>3, <2>4
  <2> HIDE DEF Fits
  <2> QED
    BY <2>5
<1>3. T = Nat
  <2>1. T \in SUBSET Nat
    OBVIOUS
  <2> QED
    BY <1>1, <1>2, <2>1, Induction DEF T
<1> DEFINE G == [m \in Nat |-> CHOOSE g : Fits(g, m)]
<1>4. \A m \in Nat : Fits(G[m], m)
  BY <1>3
<1> HIDE DEF G
<1> DEFINE V == { n \in Nat : \A m \in Nat : m >= n => G[m][n] = G[n][n] }
<1>5. 0 \in V
  BY <1>4
<1>6. ASSUME NEW n \in V
      PROVE  n + 1 \in V
  <2>1. ASSUME NEW m \in Nat, m >= n + 1
        PROVE  G[m][n + 1] = G[n + 1][n + 1]
    <3>1. G[m][n + 1] = f[n][G[m][n]]
      BY <1>4, <2>1
    <3>2. G[n + 1][n + 1] = f[n][G[n + 1][n]]
      BY <1>4
    <3> QED
      BY <2>1, <3>1, <3>2
  <2> QED
    BY <2>1
<1>7. V = Nat
  <2>1. V \in SUBSET Nat
    OBVIOUS
  <2> QED
    BY <1>5, <1>6, <2>1, Induction DEF V
<1> DEFINE g == [n \in Nat |-> G[n][n]]
<1>8. g \in [Nat -> S] /\ g[0] = a
  BY <1>4
<1>9. ASSUME NEW n \in Nat
      PROVE  g[n + 1] = f[n][g[n]]
  <2>1. G[n + 1][n + 1] = f[n][G[n + 1][n]]
    BY <1>4
  <2>2. n \in V /\ n + 1 \in Nat /\ n + 1 >= n
    BY <1>7
  <2>3. G[n + 1][n] = G[n][n]
    BY <2>2
  <2> QED
    BY <2>1, <2>3
<1> HIDE DEF g
<1>10. \E h : /\ h \in [Nat -> S] /\ h[0] = a
               /\ \A n \in Nat : h[n + 1] = f[n][h[n]]
  BY <1>8, <1>9
<1> QED
  BY <1>10 DEF Loop

=============================================================================
