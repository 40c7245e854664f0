----------------------------- MODULE Induction -----------------------------
(***************************************************************************)
(* Induction over the natural numbers and definition by recursion on them, *)
(* stated of sets and functions.  The model's recursive functions are      *)
(* defined by CHOOSE; these lemmas are what a proof about one starts from. *)
(***************************************************************************)
EXTENDS Integers, WellFoundedInduction, TLAPS

\* A set of natural numbers that holds 0, and with each number the next one, is Nat:
\* the induction that proves what the recursive functions of retry.py and batches.py
\* return.
LEMMA NatSet ==
    ASSUME NEW T \in SUBSET Nat, 0 \in T, \A n \in T : n + 1 \in T
    PROVE  T = Nat
<1> DEFINE R == OpToRel(<, Nat)
           C == Nat \ T
<1>1. \A x, y \in Nat : <<x, y>> \in R <=> x < y
  BY DEF OpToRel
<1>2. SUFFICES ASSUME C # {} PROVE FALSE
  OBVIOUS
<1>3. IsWellFoundedOn(R, Nat)
  BY NatLessThanWellFounded
<1> HIDE DEF R
<1>4. PICK x \in C : \A y \in C : ~(<<y, x>> \in R)
  BY <1>2, <1>3, WFMin
<1>5. x # 0
  OBVIOUS
<1>6. x - 1 \in Nat /\ x - 1 + 1 = x
  BY <1>5
<1>7. <<x - 1, x>> \in R
  BY <1>1, <1>6
<1>8. x - 1 \in T
  BY <1>4, <1>6, <1>7
<1>9. QED BY <1>6, <1>8

\* A function on Nat that begins with `first` and goes on by `step`.
Steps(S) == [Nat -> [S -> S]]

Follows(g, S, first, step) ==
    /\ g \in [Nat -> S]
    /\ g[0] = first
    /\ \A n \in Nat : g[n + 1] = step[n][g[n]]

\* There is one for every first value and every step: what a recursive function of the
\* model needs for its definition to be an equation.
LEMMA Recursion ==
    ASSUME NEW S, NEW first \in S, NEW step \in Steps(S)
    PROVE  \E g : Follows(g, S, first, step)
<1> USE DEF Steps
<1> DEFINE Start(n, h) == /\ h \in [0..n -> S]
                          /\ h[0] = first
                          /\ \A i \in 0..n : i < n => h[i + 1] = step[i][h[i]]
           Has == {n \in Nat : \E h : Start(n, h)}
           Best(n) == CHOOSE h : Start(n, h)
           g == [n \in Nat |-> Best(n)[n]]
<1>1. Has = Nat
  <2>1. 0 \in Has
    <3>1. Start(0, [i \in 0..0 |-> first])
      OBVIOUS
    <3>2. QED BY <3>1
  <2>2. ASSUME NEW n \in Has PROVE n + 1 \in Has
    <3>1. PICK h : Start(n, h)
      BY <2>2
    <3> DEFINE k == [i \in 0..(n + 1) |-> IF i = n + 1 THEN step[n][h[n]] ELSE h[i]]
    <3>2. n \in Nat /\ n \in 0..n /\ h[n] \in S
      BY <3>1
    <3>3. k \in [0..(n + 1) -> S]
      BY <3>1, <3>2
    <3>4. k[0] = first
      BY <3>1, <3>2
    <3>5. ASSUME NEW i \in 0..(n + 1), i < n + 1 PROVE k[i + 1] = step[i][k[i]]
      <4>1. i \in 0..n /\ k[i] = h[i] /\ i + 1 \in 0..(n + 1)
        BY <3>2, <3>5
      <4>2. CASE i = n
        BY <4>1, <4>2
      <4>3. CASE i # n
        <5>1. i < n /\ i + 1 # n + 1
          BY <3>2, <4>1, <4>3
        <5>2. k[i + 1] = h[i + 1]
          BY <4>1, <5>1
        <5>3. h[i + 1] = step[i][h[i]]
          BY <3>1, <4>1, <5>1
        <5>4. QED BY <4>1, <5>2, <5>3
      <4>4. QED BY <4>2, <4>3
    <3>6. Start(n + 1, k)
      BY <3>3, <3>4, <3>5
    <3> HIDE DEF k, Start
    <3>7. QED BY <3>2, <3>6
  <2> HIDE DEF Has
  <2>3. Has \in SUBSET Nat
    BY DEF Has
  <2>4. QED BY <2>1, <2>2, <2>3, NatSet
<1>2. ASSUME NEW n \in Nat PROVE Start(n, Best(n))
  <2>1. \E h : Start(n, h)
    BY <1>1
  <2> HIDE DEF Start
  <2>2. QED BY <2>1
<1>3. ASSUME NEW n \in Nat PROVE Best(n + 1)[n] = Best(n)[n]
  <2> DEFINE h == Best(n)
             k == Best(n + 1)
             Same == {i \in Nat : i \in 0..n => h[i] = k[i]}
  <2>1. Start(n, h) /\ Start(n + 1, k)
    <3>1. n + 1 \in Nat
      OBVIOUS
    <3> HIDE DEF Start, Best
    <3>2. QED BY <1>2, <3>1
  <2> HIDE DEF h, k
  <2>2. 0 \in Same
    BY <2>1
  <2>3. ASSUME NEW i \in Same PROVE i + 1 \in Same
    <3>1. CASE i + 1 \in 0..n
      <4>1. i \in 0..n /\ i < n /\ i \in 0..(n + 1) /\ i < n + 1
        BY <3>1
      <4>2. h[i] = k[i]
        BY <4>1
      <4>3. h[i + 1] = step[i][h[i]] /\ k[i + 1] = step[i][k[i]]
        BY <2>1, <4>1
      <4>4. QED BY <4>2, <4>3
    <3>2. QED BY <3>1
  <2>4. Same = Nat
    <3>1. Same \in SUBSET Nat
      OBVIOUS
    <3> HIDE DEF Same
    <3>2. QED BY <2>2, <2>3, <3>1, NatSet
  <2>5. h[n] = k[n]
    BY <2>4
  <2> HIDE DEF Best
  <2>6. QED BY <2>5 DEF h, k
<1>4. g \in [Nat -> S]
  <2>1. ASSUME NEW n \in Nat PROVE Best(n)[n] \in S
    <3> HIDE DEF Best
    <3>1. n \in 0..n
      OBVIOUS
    <3>2. QED BY <1>2, <3>1
  <2> HIDE DEF Best
  <2>2. QED BY <2>1
<1>5. g[0] = first
  <2>1. Start(0, Best(0))
    BY <1>2
  <2>2. QED BY <2>1
<1>6. ASSUME NEW n \in Nat PROVE g[n + 1] = step[n][g[n]]
  <2>1. Start(n + 1, Best(n + 1))
    <3>1. n + 1 \in Nat
      OBVIOUS
    <3> HIDE DEF Start, Best
    <3>2. QED BY <1>2, <3>1
  <2> HIDE DEF Best
  <2>2. g[n + 1] = Best(n + 1)[n + 1] /\ g[n] = Best(n)[n]
    OBVIOUS
  <2>3. n \in 0..(n + 1) /\ n < n + 1
    OBVIOUS
  <2>4. Best(n + 1)[n + 1] = step[n][Best(n + 1)[n]]
    BY <2>1, <2>3
  <2>5. QED BY <1>3, <2>2, <2>4
<1> HIDE DEF g
<1>7. Follows(g, S, first, step)
  BY <1>4, <1>5, <1>6 DEF Follows
<1>8. QED BY <1>7
=============================================================================
