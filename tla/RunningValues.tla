---------------------------- MODULE RunningValues ----------------------------
(***************************************************************************)
(* Facts about values that are computed step by step over a finite range,  *)
(* as the recursive functions of the models compute them over the calls of *)
(* a batch or the messages of a thread. The step is a function and the     *)
(* property a set, so that the facts can be cited for any of them.         *)
(***************************************************************************)
EXTENDS Integers, FiniteSets, FiniteSetTheorems, WellFoundedInduction, TLAPS

\* Induction, for a set of numbers.
LEMMA InductionInNat ==
    ASSUME NEW P \in SUBSET Nat, 0 \in P, \A n \in P : n + 1 \in P
    PROVE  P = Nat
<1> SUFFICES ASSUME Nat \ P # {} PROVE FALSE
  OBVIOUS
<1> DEFINE R == OpToRel(<, Nat)
<1>1. IsWellFoundedOn(R, Nat)
  BY NatLessThanWellFounded
<1>2. PICK x \in Nat \ P : \A y \in Nat \ P : ~ (<<y, x>> \in R)
  BY <1>1, WFMin
<1>3. x # 0 /\ x - 1 \in Nat /\ x - 1 < x
  OBVIOUS
<1>4. <<x - 1, x>> \in R
  BY <1>3 DEF OpToRel
<1>5. x - 1 \in P
  BY <1>2, <1>3, <1>4
<1>6. (x - 1) + 1 \in P /\ (x - 1) + 1 = x
  BY <1>5
<1> QED
  BY <1>6

\* A property that the first value has and every step keeps is one of all the values.
LEMMA RunningStays ==
    ASSUME NEW n \in Nat, NEW g, NEW P,
           g[0] \in P, \A k \in 1..n : g[k - 1] \in P => g[k] \in P
    PROVE  \A k \in 0..n : g[k] \in P
<1> DEFINE Held == {k \in Nat : k <= n => g[k] \in P}
<1>1. 0 \in Held
  OBVIOUS
<1>2. ASSUME NEW k \in Held PROVE k + 1 \in Held
  <2>1. CASE k + 1 <= n
    <3>1. k + 1 \in 1..n /\ (k + 1) - 1 = k /\ k <= n
      BY <2>1
    <3> QED
      BY <3>1
  <2> QED
    BY <2>1
<1>3. Held \in SUBSET Nat
  OBVIOUS
<1> HIDE DEF Held
<1>4. Held = Nat
  BY <1>1, <1>2, <1>3, InductionInNat
<1>5. \A k \in Nat : k <= n => g[k] \in P
  BY <1>4 DEF Held
<1> QED
  BY <1>5

\* Steps that stay in X, one for each place of the range, and the values they compute.
StepsIn(X, n) == [1..n -> [X -> X]]
Computed(g, X, n, x, step) ==
    /\ g \in [0..n -> X] /\ g[0] = x
    /\ \A k \in 1..n : g[k] = step[k][g[k - 1]]

\* The values exist: what a recursive function over 0..n says of itself defines it.
LEMMA RunningValuesExist ==
    ASSUME NEW n \in Nat, NEW X, NEW x \in X, NEW step \in StepsIn(X, n)
    PROVE  \E g : Computed(g, X, n, x, step)
<1> DEFINE Runs(g, m) == /\ g \in [0..n -> X] /\ g[0] = x
                         /\ \A k \in 1..n : k <= m => g[k] = step[k][g[k - 1]]
           Reached == {m \in Nat : \E g \in [0..n -> X] : Runs(g, m)}
<1>0. step \in [1..n -> [X -> X]]
  BY DEF StepsIn
<1>1. 0 \in Reached
  <2>1. Runs([k \in 0..n |-> x], 0)
    OBVIOUS
  <2> QED
    BY <2>1
<1>2. ASSUME NEW m \in Reached PROVE m + 1 \in Reached
  <2>1. PICK g \in [0..n -> X] : Runs(g, m)
    OBVIOUS
  <2>2. CASE m + 1 > n
    <3>1. Runs(g, m + 1)
      BY <2>1, <2>2
    <3> QED
      BY <3>1
  <2>3. CASE m + 1 <= n
    <3> DEFINE value == step[m + 1][g[m]]
               h == [g EXCEPT ![m + 1] = value]
    <3>1. m \in 0..n /\ m + 1 \in 1..n /\ m \in Nat
      BY <2>3
    <3>2. value \in X
      BY <1>0, <2>1, <3>1
    <3>3. h \in [0..n -> X] /\ h[0] = x /\ h[m + 1] = value
      BY <2>1, <3>1, <3>2
    <3>4. \A k \in 0..n : k # m + 1 => h[k] = g[k]
      BY <2>1
    <3>5. ASSUME NEW k \in 1..n, k <= m + 1 PROVE h[k] = step[k][h[k - 1]]
      <4>1. k - 1 \in 0..n /\ k - 1 # m + 1 /\ h[k - 1] = g[k - 1]
        BY <3>1, <3>4, <3>5
      <4>2. CASE k = m + 1
        <5>1. k - 1 = m
          BY <3>1, <4>2
        <5> QED
          BY <3>3, <4>1, <4>2, <5>1
      <4>3. CASE k # m + 1
        <5>1. k <= m /\ h[k] = g[k]
          BY <3>1, <3>4, <3>5, <4>3
        <5> QED
          BY <2>1, <4>1, <5>1
      <4> QED
        BY <4>2, <4>3
    <3>6. h \in [0..n -> X] /\ Runs(h, m + 1)
      BY <3>3, <3>5
    <3> HIDE DEF h, Runs
    <3>7. m + 1 \in Nat
      BY <3>1
    <3> QED
      BY <3>6, <3>7
  <2> QED
    BY <2>2, <2>3
<1>3. Reached \in SUBSET Nat
  OBVIOUS
<1> HIDE DEF Reached
<1>4. Reached = Nat
  BY <1>1, <1>2, <1>3, InductionInNat
<1>5. PICK g \in [0..n -> X] : Runs(g, n)
  BY <1>4 DEF Reached
<1>6. Computed(g, X, n, x, step)
  BY <1>5 DEF Computed
<1> QED
  BY <1>6

\* The same for values whose property changes with the place: P[k] holds those that may
\* stand at k, and each step leads from one to the next.
LEMMA ValuesMoveOn ==
    ASSUME NEW n \in Nat, NEW g, NEW P,
           g[0] \in P[0], \A k \in 1..n : g[k - 1] \in P[k - 1] => g[k] \in P[k]
    PROVE  \A k \in 0..n : g[k] \in P[k]
<1> DEFINE Held == {k \in Nat : k <= n => g[k] \in P[k]}
<1>1. 0 \in Held
  OBVIOUS
<1>2. ASSUME NEW k \in Held PROVE k + 1 \in Held
  <2>1. CASE k + 1 <= n
    <3>1. k + 1 \in 1..n /\ (k + 1) - 1 = k /\ k <= n
      BY <2>1
    <3> QED
      BY <3>1
  <2> QED
    BY <2>1
<1>3. Held \in SUBSET Nat
  OBVIOUS
<1> HIDE DEF Held
<1>4. Held = Nat
  BY <1>1, <1>2, <1>3, InductionInNat
<1>5. \A k \in Nat : k <= n => g[k] \in P[k]
  BY <1>4 DEF Held
<1> QED
  BY <1>5

Advancing(g, P, n, x, step) ==
    /\ g = [k \in 0..n |-> g[k]] /\ g[0] = x
    /\ \A k \in 1..n : g[k] = step[k][g[k - 1]]
    /\ \A k \in 0..n : g[k] \in P[k]

LEMMA ValuesAdvance ==
    ASSUME NEW n \in Nat, NEW P, NEW x \in P[0], NEW step,
           \A k \in 1..n : \A y \in P[k - 1] : step[k][y] \in P[k]
    PROVE  \E g : Advancing(g, P, n, x, step)
<1> DEFINE X == UNION {P[k] : k \in 0..n}
           within == [k \in 1..n |-> [y \in X |-> IF y \in P[k - 1] THEN step[k][y] ELSE x]]
<1>1. x \in X
  <2>1. 0 \in 0..n
    OBVIOUS
  <2> QED
    BY <2>1
<1>2. within \in StepsIn(X, n)
  <2>1. ASSUME NEW k \in 1..n, NEW y \in X
        PROVE  (IF y \in P[k - 1] THEN step[k][y] ELSE x) \in X
    <3>1. k \in 0..n
      OBVIOUS
    <3>2. y \in P[k - 1] => step[k][y] \in X
      BY <3>1
    <3> HIDE DEF X
    <3> QED
      BY <1>1, <3>2
  <2> HIDE DEF X
  <2> QED
    BY <2>1 DEF StepsIn
<1>3. PICK g : Computed(g, X, n, x, within)
  <2> HIDE DEF X, within
  <2> QED
    BY <1>1, <1>2, RunningValuesExist
<1>4. g \in [0..n -> X] /\ g[0] = x /\ \A k \in 1..n : g[k] = within[k][g[k - 1]]
  BY <1>3 DEF Computed
<1>5. ASSUME NEW k \in 1..n, g[k - 1] \in P[k - 1]
      PROVE  g[k] = step[k][g[k - 1]] /\ g[k] \in P[k]
  <2>1. g[k - 1] \in X
    <3>1. k - 1 \in 0..n
      OBVIOUS
    <3> QED
      BY <1>4, <3>1
  <2> HIDE DEF X
  <2> QED
    BY <1>4, <1>5, <2>1
<1> HIDE DEF X, within
<1>6. g[0] \in P[0]
  BY <1>4
<1>7. \A k \in 0..n : g[k] \in P[k]
  BY <1>5, <1>6, ValuesMoveOn
<1>8. \A k \in 1..n : g[k] = step[k][g[k - 1]]
  <2> SUFFICES ASSUME NEW k \in 1..n PROVE g[k] = step[k][g[k - 1]]
    OBVIOUS
  <2>1. k - 1 \in 0..n
    OBVIOUS
  <2> QED
    BY <1>5, <1>7, <2>1
<1>9. g = [k \in 0..n |-> g[k]]
  BY <1>4
<1> QED
  BY <1>4, <1>7, <1>8, <1>9 DEF Advancing
=============================================================================
