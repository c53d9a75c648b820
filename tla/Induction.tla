----------------------------- MODULE Induction -----------------------------
(***************************************************************************)
(* Induction for the loops of the code, with sets in the place of          *)
(* predicates: what is to be shown of every number is that a set has it.   *)
(***************************************************************************)
EXTENDS Integers, TLAPS, WellFoundedInduction

\* A set with 0 and with the successor of every natural number in it holds all of them.
LEMMA NatInSet ==
  ASSUME NEW S, 0 \in S, \A n \in Nat : n \in S => n + 1 \in S
  PROVE  Nat \subseteq S
  <1> DEFINE T == {n \in Nat : n \notin S}
             R == OpToRel(<, Nat)
  <1>1. SUFFICES ASSUME T # {} PROVE FALSE OBVIOUS
  <1>2. IsWellFoundedOn(R, Nat) BY NatLessThanWellFounded, Zenon
  <1>3. \A x, y \in Nat : y < x => <<y, x>> \in R BY Zenon DEF OpToRel
  <1> HIDE DEF R
  <1>4. T \subseteq Nat OBVIOUS
  <1> HIDE DEF T
  <1>5. \E x \in T : \A y \in T : ~ (<<y, x>> \in R) BY <1>1, <1>2, <1>4, WFMin
  <1>6. PICK x \in T : \A y \in T : ~ (y < x) BY <1>3, <1>4, <1>5
  <1>7. x \in Nat /\ x \notin S /\ x # 0 BY <1>6 DEF T
  <1>8. x - 1 \in Nat /\ x - 1 < x BY <1>7
  <1>9. x - 1 \in S BY <1>6, <1>8 DEF T
  <1> QED BY <1>7, <1>8, <1>9

\* The same up to a bound, as a loop over a sequence goes.
LEMMA RangeInSet ==
  ASSUME NEW n \in Nat, NEW S, 0 \in S, \A i \in 0 .. n - 1 : i \in S => i + 1 \in S
  PROVE  0 .. n \subseteq S
  <1> DEFINE T == {i \in Nat : i <= n => i \in S}
  <1>1. 0 \in T OBVIOUS
  <1>2. \A i \in Nat : i \in T => i + 1 \in T OBVIOUS
  <1> HIDE DEF T
  <1>3. Nat \subseteq T BY <1>1, <1>2, NatInSet
  <1> QED BY <1>3 DEF T

\* f holds the states of a loop of n turns that starts in x, its turn i being g[i].
LoopStates(f, S, n, x, g) ==
  /\ f \in [0 .. n -> S]
  /\ f[0] = x
  /\ \A i \in 1 .. n : f[i] = g[i][f[i - 1]]

\* Every loop has its states.
LEMMA LoopExists ==
  ASSUME NEW S, NEW n \in Nat, NEW x \in S, NEW g \in [1 .. n -> [S -> S]]
  PROVE  \E f : LoopStates(f, S, n, x, g)
  <1> DEFINE T == {k \in 0 .. n : \E f : LoopStates(f, S, k, x, g)}
  <1>1. 0 \in T
    <2>1. LoopStates([i \in 0 .. 0 |-> x], S, 0, x, g) BY DEF LoopStates
    <2> QED BY <2>1
  <1>2. ASSUME NEW k \in 0 .. n - 1, k \in T PROVE k + 1 \in T
    <2>1. PICK f : LoopStates(f, S, k, x, g) BY <1>2
    <2> DEFINE h == [i \in 0 .. k + 1 |-> IF i <= k THEN f[i] ELSE g[k + 1][f[k]]]
    <2>2. /\ \A i \in 0 .. k : h[i] = f[i] /\ f[i] \in S
          /\ h[k + 1] = g[k + 1][f[k]] /\ h[k + 1] \in S
          /\ h[0] = x
      <3>1. \A i \in 0 .. k : h[i] = f[i] /\ f[i] \in S BY <2>1 DEF LoopStates
      <3>2. h[k + 1] = g[k + 1][f[k]] OBVIOUS
      <3> HIDE DEF h
      <3>k. k \in Nat /\ k \in 0 .. k /\ k + 1 \in 1 .. n OBVIOUS
      <3>3. g[k + 1] \in [S -> S] /\ f[k] \in S BY <3>1, <3>k
      <3>4. h[k + 1] \in S BY <3>2, <3>3
      <3>5. h[0] = x BY <2>1, <3>1 DEF LoopStates
      <3> QED BY <3>1, <3>2, <3>4, <3>5
    <2>3. \A i \in 1 .. k : f[i] = g[i][f[i - 1]] BY <2>1 DEF LoopStates
    <2>4. h = [i \in 0 .. k + 1 |-> h[i]] OBVIOUS
    <2> HIDE DEF h
    <2>5. \A i \in 0 .. k + 1 : h[i] \in S BY <2>2
    <2>6. h \in [0 .. k + 1 -> S] BY <2>4, <2>5
    <2>7. ASSUME NEW i \in 1 .. k + 1 PROVE h[i] = g[i][h[i - 1]]
      <3>1. CASE i = k + 1 BY <2>2, <3>1
      <3>2. CASE i \in 1 .. k BY <2>2, <2>3, <3>2
      <3> QED BY <3>1, <3>2
    <2>8. LoopStates(h, S, k + 1, x, g) BY <2>2, <2>6, <2>7 DEF LoopStates
    <2> QED BY <2>8
  <1> HIDE DEF T
  <1>3. \A k \in 0 .. n - 1 : k \in T => k + 1 \in T BY <1>2
  <1>4. 0 .. n \subseteq T BY <1>1, <1>3, RangeInSet
  <1> QED BY <1>4 DEF T
=============================================================================
