------------------------------ MODULE Recursions ------------------------------
(***************************************************************************)
(* Induction on numbers, and the functions that are defined by it, in a     *)
(* form that needs no operator as a parameter: what is shown of each value  *)
(* is that it is in a set.                                                  *)
(***************************************************************************)
EXTENDS Integers, WellFoundedInduction, TLAPS

\* Of numbers there is a least.
LEMMA Least ==
    ASSUME NEW T, T \subseteq Nat, T # {}
    PROVE  \E x \in T : \A y \in T : x <= y
<1>1. IsWellFoundedOn(OpToRel(<, Nat), Nat)
  BY NatLessThanWellFounded
<1>2. \E x \in T : \A y \in T : ~(<<y, x>> \in OpToRel(<, Nat))
  BY <1>1, WFMin, Zenon
<1>3. \A x, y \in Nat : x < y => <<x, y>> \in OpToRel(<, Nat)
  BY DEF OpToRel
<1>4. \E x \in T : \A y \in T : ~(y < x)
  BY <1>2, <1>3, Zenon
<1> QED BY <1>4

\* A function whose every value is made of the one before it exists, with its values where the
\* first is and where a step leads from there.
Unfolds(S, base, N, step) ==
    \E f \in [0 .. N -> S] : f[0] = base /\ \A n \in 1 .. N : f[n] = step[<<f[n - 1], n>>]

LEMMA Recursion ==
    ASSUME NEW S, NEW base \in S, NEW N \in Nat, NEW step \in [S \X (1 .. N) -> S]
    PROVE  Unfolds(S, base, N, step)
<1> DEFINE Until(n, f) == f[0] = base /\ \A i \in 1 .. n : f[i] = step[<<f[i - 1], i>>]
           Missing == {n \in 0 .. N : ~\E f \in [0 .. n -> S] : Until(n, f)}
<1>0. Missing \subseteq Nat
  OBVIOUS
<1>8. ASSUME Missing = {} PROVE \E f \in [0 .. N -> S] : Until(N, f)
  <2>1. N \in 0 .. N
    OBVIOUS
  <2>2. N \notin Missing
    BY <1>8, Zenon
  <2> QED BY <2>1, <2>2, Zenon
<1> SUFFICES ASSUME Missing # {} PROVE FALSE
  BY <1>8 DEF Unfolds
<1>1. PICK n \in Missing : \A m \in Missing : n <= m
  <2> HIDE DEF Missing
  <2> QED BY <1>0, Least
<1>2. n # 0
  <2> DEFINE f == [i \in 0 .. 0 |-> base]
  <2>1. f \in [0 .. 0 -> S] /\ Until(0, f)
    OBVIOUS
  <2> QED BY <2>1
<1>3. n - 1 \in 0 .. N /\ n - 1 \notin Missing
  <2>1. n \in 0 .. N
    OBVIOUS
  <2>2. n - 1 \in 0 .. N /\ ~(n <= n - 1)
    BY <1>2, <2>1
  <2> HIDE DEF Missing
  <2> QED BY <1>1, <2>2
<1>4. PICK f \in [0 .. n - 1 -> S] : Until(n - 1, f)
  BY <1>3
<1> DEFINE g == [i \in 0 .. n |-> IF i = n THEN step[<<f[n - 1], n>>] ELSE f[i]]
<1>5. n - 1 \in 0 .. n - 1 /\ n \in 1 .. N
  BY <1>1, <1>2
<1>6. g \in [0 .. n -> S]
  BY <1>5
<1>7. Until(n, g)
  <2>1. g[0] = base
    BY <1>2, <1>4, <1>5
  <2>2. ASSUME NEW i \in 1 .. n PROVE g[i] = step[<<g[i - 1], i>>]
    <3>1. i - 1 \in 0 .. n /\ i - 1 # n /\ g[i - 1] = f[i - 1]
      BY <1>5
    <3>2. CASE i = n
      BY <3>1, <3>2
    <3>3. CASE i # n
      BY <1>4, <3>1, <3>3
    <3> QED BY <3>2, <3>3
  <2> QED BY <2>1, <2>2
<1> QED BY <1>1, <1>6, <1>7

\* Each value is made of the one before it inside S; all of them are in S.
Keeps(S, N, h) == \A n \in 1 .. N : h[n - 1] \in S => h[n] \in S
StaysIn(S, N, h) == \A n \in 0 .. N : h[n] \in S

\* What holds of a first value, and of each that is made of one of which it holds, holds of all.
LEMMA Induction ==
    ASSUME NEW S, NEW N \in Nat, NEW h, h[0] \in S, Keeps(S, N, h)
    PROVE  StaysIn(S, N, h)
<1> DEFINE Without == {n \in 0 .. N : h[n] \notin S}
<1> SUFFICES ASSUME Without # {} PROVE FALSE
  BY DEF StaysIn
<1>1. Without \subseteq Nat
  OBVIOUS
<1>2. PICK n \in Without : \A m \in Without : n <= m
  <2> HIDE DEF Without
  <2> QED BY <1>1, Least
<1>3. n # 0 /\ n \in 1 .. N /\ n - 1 \in 0 .. N /\ ~(n <= n - 1)
  OBVIOUS
<1>4. n - 1 \notin Without
  <2> HIDE DEF Without
  <2> QED BY <1>2, <1>3
<1> QED BY <1>3, <1>4 DEF Keeps
================================================================================
