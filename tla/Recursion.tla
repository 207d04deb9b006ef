------------------------------- MODULE Recursion -------------------------------
(***************************************************************************)
(* Induction for the loops of the models, which are recursive functions    *)
(* over the turns: induction as a fact about sets of numbers, and what a   *)
(* recursive function gives when every turn stays within a set.            *)
(***************************************************************************)
EXTENDS Integers, WellFoundedInduction, TLAPS

LEMMA LeastNumber ==
  ASSUME NEW T, T \subseteq Nat, T # {}
  PROVE  \E x \in T : \A y \in T : x <= y
<1> DEFINE R == {ss \in Nat \X Nat : ss[1] < ss[2]}
<1>1. R = OpToRel(<, Nat)
  BY DEF OpToRel
<1>2. IsWellFoundedOn(R, Nat)
  BY <1>1, NatLessThanWellFounded
<1>3. \A x, y \in Nat : <<y, x>> \in R \/ x <= y
  OBVIOUS
<1> HIDE DEF R
<1>4. \E x \in T : \A y \in T : <<y, x>> \notin R
  BY <1>2, WFMin
<1> QED
  BY <1>3, <1>4

\* A set that has the first turn, and with every turn the next, has all turns.
LEMMA TurnInduction ==
  ASSUME NEW N \in Nat, NEW T, 0 \in T,
         \A n \in 1 .. N : n - 1 \in T => n \in T
  PROVE  0 .. N \subseteq T
<1> SUFFICES ASSUME (0 .. N) \ T # {}  PROVE FALSE
  OBVIOUS
<1>1. PICK x \in (0 .. N) \ T : \A y \in (0 .. N) \ T : x <= y
  <2> DEFINE missed == (0 .. N) \ T
  <2>1. missed \subseteq Nat /\ missed # {}
    OBVIOUS
  <2> HIDE DEF missed
  <2>2. \E x \in missed : \A y \in missed : x <= y
    BY <2>1, LeastNumber
  <2> QED
    BY <2>2 DEF missed
<1>2. x \in 1 .. N /\ x - 1 \in 0 .. N
  BY <1>1
<1>3. x - 1 \in T
  BY <1>1, <1>2
<1> QED
  BY <1>1, <1>2, <1>3

\* A loop of N turns that stay in S, as functions of the number of turns.
Loops(S, N, first, step) ==
  {f \in [0 .. N -> S] : f[0] = first /\ \A n \in 1 .. N : f[n] = step[n][f[n - 1]]}

LEMMA LoopExists ==
  ASSUME NEW S, NEW N \in Nat, NEW first \in S, NEW step \in [1 .. N -> [S -> S]]
  PROVE  Loops(S, N, first, step) # {}
<1> DEFINE IsLoop(f, k) == f[0] = first /\ \A n \in 1 .. k : f[n] = step[n][f[n - 1]]
           T == {k \in 0 .. N : \E f \in [0 .. k -> S] : IsLoop(f, k)}
<1>1. 0 \in T
  <2> DEFINE f == [n \in 0 .. 0 |-> first]
  <2>1. f \in [0 .. 0 -> S] /\ IsLoop(f, 0)
    OBVIOUS
  <2> HIDE DEF f, IsLoop
  <2>2. \E h \in [0 .. 0 -> S] : IsLoop(h, 0)
    BY <2>1
  <2> QED
    BY <2>2
<1>2. ASSUME NEW k \in 1 .. N, k - 1 \in T  PROVE k \in T
  <2>1. PICK f \in [0 .. k - 1 -> S] : IsLoop(f, k - 1)
    BY <1>2
  <2> DEFINE g == [n \in 0 .. k |-> IF n = k THEN step[k][f[k - 1]] ELSE f[n]]
  <2>2. f[k - 1] \in S /\ step[k][f[k - 1]] \in S
    BY <2>1
  <2>3. g \in [0 .. k -> S]
    BY <2>1, <2>2
  <2>4. g[0] = first
    BY <2>1
  <2>5. ASSUME NEW n \in 1 .. k  PROVE g[n] = step[n][g[n - 1]]
    <3>1. CASE n = k
      BY <3>1
    <3>2. CASE n # k
      <4>1. n \in 1 .. k - 1 /\ g[n] = f[n] /\ g[n - 1] = f[n - 1]
        BY <3>2
      <4> QED
        BY <2>1, <4>1
    <3> QED
      BY <3>1, <3>2
  <2>6. IsLoop(g, k)
    BY <2>4, <2>5
  <2> HIDE DEF g, IsLoop
  <2>7. \E h \in [0 .. k -> S] : IsLoop(h, k)
    BY <2>3, <2>6
  <2> QED
    BY <2>7
<1> HIDE DEF T
<1>3. 0 .. N \subseteq T
  BY <1>1, <1>2, TurnInduction
<1>4. N \in T
  BY <1>3
<1> QED
  BY <1>4 DEF T, Loops
================================================================================
