---------------------------- MODULE LoopTheorems ----------------------------
(***************************************************************************)
(* Loops written as recursive functions: f[0] is the state before the      *)
(* loop, f[i] that after its i-th turn.  Sets and functions stand for the  *)
(* predicates and operators of the usual statements, so that the facts can *)
(* be cited.                                                               *)
(***************************************************************************)
EXTENDS Naturals, WellFoundedInduction, TLAPS

\* A set of naturals that is not empty has a least element.
LEMMA Least ==
    ASSUME NEW T, T \subseteq Nat, T # {}
    PROVE  \E m \in T : \A n \in T : m <= n
<1>1. PICK m \in T : \A n \in T : ~(<<n, m>> \in OpToRel(<, Nat))
  BY WFMin, NatLessThanWellFounded
<1>2. \A n \in T : ~(n < m)
  BY <1>1 DEF OpToRel
<1>3. \A n \in T : m <= n  BY <1>2
<1>4. QED  BY <1>3

\* Induction up to n, over the set of those that have the property.
LEMMA InductionUpTo ==
    ASSUME NEW n \in Nat, NEW P, 0 \in P, \A i \in 1 .. n : i - 1 \in P => i \in P
    PROVE  \A i \in 0 .. n : i \in P
<1> DEFINE Failing == {i \in 0 .. n : i \notin P}
<1>1. SUFFICES ASSUME Failing # {} PROVE FALSE  OBVIOUS
<1>2. Failing \subseteq Nat  OBVIOUS
<1>3. PICK m \in Failing : \A i \in Failing : m <= i  BY <1>1, <1>2, Least
<1>4. m \in 1 .. n /\ m - 1 \in 0 .. n /\ m - 1 \notin Failing  BY <1>3
<1>5. QED  BY <1>3, <1>4

\* What the turns of a loop over a set of states S do.
Turns(n, S) == [1 .. n -> [S -> S]]

\* A loop of n turns over a set of states S has its states.
LEMMA LoopStates ==
    ASSUME NEW n \in Nat, NEW S, NEW first \in S, NEW turn \in Turns(n, S)
    PROVE  \E f \in [0 .. n -> S] : f[0] = first /\ \A i \in 1 .. n : f[i] = turn[i][f[i - 1]]
<1> DEFINE States(m) == {f \in [0 .. m -> S] : /\ f[0] = first
                                               /\ \A i \in 1 .. m : f[i] = turn[i][f[i - 1]]}
           P == {m \in 0 .. n : States(m) # {}}
<1>0. turn \in [1 .. n -> [S -> S]]  BY DEF Turns
<1>1. 0 \in P
  <2>1. [i \in 0 .. 0 |-> first] \in States(0)  OBVIOUS
  <2>2. 0 \in 0 .. n  OBVIOUS
  <2>3. QED  BY <2>1, <2>2
<1>2. ASSUME NEW m \in 1 .. n, m - 1 \in P PROVE m \in P
  <2>1. PICK f \in States(m - 1) : TRUE  BY <1>2
  <2> DEFINE g == [i \in 0 .. m |-> IF i = m THEN turn[m][f[m - 1]] ELSE f[i]]
  <2>2. m \in Nat /\ m - 1 \in 0 .. m - 1 /\ f[m - 1] \in S /\ f[0] = first  BY <2>1
  <2>3. turn[m][f[m - 1]] \in S  BY <1>0, <2>2
  <2>4. g \in [0 .. m -> S]
    <3>1. ASSUME NEW i \in 0 .. m PROVE (IF i = m THEN turn[m][f[m - 1]] ELSE f[i]) \in S
      BY <2>1, <2>3
    <3>2. QED  BY <3>1
  <2>5. g[0] = first  BY <2>1, <2>2
  <2>6. ASSUME NEW i \in 1 .. m PROVE g[i] = turn[i][g[i - 1]]
    <3>1. CASE i = m
      <4>1. g[i - 1] = f[m - 1] /\ g[i] = turn[m][f[m - 1]]  BY <3>1
      <4>2. QED  BY <3>1, <4>1
    <3>2. CASE i # m
      <4>1. i \in 1 .. m - 1  BY <3>2
      <4>2. g[i - 1] = f[i - 1] /\ g[i] = f[i]  BY <4>1
      <4>3. f[i] = turn[i][f[i - 1]]  BY <2>1, <4>1
      <4>4. QED  BY <4>2, <4>3
    <3>3. QED  BY <3>1, <3>2
  <2>7. g \in States(m)  BY <2>4, <2>5, <2>6
  <2>8. QED  BY <2>7
<1>3. n \in P
  <2> HIDE DEF P
  <2>1. \A i \in 1 .. n : i - 1 \in P => i \in P  BY <1>2
  <2>2. \A i \in 0 .. n : i \in P  BY <1>1, <2>1, InductionUpTo
  <2>3. QED  BY <2>2
<1>4. PICK f \in States(n) : TRUE  BY <1>3
<1>5. QED  BY <1>4
=============================================================================
