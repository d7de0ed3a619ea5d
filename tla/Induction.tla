------------------------------- MODULE Induction -------------------------------
(***************************************************************************)
(* Induction and recursion over numbers, for proofs about list operators.  *)
(* Sets of numbers have a least element, so a set that has 0 and the       *)
(* successor of each of its members is Nat; what a list operator computes  *)
(* follows by taking for the set the numbers its claim holds of.           *)
(***************************************************************************)
EXTENDS Integers, Sequences, SequenceTheorems, WellFoundedInduction, TLAPS

Less == {pair \in Nat \X Nat : pair[1] < pair[2]}

\* The numbers are well-founded, so a set of them has a least member.
LEMMA LessWellFounded == IsWellFoundedOn(Less, Nat)
BY NatLessThanWellFounded DEF Less, OpToRel

LEMMA InLess == ASSUME NEW m \in Nat, NEW n \in Nat, m < n PROVE <<m, n>> \in Less
<1>1. <<m, n>> \in Nat \X Nat
  OBVIOUS
<1>2. <<m, n>>[1] = m /\ <<m, n>>[2] = n
  OBVIOUS
<1>3. <<m, n>>[1] < <<m, n>>[2]
  BY <1>2
<1> QED BY <1>1, <1>3 DEF Less

LEMMA Least ==
  ASSUME NEW S \in SUBSET Nat, S # {}
  PROVE  \E n \in S : \A m \in S : n <= m
<1>1. PICK n \in S : \A m \in S : ~(<<m, n>> \in Less)
  BY LessWellFounded, WFMin
<1>2. ASSUME NEW m \in S PROVE n <= m
  <2>1. m \in Nat /\ n \in Nat
    OBVIOUS
  <2>2. ~(m < n)
    BY <1>1, <2>1, InLess
  <2> QED BY <2>1, <2>2
<1> QED BY <1>2

\* Induction up to n.
LEMMA UpTo ==
  ASSUME NEW n \in Nat, NEW S, 0 \in S, \A i \in 1 .. n : i - 1 \in S => i \in S
  PROVE  \A i \in 0 .. n : i \in S
<1> DEFINE Out == (0 .. n) \ S
<1> SUFFICES ASSUME Out # {} PROVE FALSE
  OBVIOUS
<1>1. Out \in SUBSET Nat
  OBVIOUS
<1> HIDE DEF Out
<1>2. PICK i \in Out : \A j \in Out : i <= j
  BY <1>1, Least
<1>3. i \in 1 .. n /\ i \notin S
  BY <1>2 DEF Out
<1>4. i - 1 \in 0 .. n /\ ~(i <= i - 1)
  BY <1>3
<1>5. i - 1 \in S
  BY <1>2, <1>4 DEF Out
<1> QED BY <1>3, <1>5

\* A function that is defined by its value at 0 and by a step exists, in the set that the
\* step stays in.
Steps(f, n, base, step) == [i \in 0 .. n |-> IF i = 0 THEN base ELSE step[<<f[i - 1], i>>]]

StepsTo(f, k, base, step) == f[0] = base /\ \A i \in 1 .. k : f[i] = step[<<f[i - 1], i>>]

AreSteps(V, n, base, step) == n \in Nat /\ base \in V /\ step \in [V \X (1 .. n) -> V]

Stepwise(V, n, base, step) == \E f \in [0 .. n -> V] : f = Steps(f, n, base, step)

\* A recursion over numbers has a value at each of them: the one a list operator is defined by.
LEMMA StepsExist ==
  ASSUME NEW V, NEW n, NEW base, NEW step, AreSteps(V, n, base, step)
  PROVE  Stepwise(V, n, base, step)
<1>0. n \in Nat /\ base \in V /\ step \in [V \X (1 .. n) -> V]
  BY DEF AreSteps
<1> DEFINE S == {k \in Nat : \E f \in [0 .. k -> V] : StepsTo(f, k, base, step)}
<1>1. 0 \in S
  <2>1. [i \in 0 .. 0 |-> base] \in [0 .. 0 -> V]
    BY <1>0
  <2>2. StepsTo([i \in 0 .. 0 |-> base], 0, base, step)
    BY DEF StepsTo
  <2> QED BY <2>1, <2>2
<1>2. ASSUME NEW m \in 1 .. n, m - 1 \in S PROVE m \in S
  <2>0. PICK k \in Nat : k = m - 1 /\ k + 1 = m /\ k + 1 \in 1 .. n
    BY <1>0
  <2>1. PICK f \in [0 .. k -> V] : StepsTo(f, k, base, step)
    BY <1>2, <2>0
  <2>2. PICK v : v = step[<<f[k], k + 1>>]
    OBVIOUS
  <2>3. v \in V
    <3>1. f[k] \in V
      BY <2>0
    <3>2. <<f[k], k + 1>> \in V \X (1 .. n)
      BY <3>1, <2>0
    <3> QED BY <1>0, <2>2, <3>2
  <2>4. PICK g : g = [i \in 0 .. k + 1 |-> IF i = k + 1 THEN v ELSE f[i]]
    OBVIOUS
  <2>5. g \in [0 .. k + 1 -> V]
    <3>1. ASSUME NEW i \in 0 .. k + 1 PROVE (IF i = k + 1 THEN v ELSE f[i]) \in V
      <4>1. CASE i = k + 1
        BY <2>3, <4>1
      <4>2. CASE i # k + 1
        BY <2>0, <4>2
      <4> QED BY <4>1, <4>2
    <3> QED BY <3>1, <2>4
  <2>6. g[0] = base
    <3>1. 0 \in 0 .. k + 1 /\ 0 # k + 1
      BY <2>0
    <3> QED BY <3>1, <2>1, <2>4 DEF StepsTo
  <2>7. ASSUME NEW i \in 1 .. k + 1 PROVE g[i] = step[<<g[i - 1], i>>]
    <3>0. i \in 0 .. k + 1 /\ i - 1 \in 0 .. k + 1 /\ i - 1 # k + 1
      BY <2>0
    <3>1. g[i - 1] = f[i - 1]
      BY <2>4, <3>0
    <3>2. CASE i = k + 1
      <4>1. i - 1 = k
        BY <2>0, <3>2
      <4>2. g[i] = v
        BY <2>4, <3>0, <3>2
      <4> QED BY <2>2, <4>1, <4>2, <3>1, <3>2
    <3>3. CASE i # k + 1
      <4>1. i \in 1 .. k
        BY <2>0, <3>3
      <4>2. g[i] = f[i]
        BY <2>4, <3>0, <3>3
      <4> QED BY <2>1, <4>1, <4>2, <3>1 DEF StepsTo
    <3> QED BY <3>2, <3>3
  <2>8. StepsTo(g, k + 1, base, step)
    BY <2>6, <2>7 DEF StepsTo
  <2> QED BY <2>0, <2>5, <2>8
<1> HIDE DEF S
<1>3. n \in S
  <2>1. n \in 0 .. n
    BY <1>0
  <2> QED BY <1>0, <1>1, <1>2, <2>1, UpTo
<1>4. PICK f \in [0 .. n -> V] : StepsTo(f, n, base, step)
  BY <1>3 DEF S
<1>5. \A i \in 0 .. n : f[i] = IF i = 0 THEN base ELSE step[<<f[i - 1], i>>]
  BY <1>4 DEF StepsTo
<1> QED BY <1>4, <1>5 DEF Steps, Stepwise

--------------------------------------------------------------------------------
\* The places of a list.
LEMMA Places ==
  ASSUME NEW T, NEW list \in Seq(T)
  PROVE  /\ Len(list) \in Nat /\ DOMAIN list = 1 .. Len(list)
         /\ \A i \in DOMAIN list : list[i] \in T
BY LenProperties, ElementOfSeq

\* A list with other entries at its places is a list of its length.
LEMMA SameLength ==
  ASSUME NEW S, NEW T, NEW list \in Seq(S), NEW next, next \in [DOMAIN list -> T]
  PROVE  next \in Seq(T) /\ Len(next) = Len(list) /\ DOMAIN next = DOMAIN list
<1>1. Len(list) \in Nat /\ DOMAIN list = 1 .. Len(list)
  BY Places
<1>2. next \in [1 .. Len(list) -> T]
  BY <1>1
<1>3. next \in Seq(T) /\ Len(next) = Len(list)
  BY <1>1, <1>2, IsASeq, LenProperties
<1> QED BY <1>1, <1>2, <1>3
================================================================================
