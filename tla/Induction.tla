----------------------------- MODULE Induction -----------------------------
(***************************************************************************)
(* Induction and recursion over numbers, stated with sets and functions.    *)
(***************************************************************************)
EXTENDS Integers, TLAPS, WellFoundedInduction

\* A set that has 0 and with each number its successor has all.
LEMMA InductiveSet ==
    ASSUME NEW T, 0 \in T, \A n \in Nat : n \in T => n + 1 \in T
    PROVE  Nat \subseteq T
<1> DEFINE lt == {e \in Nat \X Nat : e[1] < e[2]}
           rest == Nat \ T
<1> SUFFICES ASSUME rest # {} PROVE FALSE
  OBVIOUS
<1>1. IsWellFoundedOn(lt, Nat)
  BY NatLessThanWellFounded DEF OpToRel
<1>2. PICK x \in rest : \A y \in rest : <<y, x>> \notin lt
  <2> HIDE DEF lt
  <2>1. rest \subseteq Nat
    OBVIOUS
  <2> QED BY <1>1, <2>1, WFMin
<1>3. x \in Nat /\ x # 0 /\ x \notin T
  OBVIOUS
<1>4. x - 1 \in Nat /\ x - 1 \in rest
  BY <1>3
<1>5. <<x - 1, x>> \in lt
  BY <1>3, <1>4
<1> QED BY <1>2, <1>4, <1>5

\* A set that has each number up to L of which it has all smaller ones.
LEMMA InductiveUpTo ==
    ASSUME NEW L \in Nat, NEW T,
           \A p \in 0..L : (\A q \in 0..(p - 1) : q \in T) => p \in T
    PROVE  0..L \subseteq T
<1> DEFINE U == {n \in Nat : \A p \in 0..L : p < n => p \in T}
<1>1. 0 \in U
  OBVIOUS
<1>2. ASSUME NEW n \in Nat, n \in U PROVE n + 1 \in U
  <2>1. ASSUME NEW p \in 0..L, p < n + 1 PROVE p \in T
    <3>1. \A q \in 0..(p - 1) : q \in 0..L /\ q < n
      BY <2>1
    <3>2. \A q \in 0..(p - 1) : q \in T
      BY <3>1, <1>2
    <3> QED BY <3>2
  <2> QED BY <2>1
<1> HIDE DEF U
<1>3. L + 1 \in U
  BY <1>1, <1>2, InductiveSet
<1>4. \A p \in 0..L : p < L + 1
  OBVIOUS
<1> QED BY <1>3, <1>4 DEF U

\* Each place up to L comes after another one.
Earlier(prev, L) == prev \in [1..L -> Nat] /\ \A p \in 1..L : prev[p] < p

\* Functions step[p] on S, one for each place.
StepsOn(step, L, S) == \A p \in 1..L : \A s \in S : step[p][s] \in S

Follows(f, L, base, prev, step) ==
    \A p \in 0..L : f[p] = IF p = 0 THEN base ELSE step[p][f[prev[p]]]

\* A function on 0..L whose value at p is made of the value at an earlier place.
LEMMA FunctionByRecursion ==
    ASSUME NEW L \in Nat, NEW S, NEW base \in S,
           NEW prev, Earlier(prev, L), NEW step, StepsOn(step, L, S)
    PROVE  \E f \in [0..L -> S] : Follows(f, L, base, prev, step)
<1> USE DEF Earlier, StepsOn, Follows
<1> DEFINE Upto(n) == {f \in [0..n -> S] :
                         \A p \in 0..n : f[p] = IF p = 0 THEN base ELSE step[p][f[prev[p]]]}
           T == {n \in Nat : n <= L => Upto(n) # {}}
<1>1. 0 \in T
  <2>1. [p \in 0..0 |-> base] \in Upto(0)
    OBVIOUS
  <2> QED BY <2>1
<1>2. ASSUME NEW n \in Nat, n \in T PROVE n + 1 \in T
  <2> SUFFICES ASSUME n + 1 <= L PROVE Upto(n + 1) # {}
    BY DEF T
  <2>1. PICK f : f \in Upto(n)
    BY <1>2
  <2> DEFINE g == [p \in 0..(n + 1) |-> IF p = n + 1 THEN step[p][f[prev[p]]] ELSE f[p]]
  <2>2. n + 1 \in 1..L /\ prev[n + 1] \in 0..n
    OBVIOUS
  <2>3. f[prev[n + 1]] \in S
    BY <2>1, <2>2
  <2>4. g \in [0..(n + 1) -> S]
    BY <2>1, <2>2, <2>3
  <2>5. ASSUME NEW p \in 0..(n + 1)
        PROVE  g[p] = IF p = 0 THEN base ELSE step[p][g[prev[p]]]
    <3>1. CASE p = n + 1
      <4>1. prev[p] # n + 1 /\ prev[p] \in 0..(n + 1)
        BY <2>2, <3>1
      <4> QED BY <3>1, <4>1
    <3>2. CASE p \in 0..n
      <4>1. f[p] = IF p = 0 THEN base ELSE step[p][f[prev[p]]]
        BY <2>1, <3>2
      <4>2. p # 0 => prev[p] # n + 1 /\ prev[p] \in 0..(n + 1)
        BY <3>2
      <4>3. p # n + 1 /\ g[p] = f[p]
        BY <3>2
      <4>4. p # 0 => g[prev[p]] = f[prev[p]]
        BY <4>2
      <4> QED BY <4>1, <4>3, <4>4
    <3>3. p = n + 1 \/ p \in 0..n
      OBVIOUS
    <3> QED BY <3>1, <3>2, <3>3
  <2>6. g \in Upto(n + 1)
    BY <2>4, <2>5
  <2> QED BY <2>6
<1> HIDE DEF T
<1>3. L \in T
  BY <1>1, <1>2, InductiveSet
<1> QED BY <1>3 DEF T

\* A set of numbers that has some, and none above L, has a greatest one.
LEMMA GreatestNumber ==
    ASSUME NEW L \in Nat, NEW S, S \subseteq 0..L, S # {}
    PROVE  \E m \in S : \A n \in S : n <= m
<1> SUFFICES ASSUME \A m \in S : \E n \in S : ~(n <= m) PROVE FALSE
  OBVIOUS
<1> DEFINE T == {n \in Nat : \E m \in S : n <= m}
<1>1. 0 \in T
  <2>1. PICK m : m \in S
    OBVIOUS
  <2>2. m \in Nat /\ 0 <= m
    BY <2>1
  <2> QED BY <2>1, <2>2
<1>2. ASSUME NEW n \in Nat, n \in T PROVE n + 1 \in T
  <2>1. PICK m \in S : n <= m
    BY <1>2
  <2>2. PICK k \in S : ~(k <= m)
    OBVIOUS
  <2>3. m \in Nat /\ k \in Nat
    OBVIOUS
  <2> QED BY <2>1, <2>2, <2>3
<1> HIDE DEF T
<1>3. L + 1 \in T
  BY <1>1, <1>2, InductiveSet
<1> QED BY <1>3 DEF T

\* A set of natural numbers that has some has a least one.
LEMMA LeastNumber ==
    ASSUME NEW S, S \subseteq Nat, S # {}
    PROVE  \E m \in S : \A n \in S : m <= n
<1> DEFINE lt == {e \in Nat \X Nat : e[1] < e[2]}
<1>1. IsWellFoundedOn(lt, Nat)
  BY NatLessThanWellFounded DEF OpToRel
<1>2. PICK m \in S : \A n \in S : <<n, m>> \notin lt
  <2> HIDE DEF lt
  <2> QED BY <1>1, WFMin
<1>3. \A n \in S : ~(n < m) /\ n \in Nat /\ m \in Nat
  BY <1>2
<1> QED BY <1>3
====
