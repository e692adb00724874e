-------------------------- MODULE MultiSort_proofs --------------------------
(***************************************************************************)
(* The sort of the candidates, for every list of them: what its passes      *)
(* place, what its groups hold, and in which order.                         *)
(***************************************************************************)
EXTENDS MultiMatch, Induction, FiniteSetTheorems, SequenceTheorems

\* The sort yields a sequence of groups of positions in the list.
LEMMA SortedType ==
    ASSUME NEW list \in Seq(Cands)
    PROVE  /\ Sorted(list) \in Seq(SUBSET Nat)
           /\ Len(Sorted(list)) = Len(list)
           /\ \A k \in DOMAIN list : Sorted(list)[k] \subseteq DOMAIN list
<1> DEFINE g == [k \in 1..Len(list) |->
                   {i \in DOMAIN list : i \in Placed(list)[k] \ Placed(list)[k - 1]}]
<1>1. Sorted(list) = g
  BY DEF Sorted
<1>2. Len(list) \in Nat /\ DOMAIN list \subseteq Nat /\ DOMAIN list = 1..Len(list)
  OBVIOUS
<1>3. \A k \in 1..Len(list) : g[k] \in SUBSET Nat /\ g[k] \subseteq DOMAIN list
  BY <1>2
<1>4. g \in Seq(SUBSET Nat) /\ Len(g) = Len(list)
  BY <1>2, <1>3
<1> QED BY <1>1, <1>2, <1>3, <1>4

\* The candidates that a pass takes from those left.
Taken(list, placed) ==
    {j \in DOMAIN list \ placed :
        \A i \in DOMAIN list \ placed : i # j => ~IsNarrower(list[i], list[j])}

\* The passes of the sort: each adds what it takes.
LEMMA PassByPass ==
    ASSUME NEW list \in Seq(Cands)
    PROVE  /\ Placed(list)[0] = {}
           /\ \A k \in 1..Len(list) :
                 Placed(list)[k] = Placed(list)[k - 1] \cup Taken(list, Placed(list)[k - 1])
<1> DEFINE L    == Len(list)
           S    == SUBSET DOMAIN list
           base == {}
           prev == [k \in 1..L |-> k - 1]
           step == [k \in 1..L |-> [s \in S |-> s \cup Taken(list, s)]]
           Body(g) == [k \in 0..L |-> IF k = 0 THEN {}
                                      ELSE g[k - 1] \cup Taken(list, g[k - 1])]
<1>1. L \in Nat
  OBVIOUS
<1>2. base \in S
  OBVIOUS
<1>3. Earlier(prev, L)
  BY <1>1 DEF Earlier
<1>4. StepsOn(step, L, S)
  BY DEF StepsOn, Taken
<1>5. PICK f \in [0..L -> S] : Follows(f, L, base, prev, step)
  <2> HIDE DEF L, S, prev, step, base
  <2> QED BY <1>1, <1>2, <1>3, <1>4, FunctionByRecursion
<1>6. f[0] = {} /\ \A k \in 1..L : f[k] = f[k - 1] \cup Taken(list, f[k - 1])
  <2>1. f[0] = base
    <3> HIDE DEF base, step, prev, L, S
    <3> QED BY <1>1, <1>5 DEF Follows
  <2>2. ASSUME NEW k \in 1..L PROVE f[k] = f[k - 1] \cup Taken(list, f[k - 1])
    <3>1. k \in 0..L /\ k # 0 /\ k - 1 \in 0..L /\ prev[k] = k - 1
      BY <1>1
    <3>2. f[k - 1] \in S
      BY <1>5, <3>1
    <3>3. f[k] = step[k][f[prev[k]]]
      <4> HIDE DEF step, prev, base, L, S
      <4> QED BY <1>5, <3>1 DEF Follows
    <3> QED BY <3>1, <3>2, <3>3
  <2> QED BY <2>1, <2>2
<1>7. f = Body(f)
  <2>1. ASSUME NEW k \in 0..L PROVE f[k] = Body(f)[k]
    <3>1. CASE k = 0
      BY <1>6, <3>1
    <3>2. CASE k # 0
      <4>1. k \in 1..L
        BY <1>1, <3>2
      <4> QED BY <1>6, <3>2, <4>1
    <3> QED BY <3>1, <3>2
  <2>2. DOMAIN Body(f) = 0..L /\ Body(f) = [k \in 0..L |-> Body(f)[k]]
    OBVIOUS
  <2>3. f = [k \in 0..L |-> f[k]]
    BY <1>5
  <2> HIDE DEF Body
  <2> QED BY <2>1, <2>2, <2>3
<1>8. Placed(list) = CHOOSE g : g = Body(g)
  BY DEF Placed, Taken
<1> HIDE DEF Body
<1>9. Placed(list) = Body(Placed(list))
  BY <1>7, <1>8, Zenon
<1>10. ASSUME NEW h
       PROVE  \A k \in 0..L : Body(h)[k] = IF k = 0 THEN {}
                                           ELSE h[k - 1] \cup Taken(list, h[k - 1])
  BY <1>1 DEF Body
<1> DEFINE g == Placed(list)
<1>11. ASSUME NEW k \in 0..L
       PROVE  g[k] = IF k = 0 THEN {} ELSE g[k - 1] \cup Taken(list, g[k - 1])
  BY <1>9, <1>10, Zenon
<1>12. g[0] = {}
  <2>1. 0 \in 0..L
    BY <1>1
  <2> QED BY <1>11, <2>1, Zenon
<1>13. ASSUME NEW k \in 1..L PROVE g[k] = g[k - 1] \cup Taken(list, g[k - 1])
  <2>1. k \in 0..L /\ k # 0
    BY <1>1
  <2> QED BY <1>11, <2>1, Zenon
<1> QED BY <1>12, <1>13

\* What is placed stays placed.
LEMMA PlacedGrows ==
    ASSUME NEW list \in Seq(Cands), NEW j \in 0..Len(list), NEW k \in 0..Len(list), j <= k
    PROVE  Placed(list)[j] \subseteq Placed(list)[k]
<1> DEFINE g == Placed(list)
           T == {n \in Nat : j + n <= Len(list) => g[j] \subseteq g[j + n]}
<1>1. 0 \in T
  OBVIOUS
<1>2. ASSUME NEW n \in Nat, n \in T PROVE n + 1 \in T
  <2> SUFFICES ASSUME j + (n + 1) <= Len(list) PROVE g[j] \subseteq g[j + (n + 1)]
    BY DEF T
  <2>1. j + (n + 1) \in 1..Len(list) /\ (j + (n + 1)) - 1 = j + n /\ j + n <= Len(list)
    OBVIOUS
  <2>2. g[j] \subseteq g[j + n]
    BY <1>2, <2>1
  <2>3. g[j + (n + 1)] = g[j + n] \cup Taken(list, g[j + n])
    BY <2>1, PassByPass
  <2> QED BY <2>2, <2>3
<1>3. k - j \in Nat /\ j + (k - j) = k /\ k <= Len(list)
  OBVIOUS
<1> HIDE DEF T
<1>4. k - j \in T
  BY <1>1, <1>2, <1>3, InductiveSet
<1> QED BY <1>3, <1>4 DEF T

\* The tied groups have no candidate in common.
LEMMA GroupsDisjoint ==
    ASSUME NEW list \in Seq(Cands), NEW j \in DOMAIN list, NEW k \in DOMAIN list, j < k
    PROVE  Sorted(list)[j] \cap Sorted(list)[k] = {}
<1>1. j \in 0..Len(list) /\ k - 1 \in 0..Len(list) /\ j <= k - 1
  OBVIOUS
<1>2. Placed(list)[j] \subseteq Placed(list)[k - 1]
  BY <1>1, PlacedGrows
<1> QED BY <1>2 DEF Sorted

\* Unless the sort finds a circularity each candidate is in some group.
LEMMA GroupsCover ==
    ASSUME NEW list \in Seq(Cands), ~Circular(list), NEW i \in DOMAIN list
    PROVE  \E k \in DOMAIN list : i \in Sorted(list)[k]
<1> DEFINE g == Placed(list)
           T == {n \in Nat : n <= Len(list) /\ i \in g[n] =>
                                \E k \in DOMAIN list : i \in Sorted(list)[k]}
<1>1. 0 \in T
  BY PassByPass
<1>2. ASSUME NEW n \in Nat, n \in T PROVE n + 1 \in T
  <2> SUFFICES ASSUME n + 1 <= Len(list), i \in g[n + 1]
               PROVE  \E k \in DOMAIN list : i \in Sorted(list)[k]
    BY DEF T
  <2>1. CASE i \in g[n]
    BY <1>2, <2>1
  <2>2. CASE i \notin g[n]
    <3>1. n + 1 \in DOMAIN list /\ (n + 1) - 1 = n
      OBVIOUS
    <3>2. i \in Sorted(list)[n + 1]
      BY <2>2, <3>1 DEF Sorted
    <3> QED BY <3>1, <3>2
  <2> QED BY <2>1, <2>2
<1> HIDE DEF T
<1>3. Len(list) \in T
  BY <1>1, <1>2, InductiveSet
<1>4. i \in g[Len(list)]
  BY DEF Circular
<1> QED BY <1>3, <1>4 DEF T


-----------------------------------------------------------------------------
(* The parameters a candidate is sorted by.                                 *)

\* There are n numbers from 1 to n.
LEMMA UpTo == ASSUME NEW n \in Nat PROVE IsFiniteSet(1..n) /\ Cardinality(1..n) = n
<1>1. /\ IsFiniteSet(1..n)
      /\ Cardinality(1..n) = IF 1 > n THEN 0 ELSE n - 1 + 1
  BY FS_Interval
<1> QED BY <1>1

\* The parameters of the kinds looked for are parameters of the signature.
LEMMA ScannedType ==
    ASSUME NEW sig \in Seq(Params), NEW kinds
    PROVE  ScannedOf(sig, kinds) \in Seq(Params)
<1> DEFINE L    == Cardinality(Scanned(sig))
           S    == Seq(Params)
           With(n, s) == IF sig[n].kind \in kinds THEN Append(s, sig[n]) ELSE s
           base == <<>>
           prev == [n \in 1..L |-> n - 1]
           step == [n \in 1..L |-> [s \in S |-> With(n, s)]]
           Body(g) == [n \in 0..L |-> IF n = 0 THEN <<>> ELSE With(n, g[n - 1])]
           found == CHOOSE g : g = Body(g)
<1>1. L \in Nat /\ L <= Len(sig)
  <2>1. Scanned(sig) \in SUBSET (1..Len(sig)) /\ Len(sig) \in Nat
    BY DEF Scanned
  <2>2. IsFiniteSet(1..Len(sig)) /\ Cardinality(1..Len(sig)) = Len(sig)
    BY <2>1, UpTo
  <2> QED BY <2>1, <2>2, FS_Subset, FS_CardinalityType
<1>2. \A n \in 1..L : sig[n] \in Params
  BY <1>1
<1>3. ASSUME NEW n \in 1..L, NEW s \in S PROVE With(n, s) \in S
  BY <1>2
<1>4. ScannedOf(sig, kinds) = found[L]
  BY DEF ScannedOf
<1> HIDE DEF L
<1>5. Earlier(prev, L)
  BY <1>1 DEF Earlier
<1>6. StepsOn(step, L, S) /\ base \in S
  <2> HIDE DEF With
  <2> QED BY <1>3 DEF StepsOn
<1>7. PICK f \in [0..L -> S] : Follows(f, L, base, prev, step)
  <2> HIDE DEF S, prev, step, base
  <2> QED BY <1>1, <1>5, <1>6, FunctionByRecursion
<1>8. ASSUME NEW n \in 0..L PROVE f[n] = IF n = 0 THEN <<>> ELSE With(n, f[n - 1])
  <2>1. f[n] = IF n = 0 THEN base ELSE step[n][f[prev[n]]]
    <3> HIDE DEF step, prev, base, S
    <3> QED BY <1>7 DEF Follows
  <2>2. n # 0 => n \in 1..L /\ n - 1 \in 0..L /\ prev[n] = n - 1 /\ f[n - 1] \in S
    BY <1>1, <1>7
  <2> HIDE DEF With
  <2> QED BY <2>1, <2>2
<1> HIDE DEF With
<1>9. f = Body(f)
  <2>1. f = [n \in 0..L |-> f[n]]
    BY <1>7
  <2> QED BY <1>8, <2>1
<1>10. found = Body(found)
  <2> HIDE DEF Body
  <2> QED BY <1>9
<1>11. \A n \in 0..L : found[n] = IF n = 0 THEN <<>> ELSE With(n, found[n - 1])
  <2>1. \A g : \A n \in 0..L : Body(g)[n] = IF n = 0 THEN <<>> ELSE With(n, g[n - 1])
    OBVIOUS
  <2> HIDE DEF Body, found
  <2> QED BY <1>10, <2>1, Zenon
<1> HIDE DEF found, Body
<1> DEFINE T == {n \in Nat : n <= L => found[n] \in S}
<1>12. 0 \in T
  <2>1. 0 \in 0..L
    BY <1>1
  <2>2. found[0] = <<>>
    BY <1>11, <2>1, Zenon
  <2>3. <<>> \in S
    OBVIOUS
  <2>4. 0 \in Nat /\ (0 <= L => found[0] \in S)
    BY <2>2, <2>3, Zenon
  <2> HIDE DEF S
  <2> QED BY <2>4
<1>13. ASSUME NEW n \in Nat, n \in T PROVE n + 1 \in T
  <2> SUFFICES ASSUME n + 1 <= L PROVE found[n + 1] \in S
    BY DEF T
  <2>1. n + 1 \in 1..L /\ n + 1 \in 0..L /\ n + 1 # 0 /\ (n + 1) - 1 = n /\ n <= L
    BY <1>1
  <2>2. found[n] \in S
    BY <1>13, <2>1
  <2>3. found[n + 1] = With(n + 1, found[n])
    BY <1>11, <2>1
  <2> HIDE DEF S
  <2> QED BY <1>3, <2>1, <2>2, <2>3
<1> HIDE DEF T
<1>14. L \in T
  BY <1>1, <1>12, <1>13, InductiveSet
<1> QED BY <1>1, <1>4, <1>14 DEF T

\* What is recorded of a candidate without bind check whose parameters are
\* dispatched on.
LEMMA PlainInfo ==
    ASSUME NEW c \in Cands, ~Info[c].bindCheck,
           \A i \in DOMAIN Positionals(c) : Positionals(c)[i].invocant
    PROVE  /\ Positionals(c) \in Seq(Params)
           /\ Info[c].numTypes = Len(Positionals(c))
           /\ \A i \in DOMAIN Positionals(c) :
                 /\ Info[c].types[i] = Positionals(c)[i].type
                 /\ Info[c].params[i].constrained = FALSE
<1> DEFINE pos == Positionals(c)
<1>1. pos \in Seq(Params)
  BY SigAssumption, ScannedType DEF Positionals
<1>2. /\ Info[c].params = pos
      /\ Info[c].types = [i \in DOMAIN pos |-> IF pos[i].generic THEN AnyType ELSE pos[i].type]
      /\ Info[c].numTypes = Cardinality({i \in DOMAIN pos : pos[i].invocant})
      /\ \A i \in DOMAIN pos : ~pos[i].generic /\ ~pos[i].constrained
  BY DEF Info
<1> HIDE DEF pos
<1>3. {i \in DOMAIN pos : pos[i].invocant} = 1..Len(pos) /\ Len(pos) \in Nat
  BY <1>1 DEF pos
<1>4. Cardinality(1..Len(pos)) = Len(pos)
  BY <1>3, UpTo
<1>5. \A i \in DOMAIN pos : pos[i].constrained = FALSE
  <2>1. \A i \in DOMAIN pos : pos[i] \in Params
    BY <1>1
  <2> QED BY <1>2, <2>1 DEF Params
<1> QED BY <1>1, <1>2, <1>3, <1>4, <1>5 DEF pos



-----------------------------------------------------------------------------
(* The order of the groups.                                                 *)

\* No candidate is narrower than itself.
LEMMA NotNarrowerThanItself == ASSUME NEW c PROVE ~IsNarrower(c, c)
BY DEF IsNarrower, Narrower, IsNarrowerInfo, NarrowerAt, LessSlurpy

\* A candidate is in a later group than all those narrower than it.
LEMMA NarrowerFirst ==
    ASSUME NEW list \in Seq(Cands), NEW k \in DOMAIN list, NEW l \in DOMAIN list,
           NEW i \in Sorted(list)[k], NEW j \in Sorted(list)[l],
           IsNarrower(list[i], list[j])
    PROVE  k < l
<1>1. i # j
  BY NotNarrowerThanItself
<1>2. i \in DOMAIN list /\ j \in DOMAIN list
  BY SortedType
<1>3. i \notin Placed(list)[k - 1] /\ j \in Placed(list)[l] /\ j \notin Placed(list)[l - 1]
  BY DEF Sorted
<1>4. l \in 1..Len(list) /\ k - 1 \in 0..Len(list) /\ l - 1 \in 0..Len(list)
  OBVIOUS
<1>5. j \in Taken(list, Placed(list)[l - 1])
  BY <1>3, <1>4, PassByPass
<1>6. i \in Placed(list)[l - 1]
  BY <1>1, <1>2, <1>5 DEF Taken
<1>7. ~(l - 1 <= k - 1)
  BY <1>3, <1>4, <1>6, PlacedGrows
<1> QED BY <1>4, <1>7

\* Unless the sort finds a circularity each candidate is in exactly one group.
LEMMA OneGroup ==
    ASSUME NEW list \in Seq(Cands), ~Circular(list), NEW i \in DOMAIN list
    PROVE  Cardinality({k \in DOMAIN list : i \in Sorted(list)[k]}) = 1
<1>1. PICK k \in DOMAIN list : i \in Sorted(list)[k]
  BY GroupsCover
<1>2. ASSUME NEW l \in DOMAIN list, i \in Sorted(list)[l] PROVE l = k
  <2>1. ~(k < l) /\ ~(l < k)
    BY <1>1, <1>2, GroupsDisjoint
  <2> QED BY <2>1
<1>3. {l \in DOMAIN list : i \in Sorted(list)[l]} = {k}
  BY <1>1, <1>2
<1> QED BY <1>3, FS_Singleton


-----------------------------------------------------------------------------
(* The order of declaration.                                                *)

\* The candidates of list, p[i] in place of i.
Reordered(list, p) == [i \in DOMAIN list |-> list[p[i]]]

\* It is a list of candidates of the same length.
LEMMA ReorderedType ==
    ASSUME NEW list \in Seq(Cands), NEW p \in [DOMAIN list -> DOMAIN list]
    PROVE  /\ Reordered(list, p) \in Seq(Cands)
           /\ DOMAIN Reordered(list, p) = DOMAIN list
           /\ Len(Reordered(list, p)) = Len(list)
           /\ \A i \in DOMAIN list : p[i] \in DOMAIN list /\ Reordered(list, p)[i] = list[p[i]]
<1> DEFINE n == Len(list)
           other == [i \in 1..n |-> list[p[i]]]
<1>1. n \in Nat /\ DOMAIN list = 1..n
  OBVIOUS
<1>2. \A i \in 1..n : p[i] \in 1..n /\ list[p[i]] \in Cands
  OBVIOUS
<1>3. other \in Seq(Cands) /\ Len(other) = n
  BY <1>1, <1>2
<1>4. Reordered(list, p) = other
  BY <1>1 DEF Reordered
<1> QED BY <1>1, <1>2, <1>3, <1>4

\* A pass takes the same ones of what is left.
LEMMA TakenReordered ==
    ASSUME NEW list, NEW other, NEW p, NEW g, NEW h, DOMAIN other = DOMAIN list,
           \A i \in DOMAIN list : p[i] \in DOMAIN list /\ other[i] = list[p[i]],
           \A i, j \in DOMAIN list : p[i] = p[j] => i = j,
           \A j \in DOMAIN list : \E i \in DOMAIN list : p[i] = j,
           \A i \in DOMAIN list : i \in h <=> p[i] \in g,
           NEW j \in DOMAIN list
    PROVE  j \in Taken(other, h) <=> p[j] \in Taken(list, g)
<1>1. ASSUME j \in Taken(other, h), NEW l \in DOMAIN list \ g, l # p[j]
      PROVE  ~IsNarrower(list[l], list[p[j]])
  <2>1. PICK i \in DOMAIN list : p[i] = l
    OBVIOUS
  <2>2. i \in DOMAIN list \ h /\ i # j
    BY <1>1, <2>1
  <2>3. ~IsNarrower(other[i], other[j])
    BY <1>1, <2>2 DEF Taken
  <2> QED BY <2>1, <2>3
<1>2. ASSUME p[j] \in Taken(list, g), NEW i \in DOMAIN list \ h, i # j
      PROVE  ~IsNarrower(other[i], other[j])
  <2>1. p[i] \in DOMAIN list \ g /\ p[i] # p[j]
    BY <1>2
  <2>2. ~IsNarrower(list[p[i]], list[p[j]])
    BY <1>2, <2>1 DEF Taken
  <2> QED BY <2>2
<1> QED BY <1>1, <1>2 DEF Taken

\* The candidates placed after each pass are the same ones.
LEMMA PlacedReordered ==
    ASSUME NEW list \in Seq(Cands), NEW p \in [DOMAIN list -> DOMAIN list],
           \A i, j \in DOMAIN list : p[i] = p[j] => i = j,
           \A j \in DOMAIN list : \E i \in DOMAIN list : p[i] = j,
           NEW k \in 0..Len(list), NEW i \in DOMAIN list
    PROVE  i \in Placed(Reordered(list, p))[k] <=> p[i] \in Placed(list)[k]
<1> DEFINE other == Reordered(list, p)
           g == Placed(list)
           h == Placed(other)
           Same(n) == \A j \in DOMAIN list : j \in h[n] <=> p[j] \in g[n]
           T == {n \in Nat : n <= Len(list) => Same(n)}
<1>0. /\ other \in Seq(Cands) /\ DOMAIN other = DOMAIN list /\ Len(other) = Len(list)
      /\ \A j \in DOMAIN list : p[j] \in DOMAIN list /\ other[j] = list[p[j]]
  BY ReorderedType, SMTT(30)
<1> HIDE DEF other
<1>1. g[0] = {} /\ h[0] = {}
  BY <1>0, PassByPass
<1>2. ASSUME NEW n \in 1..Len(list)
      PROVE  g[n] = g[n - 1] \cup Taken(list, g[n - 1]) /\ h[n] = h[n - 1] \cup Taken(other, h[n - 1])
  <2>1. g[n] = g[n - 1] \cup Taken(list, g[n - 1])
    BY PassByPass
  <2>2. \A m \in 1..Len(other) : h[m] = h[m - 1] \cup Taken(other, h[m - 1])
    BY <1>0, PassByPass
  <2> QED BY <1>0, <2>1, <2>2
<1> HIDE DEF g, h
<1>3. 0 \in T
  BY <1>1
<1>4. ASSUME NEW n \in Nat, n \in T PROVE n + 1 \in T
  <2> SUFFICES ASSUME n + 1 <= Len(list) PROVE Same(n + 1)
    BY DEF T
  <2>1. n + 1 \in 1..Len(list) /\ (n + 1) - 1 = n /\ n <= Len(list)
    OBVIOUS
  <2>2. Same(n)
    BY <1>4, <2>1
  <2>3. g[n + 1] = g[n] \cup Taken(list, g[n]) /\ h[n + 1] = h[n] \cup Taken(other, h[n])
    BY <1>2, <2>1
  <2>4. \A j \in DOMAIN list : j \in Taken(other, h[n]) <=> p[j] \in Taken(list, g[n])
    <3> DEFINE gn == g[n]
               hn == h[n]
    <3>1. \A l \in DOMAIN list : l \in hn <=> p[l] \in gn
      BY <2>2
    <3> HIDE DEF gn, hn
    <3>2. ASSUME NEW m \in DOMAIN list PROVE m \in Taken(other, hn) <=> p[m] \in Taken(list, gn)
      BY <1>0, <3>1, TakenReordered
    <3> QED BY <3>2 DEF gn, hn
  <2> QED BY <2>2, <2>3, <2>4
<1> HIDE DEF T
<1>5. k \in Nat /\ k <= Len(list) /\ k \in T
  <2>1. k \in Nat /\ k <= Len(list)
    OBVIOUS
  <2> QED BY <1>3, <1>4, <2>1, InductiveSet
<1>6. Same(k)
  BY <1>5 DEF T
<1> QED BY <1>6 DEF g, h, other

\* What f gives for the members of A.
Image(f, A) == {f[i] : i \in A}

\* Two functions have the same values where each has those of the other.
LEMMA SameImages ==
    ASSUME NEW f, NEW g, NEW A, NEW B,
           \A i \in A : \E j \in B : f[i] = g[j], \A j \in B : \E i \in A : g[j] = f[i]
    PROVE  Image(f, A) = Image(g, B)
BY DEF Image

\* What is placed are places of the list.
LEMMA PlacedType ==
    ASSUME NEW list \in Seq(Cands), NEW k \in 0..Len(list)
    PROVE  Placed(list)[k] \subseteq DOMAIN list
<1> DEFINE T == {n \in Nat : n <= Len(list) => Placed(list)[n] \subseteq DOMAIN list}
<1>1. 0 \in T
  BY PassByPass
<1>2. ASSUME NEW n \in Nat, n \in T PROVE n + 1 \in T
  <2> SUFFICES ASSUME n + 1 <= Len(list) PROVE Placed(list)[n + 1] \subseteq DOMAIN list
    BY DEF T
  <2>1. n + 1 \in 1..Len(list) /\ (n + 1) - 1 = n
    OBVIOUS
  <2>2. Placed(list)[n + 1] = Placed(list)[n] \cup Taken(list, Placed(list)[n])
    BY <2>1, PassByPass
  <2> QED BY <1>2, <2>2 DEF Taken
<1> HIDE DEF T
<1>3. k \in T /\ k <= Len(list)
  BY <1>1, <1>2, InductiveSet
<1> QED BY <1>3 DEF T

\* Two lists are sorted into the same groups.
SameGroups(list, other) ==
    /\ Circular(other) <=> Circular(list)
    /\ \A k \in DOMAIN list :
          {other[i] : i \in Sorted(other)[k]} = {list[i] : i \in Sorted(list)[k]}

\* So the order of declaration decides neither whether the sort finds a
\* circularity nor which candidates are tied in which group.
LEMMA GroupsReordered ==
    ASSUME NEW list \in Seq(Cands), NEW p \in [DOMAIN list -> DOMAIN list],
           \A i, j \in DOMAIN list : p[i] = p[j] => i = j,
           \A j \in DOMAIN list : \E i \in DOMAIN list : p[i] = j
    PROVE  SameGroups(list, Reordered(list, p))
<1> DEFINE other == Reordered(list, p)
<1>0. /\ other \in Seq(Cands) /\ DOMAIN other = DOMAIN list /\ Len(other) = Len(list)
      /\ \A j \in DOMAIN list : p[j] \in DOMAIN list /\ other[j] = list[p[j]]
  BY ReorderedType
<1>1. \A k \in 0..Len(list), i \in DOMAIN list : i \in Placed(other)[k] <=> p[i] \in Placed(list)[k]
  BY PlacedReordered
<1> HIDE DEF other
<1>2. Len(list) \in 0..Len(list) /\ DOMAIN list = 1..Len(list)
  OBVIOUS
<1>3. Placed(other)[Len(list)] \subseteq DOMAIN list /\ Placed(list)[Len(list)] \subseteq DOMAIN list
  BY <1>0, <1>2, PlacedType
<1>4. Circular(other) <=> Circular(list)
  <2>1. Placed(other)[Len(list)] = DOMAIN list <=> \A i \in DOMAIN list : i \in Placed(other)[Len(list)]
    BY <1>3
  <2>2. Placed(list)[Len(list)] = DOMAIN list <=> \A i \in DOMAIN list : p[i] \in Placed(list)[Len(list)]
    <3>1. ASSUME \A i \in DOMAIN list : p[i] \in Placed(list)[Len(list)]
          PROVE  DOMAIN list \subseteq Placed(list)[Len(list)]
      <4> SUFFICES ASSUME NEW j \in DOMAIN list PROVE j \in Placed(list)[Len(list)]
        OBVIOUS
      <4>1. PICK i \in DOMAIN list : p[i] = j
        OBVIOUS
      <4> QED BY <3>1, <4>1
    <3> QED BY <1>0, <1>3, <3>1
  <2> QED BY <1>0, <1>1, <1>2, <2>1, <2>2 DEF Circular
<1>5. ASSUME NEW k \in DOMAIN list
      PROVE  {other[i] : i \in Sorted(other)[k]} = {list[i] : i \in Sorted(list)[k]}
  <2>1. k \in 0..Len(list) /\ k - 1 \in 0..Len(list)
    BY <1>2
  <2>2. \A i \in DOMAIN list : i \in Sorted(other)[k] <=> p[i] \in Sorted(list)[k]
    BY <1>0, <1>1, <2>1 DEF Sorted
  <2>3. Sorted(other)[k] \subseteq DOMAIN list /\ Sorted(list)[k] \subseteq DOMAIN list
    BY <1>0, SortedType
  <2>4. ASSUME NEW i \in Sorted(other)[k]
        PROVE  \E j \in Sorted(list)[k] : other[i] = list[j]
    <3>1. i \in DOMAIN list /\ p[i] \in Sorted(list)[k] /\ other[i] = list[p[i]]
      BY <1>0, <2>2, <2>3
    <3> QED BY <3>1
  <2>5. ASSUME NEW j \in Sorted(list)[k]
        PROVE  \E i \in Sorted(other)[k] : list[j] = other[i]
    <3>1. PICK i \in DOMAIN list : p[i] = j
      BY <2>3
    <3> QED BY <1>0, <2>2, <3>1
  <2> HIDE DEF other
  <2>6. PICK A, B : A = Sorted(other)[k] /\ B = Sorted(list)[k]
    OBVIOUS
  <2>7. /\ \A i \in A : \E j \in B : other[i] = list[j]
        /\ \A j \in B : \E i \in A : list[j] = other[i]
    BY <2>4, <2>5, <2>6
  <2>8. Image(other, A) = Image(list, B)
    BY <2>7, SameImages
  <2> QED BY <2>6, <2>8 DEF Image
<1> QED BY <1>4, <1>5 DEF other, SameGroups

=============================================================================
