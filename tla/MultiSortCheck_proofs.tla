----------------------- MODULE MultiSortCheck_proofs -----------------------
(***************************************************************************)
(* What the tied groups promise to a dispatch, for every set of candidates *)
(* and every order of declaring them.                                       *)
(***************************************************************************)
EXTENDS MultiSortCheck, MultiSort_proofs

\* is_narrower finds a candidate narrower that is so in the plain sense of its
\* parameter types.
LEMMA PlainlyNarrower ==
    ASSUME NEW c \in Cands, NEW d \in Cands, PointwiseNarrower(c, d)
    PROVE  IsNarrower(c, d)
<1> DEFINE a == Positionals(c)
           b == Positionals(d)
           n == Len(a)
<1>1. /\ ~Info[c].bindCheck /\ ~Info[d].bindCheck /\ Len(a) = Len(b)
      /\ \A i \in DOMAIN a : a[i].invocant /\ b[i].invocant /\ TypeCheck(a[i].type, b[i].type)
      /\ \E i \in DOMAIN a : a[i].type # b[i].type
  BY DEF PointwiseNarrower
<1>2. a \in Seq(Params) /\ b \in Seq(Params)
  BY SigAssumption, ScannedType DEF Positionals
<1>3. DOMAIN a = 1..n /\ DOMAIN b = 1..n /\ n \in Nat
  BY <1>1, <1>2
<1>4. /\ Info[c].numTypes = n
      /\ \A i \in 1..n : Info[c].types[i] = a[i].type /\ Info[c].params[i].constrained = FALSE
  <2>1. \A i \in DOMAIN Positionals(c) : Positionals(c)[i].invocant
    BY <1>1
  <2> QED BY <1>1, <1>3, <2>1, PlainInfo
<1>5. /\ Info[d].numTypes = n
      /\ \A i \in 1..n : Info[d].types[i] = b[i].type /\ Info[d].params[i].constrained = FALSE
  <2>1. \A i \in DOMAIN Positionals(d) : Positionals(d)[i].invocant
    BY <1>1, <1>3
  <2> QED BY <1>1, <1>3, <2>1, PlainInfo
<1> HIDE DEF a, b, n
<1>6. Compared(Info[c], Info[d]) = 1..n
  BY <1>3, <1>4, <1>5 DEF Compared
<1>7. \A i \in 1..n : NarrowerAt(Info[c], Info[d], i) \/ TiedAt(Info[c], Info[d], i)
  BY <1>1, <1>3, <1>4, <1>5 DEF NarrowerAt, TiedAt
<1>8. \E i \in 1..n : NarrowerAt(Info[c], Info[d], i)
  BY <1>1, <1>3, <1>4, <1>5 DEF NarrowerAt
<1>9. IsNarrowerInfo(Info[c], Info[d])
  BY <1>4, <1>5, <1>6, <1>7, <1>8 DEF IsNarrowerInfo
<1> QED BY <1>9 DEF IsNarrower, Narrower

-----------------------------------------------------------------------------
(* The list of the candidates declared so far.                              *)

ListInv == list \in Seq(Cands)

\* Declaring a candidate keeps it a list of candidates.
LEMMA ListInvariant == Spec => []ListInv
<1>1. Init => ListInv
  BY DEF Init, ListInv
<1>2. ListInv /\ [Next]_list => ListInv'
  BY DEF ListInv, Next, Declare
<1> QED BY <1>1, <1>2, PTL DEF Spec

\* sort_candidates puts every candidate in exactly one tied group, and after
\* all those narrower than it.
THEOREM SortLinearizes == Spec => []GroupsLinearize
<1>1. ListInv => GroupsLinearize
  BY OneGroup, NarrowerFirst DEF ListInv, GroupsLinearize
<1> QED BY <1>1, ListInvariant, PTL

\* Which candidates are tied in which group, and whether the sort reports a
\* circularity, does not depend on the order of the declarations.
THEOREM SortOrderFree == Spec => []OrderFree
<1>1. ListInv => OrderFree
  <2> SUFFICES ASSUME ListInv, NEW p \in Bijection(DOMAIN list, DOMAIN list)
               PROVE  /\ Circular(Reordered(list, p)) <=> Circular(list)
                      /\ \A k \in DOMAIN list :
                            {Reordered(list, p)[i] : i \in Sorted(Reordered(list, p))[k]} = InGroup(k)
    BY DEF OrderFree, Reordered
  <2>1. /\ p \in [DOMAIN list -> DOMAIN list]
        /\ \A i, j \in DOMAIN list : p[i] = p[j] => i = j
        /\ \A j \in DOMAIN list : \E i \in DOMAIN list : p[i] = j
    BY DEF Bijection, Injection, Surjection, IsInjective
  <2>2. list \in Seq(Cands)
    BY DEF ListInv
  <2>3. SameGroups(list, Reordered(list, p))
    BY <2>1, <2>2, GroupsReordered
  <2> QED BY <2>3 DEF SameGroups, InGroup
<1> QED BY <1>1, ListInvariant, PTL

\* A walk of the groups stops at none that comes after a group with an
\* admissible candidate.
LEMMA StopsAtFirst ==
    ASSUME ListInv, NEW cap, NEW i \in FirstThrough(cap)
    PROVE  \E k \in DOMAIN list :
              /\ i \in Sorted(list)[k] /\ i \in DOMAIN list
              /\ \A l \in DOMAIN list, j \in Accepted(cap) : j \in Sorted(list)[l] => k <= l
<1>1. PICK k \in DOMAIN list :
        /\ i \in Possibles(list, Sorted(list)[k], cap)
        /\ \A l \in 1..(k - 1) : Possibles(list, Sorted(list)[l], cap) = {}
  BY DEF FirstThrough
<1>2. i \in Sorted(list)[k] /\ i \in DOMAIN list
  BY <1>1, SortedType DEF Possibles, ListInv
<1>3. ASSUME NEW l \in DOMAIN list, NEW j \in Accepted(cap), j \in Sorted(list)[l], ~(k <= l)
      PROVE  FALSE
  <2>1. j \in Possibles(list, Sorted(list)[l], cap)
    BY <1>3 DEF Accepted, Possibles
  <2>2. l \in 1..(k - 1)
    BY <1>3 DEF ListInv
  <2> QED BY <1>1, <2>1, <2>2
<1> QED BY <1>2, <1>3

\* Where nothing needs a bind check, a dispatch never stops at a candidate while
\* an admissible one is narrower in every parameter type.
THEOREM SortNarrowestFirst == Spec => []NarrowestFirst
<1>1. ListInv => NarrowestFirst
  <2> SUFFICES ASSUME ListInv, NEW cap \in Captures, NEW i \in FirstThrough(cap),
                      NEW j \in Accepted(cap), ~Circular(list),
                      PointwiseNarrower(list[j], list[i])
               PROVE  FALSE
    BY DEF NarrowestFirst
  <2>1. PICK k \in DOMAIN list :
           /\ i \in Sorted(list)[k] /\ i \in DOMAIN list
           /\ \A l \in DOMAIN list, a \in Accepted(cap) : a \in Sorted(list)[l] => k <= l
    BY StopsAtFirst
  <2>2. j \in DOMAIN list
    BY DEF Accepted
  <2>3. PICK l \in DOMAIN list : j \in Sorted(list)[l]
    BY <2>2, GroupsCover DEF ListInv
  <2>4. IsNarrower(list[j], list[i])
    BY <2>1, <2>2, PlainlyNarrower DEF ListInv
  <2>5. l < k
    BY <2>1, <2>3, <2>4, NarrowerFirst DEF ListInv
  <2>6. k <= l /\ k \in Nat /\ l \in Nat
    BY <2>1, <2>3 DEF ListInv
  <2> QED BY <2>5, <2>6
<1> QED BY <1>1, ListInvariant, PTL

=============================================================================
