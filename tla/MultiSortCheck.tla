--------------------------- MODULE MultiSortCheck ---------------------------
(***************************************************************************)
(* The sort of the candidates, looked at as they are declared one by one:   *)
(* what the tied groups promise to a dispatch that walks them in order.     *)
(***************************************************************************)
EXTENDS MultiMatch, Functions

CONSTANT MaxList    \* bound: candidates declared

VARIABLE list       \* the dispatchee list

Init == list = <<>>

\* add_dispatchee, a candidate once.
Declare ==
    \E c \in Cands :
        /\ Len(list) < MaxList /\ \A i \in DOMAIN list : list[i] # c
        /\ list' = Append(list, c)

Next == Declare
Spec == Init /\ [][Next]_list

-----------------------------------------------------------------------------
InGroup(k) == {list[i] : i \in Sorted(list)[k]}

Accepted(cap) == {i \in DOMAIN list : Admissible(list[i], cap)}

\* The group a walk stops at when nothing needs a bind check.
FirstThrough(cap) ==
    LET through(k) == Possibles(list, Sorted(list)[k], cap)
    IN  UNION {through(k) : k \in {k \in DOMAIN list :
                                      \A j \in 1..(k - 1) : through(j) = {}}}

\* sort_candidates puts every candidate in exactly one tied group, after all
\* those narrower than it, unless it reports a circularity.
GroupsLinearize ==
    ~Circular(list) =>
        /\ \A i \in DOMAIN list :
              Cardinality({k \in DOMAIN list : i \in Sorted(list)[k]}) = 1
        /\ \A k, l \in DOMAIN list :
              \A i \in Sorted(list)[k], j \in Sorted(list)[l] :
                  IsNarrower(list[i], list[j]) => k < l

\* The groups do not depend on the order the candidates were declared in.
OrderFree ==
    \A p \in Bijection(DOMAIN list, DOMAIN list) :
        LET other == [i \in DOMAIN list |-> list[p[i]]]
        IN  /\ Circular(other) <=> Circular(list)
            /\ \A k \in DOMAIN list : {other[i] : i \in Sorted(other)[k]} = InGroup(k)

\* Fixed positionals only: every argument of c is at least as specific as that
\* of d, and one is more so.
PointwiseNarrower(c, d) ==
    LET a == Positionals(c)  b == Positionals(d)
    IN  /\ ~Info[c].bindCheck /\ ~Info[d].bindCheck
        /\ Len(a) = Len(Sig[c]) /\ Len(b) = Len(Sig[d]) /\ Len(a) = Len(b)
        /\ \A i \in DOMAIN a : /\ a[i].kind = "pos" /\ b[i].kind = "pos"
                               /\ a[i].invocant /\ b[i].invocant
                               /\ TypeCheck(a[i].type, b[i].type)
        /\ \E i \in DOMAIN a : a[i].type # b[i].type

\* A dispatch never stops at a candidate while an admissible one is narrower in
\* the plain sense of its parameter types.
NarrowestFirst ==
    \A cap \in Captures : \A i \in FirstThrough(cap) : \A j \in Accepted(cap) :
        ~Circular(list) => ~PointwiseNarrower(list[j], list[i])

=============================================================================
