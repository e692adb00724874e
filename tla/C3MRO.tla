-------------------------------- MODULE C3MRO --------------------------------
(***************************************************************************)
(* The merge of the linearizations of several parents, as                    *)
(* src/Perl6/Metamodel/C3MRO.pm computes it, and C3 itself.  Lists are        *)
(* sequences of classes.                                                     *)
(***************************************************************************)
EXTENDS Integers, Sequences, FiniteSets, SequencesExt, FiniteSetsExt

CONSTANT Ambiguous      \* what stands for an ambiguous hierarchy

NonEmpty(lists) == {n \in DOMAIN lists : lists[n] # <<>>}

InTail(l, class) == \E n \in 2..Len(l) : l[n] = class

\* Mutant: no candidate is rejected.
AcceptedAny(lists) == NonEmpty(lists)

\* The lists whose candidate is accepted: the loop over the other lists is left after
\* the first of them, or at once in the first list.
Accepted(lists) == {n \in NonEmpty(lists) : n > 1 => ~InTail(lists[1], lists[n][1])}

Without(lists, class) == [n \in DOMAIN lists |-> SelectSeq(lists[n], LAMBDA c : c # class)]

\* c3_merge: of the candidates accepted, the last is taken.
RECURSIVE c3_merge(_)
c3_merge(lists) ==
    IF NonEmpty(lists) = {} THEN <<>>
    ELSE IF Accepted(lists) = {} THEN <<Ambiguous>>
    ELSE LET class == lists[Max(Accepted(lists))][1]
         IN  <<class>> \o c3_merge(Without(lists, class))

\* The C3 merge by its definition: the first candidate that is in the tail of no list.
RECURSIVE C3Merge(_)
C3Merge(lists) ==
    LET good == {n \in NonEmpty(lists) : \A o \in DOMAIN lists : ~InTail(lists[o], lists[n][1])}
    IN  IF NonEmpty(lists) = {} THEN <<>>
        ELSE IF good = {} THEN <<Ambiguous>>
        ELSE LET class == lists[Min(good)][1]
             IN  <<class>> \o C3Merge(Without(lists, class))

=============================================================================
