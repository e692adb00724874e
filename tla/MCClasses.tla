------------------------------ MODULE MCClasses ------------------------------
(***************************************************************************)
(* Small instances of Classes.                                              *)
(***************************************************************************)
EXTENDS Classes, TLC

CONSTANTS r1, r2, m1, x

ARole(methods, multis, attrs, parents) ==
    [methods |-> methods, multis |-> multis, attrs |-> attrs, parents |-> parents]

\* Two roles that collide in a method; one has an attribute, the other a parent and a
\* multi method.
MCRole == r1 :> ARole(<<m1>>, <<>>, <<x>>, <<>>) @@ r2 :> ARole(<<m1>>, <<>>, <<>>, <<1>>)

MCStubs == {<< <<>>, <<1>>, <<2>> >>}

Three == [h \in Stubs |-> 3]
Nothing == [h \in Stubs |-> 0]

\* Hierarchies of five classes with at most two parents, the last with two; no roles.
NoRole == <<>>

UpTo2(c) == {s \in BoundedSeq(1..(c - 1), 2) : IsInjective(s)}

TwoParents ==
    {h \in [1..5 -> UNION {UpTo2(c) : c \in 1..5}] :
        h[1] = <<>> /\ h[2] = <<>> /\ h[5] = <<3, 4>> /\ \A c \in 3..5 : h[c] \in UpTo2(c)}

\* Two parents that have a parent each.
Separate == {<< <<>>, <<>>, <<1>>, <<2>>, <<3, 4>> >>}

\* Parents that are each other's contradiction.
Contrary == {<< <<>>, <<>>, <<1, 2>>, <<2, 1>>, <<3, 4>> >>}

\* A diamond, one side of which is a parent again.
Diamond == {<< <<>>, <<1>>, <<1>>, <<2, 3>>, <<4, 3>> >>}

\* 5 is 1 is 2, and 6 is 4 is 2, where 1 is above 4: C3 finds an order for 7 that agrees
\* with all, the merge of the orders found for 5 and 6 does not.  Then three parents, in an
\* order that C3 finds and in one that it does not; and a class that is also the parent of
\* a parent.
Sevens ==
    {<< <<>>, <<>>, <<1>>, <<3>>, <<1, 2>>, <<4, 2>>, <<5, 6>> >>,
     << <<>>, <<1>>, <<1>>, <<1>>, <<2, 3>>, <<3, 4>>, <<5, 6, 4>> >>,
     << <<>>, <<1>>, <<1>>, <<2, 3>>, <<3, 2>>, <<2>>, <<4, 5, 6>> >>,
     << <<>>, <<>>, <<1, 2>>, <<3>>, <<3>>, <<4, 5>>, <<6, 3>> >>}

Hierarchies == TwoParents \cup Diamond \cup Sevens

\* Two methods of one name in the diamond; one where parents have nothing in common, or
\* contradict each other.
Declarations ==
    [h \in Stubs |-> IF h \in Diamond THEN 2 ELSE IF h \in Separate \cup Contrary THEN 1 ELSE 0]
=============================================================================
