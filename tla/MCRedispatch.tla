---------------------------- MODULE MCRedispatch ----------------------------
(***************************************************************************)
(* Small instances of Redispatch: a method overridden by a proto method     *)
(* with two candidates, that is overridden twice, by plain methods; a       *)
(* helper sub; and a junctional argument.                                   *)
(***************************************************************************)
EXTENDS Redispatch, TLC

CONSTANTS
    o1,                     \* an object
    leaf, mid, proto,       \* methods m of its class, its parent and grandparent
    k1, k2,                 \* the candidates of proto
    help,                   \* a sub
    a, j

MCMethods == o1 :> ("m" :> <<leaf, mid, proto>>)

MCSlot ==
    [r \in {leaf, mid, proto} |-> "method"] @@ [r \in {k1, k2} |-> "multi"] @@ help :> "none"

MCBest     == proto :> (a :> k1 @@ j :> None)
MCMatching == proto :> (a :> <<k1, k2>> @@ j :> <<>>)
MCProtoOf  == [k \in {k1, k2} |-> proto]

MCEigen == j :> <<a, a>>

\* The helper and the nearest method take a junction.
MCThreading == [r \in DOMAIN MCSlot |-> IF r \in {leaf, help} THEN {} ELSE {j}]
=============================================================================
