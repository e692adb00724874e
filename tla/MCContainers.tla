--------------------------- MODULE MCContainers ----------------------------
(***************************************************************************)
(* A small instance of Containers: a variable of type Int and an untyped   *)
(* one, an array of two elements and a hash of one key.                     *)
(***************************************************************************)
EXTENDS Containers, TLC

CONSTANTS x, y, tInt, i, k, s1, s2, s3, s4

MCVarType  == x :> tInt @@ y :> Mu
MCInitial  == tInt :> tInt @@ Mu :> Nil
MCParamOf  == tInt :> tInt @@ Mu :> Mu
MCConforms == ({i, tInt} \X {tInt}) \cup ({i, tInt, Nil} \X {Mu})

Symmetry == Permutations(Scalars)
=============================================================================
