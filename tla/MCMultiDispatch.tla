-------------------------- MODULE MCMultiDispatch --------------------------
(***************************************************************************)
(* Small instances of MultiDispatch: one-parameter candidates over a class, *)
(* its parent and the junction type, two dispatchers, and captures that     *)
(* differ in type, definedness and named arguments.                         *)
(***************************************************************************)
EXTENDS MultiDispatch, TLC

CONSTANTS TMu, TAny, TInt, TStr, TJunction, c_int, c_any, c_named, c_sub, y, d1, d2

MCTypes == {TMu, TAny, TInt, TStr, TJunction}
MCDoes  == {<<t, t>> : t \in MCTypes} \cup {<<t, TMu>> : t \in MCTypes}
           \cup {<<TInt, TAny>>, <<TStr, TAny>>}

MCBox == "int" :> TInt @@ "num" :> TAny @@ "str" :> TStr

Pos(t) ==
    [ kind |-> "pos", names |-> <<>>, required |-> TRUE, type |-> t,
      generic |-> FALSE, constrained |-> FALSE, subsig |-> FALSE,
      invocant |-> TRUE, definite |-> "any", native |-> "obj" ]

Named(n, req) == [Pos(TMu) EXCEPT !.kind = "named", !.names = <<n>>, !.required = req]

\* (Int $x), (Any $x), (Int:D $x, :$y!) and ([$p, $q], *@r), which
\* makes a circle with (Any $x).
AllSigs == c_int   :> << Pos(TInt) >>
      @@ c_any   :> << Pos(TAny) >>
      @@ c_named :> << [Pos(TInt) EXCEPT !.definite = "D"], Named(y, TRUE) >>
      @@ c_sub   :> << [Pos(TAny) EXCEPT !.subsig = TRUE],
                       [Pos(TMu) EXCEPT !.kind = "slurpy"] >>

MCSig == [c \in Cands |-> AllSigs[c]]

Obj(t, d) == [prim |-> "obj", type |-> t, def |-> d]

MCCaptures ==
    { [args |-> <<Obj(TInt, TRUE)>>,      names |-> {}],
      [args |-> <<Obj(TInt, TRUE)>>,      names |-> {y}],
      [args |-> <<Obj(TInt, FALSE)>>,     names |-> {}],
      [args |-> <<Obj(TJunction, TRUE)>>, names |-> {}] }

MCSymmetry == Permutations(Dispatchers)

=============================================================================
