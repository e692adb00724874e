---------------------------- MODULE MCMultiSort ----------------------------
(***************************************************************************)
(* A pool of candidates of one and two parameters that shows every clause   *)
(* of is_narrower, over a chain of three classes and an unrelated one.      *)
(***************************************************************************)
EXTENDS MultiSortCheck, TLC

CONSTANTS TMu, TAny, TCool, TInt, TStr, TJunction,
          c_int, c_any, c_cool, c_where, c_opt, c_slurpy, c_int_any, c_any_str,
          c_cool_cool, c_any_cool, c_sub_slurpy, y

MCTypes == {TMu, TAny, TCool, TInt, TStr, TJunction}
MCDoes  == {<<t, t>> : t \in MCTypes} \cup {<<t, TMu>> : t \in MCTypes}
           \cup {<<t, TAny>> : t \in {TCool, TInt, TStr}}
           \cup {<<t, TCool>> : t \in {TInt, TStr}}
MCBox   == "int" :> TInt @@ "num" :> TCool @@ "str" :> TStr

Pos(t) ==
    [ kind |-> "pos", names |-> <<>>, required |-> TRUE, type |-> t,
      generic |-> FALSE, constrained |-> FALSE, subsig |-> FALSE,
      invocant |-> TRUE, definite |-> "any", native |-> "obj" ]
Slurpy == [Pos(TMu) EXCEPT !.kind = "slurpy"]

\* (Int $x) (Any $x) (Cool $x) (Int $x where ...) (Int $x, Int $y?)
\* (Int $x, *@r) (Int $x, Any $y) (Any $x, Str $y) (Cool $x, Cool $y)
\* (Any $x, Cool $y) and ([$p, $q], *@r)
AllSigs ==
       c_int    :> << Pos(TInt) >>
    @@ c_any    :> << Pos(TAny) >>
    @@ c_cool   :> << Pos(TCool) >>
    @@ c_where  :> << [Pos(TInt) EXCEPT !.constrained = TRUE] >>
    @@ c_opt    :> << Pos(TInt), [Pos(TInt) EXCEPT !.kind = "opt"] >>
    @@ c_slurpy :> << Pos(TInt), Slurpy >>
    @@ c_int_any   :> << Pos(TInt), Pos(TAny) >>
    @@ c_any_str   :> << Pos(TAny), Pos(TStr) >>
    @@ c_cool_cool :> << Pos(TCool), Pos(TCool) >>
    @@ c_any_cool  :> << Pos(TAny), Pos(TCool) >>
    @@ c_sub_slurpy :> << [Pos(TAny) EXCEPT !.subsig = TRUE], Slurpy >>

MCSig == [c \in Cands |-> AllSigs[c]]

Obj(t) == [prim |-> "obj", type |-> t, def |-> TRUE]
Native(p) == [Obj(TMu) EXCEPT !.prim = p]

MCCaptures ==
    [args : {<<Obj(TInt)>>, <<Obj(TStr)>>, <<Native("int")>>,
             <<Obj(TInt), Obj(TStr)>>, <<Obj(TInt), Obj(TInt)>>,
             <<Obj(TStr), Obj(TStr)>>},
     names : {{}}]

=============================================================================
