----------------------------- MODULE MCLazyList -----------------------------
(***************************************************************************)
(* A small instance of LazyList: two gathers, one of them infinite, and     *)
(* blocks of one and two parameters that use next, last and redo.           *)
(***************************************************************************)
EXTENDS LazyList, TLC

CONSTANTS fin, inf

MCShapes == {<<1, fin>>, <<inf>>}

MCTakes == fin :> <<<<11>>, <<12>>>> @@ inf :> [n \in 1..3 |-> <<20 + n>>]

Block(tag, argc, control) == [tag |-> tag, argc |-> argc, control |-> control]

Call1(v) == <<<<v>>>>
Call2(v, w) == <<<<v>>, <<w>>>>

\* Blocks of one and of two parameters; the tag is what tells their results apart.
MCBlocks ==
    "id"   :> Block(1000, 1, <<>>)
 @@ "grep" :> Block(1001, 1, Call1(1) :> "next" @@ Call1(11) :> "redo"
                             @@ Call1(12) :> "last" @@ Call1(22) :> "next")
 @@ "two"  :> Block(1002, 2, Call2(12, 1) :> "last" @@ Call2(1, 11) :> "redo")
=============================================================================
