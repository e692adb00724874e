------------------------------ MODULE MCLexpads ------------------------------
(***************************************************************************)
(* A small instance of Lexpads: a routine in the mainline, with a loop body  *)
(* in a bare block in it, and a thunk with a block in it.                    *)
(***************************************************************************)
EXTENDS Lexpads, TLC

CONSTANTS x, st

MCOuter == <<0, 1, 2, 2, 4>>
MCMine  == << {}, {x}, {}, {}, {} >>
MCState == << {}, {st}, {}, {}, {} >>
MCTopic == <<"fresh", "lazy", "param", "none", "lazy">>
=============================================================================
