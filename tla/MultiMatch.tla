----------------------------- MODULE MultiMatch -----------------------------
(***************************************************************************)
(* What find_best_candidate tests of one capture against one candidate, and *)
(* the verdict it draws from the candidates left at the end of a tied group *)
(* (src/binder/multidispatch.c).                                            *)
(***************************************************************************)
EXTENDS MultiSort

CONSTANT Captures   \* the captures a program calls dispatchers with

Args == [prim : Prims, type : Types, def : BOOLEAN]
CaptureType == [args : Seq(Args), names : SUBSET Names]

ASSUME CaptureAssumption == Captures \subseteq CaptureType

-----------------------------------------------------------------------------
(* Captures against candidates.                                             *)

Arity(cap) == Len(cap.args)

\* A native argument counts as a defined value of its box type.
ArgType(arg)    == IF arg.prim = "obj" THEN arg.type ELSE BoxType[arg.prim]
ArgDefined(arg) == arg.prim = "obj" => arg.def

HasJunction(cap) ==
    \E i \in DOMAIN cap.args :
        cap.args[i].prim = "obj" /\ TypeCheck(cap.args[i].type, JunctionType)

\* One parameter against one argument, the way the dispatcher tests it.
Accepts(type, param, arg) ==
    IF param.native # "obj"
    THEN arg.prim = param.native
    ELSE /\ type = MuType \/ TypeCheck(ArgType(arg), type)
         /\ param.definite = "D" => ArgDefined(arg)
         /\ param.definite = "U" => ~ArgDefined(arg)

Checked(info, n) == {i \in 1..n : i <= info.numTypes}

Admissible(c, cap) ==
    LET info == Info[c]
    IN  /\ Arity(cap) >= info.minArity
        /\ info.slurpy \/ Arity(cap) <= info.maxArity
        /\ \A i \in Checked(info, Arity(cap)) :
               Accepts(info.types[i], info.params[i], cap.args[i])

\* The members of a tied group that arity and types let through.
Possibles(list, group, cap) == {i \in group : Admissible(list[i], cap)}

NameMissing(c, cap) == Info[c].reqNamed # NoName /\ Info[c].reqNamed \notin cap.names

-----------------------------------------------------------------------------
(* Outcomes of a dispatch.                                                  *)

Chosen(c) == [kind |-> "chosen", cand |-> c]
Failed(k) == [kind |-> k]
Idle == Failed("idle")

\* One candidate, or the only one with the default trait among several.
Winners(list, kept, default) ==
    LET defaults == {i \in kept : list[i] \in default}
    IN  IF Cardinality(kept) > 1 /\ Cardinality(defaults) = 1
        THEN defaults ELSE kept

Verdict(list, winners, cap) ==
    IF Cardinality(winners) = 1 THEN Chosen(list[CHOOSE i \in winners : TRUE])
    ELSE IF winners # {} THEN Failed("ambiguous")
    ELSE IF HasJunction(cap) THEN Failed("threader")
    ELSE Failed("none")

Outcomes ==
    [kind : {"chosen"}, cand : Cands] \cup [kind : {"matches"}, cands : SUBSET Cands]
    \cup [kind : {"idle", "none", "ambiguous", "threader", "circular", "died"}]

=============================================================================
