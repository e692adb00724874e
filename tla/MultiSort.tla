----------------------------- MODULE MultiSort -----------------------------
(***************************************************************************)
(* The static half of the multi-dispatcher (src/binder/multidispatch.c):   *)
(* what is extracted from the signature of a candidate, when a candidate   *)
(* is narrower than another, and the topological sort of the candidates    *)
(* into tied groups.  Nothing here has state; MultiDispatch runs over it.  *)
(***************************************************************************)
EXTENDS Naturals, Sequences, FiniteSets

CONSTANTS
    Cands,      \* the candidate code objects
    Types,      \* nominal type objects (classes and roles)
    Does,       \* <<t, u>> \in Does iff type_check of t against u succeeds
    MuType, AnyType,    \* the top type and the default nominal type
    JunctionType,       \* the junction type
    BoxType,    \* the type a native argument of each kind is boxed to
    Names,      \* names of named parameters and arguments
    NoName,     \* the NULL of the req_named slot
    Sig         \* Sig[c] is the parameter list of candidate c

Prims == {"obj", "int", "num", "str"}

Params ==
    [ kind        : {"pos", "opt", "named", "slurpy", "slurpynamed"},
      names       : Seq(Names),     \* named_names, empty unless kind = "named"
      required    : BOOLEAN,        \* SIG_ELEM_IS_OPTIONAL not set (named only)
      type        : Types,
      generic     : BOOLEAN,        \* SIG_ELEM_NOMINAL_GENERIC
      constrained : BOOLEAN,        \* it has post constraints
      subsig      : BOOLEAN,        \* it has a sub-signature
      invocant    : BOOLEAN,        \* SIG_ELEM_MULTI_INVOCANT, false after ";;"
      definite    : {"any", "D", "U"},
      native      : Prims ]         \* "obj" when the parameter takes an object

ASSUME SigAssumption ==
    /\ IsFiniteSet(Cands)
    /\ {MuType, AnyType, JunctionType} \subseteq Types
    /\ BoxType \in [Prims \ {"obj"} -> Types]
    /\ Types \cap Prims = {}     \* a type cache id is no primitive's tag
    /\ NoName \notin Names
    /\ Does \subseteq Types \X Types
    /\ Sig \in [Cands -> Seq(Params)]

TypeCheck(t, u) == <<t, u>> \in Does

-----------------------------------------------------------------------------
(* What sort_candidates records of each candidate.                         *)

\* The loop over the parameters breaks at the first slurpy, positional or
\* named; parameters after it are never looked at.
SlurpyAt(sig) == {i \in DOMAIN sig : sig[i].kind \in {"slurpy", "slurpynamed"}}
Scanned(sig)  == {i \in DOMAIN sig : \A s \in SlurpyAt(sig) : i <= s}

ScannedOf(sig, kinds) ==
    LET found[n \in 0..Cardinality(Scanned(sig))] ==
            IF n = 0 THEN <<>>
            ELSE IF sig[n].kind \in kinds THEN Append(found[n - 1], sig[n]) ELSE found[n - 1]
    IN  found[Cardinality(Scanned(sig))]

Positionals(c) == ScannedOf(Sig[c], {"pos", "opt"})

Info == [c \in Cands |->
    LET pos   == Positionals(c)
        named == ScannedOf(Sig[c], {"named"})
        reqd  == SelectSeq(named, LAMBDA p : p.required)
        rest  == ScannedOf(Sig[c], {"slurpy", "slurpynamed"})
    IN  [ params    |-> pos,
          types     |-> [i \in DOMAIN pos |->
                            IF pos[i].generic THEN AnyType ELSE pos[i].type],
          numTypes  |-> Cardinality({i \in DOMAIN pos : pos[i].invocant}),
          minArity  |-> Cardinality({i \in DOMAIN pos : pos[i].kind = "pos"}),
          maxArity  |-> Len(pos),       \* meaningless when slurpy
          slurpy    |-> \E i \in DOMAIN rest : rest[i].kind = "slurpy",
          bindCheck |-> \/ named # <<>>
                        \/ \E i \in DOMAIN pos : \/ pos[i].generic
                                                 \/ pos[i].constrained
                                                 \/ pos[i].subsig
                        \/ \E i \in DOMAIN rest : rest[i].subsig,
          \* overwritten by each required named parameter, first alias only
          reqNamed  |-> IF \A i \in DOMAIN named : ~named[i].required THEN NoName
                        ELSE reqd[Len(reqd)].names[1] ]]

-----------------------------------------------------------------------------
(* is_narrower(a, b): the position-by-position comparison, then slurpiness *)
(* and the need of a bind check as tie breakers.                           *)

\* Mutant: the type check the wrong way round.
NarrowerAtBackwards(a, b, i) ==
    IF a.types[i] = b.types[i]
    THEN a.params[i].constrained /\ ~b.params[i].constrained
    ELSE TypeCheck(b.types[i], a.types[i])

NarrowerAt(a, b, i) ==
    IF a.types[i] = b.types[i]
    THEN a.params[i].constrained /\ ~b.params[i].constrained
    ELSE TypeCheck(a.types[i], b.types[i])

TiedAt(a, b, i) ==
    IF a.types[i] = b.types[i]
    THEN a.params[i].constrained = b.params[i].constrained
    ELSE ~TypeCheck(a.types[i], b.types[i]) /\ ~TypeCheck(b.types[i], a.types[i])

LessSlurpy(a, b) == ~a.slurpy /\ b.slurpy

Compared(a, b) == 1..(IF a.numTypes > b.numTypes THEN b.numTypes ELSE a.numTypes)

IsNarrowerInfo(a, b) ==
    IF a.numTypes = b.numTypes \/ a.minArity = b.minArity
    THEN /\ \A i \in Compared(a, b) : NarrowerAt(a, b, i) \/ TiedAt(a, b, i)
         /\ \/ \E i \in Compared(a, b) : NarrowerAt(a, b, i)
            \/ LessSlurpy(a, b)
            \/ a.bindCheck /\ ~b.bindCheck
    ELSE LessSlurpy(a, b)

Narrower == {e \in Cands \X Cands : IsNarrowerInfo(Info[e[1]], Info[e[2]])}

IsNarrower(c, d) == <<c, d>> \in Narrower

-----------------------------------------------------------------------------
(* sort_candidates: each pass takes the candidates nothing left is narrower *)
(* than; one pass is one tied group.  Candidates are named by their place   *)
(* in the dispatchee list, since a list may hold a candidate twice.         *)

\* Mutant: an edge is taken off as soon as its origin is placed, so a
\* candidate met later in the same pass is no longer held back by it.
PlacedEagerly(list) ==
    LET after[k \in 0..Len(list)] ==
            IF k = 0 THEN {}
            ELSE LET left == DOMAIN list \ after[k - 1]
                 IN  after[k - 1] \cup
                     {j \in left : \A i \in left :
                         i > j => ~IsNarrower(list[i], list[j])}
    IN  after

Placed(list) ==
    LET after[k \in 0..Len(list)] ==
            IF k = 0 THEN {}
            ELSE LET left == DOMAIN list \ after[k - 1]
                 IN  after[k - 1] \cup
                     {j \in left : \A i \in left :
                         i # j => ~IsNarrower(list[i], list[j])}
    IN  after

\* "Circularity detected in multi sub types."
Circular(list) == Placed(list)[Len(list)] # DOMAIN list

\* Mutant: the groups placed so far are not left out of the next one.
SortedOverlapping(list) ==
    LET placed == Placed(list)
    IN  [k \in DOMAIN list |-> {i \in DOMAIN list : i \in placed[k]}]

\* The tied groups in order, as sets of places; empty after the last one.
Sorted(list) ==
    LET placed == Placed(list)
    IN  [k \in DOMAIN list |-> {i \in DOMAIN list : i \in placed[k] \ placed[k - 1]}]

=============================================================================
