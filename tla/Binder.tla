------------------------------- MODULE Binder -------------------------------
(***************************************************************************)
(* The signature binder (src/binder/bind.c): one activation of              *)
(* Rakudo_binding_bind and of the activations it makes for sub-signatures.  *)
(* A step binds one parameter, with every check of bind_one_param in the    *)
(* order the code makes them.  BindCall runs binds on behalf of calls.      *)
(***************************************************************************)
EXTENDS Naturals, Sequences, FiniteSets, Functions

CONSTANTS
    Plain,      \* the values a program passes, natives among them
    Prim,       \* Prim[v]: "obj", or the primitive kind of a native
    Box,        \* Box[v]: the object a native v is boxed to
    Unbox,      \* Unbox[v][k]: the native of kind k in object v, or None
    TypeOf,     \* TypeOf[v]: the type object of v
    Defined,    \* the values that are instances, not type objects
    Coerced,    \* Coerced[v][t]: what v.t may return; nothing without a method t
    AsCapture,  \* AsCapture[v]: what v.Capture may return; nothing without it
    Types, Does,    \* type objects; <<t, u>> \in Does iff t type-checks against u
    MuType, JunctionType, ListType, HashType, CaptureType,
    Names,      \* names of named arguments
    Vars,       \* names in the lexpad, self and type variables included
    Self,       \* the lexical "self"
    Attrs,      \* attributes of self
    AttrType,   \* AttrType[a]: the type its container's descriptor asks for
    Accessor,   \* Accessor[a]: what its accessor may return, among "rw" and "ro"
    Sigs,       \* signatures and sub-signatures
    Sig,        \* Sig[s]: the parameters of s
    MayDie,     \* user code run by the binder may throw
    None, Garbage,  \* NULL, and a native read as a pointer
    Thrown      \* what a call of user code that throws gives

Prims == {"obj", "int", "num", "str"}

\* A parameter is one of these; the slurpies, captures and optionals are told
\* apart by the flags of bind.h.
Kinds == {"pos", "opt", "slurpy", "lol", "named", "namedopt",
          "slurpynamed", "methodslurpy", "capture"}

Parameters ==
    [ kind     : Kinds,
      names    : Seq(Names),            \* named_names
      var      : Vars \cup {None},      \* variable_name
      type     : Types \cup Vars,       \* nominal_type, a variable when generic
      generic  : BOOLEAN,               \* SIG_ELEM_NOMINAL_GENERIC
      tcap     : Vars \cup {None},      \* type_captures
      definite : {"any", "D", "U"},
      native   : Prims,
      coerce   : Types \cup {None},
      rejects  : SUBSET Plain,          \* values the post_constraints refuse
      doubts   : SUBSET Plain,          \* values they refuse at times
      raw      : BOOLEAN,               \* SIG_ELEM_IS_RW or SIG_ELEM_IS_PARCEL
      attr     : Attrs \cup {None},     \* the attribute of an attributive one
      public   : BOOLEAN,               \* bound through its accessor
      sub      : Sigs \cup {None},      \* sub_llsig
      self     : BOOLEAN,               \* SIG_ELEM_INVOCANT
      default  : (SUBSET Plain) \ {{}},   \* what handle_optional may return
      thunk    : BOOLEAN,               \* by running a closure
      invocant : BOOLEAN ]              \* SIG_ELEM_MULTI_INVOCANT

ASSUME BinderAssumption ==
    /\ Sig \in [Sigs -> Seq(Parameters)]
    /\ None \notin Sigs \cup Vars \cup Attrs \cup Names \cup Types \cup Plain
    /\ Garbage \notin Plain \cup {None}
    /\ Thrown \notin Plain \cup {None} /\ Thrown \notin BOOLEAN
    /\ Prim \in [Plain -> Prims] /\ TypeOf \in [Plain -> Types]
    /\ \A v \in Plain : Prim[v] # "obj" => Box[v] \in Plain /\ Prim[Box[v]] = "obj"
    /\ \A v \in Plain : \A k \in Prims \ {"obj"} :
          Prim[v] = "obj" /\ Unbox[v][k] # None => Unbox[v][k] \in Plain /\ Prim[Unbox[v][k]] = k
    /\ Self \in Vars /\ MayDie \in BOOLEAN
    \* The parser takes required positionals first, optional ones next.
    /\ \A s \in Sigs : \A m, n \in DOMAIN Sig[s] : m < n =>
          /\ Sig[s][n].kind = "pos" => Sig[s][m].kind = "pos"
          /\ Sig[s][n].kind = "opt" => Sig[s][m].kind \in {"pos", "opt"}

VARIABLES
    frames,     \* activations of Rakudo_binding_bind, innermost last
    lex,        \* the lexpad bound into: the variables set so far
    tvars,      \* type variables set in it by type captures
    attrs,      \* the attributes of the invocant
    trial,      \* the bind is a bindability check: its error pointer is NULL
    bound,      \* how the bind ended: Running, Idle, or a verdict
    heard       \* what user code answered this bind, one record for each value bound

binder == <<frames, lex, tvars, attrs, trial, bound, heard>>

Verdicts == {"ok", "fail", "junction", "die", "crash"}
Running  == "running"
Idle     == "idle"

NoArgs == [n \in {} |-> n]      \* no variables, no named arguments

-----------------------------------------------------------------------------
(* Values.  Besides the plain ones there are the arrays, hashes and captures *)
(* the binder makes.                                                        *)

ListOf(s)     == [list |-> s]
HashOf(h)     == [hash |-> h]
CaptOf(s, h)  == [pos |-> s, named |-> h]

PrimOf(v) == IF v \in Plain THEN Prim[v] ELSE "obj"

TypeOfValue(v) ==
    IF v \in Plain THEN TypeOf[v]
    ELSE CASE DOMAIN v = {"list"} -> ListType
           [] DOMAIN v = {"hash"} -> HashType
           [] OTHER               -> CaptureType

IsDefined(v) == v \in Plain => v \in Defined
TypeCheck(t, u) == <<t, u>> \in Does
IsJunction(v) == TypeOfValue(v) = JunctionType

\* A native pulled out of a capture as a PMC comes boxed.
AsObject(v) == IF PrimOf(v) = "obj" THEN v ELSE Box[v]
Objects(s)  == [i \in DOMAIN s |-> AsObject(s[i])]

-----------------------------------------------------------------------------
(* One parameter.                                                           *)

Attributive(p) == p.attr # None

\* The value in the shape the parameter wants.  A native of the wrong kind is
\* taken for an object pointer.
Prepared(p, v) ==
    CASE PrimOf(v) = p.native -> v
      [] PrimOf(v) # p.native /\ p.native = "obj" -> Box[v]
      [] PrimOf(v) # p.native /\ p.native # "obj" /\ PrimOf(v) # "obj" -> Garbage
      [] OTHER -> IF v \in Plain THEN Unbox[v][p.native] ELSE None

NominalType(p, tv) == IF p.generic THEN tv[p.type] ELSE p.type

NominalOk(p, bv, tv) ==
    LET t == NominalType(p, tv)
    IN  t = MuType \/ TypeCheck(TypeOfValue(bv), t)

DefiniteOk(p, bv) ==
    /\ p.definite = "D" => IsDefined(bv)
    /\ p.definite = "U" => ~IsDefined(bv)

Coerces(p, bv) == p.coerce # None /\ ~TypeCheck(TypeOfValue(bv), p.coerce)

\* Boxing, then the nominal and definedness checks.
Typed(p, v, noNom, tv) ==
    LET bv == Prepared(p, v)
    IN  IF bv = None THEN "fail"
        ELSE IF bv = Garbage THEN "crash"
        ELSE IF noNom \/ PrimOf(bv) # "obj" THEN "ok"
        ELSE IF ~NominalOk(p, bv, tv)
             THEN IF IsJunction(bv) THEN "junction" ELSE "fail"
        ELSE IF DefiniteOk(p, bv) THEN "ok" ELSE "fail"

-----------------------------------------------------------------------------
(* Coercion methods, constraints, default closures, accessors and Capture    *)
(* methods are code of the program: it may answer otherwise each time.       *)

\* The answers while one value is bound, None where there is nothing to ask.
Unasked == [ default |-> None,      \* the default that is bound
             coerced |-> None,
             refused |-> FALSE,     \* by a constraint
             holder  |-> None,      \* what the accessor returned
             capture |-> None ]

MayThrow(S) == IF MayDie THEN S \cup {Thrown} ELSE S
OneOf(S)    == IF S = {} THEN {None} ELSE MayThrow(S)

Coercions(p, bv) ==
    IF Coerces(p, bv) /\ bv \in Plain /\ PrimOf(bv) = "obj"
    THEN OneOf(Coerced[bv][p.coerce]) ELSE {None}

Refusals(p, bv) ==
    IF p.rejects \cup p.doubts = {} THEN {FALSE}
    ELSE MayThrow({r \in BOOLEAN : /\ bv \in p.rejects => r
                                   /\ r => bv \in p.rejects \cup p.doubts})

Holders(p) == IF Attributive(p) /\ p.public THEN OneOf(Accessor[p.attr]) ELSE {None}

SubCaptures(p, decont) ==
    IF p.sub # None /\ decont \in Plain /\ PrimOf(decont) = "obj"
    THEN OneOf(AsCapture[decont]) ELSE {None}

\* The value after coercion: None when it has no coercion method.
Decont(p, bv, a) == IF Coerces(p, bv) THEN a.coerced ELSE bv

Answers(p, v, default, noNom) ==
    LET bv == Prepared(p, v)
    IN  IF Typed(p, v, noNom, tvars) # "ok" THEN {[Unasked EXCEPT !.default = default]}
        ELSE UNION {[ default : {default}, coerced : {c}, refused : Refusals(p, bv),
                      holder : Holders(p),
                      capture : SubCaptures(p, IF Coerces(p, bv) THEN c ELSE bv) ] :
                    c \in Coercions(p, bv)}

-----------------------------------------------------------------------------
(* Binding one parameter.                                                   *)

\* assign_attributive, with the type and rw checks of Rakudo_cont_store, which
\* throw.  Complaining about a native dereferences the error pointer.
Stored(p, bv, a, self) ==
    IF ~self THEN "fail"
    ELSE IF PrimOf(bv) # "obj" THEN IF trial THEN "crash" ELSE "fail"
    ELSE IF p.public /\ a.holder = None THEN "fail"
    ELSE IF p.public /\ a.holder # "rw" THEN "die"
    ELSE IF TypeCheck(TypeOfValue(Decont(p, bv, a)), AttrType[p.attr]) THEN "ok"
    ELSE "die"

\* A keyed store.
Set(f, k, v) == [x \in DOMAIN f \cup {k} |-> IF x = k THEN v ELSE f[x]]

\* What a sub-signature is bound against, None if v has no Capture method.
SubCapture(v, a) ==
    IF v \in Plain THEN a.capture
    ELSE CASE DOMAIN v = {"list"} -> CaptOf(v.list, NoArgs)
           [] DOMAIN v = {"hash"} -> CaptOf(<<>>, v.hash)
           [] OTHER               -> v

\* The verdict on binding v to p: the first check that does not pass.
Verdict(p, v, a, noNom) ==
    LET typed  == Typed(p, v, noNom, tvars)
        bv     == Prepared(p, v)
        native == PrimOf(bv) # "obj"
        self   == Self \in DOMAIN lex \/ p.self
        stored == IF Attributive(p) THEN Stored(p, bv, a, self) ELSE "ok"
    IN  IF typed # "ok" THEN typed
        ELSE IF p.coerce # None /\ native THEN IF trial THEN "crash" ELSE "fail"
        ELSE IF Decont(p, bv, a) = None THEN "fail"
        ELSE IF Decont(p, bv, a) = Thrown \/ a.refused = Thrown THEN "die"
        ELSE IF a.refused = TRUE THEN "fail"
        ELSE stored

\* Mutant: an attribute that has a value keeps it.
AssignedOnce(p, v) ==
    IF Attributive(p) /\ attrs[p.attr] = None THEN [attrs EXCEPT ![p.attr] = v] ELSE attrs

Assigned(p, v) == IF Attributive(p) THEN [attrs EXCEPT ![p.attr] = v] ELSE attrs

-----------------------------------------------------------------------------
(* Activations.                                                             *)

Activation(s, cap, noNom) ==
    [ sig      |-> s,
      args     |-> cap.pos,
      cur      |-> 1,               \* cur_pos_arg
      named    |-> Objects(cap.named),  \* named_args_copy; empty once taken
      i        |-> 1,               \* the parameter to bind next
      suppress |-> FALSE,           \* suppress_arity_fail
      sealed   |-> FALSE,           \* a final capture: nothing is left over
      noNom    |-> noNom ]          \* no_nom_type_check

Top      == frames[Len(frames)]
Params   == Sig[Top.sig]
Param    == Params[Top.i]
Binding  == bound = Running
AtParam(kinds) == Binding /\ Top.i <= Len(Params) /\ Param.kind \in kinds
HasValue == Top.cur <= Len(Top.args)
Passed   == Range(Param.names) \cap DOMAIN Top.named # {}
Step(f)  == [f EXCEPT !.i = @ + 1]

\* bind_signature, or the multi-dispatcher's bindability check, enters the binder.
Enter(s, cap, noNom, check) ==
    /\ frames' = <<Activation(s, cap, noNom)>>
    /\ lex' = NoArgs /\ tvars' = NoArgs
    /\ trial' = check /\ bound' = Running /\ heard' = <<>>
    /\ UNCHANGED attrs

Unwind(verdict) == frames' = <<>> /\ bound' = verdict
Fail == Unwind("fail") /\ UNCHANGED <<lex, tvars, attrs, trial, heard>>

Replace(f) == [frames EXCEPT ![Len(frames)] = f]

Skip(f) == frames' = Replace(f) /\ UNCHANGED <<lex, tvars, attrs, trial, bound, heard>>

\* The effects of bind_one_param when every check passed, f being the activation
\* after it.  Nothing of it is undone when the value has no Capture method, or
\* when a later parameter fails.
Bound(p, v, a, noNom, f) ==
    LET bv      == Prepared(p, v)
        native  == PrimOf(bv) # "obj"
        decont  == Decont(p, bv, a)
        shown   == IF p.raw \/ native THEN bv ELSE decont
        withVar == IF p.var # None /\ ~Attributive(p) THEN Set(lex, p.var, shown) ELSE lex
        capture == SubCapture(decont, a)
        recurse == p.sub # None /\ ~native
    IN  /\ lex' = IF p.self THEN Set(withVar, Self, decont) ELSE withVar
        /\ tvars' = IF p.tcap = None THEN tvars
                    ELSE Set(tvars, p.tcap, TypeOfValue(AsObject(bv)))
        /\ attrs' = Assigned(p, decont)
        /\ UNCHANGED trial
        /\ IF recurse /\ capture \in {None, Thrown}
           THEN Unwind(IF capture = None THEN "fail" ELSE "die")
           ELSE /\ UNCHANGED bound
                /\ frames' = IF recurse
                             THEN Append(Replace(f), Activation(p.sub, capture, noNom))
                             ELSE Replace(f)

\* Rakudo_binding_bind_one_param.
OneParam(p, v, default, noNom, f) ==
    \E a \in Answers(p, v, default, noNom) :
       LET verdict == Verdict(p, v, a, noNom)
       IN  /\ heard' = Append(heard, a)
           /\ \/ verdict = "ok" /\ Bound(p, v, a, noNom, f)
              \/ verdict # "ok" /\ Unwind(verdict) /\ UNCHANGED <<lex, tvars, attrs, trial>>

-----------------------------------------------------------------------------
(* The parameters in turn: Rakudo_binding_bind.                             *)

\* |$c takes what is left without consuming it.  It ends the bind when it is
\* the last parameter; slurpies after it lift the arity checks.
BindCapture ==
    /\ AtParam({"capture"})
    /\ LET rest == Objects(SubSeq(Top.args, Top.cur, Len(Top.args)))
           last == Top.i = Len(Params)
           slurpyNext == ~last /\ Params[Top.i + 1].kind
                                   \in {"slurpy", "slurpynamed", "methodslurpy"}
           f    == [Step(Top) EXCEPT !.sealed = last, !.suppress = @ \/ slurpyNext]
       IN  IF Param.var = None THEN Skip(f)
           ELSE OneParam(Param, CaptOf(rest, Top.named), None, Top.noNom, f)

\* *%h takes the named arguments that are left.  The default %_ of a method is
\* put in the lexpad unchecked.
BindSlurpyNamed ==
    LET f == [Step(Top) EXCEPT !.named = NoArgs]
    IN  \/ /\ AtParam({"slurpynamed"})
           /\ OneParam(Param, HashOf(Top.named), None, Top.noNom, f)
        \/ /\ AtParam({"methodslurpy"})
           /\ frames' = Replace(f)
           /\ lex' = Set(lex, Param.var, HashOf(Top.named))
           /\ UNCHANGED <<tvars, attrs, trial, bound, heard>>

\* *@a and **@a take the positionals that are left.
BindSlurpy ==
    /\ AtParam({"slurpy", "lol"})
    /\ LET rest == Objects(SubSeq(Top.args, Top.cur, Len(Top.args)))
       IN  OneParam(Param, ListOf(rest), None, Top.noNom,
                    [Step(Top) EXCEPT !.cur = Len(Top.args) + 1])

BindPositional ==
    /\ AtParam({"pos", "opt"}) /\ HasValue
    /\ OneParam(Param, Top.args[Top.cur], None, Top.noNom, [Step(Top) EXCEPT !.cur = @ + 1])

\* Mutant: a default is not checked either.
BindDefaultUnchecked ==
    /\ \/ AtParam({"opt"}) /\ ~HasValue
       \/ AtParam({"namedopt"}) /\ ~Passed
    /\ \E d \in Param.default : OneParam(Param, d, d, TRUE, Step(Top))

DefaultThrows ==
    /\ MayDie /\ Param.thunk
    /\ heard' = Append(heard, [Unasked EXCEPT !.default = Thrown])
    /\ Unwind("die") /\ UNCHANGED <<lex, tvars, attrs, trial>>

\* handle_optional finds the default; binding it checks its nominal type.
BindDefault ==
    /\ \/ AtParam({"opt"}) /\ ~HasValue
       \/ AtParam({"namedopt"}) /\ ~Passed
    /\ \/ \E d \in Param.default : OneParam(Param, d, d, FALSE, Step(Top))
       \/ DefaultThrows

MissingPositional == AtParam({"pos"}) /\ ~HasValue /\ Fail

Without(h, n) == [k \in DOMAIN h \ {n} |-> h[k]]

\* Mutant: the alias found is not deleted from the arguments to bind.
BindNamedKeeping ==
    /\ AtParam({"named", "namedopt"}) /\ Passed
    /\ \E j \in DOMAIN Param.names :
          LET n == Param.names[j]
          IN  /\ n \in DOMAIN Top.named
              /\ \A k \in 1..(j - 1) : Param.names[k] \notin DOMAIN Top.named
              /\ OneParam(Param, Top.named[n], None, FALSE, Step(Top))

\* The first alias that was passed is taken; always checked.
BindNamed ==
    /\ AtParam({"named", "namedopt"}) /\ Passed
    /\ \E j \in DOMAIN Param.names :
          LET n == Param.names[j]
          IN  /\ n \in DOMAIN Top.named
              /\ \A k \in 1..(j - 1) : Param.names[k] \notin DOMAIN Top.named
              /\ OneParam(Param, Top.named[n], None, FALSE,
                          [Step(Top) EXCEPT !.named = Without(@, n)])

\* Mutant: a required named parameter is never missed.
MissingNamedAlways ==
    /\ AtParam({"named"}) /\ ~Passed
    /\ Skip(Step(Top))

\* Nothing is bound for a required named parameter after |$c and slurpies.
MissingNamed ==
    /\ AtParam({"named"}) /\ ~Passed
    /\ IF Top.suppress THEN Skip(Step(Top)) ELSE Fail

TooMany    == HasValue /\ ~Top.suppress
Unexpected == DOMAIN Top.named # {}

\* The checks for left-over arguments, then back to the outer signature.
EndOfParams ==
    /\ Binding /\ Top.i > Len(Params)
    /\ IF ~Top.sealed /\ (TooMany \/ Unexpected) THEN Fail
       ELSE /\ frames' = SubSeq(frames, 1, Len(frames) - 1)
            /\ bound' = IF Len(frames) = 1 THEN "ok" ELSE Running
            /\ UNCHANGED <<lex, tvars, attrs, trial, heard>>

BindStep ==
    \/ BindCapture \/ BindSlurpyNamed \/ BindSlurpy
    \/ BindPositional \/ BindDefault \/ MissingPositional
    \/ BindNamed \/ MissingNamed \/ EndOfParams

=============================================================================
