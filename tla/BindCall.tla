------------------------------ MODULE BindCall ------------------------------
(***************************************************************************)
(* A call as the binder sees it: the bind_signature op of the callee        *)
(* (src/ops/perl6.ops), a multi-dispatch to one candidate with its          *)
(* bindability check and ALREADY_CHECKED hand-over                          *)
(* (src/binder/multidispatch.c), and AUTOTHREAD (src/core/Junction.pm),     *)
(* which repeats the call once for each eigenstate.                         *)
(***************************************************************************)
EXTENDS Binder

CONSTANTS
    States,     \* States[v]: the eigenstates of junction v
    Multis,     \* signatures called as the only candidate of a proto
    Callable,   \* signatures called by name
    Captures,   \* argument lists they are called with
    Inside,     \* Inside[s]: s and the sub-signatures in it, at any depth
    AnyType     \* the type a generic parameter is dispatched on

\* The parameters of s and of its sub-signatures.
Own(s) == Range(Sig[s])
Nested(s) == UNION {Own(t) : t \in Inside[s] \ {s}}

Declares(p) == p.var # None /\ ~Attributive(p)

\* The arguments of calls, with the names that are passed.
Arguments == [pos : Seq(Plain), named : UNION {[D -> Plain] : D \in SUBSET Names}]

Junctions == {v \in Plain : IsJunction(v)}

ASSUME CallAssumption ==
    /\ Callable \cup Multis \subseteq Sigs
    /\ AnyType \in Types
    /\ Captures \subseteq Arguments /\ States \in [Junctions -> Seq(Plain)]
    /\ \A s \in Sigs : /\ s \in Inside[s]
                       /\ \A t \in Inside[s] : \A p \in Own(t) :
                             p.sub # None => p.sub \in Inside[s] \ {s}
    \* A variable is declared once, sub-signatures included; "self" is none of them.
    /\ \A s \in Sigs : \A t, u \in Inside[s] : \A m \in DOMAIN Sig[t], n \in DOMAIN Sig[u] :
          Declares(Sig[t][m]) /\ Declares(Sig[u][n]) /\ Sig[t][m].var = Sig[u][n].var =>
             t = u /\ m = n /\ Sig[t][m].var # Self
    \* The |*%_| of a method is a variable.
    /\ \A s \in Sigs : \A p \in Own(s) : p.kind = "methodslurpy" => Declares(p)
    \* Natives, and what they are boxed to, are instances.
    /\ \A v \in Plain : Prim[v] # "obj" => v \in Defined /\ Box[v] \in Defined

VARIABLES
    mode,       \* what runs: see Modes
    fn,         \* the signature called, None between calls
    orig,       \* the arguments of the call made by the program
    todo,       \* the calls threading has left to make, first one first
    bodies,     \* a record of each time the callee's body was entered
    checked,    \* the last trial bind: its verdict, the lexpad it showed, what it heard
    outcome     \* how the call ended

calls == <<mode, fn, orig, todo, bodies, checked, outcome>>
vars  == <<binder, calls>>

\* AUTOTHREAD is given the proto or the candidate; a call through the proto
\* dispatches again.
Vias     == {"direct", "multi"}
Outcomes == {"none", "returned", "threw", "crashed"}
Modes    == {"idle", "ready", "trial", "final", "done"}
Calling  == mode \in {"ready", "trial", "final"}
Now      == Head(todo)
Unchecked == [verdict |-> "none", lex |-> NoArgs, heard |-> <<>>]

-----------------------------------------------------------------------------
(* What the multi-dispatcher knows of a candidate.                          *)

Breaks(s)  == {i \in DOMAIN Sig[s] : Sig[s][i].kind \in {"slurpy", "slurpynamed", "methodslurpy"}}
Scanned(s) == {i \in DOMAIN Sig[s] : \A b \in Breaks(s) : i <= b}

\* Every other parameter that has no name counts as a positional.
Positional(p) == p.kind \in {"pos", "opt", "lol", "capture"}
Counted ==
    [s \in Sigs |->
        LET found[n \in 0..Len(Sig[s])] ==
                IF n = 0 THEN <<>>
                ELSE IF n \in Scanned(s) /\ Positional(Sig[s][n])
                     THEN Append(found[n - 1], Sig[s][n]) ELSE found[n - 1]
        IN  found[Len(Sig[s])]]

Unlimited(s) == \E i \in Scanned(s) : Sig[s][i].kind = "slurpy"

MinArity(s) == Cardinality({i \in DOMAIN Counted[s] : Counted[s][i].kind # "opt"})

NeedsCheck(s) ==
    \E i \in Scanned(s) :
       LET p == Sig[s][i]
       IN  \/ p.kind \in {"named", "namedopt"} \/ p.sub # None
           \/ Positional(p) /\ (p.generic \/ p.rejects \cup p.doubts # {})

\* req_named: the first name of the last required named parameter.
RequiredNamed(s) ==
    LET at == {i \in Scanned(s) : Sig[s][i].kind = "named"}
    IN  {Sig[s][i].names[1] : i \in {i \in at : \A k \in at : k <= i}}

NumTypes(s) == Cardinality({i \in DOMAIN Counted[s] : Counted[s][i].invocant})

TypeAdmits(p, v) ==
    IF p.native # "obj" THEN PrimOf(v) = p.native
    ELSE LET t == IF p.generic THEN AnyType ELSE p.type
         IN  /\ t = MuType \/ TypeCheck(TypeOfValue(AsObject(v)), t)
             /\ DefiniteOk(p, v)

ArityAdmits(s, args) ==
    /\ Len(args) >= MinArity(s)
    /\ Len(args) <= Len(Counted[s]) \/ Unlimited(s)

TypesAdmit(s, args) ==
    \A i \in DOMAIN args : i <= NumTypes(s) => TypeAdmits(Counted[s][i], args[i])

Admits(s, cap) ==
    /\ ArityAdmits(s, cap.pos) /\ TypesAdmit(s, cap.pos)
    /\ RequiredNamed(s) \subseteq DOMAIN cap.named

-----------------------------------------------------------------------------
(* AUTOTHREAD.                                                              *)

JunctionAt(pos) == {i \in DOMAIN pos : IsJunction(pos[i])}
FirstJunction(pos) == CHOOSE i \in JunctionAt(pos) : \A k \in JunctionAt(pos) : i <= k

Via(via, pos, named) == [via |-> via, pos |-> pos, named |-> named]

\* Mutant: the arguments after the junction are dropped.
ThreadsDropping(c, via) ==
    LET i == FirstJunction(c.pos)
    IN  IF JunctionAt(c.pos) # {}
        THEN {[k \in DOMAIN States[c.pos[i]] |->
                  Via(via, SubSeq(c.pos, 1, i - 1) \o <<States[c.pos[i]][k]>>, c.named)]}
        ELSE {<<Via(via, c.pos, c.named)>>}

\* Mutant: only positional arguments are threaded.
ThreadsPositional(c, via) ==
    LET i == FirstJunction(c.pos)
    IN  IF JunctionAt(c.pos) # {}
        THEN {[k \in DOMAIN States[c.pos[i]] |->
                  Via(via, [c.pos EXCEPT ![i] = States[@][k]], c.named)]}
        ELSE {<<Via(via, c.pos, c.named)>>}

\* The calls made for c: the first junctional positional is replaced by each of
\* its eigenstates; failing that a junctional named argument, in the order of
\* the hash; failing that the same call is made again.
Threads(c, via) ==
    LET i == FirstJunction(c.pos)
        namedAt == {n \in DOMAIN c.named : IsJunction(c.named[n])}
    IN  IF JunctionAt(c.pos) # {}
        THEN {[k \in DOMAIN States[c.pos[i]] |->
                  Via(via, [c.pos EXCEPT ![i] = States[@][k]], c.named)]}
        ELSE IF namedAt # {}
        THEN {[k \in DOMAIN States[c.named[n]] |->
                  Via(via, c.pos, [c.named EXCEPT ![n] = States[@][k]])] : n \in namedAt}
        ELSE {<<Via(via, c.pos, c.named)>>}

AutoThread(via) ==
    \E t \in Threads(Now, via) :
       LET left == t \o Tail(todo)
       IN  /\ todo' = left
           /\ mode' = IF left = <<>> THEN "done" ELSE "ready"
           /\ outcome' = IF left = <<>> THEN "returned" ELSE outcome
           /\ UNCHANGED <<fn, orig, bodies, checked>>

-----------------------------------------------------------------------------
(* Calls.                                                                   *)

Init ==
    /\ frames = <<>> /\ lex = NoArgs /\ tvars = NoArgs
    /\ attrs = [a \in Attrs |-> None] /\ trial = FALSE /\ bound = Idle
    /\ heard = <<>>
    /\ mode = "idle" /\ fn = None /\ orig = None
    /\ todo = <<>> /\ bodies = <<>> /\ checked = Unchecked /\ outcome = "none"

\* The program calls s, or the proto whose candidate it is.
Call(s, cap, via) ==
    /\ orig' = Via(via, cap.pos, cap.named)
    /\ mode' = "ready" /\ fn' = s /\ todo' = <<orig'>>
    /\ UNCHANGED <<binder, bodies, checked, outcome>>

\* Back in the program; the object called on, and its attributes, stay.
Return ==
    /\ mode = "done"
    /\ mode' = "idle" /\ fn' = None /\ orig' = None /\ todo' = <<>>
    /\ bodies' = <<>> /\ checked' = Unchecked /\ outcome' = "none"
    /\ frames' = <<>> /\ lex' = NoArgs /\ tvars' = NoArgs /\ trial' = FALSE /\ heard' = <<>>
    /\ UNCHANGED <<attrs, bound>>

\* bind_signature in a callee that was called by name.
Invoke ==
    /\ mode = "ready" /\ Now.via = "direct"
    /\ Enter(fn, Now, FALSE, FALSE)
    /\ mode' = "final" /\ checked' = Unchecked
    /\ UNCHANGED <<fn, orig, todo, bodies, outcome>>

EndCall(how) ==
    /\ mode' = "done" /\ outcome' = how
    /\ UNCHANGED <<fn, orig, todo, bodies, checked>>

\* No candidate is left: the threader stands in for one if a positional
\* argument is a junction, otherwise the dispatch fails.
NoCandidate ==
    IF JunctionAt(Now.pos) # {} THEN AutoThread("multi") ELSE EndCall("threw")

\* The dispatcher finds the candidate by arity, types and the required name.
DispatchRejects ==
    /\ mode = "ready" /\ Now.via = "multi" /\ ~Admits(fn, Now)
    /\ NoCandidate
    /\ UNCHANGED binder

DispatchTrial ==
    /\ mode = "ready" /\ Now.via = "multi" /\ Admits(fn, Now) /\ NeedsCheck(fn)
    /\ Enter(fn, Now, FALSE, TRUE)
    /\ mode' = "trial"
    /\ UNCHANGED <<fn, orig, todo, bodies, checked, outcome>>

\* Mutant: the named arguments do not reach the candidate.
InvokePositional ==
    /\ Enter(fn, [Now EXCEPT !.named = NoArgs], TRUE, FALSE)
    /\ mode' = "final"

\* The candidate is invoked with ALREADY_CHECKED set.
InvokeChecked ==
    /\ Enter(fn, Now, TRUE, FALSE)
    /\ mode' = "final"

DispatchAccepts ==
    /\ mode = "ready" /\ Now.via = "multi" /\ Admits(fn, Now) /\ ~NeedsCheck(fn)
    /\ InvokeChecked /\ checked' = Unchecked
    /\ UNCHANGED <<fn, orig, todo, bodies, outcome>>

Verdictless == bound' = Idle /\ UNCHANGED <<frames, lex, tvars, attrs, trial, heard>>

\* "needing a junction dispatch is OK"
TrialPasses ==
    /\ mode = "trial" /\ bound \in {"ok", "junction"}
    /\ checked' = [verdict |-> bound, lex |-> lex, heard |-> heard]
    /\ InvokeChecked
    /\ UNCHANGED <<fn, orig, todo, bodies, outcome>>

TrialFails ==
    /\ mode = "trial" /\ bound = "fail"
    /\ NoCandidate
    /\ Verdictless

\* The bind worked out: the body runs, then the next thread.
RunBody ==
    /\ mode = "final" /\ bound = "ok"
    /\ bodies' = Append(bodies, [call |-> Now, lex |-> lex])
    /\ todo' = Tail(todo)
    /\ mode' = IF Len(todo) = 1 THEN "done" ELSE "ready"
    /\ outcome' = IF Len(todo) = 1 THEN "returned" ELSE outcome
    /\ UNCHANGED <<fn, orig, checked>>
    /\ Verdictless

\* bind_signature hands the code object it was binding for to the threader.
ThreadCall ==
    /\ mode = "final" /\ bound = "junction"
    /\ AutoThread("direct")
    /\ Verdictless

\* bind_signature throws the error; an exception out of user code goes on; a
\* crash ends the process, and the next call is another process's.
BindThrows ==
    /\ mode \in {"trial", "final"}
    /\ bound = "die" \/ (mode = "final" /\ bound = "fail")
    /\ EndCall("threw")
    /\ Verdictless

BindCrashes ==
    /\ mode \in {"trial", "final"} /\ bound = "crash"
    /\ EndCall("crashed")
    /\ bound' = Idle /\ attrs' = [a \in Attrs |-> None]
    /\ UNCHANGED <<frames, lex, tvars, trial, heard>>

Bind == BindStep /\ UNCHANGED calls

Progress ==
    \/ Invoke \/ DispatchRejects \/ DispatchTrial \/ DispatchAccepts
    \/ Bind
    \/ TrialPasses \/ TrialFails
    \/ RunBody \/ ThreadCall \/ BindThrows \/ BindCrashes
    \/ Return

ProgramCalls ==
    /\ mode = "idle"
    /\ \/ \E s \in Callable, cap \in Captures : Call(s, cap, "direct")
       \/ \E s \in Multis, cap \in Captures : Call(s, cap, "multi")

Next == ProgramCalls \/ Progress

Spec == Init /\ [][Next]_vars

\* A call that was made is carried on: nothing else runs.
FairSpec == Spec /\ WF_vars(Progress)

-----------------------------------------------------------------------------
(* What the binder promises.                                                *)

\* Every variable holds what it should: verdicts, activations and the calls to
\* make have their types (the state of one bind and of one threaded call).
TypeOK ==
    /\ bound \in Verdicts \cup {Running, Idle}
    /\ (bound = Running) = (frames # <<>>)
    /\ \A k \in DOMAIN frames :
          /\ frames[k].sig \in Sigs
          /\ frames[k].i \in 1..(Len(Sig[frames[k].sig]) + 1)
          /\ frames[k].cur \in 1..(Len(frames[k].args) + 1)
    /\ DOMAIN lex \cup DOMAIN tvars \subseteq Vars /\ DOMAIN attrs = Attrs
    /\ trial \in BOOLEAN /\ fn \in Sigs \cup {None} /\ outcome \in Outcomes
    /\ mode \in Modes
    /\ (mode \in {"trial", "final"}) = (bound # Idle)
    /\ \A k \in DOMAIN todo : todo[k].via \in Vias
    /\ Calling = (todo # <<>> /\ outcome = "none")
    /\ (mode = "idle") = (fn = None)

\* The dispatcher looked at the types of these parameters.
Dispatched(s) == {Counted[s][i] : i \in 1..NumTypes(s)}

Shown(p) == Declares(p) /\ ~p.raw /\ p.coerce = None /\ ~p.generic
            /\ p.kind # "methodslurpy"

Conforms(p, v) ==
    IF p.native # "obj" THEN PrimOf(v) = p.native
    ELSE NominalOk(p, v, NoArgs) /\ DefiniteOk(p, v) /\ v \notin p.rejects

\* A variable of a body that was entered holds a value its parameter's type,
\* definedness and constraints admit, or was not bound at all because a capture
\* and slurpies before it lifted the arity checks.  A body called by name has
\* this of all its parameters, sub-signatures and defaults included; one called
\* through a proto of the parameters the dispatcher looked at and of the nameds.
BodyArgsConform ==
    \A k \in DOMAIN bodies :
       LET b == bodies[k]
           sure == IF b.call.via = "direct" THEN Own(fn) \cup Nested(fn)
                   ELSE Dispatched(fn)
                        \cup {p \in Own(fn) : p.kind \in {"named", "namedopt"}}
       IN  \A p \in sure : Shown(p) /\ p.var \in DOMAIN b.lex => Conforms(p, b.lex[p.var])

\* Parameter i of s and those before it take one positional argument each, and
\* no other parameter has its attribute.
OwnsAttribute(s, i) ==
    /\ Attributive(Sig[s][i])
    /\ \A k \in 1..i : Sig[s][k].kind = "pos" /\ (k < i => Sig[s][k].sub = None)
    /\ \A k \in DOMAIN Sig[s] \ {i} : Sig[s][k].attr # Sig[s][i].attr
    /\ \A q \in Nested(s) : q.attr # Sig[s][i].attr

\* When a body is entered, the attribute of an attributive parameter holds what
\* this bind made of the argument in its place, as user code coerced it this time:
\* nothing a bindability check, or a bind that failed, put there before.
AttrsBound ==
    mode = "final" /\ bound = "ok" =>
       \A i \in DOMAIN Sig[fn] : OwnsAttribute(fn, i) =>
          LET p == Sig[fn][i]
          IN  attrs[p.attr] = Decont(p, Prepared(p, Now.pos[i]), heard[i])

\* Lexpad l has the variable of parameter i of the callee, or the parameter is a
\* required named one whose absence a capture before it excused.
Accounted(i, l) ==
    LET p == Sig[fn][i]
    IN  \/ ~Declares(p) \/ p.var \in DOMAIN l
        \/ p.kind = "named" /\ \E c \in 1..(i - 1) : Sig[fn][c].kind = "capture"

\* A body never reads a variable of its signature that was not bound; only a
\* required named parameter after |$c and slurpies is left out.
BodyVarsBound ==
    \A k \in DOMAIN bodies : \A i \in DOMAIN Sig[fn] : Accounted(i, bodies[k].lex)

-----------------------------------------------------------------------------
(* The arguments a signature takes, declared instead of walked.             *)

Loose(s, i) ==
    \E c \in 1..(i - 1) :
       /\ c < Len(Sig[s]) /\ Sig[s][c].kind = "capture"
       /\ Sig[s][c + 1].kind \in {"slurpy", "slurpynamed", "methodslurpy"}

OfKind(s, kinds) == {i \in DOMAIN Sig[s] : Sig[s][i].kind \in kinds}
EndsInCapture(s) == Sig[s] # <<>> /\ Sig[s][Len(Sig[s])].kind = "capture"

\* The name of p among the names passed that p is bound by.
TakenBy(p, passed) ==
    {p.names[j] : j \in {j \in DOMAIN p.names :
        p.names[j] \in passed /\ \A k \in 1..(j - 1) : p.names[k] \notin passed}}

ArityFits(s, cap) ==
    LET n      == Len(cap.pos)
        passed == DOMAIN cap.named
        nameds == OfKind(s, {"named", "namedopt"})
    IN  /\ n >= Cardinality(OfKind(s, {"pos"}))
        /\ \/ n <= Cardinality(OfKind(s, {"pos", "opt"}))
           \/ OfKind(s, {"slurpy", "lol"}) # {} \/ EndsInCapture(s)
           \/ Loose(s, Len(Sig[s]) + 1)
        /\ \A i \in OfKind(s, {"named"}) :
              Loose(s, i) \/ Range(Sig[s][i].names) \cap passed # {}
        /\ \/ OfKind(s, {"slurpynamed", "methodslurpy"}) # {} \/ EndsInCapture(s)
           \/ passed = UNION {TakenBy(Sig[s][i], passed) : i \in nameds}

\* A parameter that takes anything.
Untyped(p) ==
    /\ \/ p.type = MuType
       \/ p.kind \in {"slurpy", "lol"} /\ TypeCheck(ListType, p.type)
       \/ p.kind = "slurpynamed" /\ TypeCheck(HashType, p.type)
    /\ ~p.generic /\ p.definite = "any" /\ p.native = "obj"
    /\ p.coerce = None /\ p.rejects \cup p.doubts = {} /\ p.sub = None /\ ~Attributive(p)

\* The binder accepts exactly the argument lists its signature declares: none
\* that do not fit, and all that do when no parameter has a type to check.
ArityAgrees ==
    /\ mode \in {"trial", "final"} /\ bound = "ok" => ArityFits(fn, Now)
    /\ mode \in {"trial", "final"} /\ bound = "fail" /\ (\A p \in Own(fn) : Untyped(p))
          => ~ArityFits(fn, Now)

\* User code answered this bind as it did the check, as far as both asked it.
SameAnswers ==
    \A k \in DOMAIN heard \cap DOMAIN checked.heard : heard[k] = checked.heard[k]

\* The bind that enters the body ends as the bindability check did that chose it,
\* with the same variables, unless user code now throws or answers otherwise.
TrialAgrees ==
    mode = "final" /\ bound \in Verdicts /\ checked.verdict = "ok" /\ SameAnswers =>
       bound = "ok" /\ lex = checked.lex

-----------------------------------------------------------------------------
(* Autothreading.                                                           *)

States1(v) == IF IsJunction(v) THEN Range(States[v]) ELSE {v}

\* The calls without junctions that c stands for.
Resolved(c) ==
    LET Each(f) == {g \in [DOMAIN f -> UNION {States1(f[k]) : k \in DOMAIN f}] :
                       \A k \in DOMAIN f : g[k] \in States1(f[k])}
    IN  Each(c.pos) \X Each(c.named)

Standing(cs, r) == Cardinality({k \in DOMAIN cs : r \in Resolved(cs[k])})

\* While a call runs, each combination of eigenstates it stands for is in
\* exactly one place: in a body that was entered or in a call still to make.  A
\* call that returned entered a body once for each.
EveryThreadOnce ==
    Calling \/ outcome = "returned" =>
       \A r \in Resolved(orig) :
          Standing([k \in DOMAIN bodies |-> bodies[k].call], r) + Standing(todo, r) = 1

Junctional(c) ==
    \/ JunctionAt(c.pos) # {} \/ \E n \in DOMAIN c.named : IsJunction(c.named[n])

\* "BIND_RESULT_JUNCTION if the failure was because of a Junction being passed."
JunctionPassed == mode = "final" /\ bound = "junction" => Junctional(Now)

\* Every call ends, but for one whose bind fails on a junction that is none of its
\* arguments, a default or part of an argument: threading makes the same call again.
CallEnds == Calling ~> (mode = "done" \/ ~JunctionPassed)

=============================================================================
