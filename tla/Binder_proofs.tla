--------------------------- MODULE Binder_proofs ---------------------------
(***************************************************************************)
(* What the binder promises for every signature, argument list and type     *)
(* lattice, proved about BindCall.                                          *)
(***************************************************************************)
EXTENDS BindCall, Induction, SequenceTheorems, FiniteSetTheorems

-----------------------------------------------------------------------------
(* Every variable of a body is bound.                                       *)

Fields == {"sig", "args", "cur", "named", "i", "suppress", "sealed", "noNom"}
FrameOk(f) == f.i \in Nat \ {0} /\ DOMAIN f = Fields

\* The outermost activation is that of the callee; the parameters it is past are
\* accounted for; it lifts the arity checks only past a capture.
FramesOk ==
    /\ \E S : frames \in Seq(S)
    /\ frames # <<>>
    /\ \A k \in 1..Len(frames) : FrameOk(frames[k])
    /\ frames[1].sig = fn
    /\ \A i \in DOMAIN Sig[fn] : i < frames[1].i => Accounted(i, lex)
    /\ frames[1].suppress =>
          \E c \in 1..(frames[1].i - 1) : Sig[fn][c].kind = "capture"

\* A bind in progress has accounted for the parameters behind it, one that
\* worked out for all of them, and so has every body entered in this call.
VarInv ==
    /\ mode # "idle" => fn \in Sigs
    /\ mode = "idle" => bodies = <<>>
    /\ mode \in {"idle", "ready", "done"} => bound = Idle
    /\ bound = Running => FramesOk
    /\ bound = "ok" => \A i \in DOMAIN Sig[fn] : Accounted(i, lex)
    /\ \E S : bodies \in Seq(S)
    /\ BodyVarsBound

\* bind_one_param ends in one of its result codes.
LEMMA VerdictType ==
    ASSUME NEW p, NEW v, NEW a, NEW noNom PROVE Verdict(p, v, a, noNom) \in Verdicts
<1>1. Typed(p, v, noNom, tvars) \in Verdicts
      BY SMT DEF Typed, Verdicts
<1>2. Stored(p, Prepared(p, v), a, Self \in DOMAIN lex \/ p.self) \in Verdicts
      BY SMT DEF Stored, Verdicts
<1> QED BY <1>1, <1>2, SMT DEF Verdict, Verdicts

\* An activation that goes past a parameter keeps the invariant if the parameter
\* is accounted for.
LEMMA Advance ==
    ASSUME VarInv, bound = Running, bound' = Running, UNCHANGED calls,
           NEW f, FrameOk(f), f.sig = Top.sig, f.i = Top.i + 1,
           Top.i <= Len(Params),
           f.suppress => Top.suppress \/ Param.kind = "capture",
           \/ frames' = Replace(f)
           \/ \E g : FrameOk(g) /\ frames' = Append(Replace(f), g),
           DOMAIN lex \subseteq DOMAIN lex',
           Len(frames) = 1 => Accounted(Top.i, lex')
    PROVE  VarInv'
<1>1. FramesOk /\ fn \in Sigs /\ mode \notin {"idle", "ready", "done"}
      BY DEF VarInv, Running, Idle
<1>2. PICK S : frames \in Seq(S)
      BY <1>1 DEF FramesOk
<1>3. Len(frames) \in Nat \ {0}
      BY <1>1, <1>2 DEF FramesOk
<1> DEFINE r == Replace(f)
<1>4. /\ r \in Seq(S \cup {f})
      /\ Len(r) = Len(frames)
      /\ \A k \in 1..Len(frames) : r[k] = IF k = Len(frames) THEN f ELSE frames[k]
      BY <1>2, <1>3 DEF Replace
<1>5. \A k \in 1..Len(r) : FrameOk(r[k])
      BY <1>1, <1>4 DEF FramesOk
<1> HIDE DEF r
<1> DEFINE Good(fs) == /\ \E S2 : fs \in Seq(S2)
                       /\ fs # <<>>
                       /\ \A k \in 1..Len(fs) : FrameOk(fs[k])
                       /\ fs[1] = r[1]
<1>6. Good(frames')
      <2>1. CASE frames' = r
            BY <1>3, <1>4, <1>5, <2>1
      <2>2. ASSUME NEW g, FrameOk(g), frames' = Append(r, g)
            PROVE  Good(frames')
            <3>1. Append(r, g) \in Seq(S \cup {f} \cup {g}) /\ Len(Append(r, g)) = Len(r) + 1
                  BY <1>4
            <3>2. \A k \in 1..Len(r) + 1 :
                     Append(r, g)[k] = IF k = Len(r) + 1 THEN g ELSE r[k]
                  BY <1>4
            <3> QED BY <1>3, <1>4, <1>5, <2>2, <3>1, <3>2
      <2> QED BY <2>1, <2>2 DEF r
<1>7. \A i \in DOMAIN Sig[fn] : Accounted(i, lex) => Accounted(i, lex')
      BY DEF Accounted
<1>8. Sig[fn] \in Seq(Parameters)
      BY <1>1, BinderAssumption
<1>9. CASE Len(frames) = 1
      <2>1. Top = frames[1] /\ frames'[1] = f /\ Params = Sig[fn]
            BY <1>1, <1>4, <1>6, <1>9 DEF Top, Params, FramesOk
      <2>2. Top.i \in Nat \ {0} /\ Top.i \in DOMAIN Sig[fn]
            BY <1>1, <1>8, <1>9, <2>1 DEF FramesOk, FrameOk
      <2>3. \A i \in DOMAIN Sig[fn] : i < f.i => Accounted(i, lex')
            BY <1>1, <1>7, <1>8, <1>9, <2>1, <2>2 DEF FramesOk
      <2>4. f.suppress => \E c \in 1..(f.i - 1) : Sig[fn][c].kind = "capture"
            BY <1>1, <2>1, <2>2 DEF FramesOk, Param, Params
      <2> QED BY <1>1, <1>6, <2>1, <2>3, <2>4
              DEF VarInv, FramesOk, calls, BodyVarsBound, Accounted, Running
<1>10. CASE Len(frames) # 1
      <2>1. frames'[1] = frames[1]
            BY <1>3, <1>4, <1>6, <1>10
      <2> QED BY <1>1, <1>6, <1>7, <2>1
              DEF VarInv, FramesOk, calls, BodyVarsBound, Accounted, Running
<1> QED BY <1>9, <1>10

\* A bind that ends with anything but "ok" claims nothing.
LEMMA Unwound ==
    ASSUME VarInv, bound = Running, UNCHANGED calls,
           bound' \in Verdicts \ {"ok"}
    PROVE  VarInv'
BY DEF VarInv, calls, BodyVarsBound, Accounted, Verdicts, Running, Idle

\* Binding a parameter to a value accounts for it.
LEMMA OneParamAccounts ==
    ASSUME VarInv, bound = Running, UNCHANGED calls,
           NEW v, NEW d, NEW noNom, NEW f, FrameOk(f), f.sig = Top.sig, f.i = Top.i + 1,
           Top.i <= Len(Params),
           f.suppress => Top.suppress \/ Param.kind = "capture",
           OneParam(Param, v, d, noNom, f)
    PROVE  VarInv'
<1>0. PICK a : \/ Verdict(Param, v, a, noNom) = "ok" /\ Bound(Param, v, a, noNom, f)
               \/ Verdict(Param, v, a, noNom) # "ok" /\ Unwind(Verdict(Param, v, a, noNom))
      BY Zenon DEF OneParam
<1>1. CASE bound' \in Verdicts \ {"ok"}
      BY <1>1, Unwound
<1>2. CASE Bound(Param, v, a, noNom, f) /\ bound' = bound
      <2> DEFINE decont == Decont(Param, Prepared(Param, v), a)
                 shown  == IF Param.raw \/ PrimOf(Prepared(Param, v)) # "obj"
                           THEN Prepared(Param, v) ELSE decont
                 withVar == IF Param.var # None /\ ~Attributive(Param)
                            THEN Set(lex, Param.var, shown) ELSE lex
      <2>1. lex' = IF Param.self THEN Set(withVar, Self, decont) ELSE withVar
            BY <1>2 DEF Bound
      <2>2. DOMAIN lex \subseteq DOMAIN withVar
            BY DEF Set
      <2>3. Param.var # None /\ ~Attributive(Param) => Param.var \in DOMAIN withVar
            BY DEF Set
      <2> HIDE DEF withVar, decont
      <2>4. DOMAIN withVar \subseteq DOMAIN lex'
            BY <2>1 DEF Set
      <2>5. \/ frames' = Replace(f)
            \/ \E g : FrameOk(g) /\ frames' = Append(Replace(f), g)
            <3>1. \A s, cap, n : FrameOk(Activation(s, cap, n))
                  BY DEF FrameOk, Fields, Activation
            <3> QED BY <1>2, <3>1 DEF Bound, Unwind, Running
      <2>6. Len(frames) = 1 => Accounted(Top.i, lex')
            BY <2>3, <2>4 DEF Accounted, Declares, Param, Params, Top, VarInv, FramesOk
      <2> QED BY <1>2, <2>2, <2>4, <2>5, <2>6, Advance
<1>3. CASE Bound(Param, v, a, noNom, f) /\ bound' \in {"fail", "die"}
      BY <1>1, <1>3 DEF Verdicts
<1>4. Bound(Param, v, a, noNom, f) => bound' = bound \/ bound' \in {"fail", "die"}
      BY Zenon DEF Bound, Unwind
<1>5. Verdict(Param, v, a, noNom) \in Verdicts
      BY VerdictType
<1> QED BY <1>0, <1>1, <1>2, <1>3, <1>4, <1>5 DEF Unwind

\* A step of the binder on a parameter hands on an activation like the one it had.
LEMMA TopOk ==
    ASSUME VarInv, bound = Running
    PROVE  /\ FrameOk(Top) /\ FrameOk(Step(Top))
           /\ Step(Top).i = Top.i + 1 /\ Step(Top).sig = Top.sig
           /\ Step(Top).suppress = Top.suppress
           /\ DOMAIN Step(Top) = Fields
<1>1. FrameOk(Top)
      <2>1. FramesOk
            BY DEF VarInv
      <2>2. Len(frames) \in 1..Len(frames)
            BY <2>1 DEF FramesOk
      <2> QED BY <2>1, <2>2 DEF FramesOk, Top
<1> QED BY <1>1 DEF FrameOk, Fields, Step

\* So every step on a parameter keeps the invariant ...
LEMMA ParamSteps ==
    ASSUME VarInv, UNCHANGED calls, BindStep, ~EndOfParams
    PROVE  VarInv'
<1>0. bound = Running
      BY DEF BindStep, BindCapture, BindSlurpyNamed, BindSlurpy, BindPositional,
             BindDefault, MissingPositional, BindNamed, MissingNamed, AtParam, Binding
<1> DEFINE go == Step(Top)
<1>1. /\ FrameOk(go) /\ go.i = Top.i + 1 /\ go.sig = Top.sig
      /\ go.suppress = Top.suppress /\ DOMAIN go = Fields
      BY <1>0, TopOk
<1> HIDE DEF go
<1>a. ASSUME NEW f, DOMAIN f = Fields, f.i = go.i, f.sig = go.sig,
             f.suppress => go.suppress \/ Param.kind = "capture"
      PROVE  /\ FrameOk(f) /\ f.sig = Top.sig /\ f.i = Top.i + 1
             /\ f.suppress => Top.suppress \/ Param.kind = "capture"
      BY <1>1, <1>a DEF FrameOk
<1>s. ASSUME NEW f, FrameOk(f), f.sig = Top.sig, f.i = Top.i + 1, Top.i <= Len(Params),
             f.suppress => Top.suppress \/ Param.kind = "capture", Skip(f),
             Len(frames) = 1 => Accounted(Top.i, lex)
      PROVE  VarInv'
      <2>1. frames' = Replace(f) /\ bound' = Running /\ lex' = lex
            BY <1>0, <1>s DEF Skip
      <2>2. DOMAIN lex \subseteq DOMAIN lex'
            BY <2>1
      <2> QED BY <1>0, <1>s, <2>1, <2>2, Advance
<1>t. Len(frames) = 1 => Param = Sig[fn][Top.i] /\ Top = frames[1]
      BY <1>0 DEF Param, Params, Top, VarInv, FramesOk
<1>1c. CASE BindCapture
      <2> DEFINE rest == Objects(SubSeq(Top.args, Top.cur, Len(Top.args)))
                 last == Top.i = Len(Params)
                 slurpyNext == ~last /\ Params[Top.i + 1].kind
                                         \in {"slurpy", "slurpynamed", "methodslurpy"}
                 f    == [go EXCEPT !.sealed = last, !.suppress = @ \/ slurpyNext]
      <2>1. Param.kind = "capture" /\ Top.i <= Len(Params)
            BY <1>1c DEF BindCapture, AtParam
      <2>2. DOMAIN f = Fields /\ f.i = go.i /\ f.sig = go.sig
            BY <1>1 DEF Fields
      <2>3. IF Param.var = None THEN Skip(f)
            ELSE OneParam(Param, CaptOf(rest, Top.named), None, Top.noNom, f)
            BY <1>1c DEF BindCapture, go
      <2> HIDE DEF f
      <2>4. FrameOk(f) /\ f.sig = Top.sig /\ f.i = Top.i + 1
            BY <1>a, <2>1, <2>2
      <2>5. CASE Param.var = None
            BY <1>s, <1>t, <2>1, <2>3, <2>4, <2>5 DEF Accounted, Declares
      <2>6. CASE Param.var # None
            BY <1>0, <2>1, <2>3, <2>4, <2>6, OneParamAccounts
      <2> QED BY <2>5, <2>6
<1>2. CASE BindSlurpyNamed
      <2> DEFINE f == [go EXCEPT !.named = NoArgs]
      <2>1. Top.i <= Len(Params)
            BY <1>2 DEF BindSlurpyNamed, AtParam
      <2>2. DOMAIN f = Fields /\ f.i = go.i /\ f.sig = go.sig /\ f.suppress = go.suppress
            BY <1>1 DEF Fields
      <2>3. \/ OneParam(Param, HashOf(Top.named), None, Top.noNom, f)
            \/ /\ frames' = Replace(f) /\ bound' = bound
               /\ lex' = Set(lex, Param.var, HashOf(Top.named))
            BY <1>2 DEF BindSlurpyNamed, go
      <2> HIDE DEF f
      <2>4. FrameOk(f) /\ f.sig = Top.sig /\ f.i = Top.i + 1 /\ f.suppress = Top.suppress
            BY <1>1, <1>a, <2>2
      <2>5. CASE OneParam(Param, HashOf(Top.named), None, Top.noNom, f)
            BY <1>0, <2>1, <2>4, <2>5, OneParamAccounts
      <2>6. CASE /\ frames' = Replace(f) /\ bound' = bound
                 /\ lex' = Set(lex, Param.var, HashOf(Top.named))
            <3>1. DOMAIN lex \subseteq DOMAIN lex' /\ Param.var \in DOMAIN lex'
                  BY <2>6 DEF Set
            <3>2. Len(frames) = 1 => Accounted(Top.i, lex')
                  BY <1>t, <3>1 DEF Accounted
            <3> QED BY <1>0, <2>1, <2>4, <2>6, <3>1, <3>2, Advance
      <2> QED BY <2>3, <2>5, <2>6
<1>3. CASE BindSlurpy
      <2> DEFINE f == [go EXCEPT !.cur = Len(Top.args) + 1]
                 v == ListOf(Objects(SubSeq(Top.args, Top.cur, Len(Top.args))))
      <2>1. Top.i <= Len(Params) /\ OneParam(Param, v, None, Top.noNom, f)
            BY <1>3 DEF BindSlurpy, AtParam, go
      <2>2. DOMAIN f = Fields /\ f.i = go.i /\ f.sig = go.sig /\ f.suppress = go.suppress
            BY <1>1 DEF Fields
      <2> HIDE DEF f, v
      <2> QED BY <1>0, <1>a, <2>1, <2>2, OneParamAccounts
<1>4. CASE BindPositional
      <2> DEFINE f == [go EXCEPT !.cur = @ + 1]
      <2>1. Top.i <= Len(Params) /\ OneParam(Param, Top.args[Top.cur], None, Top.noNom, f)
            BY <1>4 DEF BindPositional, AtParam, go
      <2>2. DOMAIN f = Fields /\ f.i = go.i /\ f.sig = go.sig /\ f.suppress = go.suppress
            BY <1>1 DEF Fields
      <2> HIDE DEF f
      <2> QED BY <1>0, <1>a, <2>1, <2>2, OneParamAccounts
<1>5. CASE BindDefault
      <2>1. \/ \E d : OneParam(Param, d, d, FALSE, go)
            \/ DefaultThrows
            BY <1>5, Zenon DEF BindDefault, go
      <2>2. Top.i <= Len(Params)
            BY <1>5 DEF BindDefault, AtParam
      <2>3. CASE DefaultThrows
            BY <1>0, <2>3, Unwound DEF DefaultThrows, Unwind, Verdicts
      <2> QED BY <1>0, <1>1, <2>1, <2>2, <2>3, OneParamAccounts
<1>6. CASE MissingPositional
      BY <1>0, <1>6, Unwound DEF MissingPositional, Fail, Unwind, Verdicts
<1>7. CASE BindNamed
      <2>1. PICK j \in DOMAIN Param.names :
                OneParam(Param, Top.named[Param.names[j]], None, FALSE,
                         [go EXCEPT !.named = Without(@, Param.names[j])])
            BY <1>7 DEF BindNamed, go
      <2> DEFINE f == [go EXCEPT !.named = Without(@, Param.names[j])]
      <2>2. DOMAIN f = Fields /\ f.i = go.i /\ f.sig = go.sig /\ f.suppress = go.suppress
            BY <1>1 DEF Fields
      <2>3. OneParam(Param, Top.named[Param.names[j]], None, FALSE, f)
            BY <2>1
      <2>4. Top.i <= Len(Params)
            BY <1>7 DEF BindNamed, AtParam
      <2> HIDE DEF f
      <2> QED BY <1>0, <1>a, <2>2, <2>3, <2>4, OneParamAccounts
<1>8. CASE MissingNamed
      <2>1. Param.kind = "named" /\ Top.i <= Len(Params)
            BY <1>8 DEF MissingNamed, AtParam
      <2>2. CASE Top.suppress /\ Skip(go)
            <3>1. Len(frames) = 1 => Accounted(Top.i, lex)
                  BY <1>0, <1>t, <2>1, <2>2 DEF Accounted, VarInv, FramesOk
            <3> QED BY <1>1, <1>s, <2>1, <2>2, <3>1
      <2>3. CASE Fail
            BY <1>0, <2>3, Unwound DEF Fail, Unwind, Verdicts
      <2> QED BY <1>8, <2>2, <2>3 DEF MissingNamed, go
<1> QED BY <1>1c, <1>2, <1>3, <1>4, <1>5, <1>6, <1>7, <1>8 DEF BindStep

\* The stack without its innermost activations.
LEMMA Popped ==
    ASSUME NEW S, NEW s \in Seq(S), NEW n \in Nat, n < Len(s)
    PROVE  /\ SubSeq(s, 1, n) \in Seq(S) /\ Len(SubSeq(s, 1, n)) = n
           /\ \A k \in 1..n : SubSeq(s, 1, n)[k] = s[k]
OBVIOUS

\* ... and so does the end of a signature: the callee's own ends the bind past
\* its last parameter.
LEMMA EndAccounts ==
    ASSUME VarInv, UNCHANGED calls, EndOfParams
    PROVE  VarInv'
<1>1. bound = Running /\ FramesOk /\ fn \in Sigs /\ mode \notin {"idle", "ready", "done"}
      BY DEF EndOfParams, Binding, VarInv, Running, Idle
<1>2. PICK S : frames \in Seq(S)
      BY <1>1 DEF FramesOk
<1>3. Len(frames) \in Nat \ {0}
      BY <1>1, <1>2 DEF FramesOk
<1>4. CASE Fail
      BY <1>1, <1>4, Unwound DEF Fail, Unwind, Verdicts
<1>5. CASE Len(frames) = 1 /\ bound' = "ok" /\ lex' = lex
      <2>1. Top = frames[1] /\ Params = Sig[fn] /\ Top.i > Len(Params) /\ Top.i \in Nat
            BY <1>1, <1>3, <1>5 DEF Top, Params, FramesOk, FrameOk, EndOfParams
      <2>2. Sig[fn] \in Seq(Parameters)
            BY <1>1, BinderAssumption
      <2>3. \A i \in DOMAIN Sig[fn] : Accounted(i, lex)
            BY <1>1, <2>1, <2>2 DEF FramesOk
      <2> QED BY <1>1, <1>5, <2>3
              DEF VarInv, calls, BodyVarsBound, Accounted, Running, Idle
<1>6. CASE /\ Len(frames) # 1 /\ bound' = Running /\ lex' = lex
           /\ frames' = SubSeq(frames, 1, Len(frames) - 1)
      <2>0. Len(frames) - 1 \in Nat \ {0}
            BY <1>3, <1>6
      <2> DEFINE n == Len(frames) - 1
      <2>9. n \in Nat /\ n < Len(frames) /\ frames' = SubSeq(frames, 1, n)
            BY <1>3, <1>6
      <2> HIDE DEF n
      <2>1. frames' \in Seq(S) /\ Len(frames') = n
            BY <1>2, <2>9, Popped
      <2>2. \A k \in 1..Len(frames') : frames'[k] = frames[k]
            BY <1>2, <2>1, <2>9, Popped
      <2>3. frames' # <<>> /\ frames'[1] = frames[1]
            BY <2>0, <2>1, <2>2 DEF n
      <2>4. \A k \in 1..Len(frames') : FrameOk(frames'[k])
            BY <1>1, <1>3, <2>0, <2>1, <2>2 DEF FramesOk, n
      <2>7. /\ frames'[1].i = frames[1].i /\ frames'[1].sig = frames[1].sig
            /\ frames'[1].suppress = frames[1].suppress
            /\ (\E T : frames' \in Seq(T)) /\ frames' # <<>>
            BY <2>1, <2>3
      <2>10. fn' = fn
            BY DEF calls
      <2>8. \A m : Accounted(m, lex)' = Accounted(m, lex)
            BY <1>6 DEF calls, Accounted
      <2>5. FramesOk'
            BY <1>1, <2>4, <2>7, <2>8, <2>10 DEF FramesOk
      <2> QED BY <1>1, <1>6, <2>5 DEF VarInv, calls, BodyVarsBound, Accounted, Running
<1> QED BY <1>4, <1>5, <1>6 DEF EndOfParams

\* An activation just entered is past no parameter, so it claims nothing.
LEMMA Entered ==
    ASSUME VarInv, NEW cap, NEW noNom, NEW check, Enter(fn, cap, noNom, check),
           fn \in Sigs, UNCHANGED <<fn, bodies>>, mode' \in {"trial", "final"}
    PROVE  VarInv'
<1> DEFINE a == Activation(fn, cap, noNom)
<1>1. FrameOk(a) /\ a.i = 1 /\ a.sig = fn /\ a.suppress = FALSE
      BY DEF FrameOk, Fields, Activation
<1>2. frames' = <<a>> /\ bound' = Running
      BY DEF Enter
<1> HIDE DEF a
<1>3. frames' \in Seq({a}) /\ Len(frames') = 1 /\ frames'[1] = a
      BY <1>2
<1>4. Sig[fn] \in Seq(Parameters)
      BY BinderAssumption
<1>5. FramesOk'
      <2>1. \A i \in DOMAIN Sig[fn'] : i < frames'[1].i => Accounted(i, lex)'
            BY <1>1, <1>3, <1>4
      <2>2. \E S : frames' \in Seq(S)
            BY <1>3
      <2>3. frames' # <<>> /\ \A k \in 1..Len(frames') : FrameOk(frames'[k])
            BY <1>1, <1>3
      <2>4. frames'[1].sig = fn' /\ ~ frames'[1].suppress
            BY <1>1, <1>3
      <2> QED BY <2>1, <2>2, <2>3, <2>4 DEF FramesOk
<1> QED BY <1>2, <1>5 DEF VarInv, BodyVarsBound, Accounted, Running

\* The body that is entered finds the variables of the bind that worked out.
LEMMA BodyAccounts ==
    ASSUME VarInv, RunBody
    PROVE  VarInv'
<1>1. mode = "final" /\ bound = "ok" /\ bound' = Idle /\ fn' = fn /\ fn \in Sigs
      BY DEF RunBody, Verdictless, VarInv
<1>2. mode' \in {"done", "ready"}
      BY DEF RunBody
<1>3. PICK S : bodies \in Seq(S)
      BY DEF VarInv
<1> DEFINE b == [call |-> Now, lex |-> lex]
<1>4. bodies' = Append(bodies, b) /\ b.lex = lex
      BY DEF RunBody
<1> HIDE DEF b
<1>5. /\ bodies' \in Seq(S \cup {b}) /\ Len(bodies') = Len(bodies) + 1
      /\ DOMAIN bodies' = 1..Len(bodies) + 1 /\ DOMAIN bodies = 1..Len(bodies)
      /\ \A k \in 1..Len(bodies) + 1 :
            bodies'[k] = IF k = Len(bodies) + 1 THEN b ELSE bodies[k]
      BY <1>3, <1>4
<1>6. \A i \in DOMAIN Sig[fn] : Accounted(i, lex)
      BY <1>1 DEF VarInv
<1>7. \A k \in DOMAIN bodies' : \A i \in DOMAIN Sig[fn] : Accounted(i, bodies'[k].lex)
      BY <1>4, <1>5, <1>6 DEF VarInv, BodyVarsBound
<1> QED BY <1>1, <1>2, <1>5, <1>7 DEF VarInv, BodyVarsBound, Accounted, Running, Idle

\* Every step keeps the invariant.  What threading does to the calls to make is
\* of no concern to it: they are calls of the same callee.
LEMMA VarNext == VarInv /\ [Next]_vars => VarInv'
<1> SUFFICES ASSUME VarInv, [Next]_vars PROVE VarInv'
    OBVIOUS
<1>r. ASSUME bound' = Idle, UNCHANGED <<fn, bodies>>, mode # "idle", mode' # "idle"
      PROVE  VarInv'
      BY <1>r DEF VarInv, BodyVarsBound, Accounted, Running, Idle
<1>1. CASE ProgramCalls
      <2>1. bodies' = <<>> /\ bound' = Idle /\ mode' = "ready" /\ fn' \in Sigs
            BY <1>1, CallAssumption DEF ProgramCalls, Call, VarInv, binder
      <2>2. bodies' \in Seq({}) /\ BodyVarsBound'
            BY <2>1 DEF BodyVarsBound
      <2> QED BY <2>1, <2>2 DEF VarInv, Running, Idle
<1>2. CASE Invoke \/ DispatchTrial \/ DispatchAccepts \/ TrialPasses
      BY <1>2, Entered DEF Invoke, DispatchTrial, DispatchAccepts, TrialPasses,
                           InvokeChecked, VarInv
<1>3. CASE DispatchRejects
      BY <1>r, <1>3 DEF DispatchRejects, NoCandidate, AutoThread, EndCall, binder, VarInv
<1>4. CASE Bind
      BY <1>4, ParamSteps, EndAccounts DEF Bind
<1>5. CASE TrialFails \/ ThreadCall \/ BindThrows \/ BindCrashes
      <2>1. bound' = Idle
            BY <1>5 DEF TrialFails, ThreadCall, BindThrows, BindCrashes, Verdictless
      <2>2. UNCHANGED <<fn, bodies>> /\ mode # "idle" /\ mode' # "idle"
            BY <1>5 DEF TrialFails, ThreadCall, BindThrows, BindCrashes, NoCandidate,
                        AutoThread, EndCall
      <2> QED BY <1>r, <2>1, <2>2
<1>6. CASE RunBody
      BY <1>6, BodyAccounts
<1>7. CASE Return
      <2>1. bodies' = <<>> /\ bound' = Idle /\ mode' = "idle"
            BY <1>7 DEF Return, VarInv
      <2>2. bodies' \in Seq({}) /\ BodyVarsBound'
            BY <2>1 DEF BodyVarsBound
      <2> QED BY <2>1, <2>2 DEF VarInv, Running, Idle
<1>8. CASE UNCHANGED vars
      BY <1>8 DEF vars, binder, calls, VarInv, FramesOk, BodyVarsBound, Accounted
<1> QED BY <1>1, <1>2, <1>3, <1>4, <1>5, <1>6, <1>7, <1>8 DEF Next, Progress

\* However it was called, threaded or checked beforehand, a body has a value for
\* each variable of its signature, but for a required named parameter that a
\* capture before it excused.
THEOREM VariablesBound == Spec => []BodyVarsBound
<1>1. Init => VarInv
      <2> SUFFICES ASSUME Init PROVE VarInv
          OBVIOUS
      <2>1. bodies = <<>> /\ bound = Idle /\ mode = "idle"
            BY DEF Init
      <2>2. bodies \in Seq({}) /\ BodyVarsBound
            BY <2>1 DEF BodyVarsBound
      <2> QED BY <2>1, <2>2 DEF VarInv, Running, Idle
<1>2. VarInv => BodyVarsBound
      BY DEF VarInv
<1> QED BY <1>1, <1>2, VarNext, PTL DEF Spec

-----------------------------------------------------------------------------
(* Autothreading calls a body once for each combination of eigenstates.     *)

\* The calls the threader deals with.
CallType == [via : Vias, pos : Seq(Plain), named : UNION {[D -> Plain] : D \in SUBSET Names}]

\* Eigenstates are no junctions and differ from each other, so that a combination
\* of them tells which call it belongs to.
Flat ==
    \A v \in Junctions :
        IsInjective(States[v]) /\ \A k \in DOMAIN States[v] : ~IsJunction(States[v][k])

\* The arguments that f may stand for.
Choices(f) ==
    {g \in [DOMAIN f -> UNION {States1(f[k]) : k \in DOMAIN f}] :
        \A k \in DOMAIN f : g[k] \in States1(f[k])}

\* One of the calls in sequence s, and no other, stands for combination r.
OnceIn(s, r) ==
    \E k \in DOMAIN s : /\ r \in Resolved(s[k])
                        /\ \A m \in DOMAIN s : r \in Resolved(s[m]) => m = k

\* Calls that were made.
Made == [k \in DOMAIN bodies |-> bodies[k].call]

\* The calls made and the calls to make share out what the program's call stands for.
ThreadInv ==
    /\ \E S : bodies \in Seq(S)
    /\ Made \in Seq(CallType) /\ todo \in Seq(CallType)
    /\ mode = "idle" => bodies = <<>> /\ outcome = "none"
    /\ Calling => todo # <<>> /\ outcome = "none"
    /\ Calling \/ outcome = "returned" =>
          \A r \in Resolved(orig) : OnceIn(Made \o todo, r)

\* A choice for each argument.
LEMMA ChoicesOf ==
    ASSUME NEW f, NEW g
    PROVE  g \in Choices(f) <=>
           g = [k \in DOMAIN f |-> g[k]] /\ \A k \in DOMAIN f : g[k] \in States1(f[k])
<1> DEFINE all == UNION {States1(f[k]) : k \in DOMAIN f}
<1>1. g \in Choices(f) <=> g \in [DOMAIN f -> all] /\ \A k \in DOMAIN f : g[k] \in States1(f[k])
  BY DEF Choices
<1>2. \A k \in DOMAIN f : g[k] \in States1(f[k]) => g[k] \in all
  OBVIOUS
<1> HIDE DEF all
<1> QED BY <1>1, <1>2

\* What a call stands for.
LEMMA ResolvedOf ==
    ASSUME NEW c, NEW r
    PROVE  r \in Resolved(c) <=>
           r = <<r[1], r[2]>> /\ r[1] \in Choices(c.pos) /\ r[2] \in Choices(c.named)
<1>1. Resolved(c) = Choices(c.pos) \X Choices(c.named)
  BY DEF Resolved, Choices
<1> QED BY <1>1

\* Arguments f with the i-th replaced.
Put(f, i, x) == [f EXCEPT ![i] = x]

\* What is replaced and what is not.
LEMMA PutOf ==
    ASSUME NEW f, NEW S, f \in [S -> Plain], NEW i \in S, NEW x \in Plain
    PROVE  /\ Put(f, i, x) \in [S -> Plain] /\ Put(f, i, x)[i] = x
           /\ \A k \in S : k # i => Put(f, i, x)[k] = f[k]
BY DEF Put

\* The choices left when argument i is decided.
LEMMA ChoicesWith ==
    ASSUME NEW f, NEW S, f \in [S -> Plain], NEW i \in S,
           NEW x \in Plain, x \in States1(f[i]), ~IsJunction(x), NEW g
    PROVE  g \in Choices(Put(f, i, x)) <=> g \in Choices(f) /\ g[i] = x
<1> DEFINE h == Put(f, i, x)
<1>1. h \in [S -> Plain] /\ h[i] = x /\ \A k \in S : k # i => h[k] = f[k]
  BY PutOf
<1>2. States1(x) = {x}
  BY DEF States1
<1> HIDE DEF h
<1>3. g \in Choices(h) <=> g = [k \in S |-> g[k]] /\ \A k \in S : g[k] \in States1(h[k])
  <2>1. DOMAIN h = S
    BY <1>1
  <2> QED BY <2>1, ChoicesOf, Zenon
<1>4. g \in Choices(f) <=> g = [k \in S |-> g[k]] /\ \A k \in S : g[k] \in States1(f[k])
  <2>1. DOMAIN f = S
    OBVIOUS
  <2> QED BY <2>1, ChoicesOf, Zenon
<1>5. (\A k \in S : g[k] \in States1(h[k])) <=> (\A k \in S : g[k] \in States1(f[k])) /\ g[i] = x
  BY <1>1, <1>2
<1>6. g \in Choices(h) <=> g \in Choices(f) /\ g[i] = x
  BY <1>3, <1>4, <1>5
<1> QED BY <1>6 DEF h

\* Decided(s, f, i, g): g may come of the arguments f with the i-th replaced by a
\* member of s, if it may come of f at all, and then by one member only.
Decided(s, f, i, g) ==
    /\ \A k \in DOMAIN s : g \in Choices(Put(f, i, s[k])) => g \in Choices(f)
    /\ g \in Choices(f) => \E k \in DOMAIN s :
          /\ g \in Choices(Put(f, i, s[k]))
          /\ \A m \in DOMAIN s : g \in Choices(Put(f, i, s[m])) => m = k

\* A junctional argument, replaced by each of its eigenstates in turn.
LEMMA EachOnce ==
    ASSUME Flat, NEW f, NEW S, f \in [S -> Plain], NEW i \in S, IsJunction(f[i])
    PROVE  /\ States[f[i]] \in Seq(Plain)
           /\ \A g : Decided(States[f[i]], f, i, g)
<1> DEFINE v == f[i]
           s == States[v]
<1>1. v \in Junctions /\ s \in Seq(Plain)
  BY CallAssumption DEF Junctions
<1>2. States1(v) = Range(s)
  BY DEF States1
<1>3. \A k, m \in DOMAIN s : s[k] = s[m] => m = k
  BY <1>1 DEF Flat, IsInjective
<1>4. \A k \in DOMAIN s : s[k] \in Plain /\ s[k] \in States1(v) /\ ~IsJunction(s[k])
  BY <1>1, <1>2 DEF Flat, Range
<1> HIDE DEF s
<1>5. ASSUME NEW g PROVE Decided(s, f, i, g)
  <2>1. \A k \in DOMAIN s : g \in Choices(Put(f, i, s[k])) <=> g \in Choices(f) /\ g[i] = s[k]
    BY <1>4, ChoicesWith
  <2>2. g \in Choices(f) => \E k \in DOMAIN s : g[i] = s[k]
    <3>1. g \in Choices(f) => g[i] \in States1(v)
      BY ChoicesOf
    <3> QED BY <1>2, <3>1 DEF Range
  <2> QED BY <1>3, <2>1, <2>2 DEF Decided
<1> QED BY <1>1, <1>5 DEF s

\* A sequence of calls that share out what call c stands for.
Shares(t, c) ==
    /\ t \in Seq(CallType)
    /\ \A r : /\ \A k \in DOMAIN t : r \in Resolved(t[k]) => r \in Resolved(c)
              /\ r \in Resolved(c) => OnceIn(t, r)

\* The fields of a call.
LEMMA ViaFields ==
    ASSUME NEW via, NEW pos, NEW named
    PROVE  /\ Via(via, pos, named).pos = pos /\ Via(via, pos, named).named = named
           /\ via \in Vias /\ pos \in Seq(Plain) /\ (\E D \in SUBSET Names : named \in [D -> Plain])
                 => Via(via, pos, named) \in CallType
BY DEF Via, CallType

\* The calls that take the place of c when its positionals or its nameds are threaded.
LEMMA PositionalsShare ==
    ASSUME Flat, NEW c \in CallType, NEW via \in Vias,
           NEW i \in 1..Len(c.pos), IsJunction(c.pos[i]), NEW s, s = States[c.pos[i]],
           NEW t, t = [k \in DOMAIN s |-> Via(via, Put(c.pos, i, s[k]), c.named)]
    PROVE  Shares(t, c)
<1>1. c.pos \in [1..Len(c.pos) -> Plain] /\ \E D \in SUBSET Names : c.named \in [D -> Plain]
  BY DEF CallType
<1>2. s \in Seq(Plain) /\ \A g : Decided(s, c.pos, i, g)
  BY <1>1, EachOnce
<1>3. ASSUME NEW k \in DOMAIN s
      PROVE  t[k] \in CallType /\ t[k].pos = Put(c.pos, i, s[k]) /\ t[k].named = c.named
  <2>1. t[k] = Via(via, Put(c.pos, i, s[k]), c.named)
    BY <1>3
  <2>2. Put(c.pos, i, s[k]) \in Seq(Plain)
    <3>1. s[k] \in Plain
      BY <1>2
    <3>2. Put(c.pos, i, s[k]) \in [1..Len(c.pos) -> Plain]
      BY <1>1, <3>1, PutOf
    <3>3. Len(c.pos) \in Nat
      BY DEF CallType
    <3> QED BY <3>2, <3>3
  <2> QED BY <1>1, <2>1, <2>2, ViaFields
<1>4. t \in Seq(CallType) /\ DOMAIN t = DOMAIN s
  <2>1. DOMAIN s = 1..Len(s) /\ Len(s) \in Nat
    BY <1>2
  <2>2. \A k \in DOMAIN s : Via(via, Put(c.pos, i, s[k]), c.named) \in CallType
    BY <1>3
  <2>3. t \in [1..Len(s) -> CallType]
    BY <2>1, <2>2
  <2> QED BY <2>1, <2>3
<1>5. ASSUME NEW r
      PROVE  /\ \A k \in DOMAIN t : r \in Resolved(t[k]) <=>
                     r = <<r[1], r[2]>> /\ r[1] \in Choices(Put(c.pos, i, s[k])) /\ r[2] \in Choices(c.named)
             /\ r \in Resolved(c) <=>
                     r = <<r[1], r[2]>> /\ r[1] \in Choices(c.pos) /\ r[2] \in Choices(c.named)
  <2>1. r \in Resolved(c) <=>
           r = <<r[1], r[2]>> /\ r[1] \in Choices(c.pos) /\ r[2] \in Choices(c.named)
    BY ResolvedOf
  <2>2. \A k \in DOMAIN t : r \in Resolved(t[k]) <=>
           r = <<r[1], r[2]>> /\ r[1] \in Choices(t[k].pos) /\ r[2] \in Choices(t[k].named)
    BY ResolvedOf
  <2>3. ASSUME NEW k \in DOMAIN t
        PROVE  r \in Resolved(t[k]) <=>
                  r = <<r[1], r[2]>> /\ r[1] \in Choices(Put(c.pos, i, s[k])) /\ r[2] \in Choices(c.named)
    <3>1. t[k].pos = Put(c.pos, i, s[k]) /\ t[k].named = c.named
      BY <1>3, <1>4
    <3>2. r \in Resolved(t[k]) <=>
             r = <<r[1], r[2]>> /\ r[1] \in Choices(t[k].pos) /\ r[2] \in Choices(t[k].named)
      BY <2>2
    <3> QED BY <3>1, <3>2, Zenon
  <2> QED BY <2>1, <2>3, Zenon
<1>6. ASSUME NEW r PROVE /\ \A k \in DOMAIN t : r \in Resolved(t[k]) => r \in Resolved(c)
                         /\ r \in Resolved(c) => OnceIn(t, r)
  <2> DEFINE rest    == r = <<r[1], r[2]>> /\ r[2] \in Choices(c.named)
             all     == r[1] \in Choices(c.pos)
             With(k) == r[1] \in Choices(Put(c.pos, i, s[k]))
  <2>1. /\ \A k \in DOMAIN t : r \in Resolved(t[k]) <=> rest /\ With(k)
        /\ r \in Resolved(c) <=> rest /\ all
    BY <1>5
  <2>2. Decided(s, c.pos, i, r[1])
    BY <1>2
  <2>3. /\ \A k \in DOMAIN t : With(k) => all
        /\ all => \E k \in DOMAIN t : With(k) /\ \A m \in DOMAIN t : With(m) => m = k
    BY <1>4, <2>2 DEF Decided
  <2> HIDE DEF rest, all, With
  <2> QED BY <2>1, <2>3 DEF OnceIn
<1> QED BY <1>4, <1>6 DEF Shares

\* The calls made for a junctional named argument share out what it stands for.
LEMMA NamedsShare ==
    ASSUME Flat, NEW c \in CallType, NEW via \in Vias,
           NEW n \in DOMAIN c.named, IsJunction(c.named[n]), NEW s, s = States[c.named[n]],
           NEW t, t = [k \in DOMAIN s |-> Via(via, c.pos, Put(c.named, n, s[k]))]
    PROVE  Shares(t, c)
<1>1. c.pos \in Seq(Plain)
  BY DEF CallType
<1>2. PICK D \in SUBSET Names : c.named \in [D -> Plain]
  BY DEF CallType
<1>3. s \in Seq(Plain) /\ \A g : Decided(s, c.named, n, g)
  BY <1>2, EachOnce
<1>4. ASSUME NEW k \in DOMAIN s
      PROVE  t[k] \in CallType /\ t[k].pos = c.pos /\ t[k].named = Put(c.named, n, s[k])
  <2>1. t[k] = Via(via, c.pos, Put(c.named, n, s[k]))
    BY <1>4
  <2>2. Put(c.named, n, s[k]) \in [D -> Plain]
    <3>1. s[k] \in Plain /\ n \in D
      BY <1>2, <1>3
    <3> QED BY <1>2, <3>1, PutOf
  <2> QED BY <1>1, <2>1, <2>2, ViaFields
<1>5. t \in Seq(CallType) /\ DOMAIN t = DOMAIN s
  <2>1. DOMAIN s = 1..Len(s) /\ Len(s) \in Nat
    BY <1>3
  <2>2. \A k \in DOMAIN s : Via(via, c.pos, Put(c.named, n, s[k])) \in CallType
    BY <1>4
  <2>3. t \in [1..Len(s) -> CallType]
    BY <2>1, <2>2
  <2> QED BY <2>1, <2>3
<1>6. ASSUME NEW r
      PROVE  /\ \A k \in DOMAIN t : r \in Resolved(t[k]) <=>
                     r = <<r[1], r[2]>> /\ r[1] \in Choices(c.pos) /\ r[2] \in Choices(Put(c.named, n, s[k]))
             /\ r \in Resolved(c) <=>
                     r = <<r[1], r[2]>> /\ r[1] \in Choices(c.pos) /\ r[2] \in Choices(c.named)
  <2>1. r \in Resolved(c) <=>
           r = <<r[1], r[2]>> /\ r[1] \in Choices(c.pos) /\ r[2] \in Choices(c.named)
    BY ResolvedOf
  <2>2. \A k \in DOMAIN t : r \in Resolved(t[k]) <=>
           r = <<r[1], r[2]>> /\ r[1] \in Choices(t[k].pos) /\ r[2] \in Choices(t[k].named)
    BY ResolvedOf
  <2>3. \A k \in DOMAIN t : t[k].pos = c.pos /\ t[k].named = Put(c.named, n, s[k])
    BY <1>4, <1>5
  <2> QED BY <2>1, <2>2, <2>3
<1>7. ASSUME NEW r PROVE /\ \A k \in DOMAIN t : r \in Resolved(t[k]) => r \in Resolved(c)
                         /\ r \in Resolved(c) => OnceIn(t, r)
  <2> DEFINE rest    == r = <<r[1], r[2]>> /\ r[1] \in Choices(c.pos)
             all     == r[2] \in Choices(c.named)
             With(k) == r[2] \in Choices(Put(c.named, n, s[k]))
  <2>1. /\ \A k \in DOMAIN t : r \in Resolved(t[k]) <=> rest /\ With(k)
        /\ r \in Resolved(c) <=> rest /\ all
    BY <1>6
  <2>2. Decided(s, c.named, n, r[2])
    BY <1>3
  <2>3. /\ \A k \in DOMAIN t : With(k) => all
        /\ all => \E k \in DOMAIN t : With(k) /\ \A m \in DOMAIN t : With(m) => m = k
    BY <1>5, <2>2 DEF Decided
  <2> HIDE DEF rest, all, With
  <2> QED BY <2>1, <2>3 DEF OnceIn
<1> QED BY <1>5, <1>7 DEF Shares

\* The calls that take the place of c when it is threaded.
LEMMA ThreadsShare ==
    ASSUME Flat, NEW c \in CallType, NEW via \in Vias, NEW t \in Threads(c, via)
    PROVE  Shares(t, c)
<1> DEFINE i == FirstJunction(c.pos)
           named == {n \in DOMAIN c.named : IsJunction(c.named[n])}
<1>1. CASE JunctionAt(c.pos) # {}
  <2>1. t = [k \in DOMAIN States[c.pos[i]] |-> Via(via, Put(c.pos, i, States[c.pos[i]][k]), c.named)]
    BY <1>1 DEF Threads, Put
  <2>2. i \in 1..Len(c.pos) /\ IsJunction(c.pos[i])
    <3>1. DOMAIN c.pos = 1..Len(c.pos) /\ Len(c.pos) \in Nat
      BY DEF CallType
    <3>2. JunctionAt(c.pos) \subseteq Nat /\ JunctionAt(c.pos) \subseteq 1..Len(c.pos)
      BY <3>1 DEF JunctionAt
    <3>3. \E j \in JunctionAt(c.pos) : \A k \in JunctionAt(c.pos) : j <= k
      BY <1>1, <3>2, LeastNumber
    <3>4. i \in JunctionAt(c.pos)
      BY <3>3 DEF FirstJunction
    <3> QED BY <3>1, <3>4 DEF JunctionAt
  <2> HIDE DEF i
  <2> QED BY <2>1, <2>2, PositionalsShare
<1>2. CASE JunctionAt(c.pos) = {} /\ named # {}
  <2>1. PICK n \in named : t = [k \in DOMAIN States[c.named[n]] |->
                                   Via(via, c.pos, Put(c.named, n, States[c.named[n]][k]))]
    BY <1>2 DEF Threads, Put
  <2> QED BY <2>1, NamedsShare
<1>3. CASE JunctionAt(c.pos) = {} /\ named = {}
  <2> DEFINE d == Via(via, c.pos, c.named)
  <2>1. t = <<d>>
    BY <1>3 DEF Threads
  <2>2. d \in CallType /\ d.pos = c.pos /\ d.named = c.named
    BY ViaFields DEF CallType
  <2>3. \A r : r \in Resolved(d) <=> r \in Resolved(c)
    BY <2>2 DEF Resolved
  <2> HIDE DEF d
  <2>4. t \in Seq(CallType) /\ DOMAIN t = {1} /\ t[1] = d
    BY <2>1, <2>2
  <2> QED BY <2>3, <2>4 DEF Shares, OnceIn
<1> QED BY <1>1, <1>2, <1>3

\* A call in s stands for r.
In(s, r) == \E k \in DOMAIN s : r \in Resolved(s[k])

\* Concatenation.
LEMMA InBoth ==
    ASSUME NEW x \in Seq(CallType), NEW y \in Seq(CallType), NEW r
    PROVE  /\ In(x \o y, r) <=> In(x, r) \/ In(y, r)
           /\ OnceIn(x \o y, r) <=> \/ OnceIn(x, r) /\ ~In(y, r)
                                    \/ ~In(x, r) /\ OnceIn(y, r)
<1> DEFINE z == x \o y
           m == Len(x)
           n == Len(y)
           X(k) == r \in Resolved(x[k])
           Y(k) == r \in Resolved(y[k])
           Z(k) == r \in Resolved(z[k])
<1>1. m \in Nat /\ n \in Nat /\ DOMAIN x = 1..m /\ DOMAIN y = 1..n /\ DOMAIN z = 1..(m + n)
  OBVIOUS
<1>2. \A k \in 1..m : z[k] = x[k]
  OBVIOUS
<1>3. \A k \in 1..n : z[k + m] = y[k] /\ k + m \in 1..(m + n)
  OBVIOUS
<1>4. \A k \in 1..m : Z(k) <=> X(k)
  BY <1>2
<1>5. \A k \in 1..n : Z(k + m) <=> Y(k)
  BY <1>3
<1>6. /\ In(x, r) <=> \E k \in 1..m : X(k)
      /\ In(y, r) <=> \E k \in 1..n : Y(k)
      /\ In(z, r) <=> \E k \in 1..(m + n) : Z(k)
  BY <1>1 DEF In
<1>7. /\ OnceIn(x, r) <=> \E k \in 1..m : X(k) /\ \A l \in 1..m : X(l) => l = k
      /\ OnceIn(y, r) <=> \E k \in 1..n : Y(k) /\ \A l \in 1..n : Y(l) => l = k
      /\ OnceIn(z, r) <=> \E k \in 1..(m + n) : Z(k) /\ \A l \in 1..(m + n) : Z(l) => l = k
  BY <1>1 DEF OnceIn
<1> HIDE DEF m, n, X, Y, Z, z
<1>8. \A k \in 1..(m + n) : k \in 1..m \/ (k - m \in 1..n /\ k = (k - m) + m)
  BY <1>1
<1>9. In(z, r) <=> In(x, r) \/ In(y, r)
  <2>1. (\E k \in 1..(m + n) : Z(k)) <=> (\E k \in 1..m : X(k)) \/ (\E k \in 1..n : Y(k))
    <3>1. \A k \in 1..m : k \in 1..(m + n)
      BY <1>1
    <3>2. \A k \in 1..n : k + m \in 1..(m + n)
      BY <1>1
    <3>3. ASSUME NEW k \in 1..(m + n), Z(k) PROVE (\E j \in 1..m : X(j)) \/ (\E j \in 1..n : Y(j))
      BY <1>4, <1>5, <1>8, <3>3
    <3> QED BY <1>4, <1>5, <3>1, <3>2, <3>3
  <2> QED BY <1>6, <2>1
<1>10. ASSUME OnceIn(z, r)
       PROVE  \/ OnceIn(x, r) /\ ~In(y, r)
              \/ ~In(x, r) /\ OnceIn(y, r)
  <2>1. PICK k \in 1..(m + n) : Z(k) /\ \A l \in 1..(m + n) : Z(l) => l = k
    BY <1>7, <1>10
  <2>2. CASE k \in 1..m
    <3>1. \A l \in 1..n : ~Y(l)
      BY <1>1, <1>5, <2>1, <2>2
    <3>2. \A l \in 1..m : X(l) => l = k
      BY <1>1, <1>4, <2>1
    <3>3. X(k)
      BY <1>4, <2>1, <2>2
    <3> QED BY <1>6, <1>7, <2>2, <3>1, <3>2, <3>3
  <2>3. CASE k - m \in 1..n /\ k = (k - m) + m
    <3>1. \A l \in 1..m : ~X(l)
      BY <1>1, <1>4, <2>1, <2>3
    <3>2. \A l \in 1..n : Y(l) => l = k - m
      BY <1>1, <1>5, <2>1, <2>3
    <3>3. Y(k - m)
      BY <1>5, <2>1, <2>3
    <3> QED BY <1>6, <1>7, <2>3, <3>1, <3>2, <3>3
  <2> QED BY <1>8, <2>2, <2>3
<1>11. ASSUME OnceIn(x, r), ~In(y, r) PROVE OnceIn(z, r)
  <2>1. PICK k \in 1..m : X(k) /\ \A l \in 1..m : X(l) => l = k
    BY <1>7, <1>11
  <2>2. k \in 1..(m + n) /\ Z(k)
    BY <1>1, <1>4, <2>1
  <2>3. \A l \in 1..(m + n) : Z(l) => l = k
    BY <1>4, <1>5, <1>6, <1>8, <1>11, <2>1
  <2> QED BY <1>7, <2>2, <2>3
<1>12. ASSUME ~In(x, r), OnceIn(y, r) PROVE OnceIn(z, r)
  <2>1. PICK k \in 1..n : Y(k) /\ \A l \in 1..n : Y(l) => l = k
    BY <1>7, <1>12
  <2>2. k + m \in 1..(m + n) /\ Z(k + m)
    BY <1>1, <1>5, <2>1
  <2>3. \A l \in 1..(m + n) : Z(l) => l = k + m
    BY <1>4, <1>5, <1>6, <1>8, <1>12, <2>1
  <2> QED BY <1>7, <2>2, <2>3
<1>13. OnceIn(z, r) <=> \/ OnceIn(x, r) /\ ~In(y, r)
                        \/ ~In(x, r) /\ OnceIn(y, r)
  BY <1>10, <1>11, <1>12
<1> QED BY <1>9, <1>13 DEF z

\* One call by itself.
LEMMA InOne ==
    ASSUME NEW c \in CallType, NEW r
    PROVE  /\ In(<<c>>, r) <=> r \in Resolved(c)
           /\ OnceIn(<<c>>, r) <=> r \in Resolved(c)
BY DEF In, OnceIn

\* What is shared out has its place.
LEMMA SharesOnce ==
    ASSUME NEW c \in CallType, NEW t, Shares(t, c), NEW r
    PROVE  /\ In(t, r) <=> r \in Resolved(c)
           /\ OnceIn(t, r) <=> r \in Resolved(c)
BY DEF Shares, In, OnceIn

\* A call to make gives way to the calls that share out what it stands for, or
\* joins the calls that were made.
LEMMA OnceMoved ==
    ASSUME NEW b \in Seq(CallType), NEW s \in Seq(CallType), s # <<>>,
           NEW t, Shares(t, Head(s)), NEW r, OnceIn(b \o s, r)
    PROVE  /\ OnceIn(b \o (t \o Tail(s)), r)
           /\ OnceIn((b \o <<Head(s)>>) \o Tail(s), r)
<1> DEFINE c == Head(s)
           rest == Tail(s)
<1>1. c \in CallType /\ rest \in Seq(CallType) /\ t \in Seq(CallType) /\ <<c>> \in Seq(CallType)
  BY HeadTailProperties DEF Shares
<1>2. s = <<c>> \o rest
  OBVIOUS
<1> HIDE DEF c, rest
<1>3. t \o rest \in Seq(CallType) /\ b \o <<c>> \in Seq(CallType)
  BY <1>1
<1>4. \/ OnceIn(b, r) /\ ~In(s, r)
      \/ ~In(b, r) /\ OnceIn(s, r)
  BY InBoth
<1>5. /\ In(s, r) <=> r \in Resolved(c) \/ In(rest, r)
      /\ OnceIn(s, r) <=> \/ r \in Resolved(c) /\ ~In(rest, r)
                          \/ r \notin Resolved(c) /\ OnceIn(rest, r)
  BY <1>1, <1>2, InBoth, InOne
<1>6. /\ In(t \o rest, r) <=> r \in Resolved(c) \/ In(rest, r)
      /\ OnceIn(t \o rest, r) <=> \/ r \in Resolved(c) /\ ~In(rest, r)
                                  \/ r \notin Resolved(c) /\ OnceIn(rest, r)
  <2>1. Shares(t, c)
    BY DEF c
  <2>2. (In(t, r) <=> r \in Resolved(c)) /\ (OnceIn(t, r) <=> r \in Resolved(c))
    BY <1>1, <2>1, SharesOnce
  <2> QED BY <1>1, <2>2, InBoth
<1>7. /\ In(b \o <<c>>, r) <=> In(b, r) \/ r \in Resolved(c)
      /\ OnceIn(b \o <<c>>, r) <=> \/ OnceIn(b, r) /\ r \notin Resolved(c)
                                   \/ ~In(b, r) /\ r \in Resolved(c)
  BY <1>1, InBoth, InOne
<1>8. OnceIn(b \o (t \o rest), r)
  BY <1>3, <1>4, <1>5, <1>6, InBoth
<1>9. OnceIn((b \o <<c>>) \o rest, r)
  BY <1>1, <1>3, <1>4, <1>5, <1>7, InBoth
<1> QED BY <1>8, <1>9 DEF c, rest

\* A body is entered: its call is made.
LEMMA MadeGrows ==
    ASSUME NEW S, bodies \in Seq(S), NEW b, bodies' = Append(bodies, b),
           Made \in Seq(CallType), b.call \in CallType
    PROVE  Made' = Made \o <<b.call>> /\ bodies' \in Seq(S \cup {b})
<1> DEFINE n == Len(bodies)
<1>1. n \in Nat /\ DOMAIN bodies = 1..n /\ Len(Made) = n /\ DOMAIN Made = 1..n
  BY DEF Made
<1>2. bodies' \in Seq(S \cup {b})
  OBVIOUS
<1>3. /\ DOMAIN bodies' = 1..(n + 1) /\ bodies'[n + 1] = b
      /\ \A k \in 1..n : bodies'[k] = bodies[k]
  OBVIOUS
<1>4. Made' = [k \in 1..(n + 1) |-> bodies'[k].call]
  BY <1>3 DEF Made
<1> HIDE DEF n
<1> DEFINE m == Made \o <<b.call>>
<1>5. /\ m \in Seq(CallType) /\ Len(m) = n + 1 /\ m[n + 1] = b.call
      /\ \A k \in 1..n : m[k] = Made[k]
  BY <1>1
<1>6. \A k \in 1..n : Made[k] = bodies[k].call
  BY <1>1 DEF Made
<1>7. m = [k \in 1..(n + 1) |-> m[k]]
  BY <1>5
<1> HIDE DEF m
<1>8. \A k \in 1..(n + 1) : m[k] = bodies'[k].call
  BY <1>1, <1>3, <1>5, <1>6
<1>9. Made' = m
  BY <1>4, <1>7, <1>8
<1> QED BY <1>2, <1>9 DEF m

\* The next call is threaded, by the dispatcher or by the callee.
LEMMA ThreadKeeps ==
    ASSUME Flat, ThreadInv, Calling, NEW via \in Vias, AutoThread(via)
    PROVE  ThreadInv'
<1>1. todo \in Seq(CallType) /\ todo # <<>> /\ Made \in Seq(CallType) /\ outcome = "none"
  BY DEF ThreadInv
<1>2. Now \in CallType /\ Tail(todo) \in Seq(CallType)
  BY <1>1, HeadTailProperties DEF Now
<1>3. PICK t \in Threads(Now, via) :
         /\ todo' = t \o Tail(todo)
         /\ mode' = IF t \o Tail(todo) = <<>> THEN "done" ELSE "ready"
         /\ outcome' = IF t \o Tail(todo) = <<>> THEN "returned" ELSE outcome
         /\ UNCHANGED <<orig, bodies>>
  BY DEF AutoThread
<1>4. Shares(t, Now)
  BY <1>2, ThreadsShare
<1>5. todo' \in Seq(CallType)
  BY <1>2, <1>3, <1>4 DEF Shares
<1>6. Made' = Made
  BY <1>3 DEF Made
<1>7. ASSUME NEW r \in Resolved(orig) PROVE OnceIn(Made \o todo', r)
  <2>1. OnceIn(Made \o todo, r)
    BY DEF ThreadInv
  <2>2. Shares(t, Head(todo))
    BY <1>4 DEF Now
  <2> QED BY <1>1, <1>3, <2>1, <2>2, OnceMoved
<1>8. \A r \in Resolved(orig') : OnceIn((Made \o todo)', r)
  BY <1>3, <1>6, <1>7
<1>9. Calling' => todo' # <<>> /\ outcome' = "none"
  BY <1>1, <1>3 DEF Calling
<1>10. mode' # "idle" /\ \E S : bodies' \in Seq(S)
  BY <1>3 DEF ThreadInv
<1> QED BY <1>1, <1>5, <1>6, <1>8, <1>9, <1>10 DEF ThreadInv

\* A body is entered for the next call.
LEMMA BodyKeeps ==
    ASSUME ThreadInv, RunBody
    PROVE  ThreadInv'
<1>1. Calling
  BY DEF Calling, RunBody
<1>2. todo \in Seq(CallType) /\ todo # <<>> /\ Made \in Seq(CallType) /\ outcome = "none"
  BY <1>1 DEF ThreadInv
<1>3. Now \in CallType /\ Tail(todo) \in Seq(CallType)
  BY <1>2, HeadTailProperties DEF Now
<1>4. PICK S : bodies \in Seq(S)
  BY DEF ThreadInv
<1> DEFINE b == [call |-> Now, lex |-> lex]
<1>5. bodies' = Append(bodies, b) /\ b.call = Now
  BY DEF RunBody
<1> HIDE DEF b
<1>6. Made' = Made \o <<Now>> /\ bodies' \in Seq(S \cup {b})
  BY <1>2, <1>3, <1>4, <1>5, MadeGrows
<1>7. /\ todo' = Tail(todo) /\ orig' = orig
      /\ mode' = IF Len(todo) = 1 THEN "done" ELSE "ready"
      /\ outcome' = IF Len(todo) = 1 THEN "returned" ELSE outcome
  BY DEF RunBody
<1>8. Made' \in Seq(CallType)
  BY <1>2, <1>3, <1>6
<1>9. ASSUME NEW r \in Resolved(orig) PROVE OnceIn(Made' \o todo', r)
  <2>1. OnceIn(Made \o todo, r)
    BY <1>1 DEF ThreadInv
  <2>2. Shares(<<Now>>, Head(todo))
    BY <1>3, InOne DEF Shares, In, OnceIn, Now
  <2>3. OnceIn((Made \o <<Now>>) \o Tail(todo), r)
    BY <1>2, <2>1, <2>2, OnceMoved DEF Now
  <2> QED BY <1>6, <1>7, <2>3
<1>10. \A r \in Resolved(orig') : OnceIn((Made \o todo)', r)
  BY <1>7, <1>9
<1>11. Calling' => todo' # <<>> /\ outcome' = "none"
  <2>1. Len(todo) # 1 => Tail(todo) # <<>>
    <3> SUFFICES ASSUME Tail(todo) = <<>> PROVE Len(todo) = 1
      OBVIOUS
    <3>1. Len(Tail(todo)) = Len(todo) - 1 /\ Len(todo) \in Nat
      BY <1>2, HeadTailProperties
    <3>2. Len(<<>>) = 0
      OBVIOUS
    <3>3. Len(Tail(todo)) = Len(<<>>)
      BY Zenon
    <3> QED BY <3>1, <3>2, <3>3
  <2> QED BY <1>2, <1>7, <2>1 DEF Calling
<1>12. mode' # "idle"
  BY <1>7
<1> QED BY <1>3, <1>6, <1>7, <1>8, <1>10, <1>11, <1>12 DEF ThreadInv

\* The program makes a call: it is the one to make.
LEMMA ProgramKeeps ==
    ASSUME ThreadInv, ProgramCalls
    PROVE  ThreadInv'
<1>1. PICK s \in Callable \cup Multis, cap \in Captures, via \in Vias : mode = "idle" /\ Call(s, cap, via)
  BY DEF ProgramCalls, Vias
<1>2. orig' = Via(via, cap.pos, cap.named) /\ mode' = "ready" /\ todo' = <<orig'>> /\ UNCHANGED <<bodies, outcome>>
  BY <1>1 DEF Call
<1>3. bodies = <<>> /\ outcome = "none"
  BY <1>1 DEF ThreadInv
<1>4. orig' \in CallType
  <2>1. cap \in Arguments
    BY CallAssumption
  <2>2. cap.pos \in Seq(Plain) /\ \E D \in SUBSET Names : cap.named \in [D -> Plain]
    BY <2>1 DEF Arguments
  <2> QED BY <1>2, <2>2, ViaFields
<1> DEFINE c == orig'
<1> HIDE DEF c
<1>5. todo' = <<c>> /\ c \in CallType
  BY <1>2, <1>4 DEF c
<1>6. Made' = <<>>
  BY <1>2, <1>3 DEF Made
<1>7. <<>> \o <<c>> = <<c>>
  BY <1>5
<1>8. \A r \in Resolved(c) : OnceIn(<<>> \o <<c>>, r)
  BY <1>5, <1>7, InOne
<1>9. \A r \in Resolved(orig') : OnceIn((Made \o todo)', r)
  BY <1>5, <1>6, <1>8 DEF c
<1>10. bodies' \in Seq({})
  BY <1>2, <1>3
<1>11. Made' \in Seq(CallType) /\ todo' \in Seq(CallType) /\ todo' # <<>>
  BY <1>5, <1>6
<1> QED BY <1>2, <1>3, <1>9, <1>10, <1>11 DEF ThreadInv

\* Steps between the entries of bodies leave the calls as they are.
LEMMA ThreadNext == Flat /\ ThreadInv /\ [Next]_vars => ThreadInv'
<1> SUFFICES ASSUME Flat, ThreadInv, [Next]_vars PROVE ThreadInv'
  OBVIOUS
<1>s. ASSUME UNCHANGED <<orig, todo, bodies, outcome>>, mode' # "idle", Calling' => Calling
      PROVE  ThreadInv'
  BY <1>s DEF ThreadInv, Made, Calling
<1>e. ASSUME UNCHANGED <<orig, todo, bodies>>, mode' = "done", outcome' \in {"threw", "crashed"}
      PROVE  ThreadInv'
  BY <1>e DEF ThreadInv, Made, Calling
<1>1. CASE ProgramCalls
  BY <1>1, ProgramKeeps
<1>2. CASE Invoke \/ DispatchTrial \/ DispatchAccepts \/ TrialPasses
  BY <1>2, <1>s DEF Invoke, DispatchTrial, DispatchAccepts, TrialPasses, InvokeChecked, Calling
<1>3. CASE DispatchRejects \/ TrialFails
  <2>1. Calling /\ (AutoThread("multi") \/ EndCall("threw"))
    BY <1>3 DEF DispatchRejects, TrialFails, NoCandidate, Calling
  <2> QED BY <1>e, <2>1, ThreadKeeps DEF EndCall, Vias
<1>4. CASE ThreadCall
  BY <1>4, ThreadKeeps DEF ThreadCall, Calling, Vias
<1>5. CASE BindThrows \/ BindCrashes
  BY <1>5, <1>e DEF BindThrows, BindCrashes, EndCall
<1>6. CASE Bind
  BY <1>6 DEF Bind, calls, ThreadInv, Made, Calling
<1>7. CASE RunBody
  BY <1>7, BodyKeeps
<1>8. CASE Return
  <2>1. /\ bodies' = <<>> /\ todo' = <<>> /\ outcome' = "none" /\ mode' = "idle"
    BY <1>8 DEF Return
  <2>2. Made' = <<>> /\ bodies' \in Seq({})
    BY <2>1 DEF Made
  <2>3. Made' \in Seq(CallType) /\ todo' \in Seq(CallType)
    BY <2>1, <2>2
  <2> QED BY <2>1, <2>2, <2>3 DEF ThreadInv, Calling
<1>9. CASE UNCHANGED vars
  BY <1>9 DEF vars, calls, ThreadInv, Made, Calling
<1> QED BY <1>1, <1>2, <1>3, <1>4, <1>5, <1>6, <1>7, <1>8, <1>9 DEF Next, Progress

\* A combination has one place among the calls made and those to make.
LEMMA OnceCounts ==
    ASSUME ThreadInv, NEW r, OnceIn(Made \o todo, r)
    PROVE  Standing([k \in DOMAIN bodies |-> bodies[k].call], r) + Standing(todo, r) = 1
<1>1. Made \in Seq(CallType) /\ todo \in Seq(CallType)
  BY DEF ThreadInv
<1>2. ASSUME NEW s, OnceIn(s, r) PROVE Standing(s, r) = 1
  <2>1. PICK k \in DOMAIN s : r \in Resolved(s[k]) /\ \A m \in DOMAIN s : r \in Resolved(s[m]) => m = k
    BY <1>2 DEF OnceIn
  <2>2. {m \in DOMAIN s : r \in Resolved(s[m])} = {k}
    BY <2>1
  <2> QED BY <2>2, FS_Singleton DEF Standing
<1>3. ASSUME NEW s, ~In(s, r) PROVE Standing(s, r) = 0
  <2>1. {m \in DOMAIN s : r \in Resolved(s[m])} = {}
    BY <1>3 DEF In
  <2> QED BY <2>1, FS_EmptySet DEF Standing
<1>4. \/ OnceIn(Made, r) /\ ~In(todo, r)
      \/ ~In(Made, r) /\ OnceIn(todo, r)
  BY <1>1, InBoth
<1>5. Standing(Made, r) + Standing(todo, r) = 1
  BY <1>2, <1>3, <1>4
<1> QED BY <1>5 DEF Made

\* Through the proto, or from the callee's own bind, for positionals and nameds and
\* junctions that remain in the arguments after the first is threaded: the body is
\* entered once for each combination of eigenstates, unless the call throws.  Of
\* junctions within junctions, or with an eigenstate twice, EveryThreadOnce says too
\* much: their combinations do not tell calls apart.
THEOREM ThreadsOnce == ASSUME Flat PROVE Spec => []EveryThreadOnce
<1>1. Init => ThreadInv
  <2> SUFFICES ASSUME Init PROVE ThreadInv
    OBVIOUS
  <2>1. bodies = <<>> /\ todo = <<>> /\ outcome = "none" /\ mode = "idle"
    BY DEF Init
  <2>2. Made = <<>> /\ bodies \in Seq({})
    BY <2>1 DEF Made
  <2>3. Made \in Seq(CallType) /\ todo \in Seq(CallType)
    BY <2>1, <2>2
  <2> QED BY <2>1, <2>2, <2>3 DEF ThreadInv, Calling
<1>2. ThreadInv => EveryThreadOnce
  <2> SUFFICES ASSUME ThreadInv, Calling \/ outcome = "returned", NEW r \in Resolved(orig)
               PROVE  Standing([k \in DOMAIN bodies |-> bodies[k].call], r) + Standing(todo, r) = 1
    BY DEF EveryThreadOnce
  <2> QED BY OnceCounts DEF ThreadInv
<1>3. ThreadInv /\ [Next]_vars => ThreadInv'
  BY ThreadNext
<1> QED BY <1>1, <1>2, <1>3, PTL DEF Spec

-----------------------------------------------------------------------------
(* A bindability check and the bind after it.  What a bind does in a step is a *)
(* matter of the activations, the lexpad and the type variables, and so is   *)
(* where it gets to.                                                         *)

\* An activation, whether or not it checks types.
Bare(f) ==
    [ sig |-> f.sig, i |-> f.i, args |-> f.args, cur |-> f.cur,
      named |-> f.named, suppress |-> f.suppress, sealed |-> f.sealed ]
Bares(fs) == [k \in 1..Len(fs) |-> Bare(fs[k])]

\* f at the next parameter.
On(f, cur, named, suppress, sealed) ==
    [ sig |-> f.sig, i |-> f.i + 1, args |-> f.args, cur |-> cur,
      named |-> named, suppress |-> suppress, sealed |-> sealed ]

\* The parameter activation f is at.
ParamOf(f) == Sig[f.sig][f.i]
At(f, kinds) == f.i <= Len(Sig[f.sig]) /\ ParamOf(f).kind \in kinds

Rest(f) == Objects(SubSeq(f.args, f.cur, Len(f.args)))
More(f) == f.cur <= Len(f.args)
PassedTo(f) == Range(ParamOf(f).names) \cap DOMAIN f.named # {}

Last(f) == f.i = Len(Sig[f.sig])
Lifts(f) ==
    f.suppress \/ (~Last(f) /\ Sig[f.sig][f.i + 1].kind
                                  \in {"slurpy", "slurpynamed", "methodslurpy"})

\* n is the first alias of p that is among the named arguments.
FirstAlias(p, named, n) ==
    \E j \in DOMAIN p.names : /\ n = p.names[j] /\ n \in DOMAIN named
                              /\ \A k \in 1..(j - 1) : p.names[k] \notin DOMAIN named

\* f has no argument for an optional parameter.
Defaults(f) ==
    \/ At(f, {"opt"}) /\ ~More(f)
    \/ At(f, {"namedopt"}) /\ ~PassedTo(f)

\* f has bind_one_param bind v, and goes on as g.
Takes(f, v, g) ==
    \/ /\ At(f, {"capture"}) /\ ParamOf(f).var # None
       /\ v = CaptOf(Rest(f), f.named) /\ g = On(f, f.cur, f.named, Lifts(f), Last(f))
    \/ /\ At(f, {"slurpynamed"})
       /\ v = HashOf(f.named) /\ g = On(f, f.cur, NoArgs, f.suppress, f.sealed)
    \/ /\ At(f, {"slurpy", "lol"})
       /\ v = ListOf(Rest(f)) /\ g = On(f, Len(f.args) + 1, f.named, f.suppress, f.sealed)
    \/ /\ At(f, {"pos", "opt"}) /\ More(f)
       /\ v = f.args[f.cur] /\ g = On(f, f.cur + 1, f.named, f.suppress, f.sealed)
    \/ /\ Defaults(f)
       /\ v \in ParamOf(f).default /\ g = On(f, f.cur, f.named, f.suppress, f.sealed)
    \/ /\ At(f, {"named", "namedopt"}) /\ PassedTo(f)
       /\ \E n : /\ FirstAlias(ParamOf(f), f.named, n)
                 /\ v = f.named[n] /\ g = On(f, f.cur, Without(f.named, n), f.suppress, f.sealed)

\* f goes on as g without bind_one_param, and lexpad l becomes m.
Skips(f, l, g, m) ==
    \/ /\ At(f, {"capture"}) /\ ParamOf(f).var = None
       /\ g = On(f, f.cur, f.named, Lifts(f), Last(f)) /\ m = l
    \/ /\ At(f, {"methodslurpy"})
       /\ g = On(f, f.cur, NoArgs, f.suppress, f.sealed)
       /\ m = Set(l, ParamOf(f).var, HashOf(f.named))
    \/ /\ At(f, {"named"}) /\ ~PassedTo(f) /\ f.suppress
       /\ g = On(f, f.cur, f.named, f.suppress, f.sealed) /\ m = l

LeftOver(f) == ~f.sealed /\ ((More(f) /\ ~f.suppress) \/ DOMAIN f.named # {})

\* f is past the last parameter, and nothing is left over; f fails.
Ends(f)  == f.i > Len(Sig[f.sig]) /\ ~LeftOver(f)
Stuck(f) ==
    \/ At(f, {"pos"}) /\ ~More(f)
    \/ At(f, {"named"}) /\ ~PassedTo(f) /\ ~f.suppress
    \/ f.i > Len(Sig[f.sig]) /\ LeftOver(f)

\* There is one thing to do at a parameter, and one way to do it; but a default may
\* be one of several.
LEMMA OneWay ==
    ASSUME NEW f, f.sig \in Sigs, f.i \in Nat \ {0}, NEW l
    PROVE  /\ \A v, g, w, k : Takes(f, v, g) /\ Takes(f, w, k) => (Defaults(f) \/ v = w) /\ g = k
           /\ \A g, m, k, n : Skips(f, l, g, m) /\ Skips(f, l, k, n) => g = k /\ m = n
           /\ \A v, g, k, n : ~(Takes(f, v, g) /\ Skips(f, l, k, n))
           /\ \A v, g : Takes(f, v, g) => ~Ends(f) /\ ~Stuck(f)
           /\ \A g, m : Skips(f, l, g, m) => ~Ends(f) /\ ~Stuck(f)
           /\ Ends(f) => ~Stuck(f)
<1> DEFINE p == ParamOf(f)
           within == f.i <= Len(Sig[f.sig])
<1>1. ASSUME within PROVE p.names \in Seq(Names)
  <2>1. Sig[f.sig] \in Seq(Parameters)
    BY BinderAssumption
  <2>2. p \in Parameters
    BY <1>1, <2>1 DEF ParamOf
  <2> QED BY <2>2 DEF Parameters
<1>2. ASSUME within, NEW n, NEW k, FirstAlias(p, f.named, n), FirstAlias(p, f.named, k)
      PROVE  n = k
  <2>1. PICK a \in DOMAIN p.names : /\ n = p.names[a] /\ n \in DOMAIN f.named
                                    /\ \A j \in 1..(a - 1) : p.names[j] \notin DOMAIN f.named
    BY <1>2 DEF FirstAlias
  <2>2. PICK b \in DOMAIN p.names : /\ k = p.names[b] /\ k \in DOMAIN f.named
                                    /\ \A j \in 1..(b - 1) : p.names[j] \notin DOMAIN f.named
    BY <1>2 DEF FirstAlias
  <2>3. a \in Nat \ {0} /\ b \in Nat \ {0}
    BY <1>1, <1>2
  <2>4. ~(a < b) /\ ~(b < a)
    BY <2>1, <2>2, <2>3
  <2> QED BY <2>1, <2>2, <2>3, <2>4
<1>3. ~(within /\ f.i > Len(Sig[f.sig]))
  <2>1. Len(Sig[f.sig]) \in Nat
    BY BinderAssumption
  <2> QED BY <2>1
<1>4. /\ \A kinds : At(f, kinds) <=> within /\ p.kind \in kinds
      /\ Ends(f) => ~within
      /\ Stuck(f) => \/ ~within
                     \/ p.kind = "pos" /\ ~More(f)
                     \/ p.kind = "named" /\ ~PassedTo(f) /\ ~f.suppress
  BY <1>3 DEF At, Ends, Stuck
<1> HIDE DEF p, within
<1>5. \A v, g, w, k : Takes(f, v, g) /\ Takes(f, w, k) => (Defaults(f) \/ v = w) /\ g = k
  BY <1>2, <1>4 DEF Takes, Defaults, p
<1>6. \A g, m, k, n : Skips(f, l, g, m) /\ Skips(f, l, k, n) => g = k /\ m = n
  BY <1>4 DEF Skips, p
<1>7. \A v, g, k, n : ~(Takes(f, v, g) /\ Skips(f, l, k, n))
  BY <1>4 DEF Takes, Defaults, Skips, p
<1>8. \A v, g : Takes(f, v, g) => ~Ends(f) /\ ~Stuck(f)
  BY <1>4 DEF Takes, Defaults
<1>9. \A g, m : Skips(f, l, g, m) => ~Ends(f) /\ ~Stuck(f)
  BY <1>4 DEF Skips
<1>10. Ends(f) => ~Stuck(f)
  BY <1>4 DEF Ends, Stuck
<1> QED BY <1>5, <1>6, <1>7, <1>8, <1>9, <1>10

\* Every check of bind_one_param passes, that of the nominal type included, if
\* user code answers a.
Checks(p, v, a, l, tv) ==
    LET bv == Prepared(p, v)
    IN  /\ Typed(p, v, FALSE, tv) = "ok"
        /\ ~(p.coerce # None /\ PrimOf(bv) # "obj")
        /\ Decont(p, bv, a) # None /\ Decont(p, bv, a) # Thrown
        /\ a.refused # Thrown /\ a.refused # TRUE
        /\ Attributive(p) =>
              /\ Self \in DOMAIN l \/ p.self
              /\ PrimOf(bv) = "obj"
              /\ p.public => a.holder # None /\ a.holder = "rw"
              /\ TypeCheck(TypeOfValue(Decont(p, bv, a)), AttrType[p.attr])

\* A bind that checks types finds what Checks says; one that does not check them
\* refuses nothing the other takes.
LEMMA SameChecks ==
    ASSUME NEW p, NEW v, NEW a
    PROVE  /\ Verdict(p, v, a, FALSE) = "ok" => Checks(p, v, a, lex, tvars)
           /\ Checks(p, v, a, lex, tvars) => \A nn : Verdict(p, v, a, nn) = "ok"
<1> DEFINE bv == Prepared(p, v)
           ok(nn) == Typed(p, v, nn, tvars) = "ok"
           stores == /\ Self \in DOMAIN lex \/ p.self
                     /\ PrimOf(bv) = "obj"
                     /\ p.public => a.holder # None /\ a.holder = "rw"
                     /\ TypeCheck(TypeOfValue(Decont(p, bv, a)), AttrType[p.attr])
<1>1. ASSUME NEW nn PROVE ok(FALSE) => ok(nn)
  BY DEF Typed
<1>2. Stored(p, bv, a, Self \in DOMAIN lex \/ p.self) = "ok" <=> stores
  BY DEF Stored
<1>3. ASSUME NEW nn
      PROVE  Verdict(p, v, a, nn) = "ok" <=>
                /\ ok(nn) /\ ~(p.coerce # None /\ PrimOf(bv) # "obj")
                /\ Decont(p, bv, a) # None /\ Decont(p, bv, a) # Thrown
                /\ a.refused # Thrown /\ a.refused # TRUE
                /\ Attributive(p) => stores
  <2> HIDE DEF stores
  <2> DEFINE st == Stored(p, bv, a, Self \in DOMAIN lex \/ p.self)
             dv == Decont(p, bv, a)
  <2>2. st = "ok" <=> stores
    BY <1>2
  <2>3. Verdict(p, v, a, nn) =
           IF Typed(p, v, nn, tvars) # "ok" THEN Typed(p, v, nn, tvars)
           ELSE IF p.coerce # None /\ PrimOf(bv) # "obj" THEN IF trial THEN "crash" ELSE "fail"
           ELSE IF dv = None THEN "fail"
           ELSE IF dv = Thrown \/ a.refused = Thrown THEN "die"
           ELSE IF a.refused = TRUE THEN "fail"
           ELSE IF Attributive(p) THEN st ELSE "ok"
    BY Zenon DEF Verdict
  <2> HIDE DEF st, bv, dv
  <2>4. Verdict(p, v, a, nn) = "ok" <=>
                /\ ok(nn) /\ ~(p.coerce # None /\ PrimOf(bv) # "obj")
                /\ dv # None /\ dv # Thrown
                /\ a.refused # Thrown /\ a.refused # TRUE
                /\ Attributive(p) => stores
    BY <2>2, <2>3
  <2> QED BY <2>4, Zenon DEF dv
<1>4. Checks(p, v, a, lex, tvars) <=>
         /\ ok(FALSE) /\ ~(p.coerce # None /\ PrimOf(bv) # "obj")
         /\ Decont(p, bv, a) # None /\ Decont(p, bv, a) # Thrown
         /\ a.refused # Thrown /\ a.refused # TRUE
         /\ Attributive(p) => stores
  BY Zenon DEF Checks
<1> HIDE DEF ok, stores, bv
<1> QED BY <1>1, <1>3, <1>4

\* What binding v to p does, every check passed.
Shows(p, v, a) == Decont(p, Prepared(p, v), a)
Objectified(p, v) == AsObject(Prepared(p, v))
Recurses(p, v) == p.sub # None /\ PrimOf(Prepared(p, v)) = "obj"
Stops(p, v, a) == Recurses(p, v) /\ SubCapture(Shows(p, v, a), a) \in {None, Thrown}

WithVar(p, v, a, l) ==
    IF p.var # None /\ ~Attributive(p)
    THEN Set(l, p.var, IF p.raw \/ PrimOf(Prepared(p, v)) # "obj"
                       THEN Prepared(p, v) ELSE Shows(p, v, a))
    ELSE l
LexAfter(p, v, a, l) ==
    IF p.self THEN Set(WithVar(p, v, a, l), Self, Shows(p, v, a)) ELSE WithVar(p, v, a, l)
TvarsAfter(p, v, t) ==
    IF p.tcap = None THEN t ELSE Set(t, p.tcap, TypeOfValue(Objectified(p, v)))

SubActivation(p, v, a, noNom) == Activation(p.sub, SubCapture(Shows(p, v, a), a), noNom)

OnTop(fs, g) == [fs EXCEPT ![Len(fs)] = g]
Pushed(fs, p, v, a, g) ==
    IF Recurses(p, v) THEN Append(OnTop(fs, g), Bare(SubActivation(p, v, a, FALSE)))
    ELSE OnTop(fs, g)

\* The effects of bind_one_param, in the words above.
LEMMA BoundDoes ==
    ASSUME NEW p, NEW v, NEW a, NEW noNom, NEW f, Bound(p, v, a, noNom, f)
    PROVE  /\ lex' = LexAfter(p, v, a, lex) /\ tvars' = TvarsAfter(p, v, tvars)
           /\ Stops(p, v, a) => frames' = <<>> /\ bound' \in {"fail", "die"}
           /\ ~Stops(p, v, a) =>
                 /\ bound' = bound
                 /\ frames' = IF Recurses(p, v)
                              THEN Append(Replace(f), SubActivation(p, v, a, noNom))
                              ELSE Replace(f)
<1>1. lex' = LexAfter(p, v, a, lex) /\ tvars' = TvarsAfter(p, v, tvars)
  BY Zenon DEF Bound, LexAfter, WithVar, TvarsAfter, Objectified, Shows
<1>2. ASSUME Stops(p, v, a) PROVE frames' = <<>> /\ bound' \in {"fail", "die"}
  BY <1>2, Zenon DEF Bound, Shows, Stops, Recurses, Unwind
<1>3. ASSUME ~Stops(p, v, a)
      PROVE  /\ bound' = bound
             /\ frames' = IF Recurses(p, v)
                          THEN Append(Replace(f), SubActivation(p, v, a, noNom))
                          ELSE Replace(f)
  BY <1>3, Zenon DEF Bound, Shows, Stops, Recurses, SubActivation
<1> QED BY <1>1, <1>2, <1>3

\* What bind_one_param was answered: the default it was given, and what the
\* constraints said of the value.
LEMMA AnswerIs ==
    ASSUME NEW p, NEW v, NEW d, NEW nn, NEW a \in Answers(p, v, d, nn)
    PROVE  /\ a.default = d
           /\ Typed(p, v, nn, tvars) = "ok" => a.refused \in Refusals(p, Prepared(p, v))
<1>1. CASE Typed(p, v, nn, tvars) # "ok"
  <2>1. a \in {[Unasked EXCEPT !.default = d]}
    BY <1>1, Zenon DEF Answers
  <2> QED BY <1>1, <2>1 DEF Unasked
<1>2. CASE Typed(p, v, nn, tvars) = "ok"
  <2> DEFINE bv == Prepared(p, v)
  <2>1. PICK c \in Coercions(p, bv) :
            a \in [ default : {d}, coerced : {c}, refused : Refusals(p, bv), holder : Holders(p),
                    capture : SubCaptures(p, IF Coerces(p, bv) THEN c ELSE bv) ]
    BY <1>2, Zenon DEF Answers
  <2> QED BY <2>1
<1> QED BY <1>1, <1>2

\* From activations fs, lexpad l and type variables t, n answers heard, a bind that
\* checks types gets to d in one step, if O is what user code answers in turn.
Goes(O, fs, l, t, n, d) ==
    /\ fs # <<>>
    /\ LET f == fs[Len(fs)]
           p == ParamOf(f)
           a == O[n + 1]
       IN  \/ \E v, g : /\ Takes(f, v, g) /\ n + 1 \in DOMAIN O /\ (Defaults(f) => v = a.default)
                        /\ Checks(p, v, a, l, t) /\ ~Stops(p, v, a)
                        /\ d = <<Pushed(fs, p, v, a, g), LexAfter(p, v, a, l),
                                 TvarsAfter(p, v, t), n + 1>>
           \/ \E g, m : Skips(f, l, g, m) /\ d = <<OnTop(fs, g), m, t, n>>
           \/ Ends(f) /\ d = <<SubSeq(fs, 1, Len(fs) - 1), l, t, n>>

\* It gets from c to d.
Closed(O, R) == \A fs, l, t, n, d : <<fs, l, t, n>> \in R /\ Goes(O, fs, l, t, n, d) => d \in R
Reaches(O, c, d) == \A R : c \in R /\ Closed(O, R) => d \in R

\* What is a step further is reached too.
LEMMA ReachesOn ==
    ASSUME NEW O, NEW c, NEW fs, NEW l, NEW t, NEW n, NEW d,
           Reaches(O, c, <<fs, l, t, n>>), Goes(O, fs, l, t, n, d)
    PROVE  Reaches(O, c, d)
BY Zenon DEF Reaches, Closed

\* There is one step it can make ...
LEMMA OneStep ==
    ASSUME NEW O, NEW fs, NEW l, NEW t, NEW n, NEW c, NEW d,
           Goes(O, fs, l, t, n, c), Goes(O, fs, l, t, n, d),
           fs[Len(fs)].sig \in Sigs, fs[Len(fs)].i \in Nat \ {0}
    PROVE  c = d
<1> DEFINE f == fs[Len(fs)]
           a == O[n + 1]
           To(v, g) == <<Pushed(fs, ParamOf(f), v, a, g), LexAfter(ParamOf(f), v, a, l),
                         TvarsAfter(ParamOf(f), v, t), n + 1>>
<1> HIDE DEF f, a
<1>0. f.sig \in Sigs /\ f.i \in Nat \ {0}
  BY DEF f
<1>1. /\ \A v, g, w, k : Takes(f, v, g) /\ Takes(f, w, k) => (Defaults(f) \/ v = w) /\ g = k
      /\ \A g, m, k, q : Skips(f, l, g, m) /\ Skips(f, l, k, q) => g = k /\ m = q
      /\ \A v, g, k, q : ~(Takes(f, v, g) /\ Skips(f, l, k, q))
      /\ \A v, g : Takes(f, v, g) => ~Ends(f) /\ ~Stuck(f)
      /\ \A g, m : Skips(f, l, g, m) => ~Ends(f) /\ ~Stuck(f)
  BY <1>0, OneWay
<1>2. ASSUME NEW e PROVE Goes(O, fs, l, t, n, e) =>
         \/ \E v, g : Takes(f, v, g) /\ (Defaults(f) => v = a.default) /\ e = To(v, g)
         \/ \E g, m : Skips(f, l, g, m) /\ e = <<OnTop(fs, g), m, t, n>>
         \/ Ends(f) /\ e = <<SubSeq(fs, 1, Len(fs) - 1), l, t, n>>
  BY Zenon DEF Goes, f, a
<1> HIDE DEF To
<1>3. ASSUME NEW v, NEW g, Takes(f, v, g), Defaults(f) => v = a.default, c = To(v, g)
      PROVE  c = d
  <2>1. ~Ends(f) /\ \A k, q : ~Skips(f, l, k, q)
    BY <1>1, <1>3
  <2>2. PICK w, k : Takes(f, w, k) /\ (Defaults(f) => w = a.default) /\ d = To(w, k)
    BY <1>2, <2>1
  <2>3. v = w /\ g = k
    BY <1>1, <1>3, <2>2
  <2> QED BY <1>3, <2>2, <2>3
<1>4. ASSUME NEW g, NEW m, Skips(f, l, g, m), c = <<OnTop(fs, g), m, t, n>>
      PROVE  c = d
  <2>1. ~Ends(f) /\ \A v, k : ~Takes(f, v, k)
    BY <1>1, <1>4
  <2>2. PICK k, q : Skips(f, l, k, q) /\ d = <<OnTop(fs, k), q, t, n>>
    BY <1>2, <2>1
  <2>3. g = k /\ m = q
    BY <1>1, <1>4, <2>2
  <2> QED BY <1>4, <2>2, <2>3
<1>5. CASE Ends(f) /\ c = <<SubSeq(fs, 1, Len(fs) - 1), l, t, n>>
  BY <1>1, <1>2, <1>5
<1> QED BY <1>2, <1>3, <1>4, <1>5

\* ... so what it gets to, it gets to that way.
LEMMA ReachesVia ==
    ASSUME NEW O, NEW fs, NEW l, NEW t, NEW n, NEW e,
           Reaches(O, <<fs, l, t, n>>, e), e # <<fs, l, t, n>>,
           fs # <<>> => fs[Len(fs)].sig \in Sigs /\ fs[Len(fs)].i \in Nat \ {0}
    PROVE  \E d : Goes(O, fs, l, t, n, d) /\ Reaches(O, d, e)
<1> DEFINE c == <<fs, l, t, n>>
<1>1. PICK d : Goes(O, fs, l, t, n, d)
  <2> SUFFICES ASSUME \A d : ~Goes(O, fs, l, t, n, d) PROVE FALSE
    OBVIOUS
  <2>1. Closed(O, {c})
    BY SMT DEF Closed
  <2> QED BY <2>1 DEF Reaches
<1>2. ASSUME NEW R, d \in R, Closed(O, R) PROVE e \in R
  <2>1. Closed(O, R \cup {c})
    <3> SUFFICES ASSUME NEW gs, NEW m, NEW u, NEW k, NEW x, <<gs, m, u, k>> \in R \cup {c},
                        Goes(O, gs, m, u, k, x)
                 PROVE  x \in R
      BY Zenon DEF Closed
    <3>1. CASE <<gs, m, u, k>> \in R
      BY <3>1, <1>2, Zenon DEF Closed
    <3>2. CASE <<gs, m, u, k>> = c
      <4>1. gs = fs /\ m = l /\ u = t /\ k = n
        BY <3>2
      <4>2. Goes(O, fs, l, t, n, x) /\ fs # <<>>
        BY <4>1, Zenon DEF Goes
      <4>3. x = d
        BY <1>1, <4>2, OneStep
      <4> QED BY <1>2, <4>3
    <3> QED BY <3>1, <3>2
  <2>2. c \in R \cup {c}
    OBVIOUS
  <2> HIDE DEF c
  <2>3. e \in R \cup {c}
    BY <2>1, <2>2, Zenon DEF Reaches, c
  <2> QED BY <2>3 DEF c
<1> QED BY <1>1, <1>2, Zenon DEF Reaches

\* The fields of a bare activation.
LEMMA BareHas ==
    ASSUME NEW f
    PROVE  /\ Bare(f).sig = f.sig /\ Bare(f).i = f.i /\ Bare(f).args = f.args
           /\ Bare(f).cur = f.cur /\ Bare(f).named = f.named
           /\ Bare(f).suppress = f.suppress /\ Bare(f).sealed = f.sealed
BY DEF Bare

\* g is f at the next parameter.
Follow(f, g) ==
    g.sig = f.sig /\ g.i = f.i + 1 /\ g.args = f.args /\ g.noNom = f.noNom

\* An activation at the next parameter, bare.
LEMMA FollowsBare ==
    ASSUME NEW f, NEW g, Follow(f, g)
    PROVE  Bare(g) = On(Bare(f), g.cur, g.named, g.suppress, g.sealed)
<1>1. g.sig = Bare(f).sig /\ g.i = Bare(f).i + 1 /\ g.args = Bare(f).args
  BY BareHas DEF Follow
<1> QED BY <1>1, Zenon DEF Bare, On

\* The activations the steps of the binder go on with.
WithCur(f, x)       == [Step(f) EXCEPT !.cur = x]
WithNamed(f, x)     == [Step(f) EXCEPT !.named = x]
WithFlags(f, x, y)  == [Step(f) EXCEPT !.sealed = x, !.suppress = y]

\* At the next parameter they are bare as On says.
LEMMA StepOf ==
    ASSUME NEW f, DOMAIN f = Fields, NEW b, b = Bare(f), NEW x, NEW y
    PROVE  /\ Follow(f, Step(f)) /\ Bare(Step(f)) = On(b, b.cur, b.named, b.suppress, b.sealed)
           /\ Follow(f, WithCur(f, x))
           /\ Bare(WithCur(f, x)) = On(b, x, b.named, b.suppress, b.sealed)
           /\ Follow(f, WithNamed(f, x))
           /\ Bare(WithNamed(f, x)) = On(b, b.cur, x, b.suppress, b.sealed)
           /\ Follow(f, WithFlags(f, x, y))
           /\ Bare(WithFlags(f, x, y)) = On(b, b.cur, b.named, y, x)
<1>1. /\ b.sig = f.sig /\ b.i = f.i /\ b.args = f.args /\ b.cur = f.cur /\ b.named = f.named
      /\ b.suppress = f.suppress /\ b.sealed = f.sealed
  BY BareHas
<1>2. \A g : Follow(f, g) => Bare(g) = On(b, g.cur, g.named, g.suppress, g.sealed)
  BY FollowsBare
<1>3. /\ Follow(f, Step(f)) /\ Step(f).cur = f.cur /\ Step(f).named = f.named
      /\ Step(f).suppress = f.suppress /\ Step(f).sealed = f.sealed
  BY DEF Step, Fields, Follow
<1>4. LET g == WithCur(f, x)
      IN  /\ Follow(f, g) /\ g.cur = x /\ g.named = f.named
          /\ g.suppress = f.suppress /\ g.sealed = f.sealed
  BY DEF Step, Fields, Follow, WithCur
<1>5. LET g == WithNamed(f, x)
      IN  /\ Follow(f, g) /\ g.cur = f.cur /\ g.named = x
          /\ g.suppress = f.suppress /\ g.sealed = f.sealed
  BY DEF Step, Fields, Follow, WithNamed
<1>6. LET g == WithFlags(f, x, y)
      IN  /\ Follow(f, g) /\ g.cur = f.cur /\ g.named = f.named
          /\ g.suppress = y /\ g.sealed = x
  BY DEF Step, Fields, Follow, WithFlags
<1>7. Bare(Step(f)) = On(b, b.cur, b.named, b.suppress, b.sealed)
  BY <1>1, <1>2, <1>3
<1>8. Bare(WithCur(f, x)) = On(b, x, b.named, b.suppress, b.sealed)
  BY <1>1, <1>2, <1>4
<1>9. Bare(WithNamed(f, x)) = On(b, b.cur, x, b.suppress, b.sealed)
  BY <1>1, <1>2, <1>5
<1>10. Bare(WithFlags(f, x, y)) = On(b, b.cur, b.named, y, x)
  BY <1>1, <1>2, <1>6
<1> QED BY <1>3, <1>4, <1>5, <1>6, <1>7, <1>8, <1>9, <1>10

\* The value is one whose type is checked whatever the caller says.
Always(f) == At(f, {"named", "namedopt"}) \/ (At(f, {"opt"}) /\ ~More(f))

\* The innermost activation has a value bound to its parameter, ...
Binds(f) ==
    \E v, d, g, nn : /\ Takes(Bare(f), v, Bare(g)) /\ Follow(f, g) /\ nn \in {f.noNom, FALSE}
                     /\ Always(Bare(f)) => nn = FALSE
                     /\ Defaults(Bare(f)) => d = v
                     /\ OneParam(Param, v, d, nn, g)
\* ... or has a default that throws, ...
Throws(f) ==
    /\ Defaults(Bare(f)) /\ frames' = <<>> /\ bound' = "die"
    /\ heard' = Append(heard, [Unasked EXCEPT !.default = Thrown])
\* ... or does without, ...
Passes(f) ==
    \E g, m : /\ Skips(Bare(f), lex, Bare(g), m) /\ Follow(f, g)
              /\ frames' = Replace(g) /\ lex' = m /\ UNCHANGED <<tvars, bound, heard>>
\* ... or is left, ...
Leaves(f) ==
    /\ Ends(Bare(f)) /\ frames' = SubSeq(frames, 1, Len(frames) - 1)
    /\ bound' = IF Len(frames) = 1 THEN "ok" ELSE Running
    /\ UNCHANGED <<lex, tvars, heard>>
\* ... or fails.
Fails(f) == Stuck(Bare(f)) /\ frames' = <<>> /\ bound' = "fail" /\ heard' = heard

\* A step of the binder is one of these.
LEMMA StepIs ==
    ASSUME bound = Running, DOMAIN Top = Fields, BindStep
    PROVE  Binds(Top) \/ Throws(Top) \/ Passes(Top) \/ Leaves(Top) \/ Fails(Top)
<1> DEFINE f == Top
           b == Bare(f)
           go == Step(f)
<1>1. /\ b.sig = f.sig /\ b.i = f.i /\ b.args = f.args /\ b.cur = f.cur /\ b.named = f.named
      /\ b.suppress = f.suppress /\ b.sealed = f.sealed
  BY BareHas
<1>2. /\ Param = ParamOf(b) /\ Params = Sig[b.sig] /\ More(b) = HasValue /\ PassedTo(b) = Passed
      /\ \A kinds : AtParam(kinds) => At(b, kinds)
  BY <1>1, Zenon DEF Param, Params, ParamOf, More, HasValue, PassedTo, Passed, AtParam, At
<1>3. Objects(SubSeq(f.args, f.cur, Len(f.args))) = Rest(b) /\ (f.i = Len(Params)) = Last(b)
  BY <1>1, <1>2, Zenon DEF Rest, Last
<1>4. Follow(f, go) /\ Bare(go) = On(b, b.cur, b.named, b.suppress, b.sealed)
  BY StepOf
<1>5. /\ \A x : /\ Follow(f, WithCur(f, x))
                /\ Bare(WithCur(f, x)) = On(b, x, b.named, b.suppress, b.sealed)
      /\ \A x : /\ Follow(f, WithNamed(f, x))
                /\ Bare(WithNamed(f, x)) = On(b, b.cur, x, b.suppress, b.sealed)
      /\ \A x, y : /\ Follow(f, WithFlags(f, x, y))
                   /\ Bare(WithFlags(f, x, y)) = On(b, b.cur, b.named, y, x)
  BY StepOf
<1>0. /\ DOMAIN go = Fields
      /\ go.cur = f.cur /\ go.named = f.named /\ go.suppress = f.suppress
  BY DEF Step, Fields
<1>6. CASE BindCapture
  <2> DEFINE g == WithFlags(f, Last(b), Lifts(b))
             v == CaptOf(Rest(b), b.named)
  <2>1. AtParam({"capture"})
    BY <1>6 DEF BindCapture
  <2>2. IF Param.var = None THEN Skip(g) ELSE OneParam(Param, v, None, f.noNom, g)
    <3>2. \A x, y : [go EXCEPT !.sealed = x, !.suppress = @ \/ y]
                    = [go EXCEPT !.sealed = x, !.suppress = f.suppress \/ y]
      BY <1>0 DEF Fields
    <3> DEFINE more == ~Last(b) /\ Params[f.i + 1].kind \in {"slurpy", "slurpynamed", "methodslurpy"}
    <3>3. (f.suppress \/ more) = Lifts(b)
      BY <1>1, <1>2, Zenon DEF Lifts
    <3>4. LET h == [go EXCEPT !.sealed = Last(b), !.suppress = @ \/ more]
          IN  IF Param.var = None THEN Skip(h) ELSE OneParam(Param, v, None, f.noNom, h)
      BY <1>1, <1>3, <1>6, Zenon DEF BindCapture
    <3>5. [go EXCEPT !.sealed = Last(b), !.suppress = @ \/ more] = g
      BY <3>2, <3>3, Zenon DEF WithFlags
    <3> QED BY <3>4, <3>5, Zenon
  <2>3. Follow(f, g) /\ Bare(g) = On(b, b.cur, b.named, Lifts(b), Last(b))
    BY <1>5, Zenon
  <2>4. At(b, {"capture"})
    BY <1>2, <2>1
  <2> HIDE DEF g, b, v
  <2>5. CASE Param.var = None
    <3>1. Skips(b, lex, Bare(g), lex)
      BY <1>2, <2>3, <2>4, <2>5 DEF Skips
    <3> QED BY <2>2, <2>3, <2>5, <3>1 DEF Passes, Skip, b
  <2>6. CASE Param.var # None
    <3>1. Takes(b, v, Bare(g))
      BY <1>2, <2>3, <2>4, <2>6, Zenon DEF Takes, v
    <3>2. ~Always(b) /\ ~Defaults(b)
      BY <2>4 DEF Always, Defaults, At
    <3> QED BY <2>2, <2>3, <2>6, <3>1, <3>2 DEF Binds, b
  <2> QED BY <2>5, <2>6
<1>7. CASE BindSlurpyNamed
  <2> DEFINE g == WithNamed(f, NoArgs)
  <2>1. Follow(f, g) /\ Bare(g) = On(b, b.cur, NoArgs, b.suppress, b.sealed)
    BY <1>5, Zenon
  <2>2. \/ AtParam({"slurpynamed"}) /\ OneParam(Param, HashOf(b.named), None, f.noNom, g)
        \/ /\ AtParam({"methodslurpy"}) /\ frames' = Replace(g)
           /\ lex' = Set(lex, Param.var, HashOf(b.named)) /\ UNCHANGED <<tvars, bound, heard>>
    BY <1>1, <1>7, Zenon DEF BindSlurpyNamed, WithNamed
  <2> HIDE DEF g, b
  <2>3. CASE AtParam({"slurpynamed"}) /\ OneParam(Param, HashOf(b.named), None, f.noNom, g)
    <3>1. Takes(b, HashOf(b.named), Bare(g))
      BY <1>2, <2>1, <2>3 DEF Takes
    <3>2. ~Always(b) /\ ~Defaults(b)
      BY <1>2, <2>3 DEF Always, Defaults, At
    <3> QED BY <2>1, <2>3, <3>1, <3>2 DEF Binds, b
  <2>4. CASE /\ AtParam({"methodslurpy"}) /\ frames' = Replace(g)
             /\ lex' = Set(lex, Param.var, HashOf(b.named)) /\ UNCHANGED <<tvars, bound, heard>>
    <3>1. Skips(b, lex, Bare(g), lex')
      BY <1>2, <2>1, <2>4, Zenon DEF Skips
    <3> QED BY <2>1, <2>4, <3>1 DEF Passes, b
  <2> QED BY <2>2, <2>3, <2>4
<1>8. CASE BindSlurpy
  <2> DEFINE g == WithCur(f, Len(b.args) + 1)
  <2>1. Follow(f, g) /\ Bare(g) = On(b, Len(b.args) + 1, b.named, b.suppress, b.sealed)
    BY <1>5, Zenon
  <2>2. AtParam({"slurpy", "lol"}) /\ OneParam(Param, ListOf(Rest(b)), None, f.noNom, g)
    BY <1>1, <1>3, <1>8, Zenon DEF BindSlurpy, WithCur
  <2> HIDE DEF g, b
  <2>3. Takes(b, ListOf(Rest(b)), Bare(g)) /\ ~Always(b) /\ ~Defaults(b)
    BY <1>2, <2>1, <2>2 DEF Takes, Always, Defaults, At
  <2> QED BY <2>1, <2>2, <2>3 DEF Binds, b
<1>9. CASE BindPositional
  <2> DEFINE g == WithCur(f, b.cur + 1)
  <2>1. Follow(f, g) /\ Bare(g) = On(b, b.cur + 1, b.named, b.suppress, b.sealed)
    BY <1>5, Zenon
  <2>2. AtParam({"pos", "opt"}) /\ HasValue
    BY <1>9 DEF BindPositional
  <2>3. OneParam(Param, b.args[b.cur], None, f.noNom, g)
    <3>2. [go EXCEPT !.cur = @ + 1] = g
      BY <1>1, <1>0 DEF Fields, WithCur
    <3> HIDE DEF go
    <3> QED BY <1>1, <1>9, <3>2, Zenon DEF BindPositional, go
  <2> HIDE DEF g, b
  <2>4. Takes(b, b.args[b.cur], Bare(g))
    BY <1>2, <2>1, <2>2 DEF Takes
  <2>5. ~Always(b) /\ ~Defaults(b)
    BY <1>2, <2>2 DEF Always, Defaults, At
  <2> QED BY <2>1, <2>3, <2>4, <2>5 DEF Binds, b
<1>10. CASE BindDefault
  <2>1. Bare(go) = On(b, b.cur, b.named, b.suppress, b.sealed)
    BY <1>4
  <2>2. /\ \/ AtParam({"opt"}) /\ ~HasValue
           \/ AtParam({"namedopt"}) /\ ~Passed
        /\ (\E d \in Param.default : OneParam(Param, d, d, FALSE, go)) \/ DefaultThrows
    BY <1>10 DEF BindDefault
  <2> HIDE DEF go, b
  <2>3. Defaults(b)
    BY <1>2, <2>2 DEF Defaults
  <2>4. \A d \in Param.default : Takes(b, d, Bare(go))
    BY <1>2, <2>1, <2>3 DEF Takes
  <2>5. CASE DefaultThrows
    BY <2>3, <2>5 DEF DefaultThrows, Unwind, Throws, b
  <2>6. ASSUME NEW d \in Param.default, OneParam(Param, d, d, FALSE, go) PROVE Binds(f)
    BY <1>4, <2>4, <2>6 DEF Binds, b
  <2> QED BY <2>2, <2>5, <2>6
<1>11. CASE MissingPositional
  <2>1. At(b, {"pos"}) /\ ~More(b)
    BY <1>2, <1>11 DEF MissingPositional
  <2>2. Stuck(b)
    BY <2>1 DEF Stuck
  <2> QED BY <1>11, <2>2 DEF Fails, MissingPositional, Fail, Unwind
<1>12. CASE BindNamed
  <2>1. AtParam({"named", "namedopt"}) /\ Passed
    BY <1>12 DEF BindNamed
  <2>2. PICK j \in DOMAIN Param.names :
               /\ Param.names[j] \in DOMAIN f.named
               /\ \A k \in 1..(j - 1) : Param.names[k] \notin DOMAIN f.named
               /\ OneParam(Param, f.named[Param.names[j]], None, FALSE,
                           [go EXCEPT !.named = Without(@, Param.names[j])])
    BY <1>12, Zenon DEF BindNamed
  <2> DEFINE n == Param.names[j]
             g == WithNamed(f, Without(b.named, n))
  <2>3. Follow(f, g) /\ Bare(g) = On(b, b.cur, Without(b.named, n), b.suppress, b.sealed)
    BY <1>5, Zenon
  <2>4. OneParam(Param, b.named[n], None, FALSE, g)
    <3>2. [go EXCEPT !.named = Without(@, n)] = g
      <4> HIDE DEF n
      <4> QED BY <1>1, <1>0 DEF Fields, WithNamed
    <3> HIDE DEF go
    <3> QED BY <1>1, <2>2, <3>2, Zenon DEF go
  <2>5. FirstAlias(Param, b.named, n)
    BY <1>1, <2>2, Zenon DEF FirstAlias
  <2> HIDE DEF g, b, n
  <2>6. Takes(b, b.named[n], Bare(g)) /\ ~Defaults(b)
    BY <1>2, <2>1, <2>3, <2>5 DEF Takes, Defaults, At
  <2> QED BY <2>3, <2>4, <2>6 DEF Binds, b
<1>13. CASE MissingNamed
  <2>1. At(b, {"named"}) /\ ~PassedTo(b)
    BY <1>2, <1>13 DEF MissingNamed
  <2>2. Bare(go) = On(b, b.cur, b.named, b.suppress, b.sealed)
    BY <1>4
  <2>3. IF b.suppress THEN Skip(go) ELSE Fail
    BY <1>1, <1>13 DEF MissingNamed
  <2> HIDE DEF go, b
  <2>4. CASE b.suppress
    <3>1. Skips(b, lex, Bare(go), lex)
      BY <2>1, <2>2, <2>4 DEF Skips
    <3> QED BY <1>4, <2>3, <2>4, <3>1 DEF Passes, Skip, b
  <2>5. CASE ~b.suppress
    <3>1. Stuck(b)
      BY <2>1, <2>5 DEF Stuck
    <3> QED BY <2>3, <2>5, <3>1 DEF Fails, Fail, Unwind, b
  <2> QED BY <2>4, <2>5
<1>14. CASE EndOfParams
  <2>1. b.i > Len(Sig[b.sig])
    BY <1>1, <1>2, <1>14 DEF EndOfParams
  <2>2. LeftOver(b) = (~f.sealed /\ (TooMany \/ Unexpected))
    BY <1>1, <1>2, Zenon DEF LeftOver, TooMany, Unexpected
  <2> HIDE DEF b
  <2>3. CASE LeftOver(b)
    BY <1>14, <2>1, <2>2, <2>3 DEF EndOfParams, Fails, Stuck, Fail, Unwind, b
  <2>4. CASE ~LeftOver(b)
    BY <1>14, <2>1, <2>2, <2>4 DEF EndOfParams, Leaves, Ends, b
  <2> QED BY <2>3, <2>4
<1> QED BY <1>6, <1>7, <1>8, <1>9, <1>10, <1>11, <1>12, <1>13, <1>14 DEF BindStep

\* A default is one of those the parameter has, and there is one.
LEMMA DefaultTakes ==
    ASSUME NEW f, f.sig \in Sigs, f.i \in Nat \ {0}, Defaults(f)
    PROVE  /\ \E v, g : Takes(f, v, g)
           /\ \A v, g : Takes(f, v, g) => v \in Plain
<1> DEFINE p == ParamOf(f)
<1>1. f.i \in DOMAIN Sig[f.sig]
  BY BinderAssumption DEF Defaults, At
<1>2. p \in Parameters
  BY <1>1, BinderAssumption DEF ParamOf
<1>3. p.default \in (SUBSET Plain) \ {{}}
  BY <1>2 DEF Parameters
<1> HIDE DEF p
<1>4. PICK d : d \in p.default
  BY <1>3
<1> USE DEF p
<1>5. \/ At(f, {"opt"}) /\ ~More(f)
      \/ At(f, {"namedopt"}) /\ ~PassedTo(f)
  BY DEF Defaults
<1>6. Takes(f, d, On(f, f.cur, f.named, f.suppress, f.sealed))
  BY <1>4, Zenon DEF Takes
<1>7. ASSUME NEW v, NEW g, Takes(f, v, g) PROVE v \in p.default
  BY <1>5, <1>7 DEF Takes, Defaults, At
<1> QED BY <1>3, <1>6, <1>7

\* Stacks of activations, bare ones among them.
LEMMA BaresOf ==
    ASSUME NEW S, NEW fs \in Seq(S), fs # <<>>, NEW g, NEW h
    PROVE  /\ Bares(fs) # <<>> /\ Len(Bares(fs)) = Len(fs)
           /\ Bares(fs)[Len(fs)] = Bare(fs[Len(fs)])
           /\ Bares(OnTop(fs, g)) = OnTop(Bares(fs), Bare(g))
           /\ Bares(Append(OnTop(fs, g), h)) = Append(OnTop(Bares(fs), Bare(g)), Bare(h))
           /\ Bares(SubSeq(fs, 1, Len(fs) - 1)) = SubSeq(Bares(fs), 1, Len(fs) - 1)
<1> DEFINE n == Len(fs)
           bs == Bares(fs)
           B == {Bare(fs[k]) : k \in 1..n}
<1>1. n \in Nat \ {0} /\ fs \in [1..n -> S]
  OBVIOUS
<1>2. bs \in [1..n -> B] /\ \A k \in 1..n : bs[k] = Bare(fs[k])
  BY DEF Bares
<1>3. bs \in Seq(B) /\ Len(bs) = n
  BY <1>1, <1>2
<1>4. bs # <<>> /\ bs[n] = Bare(fs[n])
  <2>1. n \in 1..n
    BY <1>1
  <2>2. bs[n] = Bare(fs[n])
    BY <1>2, <2>1
  <2> HIDE DEF bs, B, n
  <2>3. bs # <<>>
    BY <1>1, <1>3
  <2> QED BY <2>2, <2>3
<1>5. /\ OnTop(fs, g) \in Seq(S \cup {g}) /\ Len(OnTop(fs, g)) = n
      /\ \A k \in 1..n : OnTop(fs, g)[k] = IF k = n THEN g ELSE fs[k]
  BY <1>1 DEF OnTop
<1>6. /\ OnTop(bs, Bare(g)) \in Seq(B \cup {Bare(g)}) /\ Len(OnTop(bs, Bare(g))) = n
      /\ \A k \in 1..n : OnTop(bs, Bare(g))[k] = IF k = n THEN Bare(g) ELSE bs[k]
  <2> HIDE DEF bs, B
  <2> QED BY <1>1, <1>2, <1>3 DEF OnTop
<1>7. ASSUME NEW A, NEW D, NEW xs \in Seq(A), NEW ys \in Seq(D), Len(xs) = Len(ys),
             \A k \in 1..Len(xs) : ys[k] = Bare(xs[k])
      PROVE  Bares(xs) = ys
  <2>1. ys = [k \in 1..Len(xs) |-> ys[k]]
    BY <1>7
  <2>2. Bares(xs) = [k \in 1..Len(xs) |-> ys[k]]
    BY <1>7, Zenon DEF Bares
  <2> QED BY <2>1, <2>2
<1> HIDE DEF bs, B
<1>8. Bares(OnTop(fs, g)) = OnTop(bs, Bare(g))
  <2>1. \A k \in 1..n : OnTop(bs, Bare(g))[k] = Bare(OnTop(fs, g)[k])
    BY <1>2, <1>5, <1>6
  <2> QED BY <1>5, <1>6, <1>7, <2>1
<1>9. Bares(Append(OnTop(fs, g), h)) = Append(OnTop(bs, Bare(g)), Bare(h))
  <2> DEFINE xs == OnTop(fs, g)
             ys == OnTop(bs, Bare(g))
  <2> HIDE DEF xs, ys
  <2>1. xs \in Seq(S \cup {g}) /\ ys \in Seq(B \cup {Bare(g)}) /\ Len(xs) = n /\ Len(ys) = n
        /\ \A k \in 1..n : ys[k] = Bare(xs[k])
    BY <1>2, <1>5, <1>6 DEF xs, ys
  <2>2. /\ Append(xs, h) \in Seq(S \cup {g, h}) /\ Len(Append(xs, h)) = n + 1
        /\ \A k \in 1..(n + 1) : Append(xs, h)[k] = IF k = n + 1 THEN h ELSE xs[k]
    BY <1>1, <2>1
  <2>3. /\ Append(ys, Bare(h)) \in Seq(B \cup {Bare(g), Bare(h)}) /\ Len(Append(ys, Bare(h))) = n + 1
        /\ \A k \in 1..(n + 1) : Append(ys, Bare(h))[k] = IF k = n + 1 THEN Bare(h) ELSE ys[k]
    BY <1>1, <2>1
  <2>4. \A k \in 1..(n + 1) : Append(ys, Bare(h))[k] = Bare(Append(xs, h)[k])
    BY <1>1, <2>1, <2>2, <2>3
  <2> QED BY <1>7, <2>2, <2>3, <2>4 DEF xs, ys
<1>10. Bares(SubSeq(fs, 1, n - 1)) = SubSeq(bs, 1, n - 1)
  <2> DEFINE m == n - 1
  <2>1. m \in Nat /\ m < Len(fs) /\ m < Len(bs)
    BY <1>1, <1>3
  <2> HIDE DEF m
  <2>2. /\ SubSeq(fs, 1, m) \in Seq(S) /\ Len(SubSeq(fs, 1, m)) = m
        /\ \A k \in 1..m : SubSeq(fs, 1, m)[k] = fs[k]
    BY <2>1, Popped
  <2>3. /\ SubSeq(bs, 1, m) \in Seq(B) /\ Len(SubSeq(bs, 1, m)) = m
        /\ \A k \in 1..m : SubSeq(bs, 1, m)[k] = bs[k]
    BY <1>3, <2>1, Popped
  <2>4. \A k \in 1..m : SubSeq(bs, 1, m)[k] = Bare(SubSeq(fs, 1, m)[k])
    BY <1>1, <1>2, <2>1, <2>2, <2>3
  <2>5. Bares(SubSeq(fs, 1, m)) = SubSeq(bs, 1, m)
    BY <1>7, <2>2, <2>3, <2>4
  <2> QED BY <2>5 DEF m
<1> QED BY <1>3, <1>4, <1>8, <1>9, <1>10 DEF bs

\* A sequence with one more element.
LEMMA AppendIs ==
    ASSUME NEW A, NEW xs \in Seq(A), NEW h
    PROVE  /\ Append(xs, h) \in Seq(A \cup {h}) /\ Len(Append(xs, h)) = Len(xs) + 1
           /\ \A k \in 1..(Len(xs) + 1) : Append(xs, h)[k] = IF k = Len(xs) + 1 THEN h ELSE xs[k]
OBVIOUS

\* What is on a stack is what was on it or was put on it.
OnlyFrom(new, old, put) ==
    \A k \in 1..Len(new) : new[k] \in put \/ \E j \in 1..Len(old) : new[k] = old[j]

\* The innermost activation goes on, ...
LEMMA OnReplaced ==
    ASSUME NEW S, NEW fs \in Seq(S), fs # <<>>, NEW g
    PROVE  /\ OnTop(fs, g) \in Seq(S \cup {g}) /\ OnTop(fs, g) # <<>>
           /\ OnlyFrom(OnTop(fs, g), fs, {g})
<1>1. /\ OnTop(fs, g) \in Seq(S \cup {g}) /\ Len(OnTop(fs, g)) = Len(fs)
      /\ \A k \in 1..Len(fs) : OnTop(fs, g)[k] = IF k = Len(fs) THEN g ELSE fs[k]
  BY DEF OnTop
<1>2. OnlyFrom(OnTop(fs, g), fs, {g})
  BY <1>1 DEF OnlyFrom
<1> QED BY <1>1, <1>2

\* ... enters a sub-signature ...
LEMMA OnPushed ==
    ASSUME NEW S, NEW fs \in Seq(S), fs # <<>>, NEW g, NEW h
    PROVE  /\ Append(OnTop(fs, g), h) # <<>>
           /\ OnlyFrom(Append(OnTop(fs, g), h), fs, {g, h})
<1> DEFINE xs == OnTop(fs, g)
           ys == Append(xs, h)
<1>1. xs \in Seq(S \cup {g}) /\ OnlyFrom(xs, fs, {g})
  BY OnReplaced
<1> HIDE DEF xs
<1>2. /\ Len(ys) = Len(xs) + 1 /\ Len(xs) \in Nat
      /\ \A k \in 1..(Len(xs) + 1) : ys[k] = IF k = Len(xs) + 1 THEN h ELSE xs[k]
  BY <1>1, AppendIs
<1>3. ys # <<>>
  BY <1>1
<1> HIDE DEF ys
<1>4. ASSUME NEW k \in 1..Len(ys) PROVE ys[k] \in {g, h} \/ \E j \in 1..Len(fs) : ys[k] = fs[j]
  <2>1. CASE k = Len(xs) + 1
    BY <1>2, <2>1
  <2>2. CASE k # Len(xs) + 1
    <3>1. k \in 1..Len(xs) /\ ys[k] = xs[k]
      BY <1>2, <2>2
    <3> QED BY <1>1, <3>1 DEF OnlyFrom
  <2> QED BY <2>1, <2>2
<1> QED BY <1>3, <1>4 DEF OnlyFrom, xs, ys

\* ... or is left.
LEMMA OnPopped ==
    ASSUME NEW S, NEW fs \in Seq(S), fs # <<>>
    PROVE  /\ SubSeq(fs, 1, Len(fs) - 1) = <<>> <=> Len(fs) = 1
           /\ OnlyFrom(SubSeq(fs, 1, Len(fs) - 1), fs, {})
<1> DEFINE n == Len(fs)
           m == n - 1
<1>1. n \in Nat \ {0}
  OBVIOUS
<1>2. m \in Nat /\ m < Len(fs)
  BY <1>1
<1> HIDE DEF m
<1>3. /\ SubSeq(fs, 1, m) \in Seq(S) /\ Len(SubSeq(fs, 1, m)) = m
      /\ \A k \in 1..m : SubSeq(fs, 1, m)[k] = fs[k]
  BY <1>2, Popped
<1>4. SubSeq(fs, 1, m) = <<>> <=> m = 0
  BY <1>2, <1>3
<1>5. OnlyFrom(SubSeq(fs, 1, m), fs, {})
  BY <1>2, <1>3 DEF OnlyFrom
<1>6. SubSeq(fs, 1, m) = <<>> <=> n = 1
  BY <1>1, <1>4 DEF m
<1> QED BY <1>5, <1>6 DEF m

\* The activations are of the callee and of sub-signatures in it.
SigsIn == \A k \in 1..Len(frames) : frames[k].sig \in Sigs /\ frames[k].sig \in Inside[fn]
Lenient == \A k \in 1..Len(frames) : frames[k].noNom = FALSE

\* Where the bind is, where the bind of this call starts, and where the
\* bindability check got to.
Here  == <<Bares(frames), lex, tvars, Len(heard)>>
Start == <<<<Bare(Activation(fn, Now, FALSE))>>, NoArgs, NoArgs, 0>>
Done(t, n) == <<<<>>, checked.lex, t, n>>

\* What user code answered is so far what O has.
HeardIn(O) == \A k \in 1..Len(heard) : k \in DOMAIN O /\ heard[k] = O[k]
HeardOk    == \E S : heard \in Seq(S)

\* A bindability check has come from the start to where it is, and would again with
\* the same answers; the bind after it, if the check worked out, can get from where
\* it is to where the check got to, if user code goes on answering as it did then.
AgreeInv ==
    /\ VarInv /\ HeardOk
    /\ bound = Running => SigsIn
    /\ bound \in Verdicts => frames = <<>>
    /\ mode = "trial" => /\ bound = Running => Lenient
                         /\ bound \in {Running, "ok"} =>
                                 \A O : HeardIn(O) => Reaches(O, Start, Here)
    /\ mode = "final" /\ checked.verdict = "ok" /\ bound = Running /\ SameAnswers =>
          \E t, n : Reaches(checked.heard, Here, Done(t, n))
    /\ TrialAgrees

\* What AgreeInv needs of a step of the binder.
LEMMA TopIs ==
    ASSUME VarInv, SigsIn, bound = Running
    PROVE  /\ \E S : frames \in Seq(S)
           /\ frames # <<>> /\ DOMAIN Top = Fields /\ Len(frames) \in 1..Len(frames)
           /\ Top.sig \in Sigs /\ Top.sig \in Inside[fn] /\ Top.i \in Nat \ {0} /\ fn \in Sigs
<1>1. FramesOk /\ fn \in Sigs
  BY DEF VarInv, Running, Idle
<1>2. FrameOk(Top)
  BY TopOk
<1>3. Len(frames) \in 1..Len(frames)
  BY <1>1 DEF FramesOk
<1> QED BY <1>1, <1>2, <1>3 DEF FramesOk, FrameOk, SigsIn, Top

\* The activation of a sub-signature.
LEMMA SubActivationIs ==
    ASSUME NEW p, NEW v, NEW a, NEW nn
    PROVE  SubActivation(p, v, a, nn).sig = p.sub /\ SubActivation(p, v, a, nn).noNom = nn
BY DEF SubActivation, Activation

\* Whether it checks types shows only in that.
LEMMA SubActivationBare ==
    ASSUME NEW p, NEW v, NEW a, NEW nn
    PROVE  Bare(SubActivation(p, v, a, nn)) = Bare(SubActivation(p, v, a, FALSE))
BY DEF Bare, SubActivation, Activation

\* The parameter that is bound is one of the callee's or of a sub-signature in it,
\* and so is its own sub-signature.
LEMMA ParamIs ==
    ASSUME VarInv, SigsIn, bound = Running, NEW v, NEW g, Takes(Bare(Top), v, Bare(g))
    PROVE  /\ Param = ParamOf(Bare(Top)) /\ Param \in Own(fn) \cup Nested(fn)
           /\ Param.sub # None => Param.sub \in Sigs /\ Param.sub \in Inside[fn]
<1>1. Top.sig \in Sigs /\ Top.sig \in Inside[fn] /\ Top.i \in Nat \ {0} /\ fn \in Sigs
  BY TopIs
<1>2. Bare(Top).sig = Top.sig /\ Bare(Top).i = Top.i
  BY BareHas
<1>3. Param = ParamOf(Bare(Top))
  BY <1>2, Zenon DEF Param, Params, ParamOf
<1>4. Bare(Top).i <= Len(Sig[Bare(Top).sig])
  BY Zenon DEF Takes, Defaults, At
<1>5. Sig[Top.sig] \in Seq(Parameters)
  BY <1>1, BinderAssumption
<1>6. Param \in Own(Top.sig) /\ Param \in Parameters
  BY <1>1, <1>2, <1>4, <1>5 DEF Param, Params, Own, Range
<1>7. Param \in Own(fn) \cup Nested(fn)
  BY <1>1, <1>6 DEF Nested
<1>8. Param.sub \in Sigs \cup {None}
  BY <1>6 DEF Parameters
<1>9. Param.sub # None => Param.sub \in Inside[fn]
  BY <1>1, <1>6, CallAssumption
<1> QED BY <1>3, <1>7, <1>8, <1>9

\* The step gets one step further, if O has what user code answers; there is nowhere
\* to get to when types are checked; O has the answer that user code now gave.
Gets(O)    == /\ Goes(O, Bares(frames), lex, tvars, Len(heard), Here')
              /\ bound' = IF frames' = <<>> THEN "ok" ELSE Running
Nowhere(O) == \A d : ~Goes(O, Bares(frames), lex, tvars, Len(heard), d)
Beyond(O)  == heard' # heard /\ Len(heard') \notin DOMAIN O
NextIn(O)  == heard' # heard /\ ~Beyond(O) => heard'[Len(heard')] = O[Len(heard')]

\* What user code answers is added to what it answered before.
HeardOn == heard' = heard \/ \E a : heard' = Append(heard, a)

\* So O began with the earlier answers, and so did what the check heard.
LEMMA HeardMore ==
    ASSUME HeardOk, HeardOn
    PROVE  /\ HeardOk'
           /\ \A O : HeardIn(O)' => HeardIn(O) /\ NextIn(O) /\ ~Beyond(O)
           /\ checked' = checked /\ SameAnswers' => SameAnswers /\ NextIn(checked.heard)
<1>1. CASE heard' = heard
  BY <1>1 DEF HeardOk, HeardIn, NextIn, Beyond, SameAnswers
<1>2. ASSUME NEW a, heard' = Append(heard, a)
      PROVE  /\ HeardOk'
             /\ \A O : HeardIn(O)' => HeardIn(O) /\ NextIn(O) /\ ~Beyond(O)
             /\ checked' = checked /\ SameAnswers' => SameAnswers /\ NextIn(checked.heard)
  <2>1. PICK S : heard \in Seq(S)
    BY DEF HeardOk
  <2>2. PICK n : n = Len(heard)
    OBVIOUS
  <2>3. n \in Nat /\ DOMAIN heard = 1..n
    BY <2>1, <2>2
  <2>4. /\ heard' \in Seq(S \cup {a}) /\ Len(heard') = n + 1
        /\ \A k \in 1..(n + 1) : heard'[k] = IF k = n + 1 THEN a ELSE heard[k]
    BY <1>2, <2>1, <2>2, AppendIs
  <2>5. HeardOk'
    BY <2>4 DEF HeardOk
  <2>6. ASSUME NEW O, HeardIn(O)' PROVE HeardIn(O) /\ NextIn(O) /\ ~Beyond(O)
    <3>1. \A k \in 1..(n + 1) : k \in DOMAIN O /\ heard'[k] = O[k]
      BY <2>4, <2>6 DEF HeardIn
    <3>2. HeardIn(O)
      BY <2>2, <2>3, <2>4, <3>1 DEF HeardIn
    <3>3. n + 1 \in 1..(n + 1)
      BY <2>3
    <3> QED BY <2>4, <3>1, <3>2, <3>3 DEF NextIn, Beyond
  <2>7. ASSUME checked' = checked, SameAnswers' PROVE SameAnswers /\ NextIn(checked.heard)
    <3>1. DOMAIN heard' = 1..(n + 1)
      BY <2>4
    <3>2. \A k \in 1..(n + 1) : k \in DOMAIN checked.heard => heard'[k] = checked.heard[k]
      BY <2>7, <3>1 DEF SameAnswers
    <3>3. SameAnswers
      BY <2>3, <2>4, <3>2 DEF SameAnswers
    <3>4. n + 1 \in 1..(n + 1)
      BY <2>3
    <3> QED BY <2>4, <3>2, <3>3, <3>4 DEF NextIn, Beyond
  <2> QED BY <2>5, <2>6, <2>7
<1> QED BY <1>1, <1>2 DEF HeardOn

\* What was heard stays a sequence.
LEMMA HeardNext ==
    ASSUME HeardOk, [Next]_vars, BindStep => HeardOn
    PROVE  HeardOk'
<1>1. <<>> \in Seq({})
  OBVIOUS
<1>2. heard' \in {heard, <<>>} => HeardOk'
  BY <1>1 DEF HeardOk
<1>3. CASE Bind
  BY <1>3, HeardMore DEF Bind
<1>4. CASE Invoke \/ DispatchTrial \/ DispatchAccepts \/ TrialPasses
  BY <1>2, <1>4 DEF Invoke, DispatchTrial, DispatchAccepts, TrialPasses, InvokeChecked, Enter
<1>5. CASE ProgramCalls \/ DispatchRejects \/ TrialFails \/ RunBody \/ ThreadCall \/ BindThrows
           \/ BindCrashes \/ Return
  BY <1>2, <1>5 DEF ProgramCalls, Call, DispatchRejects, TrialFails, RunBody, ThreadCall, BindThrows,
                    BindCrashes, Return, Verdictless, binder
<1>6. CASE UNCHANGED vars
  BY <1>2, <1>6 DEF vars, binder
<1> QED BY <1>3, <1>4, <1>5, <1>6 DEF Next, Progress

\* A step of the binder is one of these, and stays inside the callee.
LEMMA StepGoes ==
    ASSUME VarInv, HeardOk, SigsIn, bound = Running, BindStep
    PROVE  /\ \A O : NextIn(O) =>
                 \/ Gets(O)
                 \/ bound' \in Verdicts \ {"ok"} /\ Nowhere(O)
                 \/ Top.noNom # FALSE /\ Nowhere(O)
                 \/ Beyond(O) /\ Nowhere(O)
           /\ HeardOn
           /\ bound' \in Verdicts => frames' = <<>>
           /\ bound' \notin Verdicts =>
                 /\ bound' = Running
                 /\ \A k \in 1..Len(frames') :
                       /\ frames'[k].sig \in Sigs /\ frames'[k].sig \in Inside[fn]
                       /\ Lenient => frames'[k].noNom = FALSE
<1> DEFINE f == Bare(Top)
<1>1. PICK S : frames \in Seq(S)
  BY TopIs
<1>2. /\ frames # <<>> /\ DOMAIN Top = Fields /\ Len(frames) \in 1..Len(frames)
      /\ Top.sig \in Sigs /\ Top.sig \in Inside[fn] /\ Top.i \in Nat \ {0} /\ fn \in Sigs
  BY TopIs
<1>3. f.sig \in Sigs /\ f.i \in Nat \ {0}
  BY <1>2, BareHas
<1>4. /\ \A v, g, w, k : Takes(f, v, g) /\ Takes(f, w, k) => (Defaults(f) \/ v = w) /\ g = k
      /\ \A v, g, k, n : ~(Takes(f, v, g) /\ Skips(f, lex, k, n))
      /\ \A v, g : Takes(f, v, g) => ~Ends(f) /\ ~Stuck(f)
      /\ \A g, m : Skips(f, lex, g, m) => ~Ends(f) /\ ~Stuck(f)
      /\ Ends(f) => ~Stuck(f)
  <2> HIDE DEF f
  <2> QED BY <1>3, OneWay
<1>5. Bares(frames) # <<>> /\ Bares(frames)[Len(Bares(frames))] = f
  BY <1>1, <1>2, BaresOf DEF Top
<1>6. \A g : Replace(g) = OnTop(frames, g)
  BY DEF Replace, OnTop
<1>a. PICK q : q = Len(heard)
  OBVIOUS
<1>b. /\ q \in Nat
      /\ \A a : /\ Len(Append(heard, a)) = q + 1 /\ Append(heard, a)[q + 1] = a
                /\ Append(heard, a) # heard
  <2>1. PICK A : heard \in Seq(A)
    BY DEF HeardOk
  <2>2. q \in Nat
    BY <1>a, <2>1
  <2>3. ASSUME NEW a
        PROVE  Len(Append(heard, a)) = q + 1 /\ Append(heard, a)[q + 1] = a /\ Append(heard, a) # heard
    <3>1. /\ Len(Append(heard, a)) = q + 1
          /\ \A k \in 1..(q + 1) : Append(heard, a)[k] = IF k = q + 1 THEN a ELSE heard[k]
      BY <1>a, <2>1, AppendIs
    <3>2. q + 1 \in 1..(q + 1) /\ q + 1 # q
      BY <2>2
    <3> QED BY <1>a, <3>1, <3>2
  <2> QED BY <2>2, <2>3
<1>7. ASSUME NEW O, NEW d
      PROVE  Goes(O, Bares(frames), lex, tvars, Len(heard), d) <=>
               \/ \E v, g : /\ Takes(f, v, g) /\ q + 1 \in DOMAIN O
                            /\ Defaults(f) => v = O[q + 1].default
                            /\ Checks(ParamOf(f), v, O[q + 1], lex, tvars)
                            /\ ~Stops(ParamOf(f), v, O[q + 1])
                            /\ d = <<Pushed(Bares(frames), ParamOf(f), v, O[q + 1], g),
                                     LexAfter(ParamOf(f), v, O[q + 1], lex),
                                     TvarsAfter(ParamOf(f), v, tvars), q + 1>>
               \/ \E g, m : Skips(f, lex, g, m) /\ d = <<OnTop(Bares(frames), g), m, tvars, q>>
               \/ Ends(f) /\ d = <<SubSeq(Bares(frames), 1, Len(Bares(frames)) - 1), lex, tvars, q>>
  <2> HIDE DEF f
  <2> QED BY <1>5, <1>a, Zenon DEF Goes
<1>8. \A k \in 1..Len(frames) : /\ frames[k].sig \in Sigs /\ frames[k].sig \in Inside[fn]
                                /\ Lenient => frames[k].noNom = FALSE
  BY DEF SigsIn, Lenient
<1>9. Lenient => Top.noNom = FALSE
  BY <1>2 DEF Lenient, Top
<1>10. Len(Bares(frames)) = Len(frames)
  BY <1>1, <1>2, BaresOf
<1> HIDE DEF f
<1>11. CASE Fails(Top)
  <2>1. Stuck(f) /\ frames' = <<>> /\ bound' = "fail" /\ heard' = heard
    BY <1>11 DEF Fails, f
  <2>2. \A O : Nowhere(O)
    BY <1>4, <1>7, <2>1 DEF Nowhere
  <2> QED BY <2>1, <2>2 DEF Verdicts, HeardOn
<1>12. CASE Leaves(Top)
  <2>1. /\ Ends(f) /\ frames' = SubSeq(frames, 1, Len(frames) - 1) /\ lex' = lex /\ tvars' = tvars
        /\ bound' = (IF Len(frames) = 1 THEN "ok" ELSE Running) /\ heard' = heard
    BY <1>12 DEF Leaves, f
  <2>2. Bares(frames') = SubSeq(Bares(frames), 1, Len(Bares(frames)) - 1)
    BY <1>1, <1>2, <1>10, <2>1, BaresOf
  <2>3. Here' = <<SubSeq(Bares(frames), 1, Len(Bares(frames)) - 1), lex, tvars, q>>
    BY <1>a, <2>1, <2>2 DEF Here, Bares
  <2>4. frames' = <<>> <=> Len(frames) = 1
    BY <1>1, <1>2, <2>1, OnPopped
  <2>5. \A O : Gets(O)
    BY <1>7, <2>1, <2>3, <2>4 DEF Gets
  <2>6. OnlyFrom(frames', frames, {})
    BY <1>1, <1>2, <2>1, OnPopped
  <2> QED BY <1>8, <2>1, <2>4, <2>5, <2>6 DEF Verdicts, Running, OnlyFrom, HeardOn
<1>13. CASE Passes(Top)
  <2>1. PICK g, m : /\ Skips(f, lex, Bare(g), m) /\ Follow(Top, g)
                    /\ frames' = Replace(g) /\ lex' = m /\ UNCHANGED <<tvars, bound, heard>>
    BY <1>13 DEF Passes, f
  <2>2. frames' = OnTop(frames, g) /\ frames' # <<>>
    BY <1>1, <1>2, <1>6, <2>1, OnReplaced
  <2>3. Bares(frames') = OnTop(Bares(frames), Bare(g))
    BY <1>1, <1>2, <2>2, BaresOf
  <2>4. Here' = <<OnTop(Bares(frames), Bare(g)), m, tvars, q>>
    BY <1>a, <2>1, <2>3 DEF Here, Bares
  <2>5. \A O : Gets(O)
    BY <1>7, <2>1, <2>2, <2>4 DEF Gets
  <2>6. OnlyFrom(frames', frames, {g})
    BY <1>1, <1>2, <2>2, OnReplaced
  <2> QED BY <1>2, <1>8, <1>9, <2>1, <2>5, <2>6 DEF Verdicts, Running, Follow, OnlyFrom, HeardOn
<1>15. CASE Throws(Top)
  <2>1. /\ Defaults(f) /\ frames' = <<>> /\ bound' = "die"
        /\ heard' = Append(heard, [Unasked EXCEPT !.default = Thrown])
    BY <1>15 DEF Throws, f
  <2>2. PICK a : a = [Unasked EXCEPT !.default = Thrown]
    OBVIOUS
  <2>3. a.default = Thrown
    BY <2>2 DEF Unasked
  <2>4. Len(heard') = q + 1 /\ heard'[q + 1] = a /\ heard' # heard
    BY <1>b, <2>1, <2>2
  <2>5. /\ \E v, g : Takes(f, v, g)
        /\ \A v, g : Takes(f, v, g) => v \in Plain
    BY <1>3, <2>1, DefaultTakes DEF f
  <2>6. \A v, g : Takes(f, v, g) => v # Thrown
    BY <2>5, BinderAssumption
  <2>7. ASSUME NEW O, NextIn(O) PROVE Nowhere(O)
    <3>1. q + 1 \in DOMAIN O => O[q + 1] = a
      BY <2>4, <2>7 DEF NextIn, Beyond
    <3> QED BY <1>4, <1>7, <2>1, <2>3, <2>5, <2>6, <3>1 DEF Nowhere
  <2> QED BY <2>1, <2>7 DEF Verdicts, HeardOn
<1>14. CASE Binds(Top)
  <2>1. PICK v, d, g, nn : /\ Takes(f, v, Bare(g)) /\ Follow(Top, g) /\ nn \in {Top.noNom, FALSE}
                           /\ Defaults(f) => d = v
                           /\ OneParam(Param, v, d, nn, g)
    BY <1>14 DEF Binds, f
  <2> DEFINE p == Param
  <2>2. /\ p = ParamOf(f) /\ p \in Own(fn) \cup Nested(fn)
        /\ p.sub # None => p.sub \in Sigs /\ p.sub \in Inside[fn]
    BY <2>1, ParamIs DEF f
  <2>a. PICK a \in Answers(p, v, d, nn) :
            /\ heard' = Append(heard, a)
            /\ \/ Verdict(p, v, a, nn) = "ok" /\ Bound(p, v, a, nn, g)
               \/ Verdict(p, v, a, nn) # "ok" /\ frames' = <<>> /\ bound' = Verdict(p, v, a, nn)
    BY <2>1, Zenon DEF OneParam, Unwind
  <2>b. Defaults(f) => v = a.default
    <3>1. a.default = d
      BY <2>a, AnswerIs
    <3> QED BY <2>1, <3>1
  <2>c. Len(heard') = q + 1 /\ heard'[q + 1] = a /\ heard' # heard
    BY <1>b, <2>a
  <2>3. /\ Verdict(p, v, a, FALSE) = "ok" => Checks(p, v, a, lex, tvars)
        /\ Checks(p, v, a, lex, tvars) => Verdict(p, v, a, nn) = "ok"
    BY SameChecks
  <2> HIDE DEF p
  <2>d. ASSUME NEW O PROVE Beyond(O) => Nowhere(O)
    <3>1. Beyond(O) => q + 1 \notin DOMAIN O
      BY <2>c DEF Beyond
    <3> QED BY <1>4, <1>7, <2>1, <3>1 DEF Nowhere
  <2>e. ASSUME NEW O, NextIn(O), ~Beyond(O) PROVE q + 1 \in DOMAIN O /\ O[q + 1] = a
    BY <2>c, <2>e DEF NextIn, Beyond
  <2>5. ASSUME NEW O, NextIn(O), ~Checks(p, v, a, lex, tvars) \/ Stops(p, v, a) PROVE Nowhere(O)
    <3>1. CASE Beyond(O)
      BY <2>d, <3>1
    <3>2. CASE ~Beyond(O)
      <4>1. O[q + 1] = a
        BY <2>5, <2>e, <3>2
      <4>2. ASSUME NEW w, NEW k, Takes(f, w, k), Defaults(f) => w = a.default PROVE w = v
        BY <1>4, <2>1, <2>b, <4>2
      <4> QED BY <1>4, <1>7, <2>1, <2>2, <2>5, <4>1, <4>2 DEF Nowhere
    <3> QED BY <3>1, <3>2
  <2>6. CASE Verdict(p, v, a, nn) # "ok" /\ frames' = <<>> /\ bound' = Verdict(p, v, a, nn)
    <3>1. bound' \in Verdicts
      BY <2>6, VerdictType
    <3> QED BY <2>3, <2>5, <2>6, <2>a, <3>1 DEF HeardOn
  <2>8. CASE Verdict(p, v, a, nn) = "ok" /\ Bound(p, v, a, nn, g)
    <3>1. /\ lex' = LexAfter(p, v, a, lex) /\ tvars' = TvarsAfter(p, v, tvars)
          /\ Stops(p, v, a) => frames' = <<>> /\ bound' \in {"fail", "die"}
          /\ ~Stops(p, v, a) =>
                /\ bound' = bound
                /\ frames' = IF Recurses(p, v)
                             THEN Append(Replace(g), SubActivation(p, v, a, nn))
                             ELSE Replace(g)
      BY <2>8, BoundDoes
    <3>2. CASE Stops(p, v, a)
      BY <2>5, <2>a, <3>1, <3>2 DEF Verdicts, HeardOn
    <3>3. CASE ~Stops(p, v, a)
      <4> DEFINE h == SubActivation(p, v, a, nn)
      <4>1. h.sig = p.sub /\ h.noNom = nn
        BY SubActivationIs
      <4>0. Bare(h) = Bare(SubActivation(p, v, a, FALSE))
        BY SubActivationBare, Zenon
      <4> HIDE DEF h
      <4>2. frames' = IF Recurses(p, v) THEN Append(OnTop(frames, g), h) ELSE OnTop(frames, g)
        BY <1>6, <3>1, <3>3 DEF h
      <4>3. bound' = Running
        BY <3>1, <3>3
      <4>4. Bares(frames') = Pushed(Bares(frames), p, v, a, Bare(g))
        <5>1. /\ Bares(OnTop(frames, g)) = OnTop(Bares(frames), Bare(g))
              /\ Bares(Append(OnTop(frames, g), h)) = Append(OnTop(Bares(frames), Bare(g)), Bare(h))
          BY <1>1, <1>2, BaresOf
        <5> QED BY <4>0, <4>2, <5>1, Zenon DEF Pushed
      <4>5. Here' = <<Pushed(Bares(frames), p, v, a, Bare(g)), LexAfter(p, v, a, lex),
                      TvarsAfter(p, v, tvars), q + 1>>
        BY <2>c, <3>1, <4>4, Zenon DEF Here, Bares
      <4>6. /\ frames' # <<>>
            /\ OnlyFrom(frames', frames, IF Recurses(p, v) THEN {g, h} ELSE {g})
        BY <1>1, <1>2, <4>2, OnReplaced, OnPushed
      <4>7. Recurses(p, v) => h.sig \in Sigs /\ h.sig \in Inside[fn] /\ (Lenient => h.noNom = FALSE)
        BY <1>9, <2>1, <2>2, <4>1 DEF Recurses
      <4>8. g.sig \in Sigs /\ g.sig \in Inside[fn] /\ (Lenient => g.noNom = FALSE)
        BY <1>2, <1>9, <2>1 DEF Follow
      <4>9. \A k \in 1..Len(frames') : /\ frames'[k].sig \in Sigs /\ frames'[k].sig \in Inside[fn]
                                       /\ Lenient => frames'[k].noNom = FALSE
        BY <1>8, <4>6, <4>7, <4>8 DEF OnlyFrom
      <4>10. CASE Checks(p, v, a, lex, tvars)
        <5>1. ASSUME NEW O, NextIn(O), ~Beyond(O) PROVE Gets(O)
          <6>1. q + 1 \in DOMAIN O /\ O[q + 1] = a
            BY <2>e, <5>1
          <6>2. Goes(O, Bares(frames), lex, tvars, Len(heard), Here')
            BY <1>7, <2>1, <2>2, <2>b, <3>3, <4>5, <4>10, <6>1
          <6> QED BY <4>3, <4>6, <6>2 DEF Gets
        <5>2. \A O : NextIn(O) => Gets(O) \/ (Beyond(O) /\ Nowhere(O))
          BY <2>d, <5>1
        <5> QED BY <2>a, <4>3, <4>9, <5>2 DEF Verdicts, Running, HeardOn
      <4>11. CASE ~Checks(p, v, a, lex, tvars)
        <5>1. Top.noNom # FALSE /\ \A O : NextIn(O) => Nowhere(O)
          BY <2>1, <2>3, <2>5, <2>8, <4>11
        <5> QED BY <2>a, <4>3, <4>9, <5>1 DEF Verdicts, Running, HeardOn
      <4> QED BY <4>10, <4>11
    <3> QED BY <3>2, <3>3
  <2> QED BY <2>a, <2>6, <2>8
<1> QED BY <1>2, <1>11, <1>12, <1>13, <1>14, <1>15, StepIs

\* From the end of a bind it gets nowhere.
LEMMA AtEnd ==
    ASSUME NEW O, NEW l, NEW t, NEW n, NEW e, Reaches(O, <<<<>>, l, t, n>>, e)
    PROVE  e = <<<<>>, l, t, n>>
<1>1. Closed(O, {<<<<>>, l, t, n>>})
  <2> SUFFICES ASSUME NEW fs, NEW m, NEW u, NEW k, NEW d, <<fs, m, u, k>> = <<<<>>, l, t, n>>,
                      Goes(O, fs, m, u, k, d)
               PROVE  FALSE
    BY Zenon DEF Closed
  <2>1. fs = <<>>
    OBVIOUS
  <2> QED BY <2>1, Zenon DEF Goes
<1> QED BY <1>1, Zenon DEF Reaches

\* At the end there are no activations.
LEMMA NoBares == Bares(<<>>) = <<>>
BY DEF Bares

\* A bind that ended has nothing left to agree on but its verdict.
LEMMA Settled ==
    ASSUME VarInv', HeardOk', bound' \notin Verdicts \cup {Running}
    PROVE  AgreeInv'
BY DEF AgreeInv, TrialAgrees, Verdicts

\* A bind that starts is where its check started.
LEMMA Starts ==
    ASSUME NEW noNom, NEW check, Enter(fn, Now, noNom, check), UNCHANGED <<fn, todo>>, fn \in Sigs
    PROVE  /\ bound' = Running /\ Here' = Start /\ Start' = Start
           /\ SigsIn'
           /\ noNom = FALSE => Lenient'
<1> DEFINE a == Activation(fn, Now, noNom)
<1>1. a.sig = fn /\ a.noNom = noNom
  BY DEF Activation
<1>2. Bare(a) = Bare(Activation(fn, Now, FALSE))
  BY DEF Bare, Activation
<1>3. frames' = <<a>> /\ lex' = NoArgs /\ tvars' = NoArgs /\ bound' = Running /\ heard' = <<>>
  BY DEF Enter
<1>4. Start' = Start
  BY Zenon DEF Start, Now
<1> HIDE DEF a
<1>5. Len(frames') = 1 /\ frames'[1] = a /\ Len(heard') = 0
  BY <1>3
<1>6. Bares(frames') = <<Bare(a)>>
  <2>1. Bares(frames') = [k \in 1..1 |-> Bare(frames'[k])]
    BY <1>5 DEF Bares
  <2>2. [k \in 1..1 |-> Bare(frames'[k])] = <<Bare(a)>>
    BY <1>5
  <2> QED BY <2>1, <2>2
<1>7. Here' = Start
  <2>1. Here' = <<Bares(frames'), NoArgs, NoArgs, 0>>
    BY <1>3, <1>5 DEF Here, Bares
  <2> QED BY <1>2, <1>6, <2>1, Zenon DEF Start
<1>8. fn \in Inside[fn]
  BY CallAssumption
<1> QED BY <1>1, <1>3, <1>4, <1>5, <1>7, <1>8 DEF SigsIn, Lenient

\* A step of the binder takes the check further, and the bind after it along the
\* way the check went, as long as user code answers the same.
LEMMA BindAgrees ==
    ASSUME AgreeInv, Bind, VarInv'
    PROVE  AgreeInv'
<1>0. BindStep /\ UNCHANGED calls
  BY DEF Bind
<1>1. bound = Running
  BY <1>0 DEF BindStep, BindCapture, BindSlurpyNamed, BindSlurpy, BindPositional, BindDefault,
              MissingPositional, BindNamed, MissingNamed, EndOfParams, AtParam, Binding
<1>2. VarInv /\ SigsIn /\ HeardOk
  BY <1>1 DEF AgreeInv
<1>3. /\ \A O : NextIn(O) =>
            \/ Gets(O)
            \/ bound' \in Verdicts \ {"ok"} /\ Nowhere(O)
            \/ Top.noNom # FALSE /\ Nowhere(O)
            \/ Beyond(O) /\ Nowhere(O)
      /\ HeardOn
      /\ bound' \in Verdicts => frames' = <<>>
      /\ bound' \notin Verdicts =>
            /\ bound' = Running
            /\ \A k \in 1..Len(frames') :
                  /\ frames'[k].sig \in Sigs /\ frames'[k].sig \in Inside[fn]
                  /\ Lenient => frames'[k].noNom = FALSE
  BY <1>0, <1>1, <1>2, StepGoes
<1>4. mode' = mode /\ fn' = fn /\ todo' = todo /\ checked' = checked
  BY <1>0 DEF calls
<1>5. Start' = Start /\ \A t, n : Done(t, n)' = Done(t, n)
  BY <1>4, Zenon DEF Start, Done, Now
<1>6. bound' = Running => SigsIn'
  BY <1>3, <1>4 DEF SigsIn, Verdicts, Running
<1>12. /\ HeardOk'
       /\ \A O : HeardIn(O)' => HeardIn(O) /\ NextIn(O) /\ ~Beyond(O)
       /\ SameAnswers' => SameAnswers /\ NextIn(checked.heard)
  BY <1>2, <1>3, <1>4, HeardMore
<1>7. ASSUME mode = "trial"
      PROVE  /\ bound' = Running => Lenient'
             /\ bound' \in {Running, "ok"} => \A O : HeardIn(O)' => Reaches(O, Start, Here')
  <2>1. Lenient /\ \A O : HeardIn(O) => Reaches(O, Start, Here)
    BY <1>1, <1>7 DEF AgreeInv
  <2>2. Top.noNom = FALSE
    BY <1>1, <1>2, <2>1, TopIs DEF Lenient, Top
  <2>3. bound' = Running => Lenient'
    BY <1>3, <2>1 DEF Lenient, Verdicts, Running
  <2>4. ASSUME bound' \in {Running, "ok"}, NEW O, HeardIn(O)' PROVE Reaches(O, Start, Here')
    <3>0. HeardIn(O) /\ NextIn(O) /\ ~Beyond(O)
      BY <1>12, <2>4
    <3>1. Gets(O)
      BY <1>3, <2>2, <2>4, <3>0 DEF Verdicts, Running
    <3>2. /\ Goes(O, Bares(frames), lex, tvars, Len(heard), Here')
          /\ Reaches(O, Start, <<Bares(frames), lex, tvars, Len(heard)>>)
      BY <2>1, <3>0, <3>1 DEF Gets, Here
    <3>3. PICK c : c = Start
      OBVIOUS
    <3>4. PICK d : d = Here'
      OBVIOUS
    <3>5. PICK fs, l, t, n : fs = Bares(frames) /\ l = lex /\ t = tvars /\ n = Len(heard)
      OBVIOUS
    <3>6. Goes(O, fs, l, t, n, d) /\ Reaches(O, c, <<fs, l, t, n>>)
      BY <3>2, <3>3, <3>4, <3>5, Zenon
    <3>7. Reaches(O, c, d)
      BY <3>6, ReachesOn
    <3> QED BY <3>3, <3>4, <3>7, Zenon
  <2> QED BY <2>3, <2>4
<1>8. ASSUME mode = "final", checked.verdict = "ok", SameAnswers'
      PROVE  /\ bound' = Running => \E t, n : Reaches(checked.heard, Here', Done(t, n))
             /\ bound' \in Verdicts => bound' = "ok" /\ lex' = checked.lex
  <2>0. SameAnswers /\ NextIn(checked.heard)
    BY <1>8, <1>12
  <2>1. PICK u, x : Reaches(checked.heard, Here, Done(u, x))
    BY <1>1, <1>8, <2>0 DEF AgreeInv
  <2>2. PICK S : frames \in Seq(S)
    BY <1>1, <1>2, TopIs
  <2>3. /\ frames # <<>> /\ Len(frames) \in 1..Len(frames)
        /\ Top.sig \in Sigs /\ Top.i \in Nat \ {0}
    BY <1>1, <1>2, TopIs
  <2>4. PICK fs, l, t, n : fs = Bares(frames) /\ l = lex /\ t = tvars /\ n = Len(heard)
    OBVIOUS
  <2>5. /\ fs # <<>> /\ Len(fs) = Len(frames) /\ fs[Len(fs)] = Bare(Top)
    BY <2>2, <2>3, <2>4, BaresOf DEF Top
  <2>6. fs[Len(fs)].sig \in Sigs /\ fs[Len(fs)].i \in Nat \ {0}
    BY <2>3, <2>5, BareHas
  <2>7. PICK e, O : e = Done(u, x) /\ O = checked.heard
    OBVIOUS
  <2>8. Reaches(O, <<fs, l, t, n>>, e)
    BY <2>1, <2>4, <2>7, Zenon DEF Here
  <2>9. e # <<fs, l, t, n>>
    BY <2>5, <2>7 DEF Done
  <2>10. PICK d : Goes(O, fs, l, t, n, d) /\ Reaches(O, d, e)
    BY <2>6, <2>8, <2>9, ReachesVia
  <2>11. ~Nowhere(O)
    BY <2>4, <2>10, Zenon DEF Nowhere
  <2>12. Gets(O)
    <3>1. NextIn(O)
      BY <2>0, <2>7, Zenon
    <3> QED BY <1>3, <2>11, <3>1
  <2>13. PICK c : c = Here'
    OBVIOUS
  <2>14. Goes(O, fs, l, t, n, c)
    BY <2>4, <2>12, <2>13, Zenon DEF Gets
  <2>15. c = d
    BY <2>6, <2>10, <2>14, OneStep
  <2>16. Reaches(checked.heard, Here', Done(u, x))
    BY <2>7, <2>10, <2>13, <2>15, Zenon
  <2>17. ASSUME bound' = "ok" PROVE lex' = checked.lex
    <3>1. frames' = <<>>
      BY <1>3, <2>17 DEF Verdicts
    <3>2. Here' = <<<<>>, lex', tvars', Len(heard')>>
      <4>1. Bares(frames') = <<>>
        BY <3>1, NoBares
      <4> QED BY <4>1 DEF Here, Bares
    <3>3. PICK m, w, k : m = lex' /\ w = tvars' /\ k = Len(heard')
      OBVIOUS
    <3>4. Reaches(O, <<<<>>, m, w, k>>, e)
      BY <2>7, <2>16, <3>2, <3>3, Zenon
    <3>5. e = <<<<>>, m, w, k>>
      BY <3>4, AtEnd
    <3> QED BY <2>7, <3>3, <3>5 DEF Done
  <2>18. bound' \in {Running, "ok"}
    BY <2>12 DEF Gets
  <2> QED BY <2>16, <2>17, <2>18 DEF Verdicts, Running
<1>9. TrialAgrees'
  <2> SUFFICES ASSUME mode = "final", bound' \in Verdicts, checked.verdict = "ok", SameAnswers'
               PROVE  bound' = "ok" /\ lex' = checked.lex
    BY <1>4 DEF TrialAgrees
  <2> QED BY <1>8
<1>10. mode = "trial" => /\ bound' = Running => Lenient'
                         /\ bound' \in {Running, "ok"} =>
                               \A O : HeardIn(O)' => Reaches(O, Start', Here')
  BY <1>5, <1>7
<1>11. mode = "final" /\ checked.verdict = "ok" /\ bound' = Running /\ SameAnswers' =>
          \E t, n : Reaches(checked.heard, Here', Done(t, n)')
  BY <1>5, <1>8
<1> QED BY <1>3, <1>4, <1>6, <1>9, <1>10, <1>11, <1>12 DEF AgreeInv

\* Every step keeps the invariant.
LEMMA AgreeNext == AgreeInv /\ [Next]_vars => AgreeInv'
<1> SUFFICES ASSUME AgreeInv, [Next]_vars PROVE AgreeInv'
  OBVIOUS
<1>0. VarInv /\ VarInv'
  BY VarNext DEF AgreeInv
<1>h. HeardOk'
  <2>1. BindStep => bound = Running
    BY DEF BindStep, BindCapture, BindSlurpyNamed, BindSlurpy, BindPositional, BindDefault,
           MissingPositional, BindNamed, MissingNamed, EndOfParams, AtParam, Binding
  <2>2. BindStep => HeardOn
    BY <1>0, <2>1, StepGoes DEF AgreeInv
  <2> QED BY <2>2, HeardNext DEF AgreeInv
<1>1. CASE ProgramCalls
  BY <1>0, <1>1, <1>h, Settled DEF ProgramCalls, Call, VarInv, binder, Verdicts, Running, Idle
<1>2. CASE Invoke \/ DispatchAccepts
  <2>1. /\ \E nn \in BOOLEAN : Enter(fn, Now, nn, FALSE)
        /\ UNCHANGED <<fn, todo>> /\ fn \in Sigs /\ mode' = "final" /\ checked' = Unchecked
    BY <1>0, <1>2 DEF Invoke, DispatchAccepts, InvokeChecked, VarInv
  <2>2. bound' = Running /\ SigsIn'
    BY <2>1, Starts
  <2> QED BY <1>0, <1>h, <2>1, <2>2 DEF AgreeInv, TrialAgrees, Unchecked, Verdicts, Running
<1>3. CASE DispatchTrial
  <2>1. /\ Enter(fn, Now, FALSE, TRUE) /\ UNCHANGED <<fn, todo>> /\ fn \in Sigs /\ mode' = "trial"
    BY <1>0, <1>3 DEF DispatchTrial, VarInv
  <2>2. bound' = Running /\ SigsIn' /\ Lenient' /\ Here' = Start'
    BY <2>1, Starts
  <2>3. \A O : Reaches(O, Start', Here')
    BY <2>2, Zenon DEF Reaches
  <2> QED BY <1>0, <1>h, <2>1, <2>2, <2>3 DEF AgreeInv, TrialAgrees, Verdicts, Running
<1>4. CASE TrialPasses
  <2>1. /\ Enter(fn, Now, TRUE, FALSE) /\ UNCHANGED <<fn, todo>> /\ fn \in Sigs
        /\ mode = "trial" /\ mode' = "final" /\ bound \in {"ok", "junction"}
        /\ checked' = [verdict |-> bound, lex |-> lex, heard |-> heard]
    BY <1>0, <1>4 DEF TrialPasses, InvokeChecked, VarInv
  <2>2. bound' = Running /\ SigsIn' /\ Here' = Start
    BY <2>1, Starts
  <2>3. checked'.verdict = bound /\ checked'.lex = lex /\ checked'.heard = heard
    BY <2>1
  <2>4. ASSUME checked'.verdict = "ok"
        PROVE  \E t, n : Reaches(checked'.heard, Here', Done(t, n)')
    <3>1. frames = <<>> /\ \A O : HeardIn(O) => Reaches(O, Start, Here)
      BY <2>1, <2>3, <2>4 DEF AgreeInv, Verdicts
    <3>2. Here = <<<<>>, lex, tvars, Len(heard)>>
      BY <3>1, NoBares DEF Here
    <3>3. PICK t, n, O : t = tvars /\ n = Len(heard) /\ O = heard
      OBVIOUS
    <3>4. Done(t, n)' = <<<<>>, lex, t, n>>
      BY <2>3 DEF Done
    <3>5. Here = Done(t, n)'
      BY <3>2, <3>3, <3>4
    <3>6. HeardIn(O)
      BY <3>3 DEF HeardIn, AgreeInv, HeardOk
    <3>7. Reaches(O, Start, Here)
      BY <3>1, <3>6
    <3> QED BY <2>2, <2>3, <3>3, <3>5, <3>7
  <2> QED BY <1>0, <1>h, <2>1, <2>2, <2>4 DEF AgreeInv, TrialAgrees, Verdicts, Running
<1>5. CASE DispatchRejects
  BY <1>0, <1>5, <1>h, Settled DEF DispatchRejects, binder, VarInv, Verdicts, Running, Idle
<1>6. CASE Bind
  BY <1>0, <1>6, BindAgrees
<1>7. CASE TrialFails \/ RunBody \/ ThreadCall \/ BindThrows \/ BindCrashes \/ Return
  <2>1. bound' = Idle
    BY <1>0, <1>7 DEF TrialFails, RunBody, ThreadCall, BindThrows, BindCrashes, Return,
                      Verdictless, VarInv
  <2> QED BY <1>0, <1>h, <2>1, Settled DEF Verdicts, Running, Idle
<1>8. CASE UNCHANGED vars
  <2>1. /\ UNCHANGED <<frames, lex, tvars, bound, mode, fn, todo, checked, heard>>
    BY <1>8 DEF vars, binder, calls
  <2>2. /\ SigsIn' = SigsIn /\ Lenient' = Lenient /\ Here' = Here /\ Start' = Start
        /\ TrialAgrees' = TrialAgrees /\ SameAnswers' = SameAnswers
        /\ \A t, n : Done(t, n)' = Done(t, n)
        /\ \A O : HeardIn(O)' = HeardIn(O)
    BY <2>1, Zenon DEF SigsIn, Lenient, Here, Start, Now, TrialAgrees, SameAnswers, Done, Bares, HeardIn
  <2> QED BY <1>0, <1>h, <2>1, <2>2 DEF AgreeInv
<1> QED BY <1>1, <1>2, <1>3, <1>4, <1>5, <1>6, <1>7, <1>8 DEF Next, Progress

\* The bind that enters the body of a candidate ends as the bindability check that
\* chose it: with the same variables, whenever the code of the program it runs
\* answers it as it answered the check.  The types it does not look at again are
\* those the check found.
THEOREM CheckHolds == Spec => []TrialAgrees
<1>1. Init => AgreeInv
  <2> SUFFICES ASSUME Init PROVE AgreeInv
    OBVIOUS
  <2>1. bodies \in Seq({}) /\ BodyVarsBound
    BY DEF Init, BodyVarsBound
  <2>2. VarInv
    BY <2>1 DEF Init, VarInv, Running, Idle
  <2>3. <<>> \in Seq({})
    OBVIOUS
  <2>4. HeardOk
    BY <2>3 DEF HeardOk, Init
  <2> QED BY <2>2, <2>4 DEF AgreeInv, Init, TrialAgrees, Verdicts, Running, Idle
<1>2. AgreeInv => TrialAgrees
  BY DEF AgreeInv
<1> QED BY <1>1, <1>2, AgreeNext, PTL DEF Spec

-----------------------------------------------------------------------------
(* The argument lists a bind accepts: the walk of the binder over parameters *)
(* and arguments against what the signature declares.                        *)

\* Where the required positionals of s end, and where the optional ones do.
Required(s) == Cardinality(OfKind(s, {"pos"}))
Places(s)   == Cardinality(OfKind(s, {"pos", "opt"}))

\* The first numbers.
LEMMA FirstOnes ==
    ASSUME NEW n \in Nat, NEW S, S \subseteq 1..n, \A b \in S : \A a \in 1..b : a \in S
    PROVE  /\ Cardinality(S) \in 0..n
           /\ \A a \in 1..n : a \in S <=> a <= Cardinality(S)
<1>1. ASSUME NEW m \in Nat PROVE Cardinality(1..m) = m
  <2>1. Cardinality(1..m) = IF 1 > m THEN 0 ELSE m - 1 + 1
    BY FS_Interval
  <2> QED BY <2>1
<1>2. CASE S = {}
  BY <1>2, FS_EmptySet
<1>3. CASE S # {}
  <2>1. PICK m \in S : \A k \in S : k <= m
    <3>1. S \subseteq 0..n
      OBVIOUS
    <3> QED BY <1>3, <3>1, GreatestNumber
  <2>2. m \in 1..n /\ \A a : a \in S <=> a \in 1..m
    <3>1. m \in 1..n
      BY <2>1
    <3>2. ASSUME NEW a \in S PROVE a \in 1..m
      BY <2>1, <3>1, <3>2
    <3> QED BY <3>1, <3>2
  <2>3. S = 1..m
    BY <2>2
  <2> QED BY <1>1, <2>2, <2>3
<1> QED BY <1>2, <1>3

\* The required positionals come first, and the optional ones next.
LEMMA Zones ==
    ASSUME NEW s \in Sigs
    PROVE  /\ Len(Sig[s]) \in Nat /\ DOMAIN Sig[s] = 1..Len(Sig[s])
           /\ Required(s) \in Nat /\ Places(s) \in Nat
           /\ Required(s) <= Places(s) /\ Places(s) <= Len(Sig[s])
           /\ \A i \in DOMAIN Sig[s] : /\ Sig[s][i].kind = "pos" <=> i <= Required(s)
                                       /\ Sig[s][i].kind \in {"pos", "opt"} <=> i <= Places(s)
<1> DEFINE n == Len(Sig[s])
           A == OfKind(s, {"pos"})
           B == OfKind(s, {"pos", "opt"})
<1>1. n \in Nat /\ DOMAIN Sig[s] = 1..n
  BY BinderAssumption
<1>2. \A j, k \in 1..n : j < k => /\ Sig[s][k].kind = "pos" => Sig[s][j].kind = "pos"
                                  /\ Sig[s][k].kind = "opt" => Sig[s][j].kind \in {"pos", "opt"}
  BY <1>1, BinderAssumption
<1>3. /\ A \subseteq 1..n /\ \A k \in 1..n : k \in A <=> Sig[s][k].kind = "pos"
      /\ B \subseteq 1..n /\ \A k \in 1..n : k \in B <=> Sig[s][k].kind \in {"pos", "opt"}
  BY <1>1 DEF OfKind
<1> HIDE DEF A, B, n
<1>4. (\A b \in A : \A a \in 1..b : a \in A) /\ (\A b \in B : \A a \in 1..b : a \in B)
  <2>1. ASSUME NEW b \in A, NEW a \in 1..b PROVE a \in A
    <3>1. b \in 1..n /\ a \in 1..n /\ (a < b \/ a = b)
      BY <1>1, <1>3, <2>1
    <3> QED BY <1>2, <1>3, <2>1, <3>1
  <2>2. ASSUME NEW b \in B, NEW a \in 1..b PROVE a \in B
    <3>1. b \in 1..n /\ a \in 1..n /\ (a < b \/ a = b)
      BY <1>1, <1>3, <2>2
    <3> QED BY <1>2, <1>3, <2>2, <3>1
  <2> QED BY <2>1, <2>2
<1>5. /\ Cardinality(A) \in 0..n /\ \A a \in 1..n : a \in A <=> a <= Cardinality(A)
      /\ Cardinality(B) \in 0..n /\ \A a \in 1..n : a \in B <=> a <= Cardinality(B)
  BY <1>1, <1>3, <1>4, FirstOnes
<1>6. Cardinality(A) = Required(s) /\ Cardinality(B) = Places(s)
  BY DEF Required, Places, A, B
<1>7. Required(s) <= Places(s)
  <2> SUFFICES ASSUME Required(s) > 0 PROVE Required(s) <= Places(s)
    BY <1>1, <1>5, <1>6
  <2>1. Required(s) \in 1..n /\ Required(s) \in A
    BY <1>1, <1>5, <1>6
  <2> QED BY <1>3, <1>5, <1>6, <2>1
<1> QED BY <1>1, <1>3, <1>5, <1>6, <1>7 DEF n

\* Activation f is past a parameter of one of the kinds.
Gone(f, kinds) == \E j \in 1..(f.i - 1) : Sig[f.sig][j].kind \in kinds

\* The names that the first i - 1 parameters of s are bound by.
Claimed(s, i, passed) ==
    UNION {TakenBy(Sig[s][k], passed) : k \in {k \in OfKind(s, {"named", "namedopt"}) : k < i}}

Least(a, b) == IF a <= b THEN a ELSE b
CurOf(f) ==
    1 + IF Gone(f, {"slurpy", "lol"}) THEN Len(f.args)
        ELSE Least(Least(f.i - 1, Places(f.sig)), Len(f.args))

\* The names left at f.
Unclaimed(f, passed) ==
    IF Gone(f, {"slurpynamed", "methodslurpy"}) THEN {}
    ELSE passed \ Claimed(f.sig, f.i, passed)

\* The parameters that f is past have taken of the positionals what the signature
\* says, ...
Counts(f) ==
    /\ f.i \in 1..(Len(Sig[f.sig]) + 1)
    /\ f.i - 1 <= Len(f.args) \/ Required(f.sig) <= Len(f.args)
    /\ f.cur = CurOf(f)

\* ... and of the names passed.
Aligned(f, passed) ==
    /\ Counts(f)
    /\ f.suppress <=> Loose(f.sig, f.i)
    /\ f.sealed <=> f.i > Len(Sig[f.sig]) /\ EndsInCapture(f.sig)
    /\ DOMAIN f.named = Unclaimed(f, passed)
    /\ \A k \in OfKind(f.sig, {"named"}) :
          k < f.i => Loose(f.sig, k) \/ Range(Sig[f.sig][k].names) \cap passed # {}

\* Two named parameters share no name, and no required one follows a slurpy.
Orderly ==
    \A s \in Sigs :
       /\ \A a, b \in OfKind(s, {"named", "namedopt"}) :
             a # b => Range(Sig[s][a].names) \cap Range(Sig[s][b].names) = {}
       /\ \A a \in OfKind(s, {"slurpynamed", "methodslurpy"}), b \in OfKind(s, {"named"}) : b < a

\* f goes on as g, past its parameter p.
GoesOn(f, g) ==
    LET p == ParamOf(f)
    IN  /\ f.i <= Len(Sig[f.sig])
        /\ g.sig = f.sig /\ g.i = f.i + 1 /\ g.args = f.args
        /\ g.cur = IF p.kind \in {"slurpy", "lol"} THEN Len(f.args) + 1
                   ELSE IF p.kind \in {"pos", "opt"} /\ More(f) THEN f.cur + 1 ELSE f.cur
        /\ p.kind = "pos" => More(f)
        /\ p.kind = "named" => PassedTo(f) \/ f.suppress
        /\ g.suppress = IF p.kind = "capture" THEN Lifts(f) ELSE f.suppress
        /\ g.sealed = IF p.kind = "capture" THEN Last(f) ELSE f.sealed
        /\ \/ p.kind \in {"slurpynamed", "methodslurpy"} /\ DOMAIN g.named = {}
           \/ /\ p.kind \in {"named", "namedopt"} /\ PassedTo(f)
              /\ \E n : FirstAlias(p, f.named, n) /\ DOMAIN g.named = DOMAIN f.named \ {n}
           \/ p.kind \notin {"slurpynamed", "methodslurpy", "named", "namedopt"} /\ g.named = f.named
           \/ p.kind \in {"named", "namedopt"} /\ ~PassedTo(f) /\ g.named = f.named

\* So it does whether it binds its parameter or not.
LEMMA TakesOn ==
    ASSUME NEW f, NEW g, \/ \E v : Takes(f, v, g)
                         \/ \E l, m : Skips(f, l, g, m)
    PROVE  GoesOn(f, g)
<1>1. \A c, h, u, e : /\ On(f, c, h, u, e).sig = f.sig /\ On(f, c, h, u, e).i = f.i + 1
                      /\ On(f, c, h, u, e).args = f.args /\ On(f, c, h, u, e).cur = c
                      /\ On(f, c, h, u, e).named = h /\ On(f, c, h, u, e).suppress = u
                      /\ On(f, c, h, u, e).sealed = e
  BY DEF On
<1>2. DOMAIN NoArgs = {} /\ \A h, n : DOMAIN Without(h, n) = DOMAIN h \ {n}
  BY DEF NoArgs, Without
<1> DEFINE p == ParamOf(f)
           within == f.i <= Len(Sig[f.sig])
<1>3. /\ \A kinds : At(f, kinds) <=> within /\ p.kind \in kinds
      /\ GoesOn(f, g) <=>
            /\ within /\ g.sig = f.sig /\ g.i = f.i + 1 /\ g.args = f.args
            /\ g.cur = IF p.kind \in {"slurpy", "lol"} THEN Len(f.args) + 1
                       ELSE IF p.kind \in {"pos", "opt"} /\ More(f) THEN f.cur + 1 ELSE f.cur
            /\ p.kind = "pos" => More(f)
            /\ p.kind = "named" => PassedTo(f) \/ f.suppress
            /\ g.suppress = IF p.kind = "capture" THEN Lifts(f) ELSE f.suppress
            /\ g.sealed = IF p.kind = "capture" THEN Last(f) ELSE f.sealed
            /\ \/ p.kind \in {"slurpynamed", "methodslurpy"} /\ DOMAIN g.named = {}
               \/ /\ p.kind \in {"named", "namedopt"} /\ PassedTo(f)
                  /\ \E n : FirstAlias(p, f.named, n) /\ DOMAIN g.named = DOMAIN f.named \ {n}
               \/ /\ p.kind \notin {"slurpynamed", "methodslurpy", "named", "namedopt"}
                  /\ g.named = f.named
               \/ p.kind \in {"named", "namedopt"} /\ ~PassedTo(f) /\ g.named = f.named
  BY Zenon DEF At, GoesOn
<1>4. \/ /\ At(f, {"capture"}) /\ g = On(f, f.cur, f.named, Lifts(f), Last(f))
      \/ /\ At(f, {"slurpynamed", "methodslurpy"})
         /\ g = On(f, f.cur, NoArgs, f.suppress, f.sealed)
      \/ /\ At(f, {"slurpy", "lol"})
         /\ g = On(f, Len(f.args) + 1, f.named, f.suppress, f.sealed)
      \/ /\ At(f, {"pos", "opt"}) /\ More(f)
         /\ g = On(f, f.cur + 1, f.named, f.suppress, f.sealed)
      \/ /\ At(f, {"opt"}) /\ ~More(f)
         /\ g = On(f, f.cur, f.named, f.suppress, f.sealed)
      \/ /\ At(f, {"namedopt"}) /\ ~PassedTo(f)
         /\ g = On(f, f.cur, f.named, f.suppress, f.sealed)
      \/ /\ At(f, {"named"}) /\ ~PassedTo(f) /\ f.suppress
         /\ g = On(f, f.cur, f.named, f.suppress, f.sealed)
      \/ /\ At(f, {"named", "namedopt"}) /\ PassedTo(f)
         /\ \E n : /\ FirstAlias(p, f.named, n)
                   /\ g = On(f, f.cur, Without(f.named, n), f.suppress, f.sealed)
  <2>1. /\ At(f, {"slurpynamed"}) => At(f, {"slurpynamed", "methodslurpy"})
        /\ At(f, {"methodslurpy"}) => At(f, {"slurpynamed", "methodslurpy"})
    BY DEF At
  <2> QED BY <2>1, Zenon DEF Takes, Defaults, Skips
<1> HIDE DEF p, within
<1>5. ASSUME At(f, {"capture"}), g = On(f, f.cur, f.named, Lifts(f), Last(f)) PROVE GoesOn(f, g)
  BY <1>1, <1>3, <1>5
<1>6. ASSUME At(f, {"slurpynamed", "methodslurpy"}), g = On(f, f.cur, NoArgs, f.suppress, f.sealed)
      PROVE  GoesOn(f, g)
  BY <1>1, <1>2, <1>3, <1>6
<1>7. ASSUME At(f, {"slurpy", "lol"}), g = On(f, Len(f.args) + 1, f.named, f.suppress, f.sealed)
      PROVE  GoesOn(f, g)
  BY <1>1, <1>3, <1>7
<1>8. ASSUME At(f, {"pos", "opt"}), More(f), g = On(f, f.cur + 1, f.named, f.suppress, f.sealed)
      PROVE  GoesOn(f, g)
  BY <1>1, <1>3, <1>8
<1>9. ASSUME \/ At(f, {"opt"}) /\ ~More(f)
             \/ At(f, {"namedopt"}) /\ ~PassedTo(f)
             \/ At(f, {"named"}) /\ ~PassedTo(f) /\ f.suppress,
             g = On(f, f.cur, f.named, f.suppress, f.sealed)
      PROVE  GoesOn(f, g)
  BY <1>1, <1>3, <1>9
<1>10. ASSUME At(f, {"named", "namedopt"}), PassedTo(f), NEW n, FirstAlias(p, f.named, n),
              g = On(f, f.cur, Without(f.named, n), f.suppress, f.sealed)
       PROVE  GoesOn(f, g)
  <2>1. PICK h : h = Without(f.named, n)
    OBVIOUS
  <2>2. DOMAIN h = DOMAIN f.named \ {n} /\ g = On(f, f.cur, h, f.suppress, f.sealed)
    BY <1>2, <1>10, <2>1, Zenon
  <2>3. DOMAIN g.named = DOMAIN f.named \ {n}
    BY <1>1, <2>2
  <2>4. /\ within /\ p.kind \in {"named", "namedopt"}
        /\ g.sig = f.sig /\ g.i = f.i + 1 /\ g.args = f.args
        /\ g.cur = f.cur /\ g.suppress = f.suppress /\ g.sealed = f.sealed
    BY <1>1, <1>3, <1>10, <2>2
  <2> QED BY <1>3, <1>10, <2>3, <2>4
<1> QED BY <1>4, <1>5, <1>6, <1>7, <1>8, <1>9, <1>10

\* What f is past, one parameter later: parameters of some kind, captures that
\* lift the arity checks, names.
LEMMA GoneOn ==
    ASSUME NEW f, NEW g, f.i \in Nat \ {0}, g.i = f.i + 1, g.sig = f.sig, NEW kinds
    PROVE  Gone(g, kinds) <=> Gone(f, kinds) \/ ParamOf(f).kind \in kinds
<1>1. 1..(g.i - 1) = 1..(f.i - 1) \cup {f.i}
  BY SMT
<1> QED BY <1>1 DEF Gone, ParamOf

\* A parameter lifts the arity checks for those after it, or leaves them as they are.
LEMMA LooseOn ==
    ASSUME NEW s \in Sigs, NEW i \in DOMAIN Sig[s]
    PROVE  Loose(s, i + 1) <=>
              \/ Loose(s, i)
              \/ /\ i < Len(Sig[s]) /\ Sig[s][i].kind = "capture"
                 /\ Sig[s][i + 1].kind \in {"slurpy", "slurpynamed", "methodslurpy"}
<1>1. i \in Nat \ {0}
  BY Zones
<1>2. 1..(i + 1 - 1) = 1..(i - 1) \cup {i}
  BY <1>1
<1> QED BY <1>2 DEF Loose

\* A named parameter claims the name it takes, and nothing else claims one.
LEMMA ClaimedOn ==
    ASSUME NEW s \in Sigs, NEW i \in DOMAIN Sig[s], NEW passed
    PROVE  Claimed(s, i + 1, passed) =
              Claimed(s, i, passed)
              \cup (IF Sig[s][i].kind \in {"named", "namedopt"} THEN TakenBy(Sig[s][i], passed) ELSE {})
<1> DEFINE all == OfKind(s, {"named", "namedopt"})
           new == IF Sig[s][i].kind \in {"named", "namedopt"} THEN TakenBy(Sig[s][i], passed) ELSE {}
<1>1. i \in Nat \ {0} /\ all \subseteq Nat
  BY Zones DEF OfKind
<1>2. i \in all <=> Sig[s][i].kind \in {"named", "namedopt"}
  BY DEF OfKind
<1>3. \A k \in all : k < i + 1 <=> k < i \/ k = i
  BY <1>1
<1>4. \A m, n : m \in Claimed(s, n, passed) <=>
                 \E k \in all : k < n /\ m \in TakenBy(Sig[s][k], passed)
  BY DEF Claimed
<1> HIDE DEF all
<1>5. ASSUME NEW m
      PROVE  m \in Claimed(s, i + 1, passed) <=> m \in Claimed(s, i, passed) \/ m \in new
  <2>1. m \in new <=> i \in all /\ m \in TakenBy(Sig[s][i], passed)
    BY <1>2
  <2>2. m \in Claimed(s, i + 1, passed) <=>
           \E k \in all : k < i + 1 /\ m \in TakenBy(Sig[s][k], passed)
    BY <1>4
  <2>3. m \in Claimed(s, i, passed) <=>
           \E k \in all : k < i /\ m \in TakenBy(Sig[s][k], passed)
    BY <1>4
  <2> QED BY <1>3, <2>1, <2>2, <2>3, Zenon
<1> HIDE DEF new
<1>6. Claimed(s, i + 1, passed) = Claimed(s, i, passed) \cup new
  BY <1>5
<1> QED BY <1>6 DEF new

\* The names p is bound by are its own, and were passed.
LEMMA TakenType ==
    ASSUME NEW p, NEW passed
    PROVE  TakenBy(p, passed) \subseteq Range(p.names) \cap passed
BY DEF TakenBy, Range

\* There is at most one: the first alias of p that was passed.
LEMMA TakenIs ==
    ASSUME NEW p, p.names \in Seq(Names), NEW passed, NEW h,
           \A m \in Range(p.names) : m \in DOMAIN h <=> m \in passed
    PROVE  /\ Range(p.names) \cap passed = {} => TakenBy(p, passed) = {}
           /\ \A n : FirstAlias(p, h, n) => TakenBy(p, passed) = {n}
<1>1. \A j \in DOMAIN p.names : p.names[j] \in DOMAIN h <=> p.names[j] \in passed
  BY DEF Range
<1>2. Range(p.names) \cap passed = {} => TakenBy(p, passed) = {}
  BY TakenType
<1>3. ASSUME NEW n, FirstAlias(p, h, n) PROVE TakenBy(p, passed) = {n}
  <2>1. PICK a \in DOMAIN p.names : /\ n = p.names[a] /\ n \in passed
                                    /\ \A j \in 1..(a - 1) : p.names[j] \notin passed
    BY <1>1, <1>3 DEF FirstAlias
  <2>2. n \in TakenBy(p, passed)
    BY <2>1 DEF TakenBy
  <2>3. ASSUME NEW m \in TakenBy(p, passed) PROVE m = n
    <3>1. PICK b \in DOMAIN p.names : /\ m = p.names[b] /\ m \in passed
                                      /\ \A j \in 1..(b - 1) : p.names[j] \notin passed
      BY <2>3 DEF TakenBy
    <3>2. a \in Nat \ {0} /\ b \in Nat \ {0}
      OBVIOUS
    <3>3. ~(a < b) /\ ~(b < a)
      BY <2>1, <3>1, <3>2
    <3> QED BY <2>1, <3>1, <3>2, <3>3
  <2> QED BY <2>2, <2>3
<1> QED BY <1>2, <1>3

\* Of the names of parameter i, those that are left are those that were passed.
LEMMA Unshared ==
    ASSUME Orderly, NEW s \in Sigs, NEW i \in OfKind(s, {"named", "namedopt"}), NEW passed,
           NEW m \in Range(Sig[s][i].names)
    PROVE  m \notin Claimed(s, i, passed)
<1> SUFFICES ASSUME m \in Claimed(s, i, passed) PROVE FALSE
  OBVIOUS
<1>1. PICK k \in OfKind(s, {"named", "namedopt"}) : k < i /\ m \in TakenBy(Sig[s][k], passed)
  BY DEF Claimed
<1>2. m \in Range(Sig[s][k].names)
  BY <1>1, TakenType
<1>3. k # i
  BY <1>1, Zones DEF OfKind
<1> QED BY <1>2, <1>3 DEF Orderly

\* The next parameter takes what the signature says as well, of the positionals ...
LEMMA CountsOn ==
    ASSUME NEW f, f.sig \in Sigs, Len(f.args) \in Nat, Counts(f), NEW g, GoesOn(f, g)
    PROVE  Counts(g)
<1> DEFINE s == f.sig
           i == f.i
           p == ParamOf(f)
           n == Len(f.args)
<1>1. i \in DOMAIN Sig[s] /\ i \in Nat \ {0} /\ p = Sig[s][i]
  BY Zones DEF Counts, GoesOn, ParamOf
<1>2. g.sig = s /\ g.i = i + 1 /\ g.args = f.args
  BY DEF GoesOn
<1>3. \A kinds : Gone(g, kinds) <=> Gone(f, kinds) \/ p.kind \in kinds
  BY <1>1, <1>2, GoneOn
<1>4. /\ i <= Len(Sig[s]) /\ Len(Sig[s]) \in Nat /\ DOMAIN Sig[s] = 1..Len(Sig[s])
      /\ Required(s) \in Nat /\ Places(s) \in Nat /\ Required(s) <= Places(s) /\ Places(s) <= Len(Sig[s])
      /\ p.kind = "pos" <=> i <= Required(s)
      /\ p.kind \in {"pos", "opt"} <=> i <= Places(s)
  BY <1>1, Zones
<1>5. g.i \in 1..(Len(Sig[s]) + 1)
  BY <1>1, <1>2, <1>4
<1>6. /\ f.cur = CurOf(f) /\ (i - 1 <= n \/ Required(s) <= n)
  BY DEF Counts
<1>7. p.kind \in {"pos", "opt"} => ~Gone(f, {"slurpy", "lol"})
  <2> SUFFICES ASSUME p.kind \in {"pos", "opt"}, NEW j \in 1..(i - 1), Sig[s][j].kind \in {"slurpy", "lol"}
               PROVE  FALSE
    BY DEF Gone
  <2>1. j \in DOMAIN Sig[s] /\ j < i
    BY <1>1, <1>4
  <2>2. Sig[s][j].kind \in {"pos", "opt"}
    BY <1>1, <2>1, Zones
  <2> QED BY <2>2
<1>8. (g.i - 1 <= n \/ Required(s) <= n) /\ g.cur = CurOf(g)
  <2>1. /\ g.cur = IF p.kind \in {"slurpy", "lol"} THEN n + 1
                   ELSE IF p.kind \in {"pos", "opt"} /\ More(f) THEN f.cur + 1 ELSE f.cur
        /\ p.kind = "pos" => More(f)
    BY Zenon DEF GoesOn
  <2>2. More(f) <=> f.cur <= n
    BY DEF More
  <2>3. CurOf(g) = 1 + IF Gone(g, {"slurpy", "lol"}) THEN n ELSE Least(Least(i, Places(s)), n)
    BY <1>1, <1>2 DEF CurOf
  <2>4. f.cur = 1 + IF Gone(f, {"slurpy", "lol"}) THEN n ELSE Least(Least(i - 1, Places(s)), n)
    BY <1>6 DEF CurOf
  <2>5. Gone(g, {"slurpy", "lol"}) <=> Gone(f, {"slurpy", "lol"}) \/ p.kind \in {"slurpy", "lol"}
    BY <1>3
  <2>6. CASE p.kind = "pos"
    <3>1. f.cur <= n /\ g.cur = f.cur + 1 /\ i <= Required(s)
      BY <1>4, <2>1, <2>2, <2>6
    <3>2. ~Gone(g, {"slurpy", "lol"}) /\ ~Gone(f, {"slurpy", "lol"})
      BY <1>7, <2>5, <2>6
    <3> QED BY <1>1, <1>2, <1>4, <2>3, <2>4, <3>1, <3>2 DEF Least
  <2>7. CASE p.kind = "opt"
    <3>1. i > Required(s) /\ i <= Places(s) /\ Required(s) <= n
      BY <1>1, <1>4, <1>6, <2>7
    <3>2. ~Gone(g, {"slurpy", "lol"}) /\ ~Gone(f, {"slurpy", "lol"})
      BY <1>7, <2>5, <2>7
    <3>3. g.cur = IF f.cur <= n THEN f.cur + 1 ELSE f.cur
      BY <2>1, <2>2, <2>7
    <3> QED BY <1>1, <1>2, <1>4, <2>3, <2>4, <3>1, <3>2, <3>3 DEF Least
  <2>8. CASE p.kind \notin {"pos", "opt"}
    <3>1. i > Required(s) /\ i > Places(s) /\ Required(s) <= n
      BY <1>1, <1>4, <1>6, <2>8
    <3>2. g.cur = IF p.kind \in {"slurpy", "lol"} THEN n + 1 ELSE f.cur
      BY <2>1, <2>8
    <3> QED BY <1>1, <1>2, <1>4, <2>3, <2>4, <2>5, <3>1, <3>2 DEF Least
  <2> QED BY <2>6, <2>7, <2>8
<1> QED BY <1>2, <1>5, <1>8 DEF Counts

\* ... and of the names.
LEMMA AlignedOn ==
    ASSUME Orderly, NEW f, f.sig \in Sigs, Len(f.args) \in Nat, NEW passed, Aligned(f, passed),
           NEW g, GoesOn(f, g)
    PROVE  Aligned(g, passed)
<1> DEFINE s == f.sig
           i == f.i
           p == ParamOf(f)
           n == Len(f.args)
<1>1. /\ i \in DOMAIN Sig[s] /\ i \in Nat \ {0} /\ p = Sig[s][i] /\ p.names \in Seq(Names)
      /\ p.kind \in Kinds
  <2>1. i \in DOMAIN Sig[s] /\ i \in Nat \ {0}
    BY Zones DEF Aligned, Counts, GoesOn
  <2>2. Sig[s] \in Seq(Parameters)
    BY BinderAssumption
  <2>3. p \in Parameters /\ p = Sig[s][i]
    BY <2>1, <2>2 DEF ParamOf
  <2> QED BY <2>1, <2>3 DEF Parameters
<1>2. g.sig = s /\ g.i = i + 1 /\ g.args = f.args
  BY DEF GoesOn
<1>3. \A kinds : Gone(g, kinds) <=> Gone(f, kinds) \/ p.kind \in kinds
  BY <1>1, <1>2, GoneOn
<1>4. /\ i <= Len(Sig[s]) /\ Len(Sig[s]) \in Nat /\ DOMAIN Sig[s] = 1..Len(Sig[s])
      /\ Required(s) \in Nat /\ Places(s) \in Nat /\ Required(s) <= Places(s) /\ Places(s) <= Len(Sig[s])
      /\ p.kind = "pos" <=> i <= Required(s)
      /\ p.kind \in {"pos", "opt"} <=> i <= Places(s)
  BY <1>1, Zones
<1>5. Counts(g)
  BY CountsOn DEF Aligned
<1>9. g.suppress <=> Loose(s, g.i)
  <2>1. /\ g.suppress = IF p.kind = "capture" THEN Lifts(f) ELSE f.suppress
        /\ f.suppress <=> Loose(s, i)
    BY DEF GoesOn, Aligned
  <2>2. Lifts(f) <=> \/ f.suppress
                     \/ i < Len(Sig[s]) /\ Sig[s][i + 1].kind \in {"slurpy", "slurpynamed", "methodslurpy"}
    <3>1. Last(f) <=> ~(i < Len(Sig[s]))
      BY <1>1, <1>4 DEF Last
    <3> QED BY <3>1, Zenon DEF Lifts
  <2> QED BY <1>1, <1>2, <2>1, <2>2, LooseOn
<1>10. g.sealed <=> g.i > Len(Sig[s]) /\ EndsInCapture(s)
  <2>1. /\ g.sealed = IF p.kind = "capture" THEN Last(f) ELSE f.sealed
        /\ f.sealed <=> i > Len(Sig[s]) /\ EndsInCapture(s)
    BY DEF GoesOn, Aligned
  <2>2. EndsInCapture(s) <=> Sig[s][Len(Sig[s])].kind = "capture"
    <3>1. Sig[s] # <<>>
      BY <1>1, <1>4
    <3> QED BY <3>1 DEF EndsInCapture
  <2>3. Last(f) <=> i = Len(Sig[s])
    BY DEF Last
  <2> QED BY <1>1, <1>2, <1>4, <2>1, <2>2, <2>3
<1>11. f.suppress <=> Loose(s, i)
  BY DEF Aligned
<1>12. DOMAIN f.named = Unclaimed(f, passed)
  BY DEF Aligned
<1> DEFINE named == p.kind \in {"named", "namedopt"}
           gone == Gone(f, {"slurpynamed", "methodslurpy"})
<1>13. named => i \in OfKind(s, {"named", "namedopt"})
  BY <1>1 DEF OfKind
<1>14. Claimed(s, i + 1, passed) =
          Claimed(s, i, passed) \cup (IF named THEN TakenBy(p, passed) ELSE {})
  BY <1>1, ClaimedOn
<1>15. ~gone => DOMAIN f.named = passed \ Claimed(s, i, passed)
  BY <1>12 DEF Unclaimed
<1>16. gone => DOMAIN f.named = {}
  BY <1>12 DEF Unclaimed
<1>17. ASSUME named, ~gone, NEW m \in Range(p.names) PROVE m \in DOMAIN f.named <=> m \in passed
  <2>1. m \notin Claimed(s, i, passed)
    BY <1>1, <1>13, <1>17, Unshared
  <2> QED BY <1>15, <1>17, <2>1
<1>18. PassedTo(f) <=> Range(p.names) \cap DOMAIN f.named # {}
  BY DEF PassedTo
<1>19. /\ \/ p.kind \in {"slurpynamed", "methodslurpy"} /\ DOMAIN g.named = {}
          \/ /\ named /\ PassedTo(f)
             /\ \E x : FirstAlias(p, f.named, x) /\ DOMAIN g.named = DOMAIN f.named \ {x}
          \/ p.kind \notin {"slurpynamed", "methodslurpy", "named", "namedopt"} /\ g.named = f.named
          \/ named /\ ~PassedTo(f) /\ g.named = f.named
       /\ p.kind = "named" => PassedTo(f) \/ f.suppress
  BY Zenon DEF GoesOn
<1>20. Gone(g, {"slurpynamed", "methodslurpy"}) <=> gone \/ p.kind \in {"slurpynamed", "methodslurpy"}
  BY <1>3
<1>21. Unclaimed(g, passed) = IF Gone(g, {"slurpynamed", "methodslurpy"}) THEN {}
                              ELSE passed \ Claimed(s, i + 1, passed)
  BY <1>2 DEF Unclaimed
<1> HIDE DEF p, gone, i, s
<1>22. DOMAIN g.named = Unclaimed(g, passed)
  <2>1. CASE p.kind \in {"slurpynamed", "methodslurpy"}
    BY <1>19, <1>20, <1>21, <2>1
  <2>2. CASE gone /\ p.kind \notin {"slurpynamed", "methodslurpy"}
    BY <1>16, <1>18, <1>19, <1>20, <1>21, <2>2
  <2>3. CASE ~gone /\ p.kind \notin {"slurpynamed", "methodslurpy", "named", "namedopt"}
    BY <1>14, <1>15, <1>19, <1>20, <1>21, <2>3
  <2>4. CASE ~gone /\ named /\ ~PassedTo(f)
    <3>1. Range(p.names) \cap passed = {}
      BY <1>17, <1>18, <2>4
    <3>2. TakenBy(p, passed) = {}
      BY <3>1, TakenType
    <3> QED BY <1>14, <1>15, <1>19, <1>20, <1>21, <2>4, <3>2
  <2>5. CASE ~gone /\ named /\ PassedTo(f)
    <3>1. PICK x : FirstAlias(p, f.named, x) /\ DOMAIN g.named = DOMAIN f.named \ {x}
      BY <1>19, <2>5
    <3>2. TakenBy(p, passed) = {x}
      BY <1>1, <1>17, <2>5, <3>1, TakenIs
    <3> QED BY <1>14, <1>15, <1>20, <1>21, <2>5, <3>1, <3>2
  <2> QED BY <2>1, <2>2, <2>3, <2>4, <2>5
<1>23. ASSUME NEW k \in OfKind(s, {"named"}), k < i + 1
       PROVE  Loose(s, k) \/ Range(Sig[s][k].names) \cap passed # {}
  <2>1. CASE k < i
    BY <2>1 DEF Aligned, s, i
  <2>2. CASE k = i
    <3>1. p.kind = "named"
      BY <1>1, <2>2 DEF OfKind
    <3>2. PassedTo(f) \/ Loose(s, i)
      BY <1>11, <1>19, <3>1
    <3>3. DOMAIN f.named \subseteq passed
      BY <1>15, <1>16
    <3> QED BY <1>1, <1>18, <2>2, <3>2, <3>3
  <2>3. k \in Nat
    BY <1>4 DEF OfKind
  <2> QED BY <1>1, <1>23, <2>1, <2>2, <2>3
<1> QED BY <1>2, <1>5, <1>9, <1>10, <1>22, <1>23 DEF Aligned

\* A signature that is left has taken a list that fits it, and one that fails
\* for want of an argument, or with one left over, was given a list that does not.
LEMMA AlignedEnds ==
    ASSUME Orderly, NEW f, f.sig \in Sigs, NEW cap, f.args = cap.pos, Len(cap.pos) \in Nat,
           Aligned(f, DOMAIN cap.named)
    PROVE  /\ Ends(f) => ArityFits(f.sig, cap)
           /\ Stuck(f) => ~ArityFits(f.sig, cap)
<1> DEFINE s == f.sig
           i == f.i
           n == Len(cap.pos)
           passed == DOMAIN cap.named
           L == Len(Sig[s])
           slurps == OfKind(s, {"slurpy", "lol"}) # {}
           slurpsNamed == OfKind(s, {"slurpynamed", "methodslurpy"}) # {}
           all == UNION {TakenBy(Sig[s][k], passed) : k \in OfKind(s, {"named", "namedopt"})}
<1>1. /\ L \in Nat /\ DOMAIN Sig[s] = 1..L
      /\ Required(s) \in Nat /\ Places(s) \in Nat /\ Required(s) <= Places(s) /\ Places(s) <= L
      /\ \A k \in 1..L : /\ Sig[s][k].kind = "pos" <=> k <= Required(s)
                         /\ Sig[s][k].kind \in {"pos", "opt"} <=> k <= Places(s)
  BY Zones
<1>2. /\ i \in 1..(L + 1) /\ (i - 1 <= n \/ Required(s) <= n)
      /\ f.suppress <=> Loose(s, i)
      /\ f.sealed <=> i > L /\ EndsInCapture(s)
      /\ DOMAIN f.named = Unclaimed(f, passed)
      /\ f.cur = 1 + IF Gone(f, {"slurpy", "lol"}) THEN n ELSE Least(Least(i - 1, Places(s)), n)
      /\ \A k \in OfKind(s, {"named"}) :
            k < i => Loose(s, k) \/ Range(Sig[s][k].names) \cap passed # {}
  BY Zenon DEF Aligned, Counts, CurOf
<1>3. ArityFits(s, cap) <=>
         /\ n >= Required(s)
         /\ n <= Places(s) \/ slurps \/ EndsInCapture(s) \/ Loose(s, L + 1)
         /\ \A k \in OfKind(s, {"named"}) : Loose(s, k) \/ Range(Sig[s][k].names) \cap passed # {}
         /\ slurpsNamed \/ EndsInCapture(s) \/ passed = all
  BY Zenon DEF ArityFits, Required, Places
<1>4. \A kinds, k : k \in OfKind(s, kinds) <=> k \in 1..L /\ Sig[s][k].kind \in kinds
  BY <1>1 DEF OfKind
<1>5. More(f) <=> f.cur <= n
  BY DEF More
<1>6. LeftOver(f) <=> ~f.sealed /\ ((More(f) /\ ~f.suppress) \/ DOMAIN f.named # {})
  BY Zenon DEF LeftOver
<1>7. ASSUME i > L
      PROVE  /\ ~LeftOver(f) => ArityFits(s, cap)
             /\ LeftOver(f) => ~ArityFits(s, cap)
  <2>1. i = L + 1
    BY <1>1, <1>2, <1>7
  <2>2. \A kinds : Gone(f, kinds) <=> OfKind(s, kinds) # {}
    <3> SUFFICES ASSUME NEW kinds PROVE Gone(f, kinds) <=> OfKind(s, kinds) # {}
      OBVIOUS
    <3>1. 1..(i - 1) = 1..L
      BY <1>1, <2>1
    <3> QED BY <1>4, <3>1 DEF Gone
  <2>3. all \subseteq passed
    BY TakenType
  <2>4. Claimed(s, i, passed) = all
    <3>1. \A k \in OfKind(s, {"named", "namedopt"}) : k < i
      BY <1>1, <1>4, <2>1
    <3>2. {k \in OfKind(s, {"named", "namedopt"}) : k < i} = OfKind(s, {"named", "namedopt"})
      BY <3>1
    <3> QED BY <3>2, Zenon DEF Claimed
  <2>5. DOMAIN f.named # {} <=> ~slurpsNamed /\ passed # all
    <3>1. DOMAIN f.named = IF slurpsNamed THEN {} ELSE passed \ all
      BY <1>2, <2>2, <2>4, Zenon DEF Unclaimed
    <3> HIDE DEF all, passed, slurpsNamed
    <3> QED BY <2>3, <3>1
  <2>6. More(f) <=> ~slurps /\ n > Places(s)
    <3>1. f.cur = 1 + IF slurps THEN n ELSE Least(Least(L, Places(s)), n)
      BY <1>2, <2>1, <2>2
    <3> HIDE DEF slurps
    <3> QED BY <1>1, <1>5, <3>1 DEF Least
  <2>7. Required(s) <= n
    BY <1>1, <1>2, <2>1
  <2>8. \A k \in OfKind(s, {"named"}) : Loose(s, k) \/ Range(Sig[s][k].names) \cap passed # {}
    <3>1. \A k \in OfKind(s, {"named"}) : k < i
      BY <1>1, <1>4, <2>1
    <3> QED BY <1>2, <3>1
  <2>9. n > Places(s) <=> ~(n <= Places(s))
    BY <1>1
  <2> HIDE DEF all, passed, slurps, slurpsNamed
  <2>10. f.suppress <=> Loose(s, L + 1)
    BY <1>2, <2>1
  <2>11. f.sealed <=> EndsInCapture(s)
    BY <1>2, <1>7
  <2>12. n >= Required(s)
    BY <1>1, <2>7
  <2>13. ArityFits(s, cap) <=>
            /\ n <= Places(s) \/ slurps \/ EndsInCapture(s) \/ Loose(s, L + 1)
            /\ slurpsNamed \/ EndsInCapture(s) \/ passed = all
    BY <1>3, <2>8, <2>12, Zenon
  <2> QED BY <1>6, <2>5, <2>6, <2>9, <2>10, <2>11, <2>13, Zenon
<1>8. Ends(f) => ArityFits(s, cap)
  BY <1>7 DEF Ends
<1>9. ASSUME Stuck(f) PROVE ~ArityFits(s, cap)
  <2>1. CASE i > L /\ LeftOver(f)
    BY <1>7, <2>1
  <2>2. CASE At(f, {"pos"}) /\ ~More(f)
    <3>1. i \in 1..L /\ i <= Required(s) /\ i <= Places(s) /\ f.cur > n
      <4>1. i \in 1..L /\ Sig[s][i].kind = "pos"
        BY <1>1, <1>2, <2>2 DEF At, ParamOf
      <4>2. f.cur \in Nat
        BY <1>1, <1>2 DEF Least
      <4> QED BY <1>1, <1>5, <2>2, <4>1, <4>2
    <3>2. ~Gone(f, {"slurpy", "lol"})
      <4> SUFFICES ASSUME NEW j \in 1..(i - 1), Sig[s][j].kind \in {"slurpy", "lol"} PROVE FALSE
        BY DEF Gone
      <4>1. j \in 1..L /\ j <= Required(s)
        BY <1>1, <3>1
      <4>2. Sig[s][j].kind = "pos"
        BY <1>1, <4>1
      <4> QED BY <4>2
    <3>3. f.cur = 1 + Least(Least(i - 1, Places(s)), n)
      BY <1>2, <3>2
    <3>4. n < Required(s)
      BY <1>1, <3>1, <3>3 DEF Least
    <3> QED BY <1>1, <1>3, <3>4
  <2>3. CASE At(f, {"named"}) /\ ~PassedTo(f) /\ ~f.suppress
    <3>1. i \in 1..L /\ Sig[s][i].kind = "named"
      BY <1>1, <1>2, <2>3 DEF At, ParamOf
    <3>2. i \in OfKind(s, {"named"}) /\ i \in OfKind(s, {"named", "namedopt"})
      BY <1>4, <3>1
    <3>3. ~Gone(f, {"slurpynamed", "methodslurpy"})
      <4> SUFFICES ASSUME NEW j \in 1..(i - 1), Sig[s][j].kind \in {"slurpynamed", "methodslurpy"}
                   PROVE  FALSE
        BY DEF Gone
      <4>1. j \in 1..L /\ j < i
        BY <1>1, <3>1
      <4>2. j \in OfKind(s, {"slurpynamed", "methodslurpy"})
        BY <1>4, <4>1
      <4>3. i < j
        BY <3>2, <4>2 DEF Orderly
      <4> QED BY <1>1, <1>2, <4>1, <4>3
    <3>4. DOMAIN f.named = passed \ Claimed(s, i, passed)
      BY <1>2, <3>3 DEF Unclaimed
    <3>5. Range(Sig[s][i].names) \cap DOMAIN f.named = {}
      BY <2>3 DEF PassedTo, ParamOf
    <3>6. Range(Sig[s][i].names) \cap passed = {}
      <4>1. \A m \in Range(Sig[s][i].names) : m \notin Claimed(s, i, passed)
        BY <3>2, Unshared
      <4> QED BY <3>4, <3>5, <4>1
    <3>7. ~Loose(s, i)
      BY <1>2, <2>3
    <3> QED BY <1>3, <3>2, <3>6, <3>7
  <2> QED BY <1>9, <2>1, <2>2, <2>3 DEF Stuck
<1> QED BY <1>8, <1>9

\* The arrays, hashes and captures the binder makes are none of the program's.
MadeApart ==
    \A s, h : {ListOf(s), HashOf(h), CaptOf(s, h)} \cap (Plain \cup {None, Garbage, Thrown}) = {}

\* The values an activation has to bind are the program's.
Given(f) ==
    f.args \in Seq(Plain) /\ \A n \in DOMAIN f.named : f.named[n] \in Plain

\* What the binder makes is of the type it should be.
LEMMA MadeTypes ==
    ASSUME MadeApart, NEW s, NEW h
    PROVE  /\ ListOf(s) \notin Plain \cup {None, Garbage, Thrown} /\ TypeOfValue(ListOf(s)) = ListType
           /\ HashOf(h) \notin Plain \cup {None, Garbage, Thrown} /\ TypeOfValue(HashOf(h)) = HashType
           /\ CaptOf(s, h) \notin Plain \cup {None, Garbage, Thrown}
<1>1. /\ ListOf(s) \notin Plain \cup {None, Garbage, Thrown}
      /\ HashOf(h) \notin Plain \cup {None, Garbage, Thrown}
      /\ CaptOf(s, h) \notin Plain \cup {None, Garbage, Thrown}
  BY DEF MadeApart
<1>2. DOMAIN ListOf(s) = {"list"} /\ DOMAIN HashOf(h) = {"hash"} /\ {"list"} # {"hash"}
  BY DEF ListOf, HashOf
<1>3. TypeOfValue(ListOf(s)) = ListType
  BY <1>1, <1>2 DEF TypeOfValue
<1>4. TypeOfValue(HashOf(h)) = HashType
  BY <1>1, <1>2 DEF TypeOfValue
<1> QED BY <1>1, <1>3, <1>4

\* A parameter without a type, a constraint or anything else to fail takes any value.
LEMMA UntypedOk ==
    ASSUME NEW p, Untyped(p), NEW v, v \notin {None, Garbage, Thrown},
           p.type = MuType \/ (v \notin Plain /\ TypeCheck(TypeOfValue(v), p.type)), NEW nn,
           NEW d, NEW a \in Answers(p, v, d, nn)
    PROVE  Verdict(p, v, a, nn) = "ok" /\ ~Stops(p, v, a)
<1>1. /\ ~p.generic /\ p.definite = "any" /\ p.native = "obj" /\ p.coerce = None
      /\ p.rejects \cup p.doubts = {} /\ p.sub = None /\ ~Attributive(p)
  BY DEF Untyped
<1> DEFINE bv == Prepared(p, v)
<1>2. bv \notin {None, Garbage, Thrown} /\ PrimOf(bv) = "obj" /\ Typed(p, v, nn, tvars) = "ok"
  <2>1. CASE PrimOf(v) = "obj"
    <3>1. bv = v
      BY <1>1, <2>1 DEF Prepared
    <3> QED BY <1>1, <2>1, <3>1 DEF Typed, NominalOk, NominalType, DefiniteOk
  <2>2. CASE PrimOf(v) # "obj"
    <3>1. v \in Plain /\ Prim[v] # "obj"
      BY <2>2 DEF PrimOf
    <3>2. bv = Box[v] /\ bv \in Plain /\ PrimOf(bv) = "obj" /\ bv \notin {None, Garbage, Thrown}
      BY <1>1, <2>2, <3>1, BinderAssumption DEF Prepared, PrimOf
    <3> QED BY <1>1, <3>1, <3>2 DEF Typed, NominalOk, NominalType, DefiniteOk
  <2> QED BY <2>1, <2>2
<1>3. a.refused = FALSE
  <2>1. a.refused \in Refusals(p, bv)
    BY <1>2, AnswerIs
  <2> QED BY <1>1, <2>1 DEF Refusals
<1>4. Decont(p, bv, a) = bv
  BY <1>1 DEF Decont, Coerces
<1> HIDE DEF bv
<1>5. Verdict(p, v, a, nn) = "ok"
  <2>1. Verdict(p, v, a, nn) =
           IF Typed(p, v, nn, tvars) # "ok" THEN Typed(p, v, nn, tvars)
           ELSE IF p.coerce # None /\ PrimOf(bv) # "obj" THEN IF trial THEN "crash" ELSE "fail"
           ELSE IF Decont(p, bv, a) = None THEN "fail"
           ELSE IF Decont(p, bv, a) = Thrown \/ a.refused = Thrown THEN "die"
           ELSE IF a.refused = TRUE THEN "fail"
           ELSE IF Attributive(p) THEN Stored(p, bv, a, Self \in DOMAIN lex \/ p.self) ELSE "ok"
    BY Zenon DEF Verdict, bv
  <2>2. a.refused # Thrown /\ a.refused # TRUE
    BY <1>3, BinderAssumption
  <2> QED BY <1>1, <1>2, <1>4, <2>1, <2>2
<1> QED BY <1>1, <1>5 DEF Stops, Recurses

\* So it takes what the activation has for it, and leaves the rest.
LEMMA UntypedTakes ==
    ASSUME MadeApart, NEW f, f.sig \in Sigs, Counts(f), Given(f), NEW v, NEW g, Takes(f, v, g),
           Untyped(ParamOf(f)), NEW nn, NEW d, NEW a \in Answers(ParamOf(f), v, d, nn)
    PROVE  Verdict(ParamOf(f), v, a, nn) = "ok" /\ ~Stops(ParamOf(f), v, a)
<1> DEFINE p == ParamOf(f)
<1>1. f.i <= Len(Sig[f.sig])
  BY Zenon DEF Takes, Defaults, At
<1>2. p \in Parameters
  <2>1. Sig[f.sig] \in Seq(Parameters)
    BY BinderAssumption
  <2> QED BY <1>1, <2>1 DEF ParamOf, Counts
<1>3. \A w \in Plain : w \notin {None, Garbage, Thrown}
  BY BinderAssumption
<1>4. /\ \/ p.type = MuType
         \/ p.kind \in {"slurpy", "lol"} /\ TypeCheck(ListType, p.type)
         \/ p.kind = "slurpynamed" /\ TypeCheck(HashType, p.type)
  BY DEF Untyped
<1>5. /\ v \notin {None, Garbage, Thrown}
      /\ p.type = MuType \/ (v \notin Plain /\ TypeCheck(TypeOfValue(v), p.type))
  <2>1. CASE At(f, {"capture"}) /\ v = CaptOf(Rest(f), f.named)
    BY <1>4, <2>1, MadeTypes DEF At
  <2>2. CASE At(f, {"slurpynamed"}) /\ v = HashOf(f.named)
    <3>1. p.type = MuType \/ TypeCheck(HashType, p.type)
      BY <1>4, <2>2 DEF At
    <3> QED BY <2>2, <3>1, MadeTypes
  <2>3. CASE At(f, {"slurpy", "lol"}) /\ v = ListOf(Rest(f))
    <3>1. p.type = MuType \/ TypeCheck(ListType, p.type)
      BY <1>4, <2>3 DEF At
    <3> QED BY <2>3, <3>1, MadeTypes
  <2>4. CASE p.kind \in {"pos", "opt", "named", "namedopt"} /\ v \in Plain
    BY <1>3, <1>4, <2>4
  <2>5. \/ At(f, {"capture"}) /\ v = CaptOf(Rest(f), f.named)
        \/ At(f, {"slurpynamed"}) /\ v = HashOf(f.named)
        \/ At(f, {"slurpy", "lol"}) /\ v = ListOf(Rest(f))
        \/ At(f, {"pos", "opt"}) /\ More(f) /\ v = f.args[f.cur]
        \/ (At(f, {"opt"}) \/ At(f, {"namedopt"})) /\ v \in p.default
        \/ At(f, {"named", "namedopt"}) /\ \E n \in DOMAIN f.named : v = f.named[n]
    BY Zenon DEF Takes, Defaults, FirstAlias
  <2>6. ASSUME More(f) PROVE f.args[f.cur] \in Plain
    <3>1. f.args \in Seq(Plain)
      BY DEF Given
    <3>2. f.cur \in Nat \ {0}
      <4>1. Places(f.sig) \in Nat /\ Len(f.args) \in Nat /\ f.i \in Nat \ {0}
        BY <3>1, Zones DEF Counts
      <4>2. f.cur = 1 + Len(f.args) \/ f.cur = 1 + Least(Least(f.i - 1, Places(f.sig)), Len(f.args))
        BY DEF Counts, CurOf
      <4> QED BY <4>1, <4>2 DEF Least
    <3> QED BY <2>6, <3>1, <3>2 DEF More
  <2>7. p.default \subseteq Plain
    BY <1>2 DEF Parameters
  <2>8. \A n \in DOMAIN f.named : f.named[n] \in Plain
    BY DEF Given
  <2> QED BY <2>1, <2>2, <2>3, <2>4, <2>5, <2>6, <2>7, <2>8 DEF At
<1>6. a \in Answers(p, v, d, nn)
  OBVIOUS
<1> HIDE DEF p
<1>7. Untyped(p)
  BY DEF p
<1>8. Verdict(p, v, a, nn) = "ok" /\ ~Stops(p, v, a)
  BY <1>5, <1>6, <1>7, UntypedOk
<1> QED BY <1>8 DEF p

\* What is left to bind is given too.
LEMMA GivenOn ==
    ASSUME NEW f, Given(f), NEW g, \/ \E v : Takes(f, v, g)
                                   \/ \E l, m : Skips(f, l, g, m)
    PROVE  Given(g)
<1>1. \A c, h, u, e : On(f, c, h, u, e).args = f.args /\ On(f, c, h, u, e).named = h
  BY DEF On
<1>2. \E c, h, u, e : /\ g = On(f, c, h, u, e)
                      /\ h \in {f.named, NoArgs} \/ \E n : h = Without(f.named, n)
  BY Zenon DEF Takes, Skips
<1>3. PICK c, h, u, e : /\ g = On(f, c, h, u, e)
                        /\ h \in {f.named, NoArgs} \/ \E n : h = Without(f.named, n)
  BY <1>2
<1>4. \A n \in DOMAIN h : h[n] \in Plain
  BY <1>3 DEF Without, NoArgs, Given
<1>5. g.args = f.args /\ g.named = h
  BY <1>1, <1>3
<1> QED BY <1>4, <1>5 DEF Given

\* A step of the binder on the callee's own signature, or on one in it.
Nests   == Len(frames) # 1 /\ bound' = Running /\ frames' # <<>> /\ frames'[1] = frames[1]
Forward == /\ Len(frames) = 1 /\ bound' = Running /\ frames' # <<>>
           /\ \/ \E v : Takes(Bare(Top), v, Bare(frames'[1]))
              \/ \E l, m : Skips(Bare(Top), l, Bare(frames'[1]), m)
           /\ Len(frames') = 1 \/ Param.sub # None
Through == Len(frames) = 1 /\ bound' = "ok" /\ Ends(Bare(Top))
Refused ==
    /\ bound' \in Verdicts \ {"ok"}
    /\ bound' = "fail" =>
          \/ Stuck(Bare(Top))
          \/ \E v, g, nn, d : /\ Takes(Bare(Top), v, Bare(g))
                              /\ \E a \in Answers(Param, v, d, nn) :
                                    Verdict(Param, v, a, nn) # "ok" \/ Stops(Param, v, a)

\* It is one of these.
LEMMA FirstStep ==
    ASSUME VarInv, bound = Running, BindStep
    PROVE  Nests \/ Forward \/ Through \/ Refused
<1>1. PICK S : frames \in Seq(S)
  BY DEF VarInv, FramesOk
<1>2. frames # <<>> /\ Len(frames) \in Nat \ {0} /\ DOMAIN Top = Fields
  BY <1>1, TopOk DEF VarInv, FramesOk, FrameOk
<1>3. \A g : /\ OnTop(frames, g) \in Seq(S \cup {g}) /\ Len(OnTop(frames, g)) = Len(frames)
             /\ \A k \in 1..Len(frames) : OnTop(frames, g)[k] = IF k = Len(frames) THEN g ELSE frames[k]
  BY <1>1, <1>2 DEF OnTop
<1>4. \A g : Replace(g) = OnTop(frames, g)
  BY DEF Replace, OnTop
<1>5. ASSUME NEW g, bound' = Running,
             \/ frames' = OnTop(frames, g)
             \/ Param.sub # None /\ \E h : frames' = Append(OnTop(frames, g), h),
             \/ \E v : Takes(Bare(Top), v, Bare(g))
             \/ \E l, m : Skips(Bare(Top), l, Bare(g), m)
      PROVE  Nests \/ Forward
  <2>1. /\ frames' # <<>> /\ frames'[1] = OnTop(frames, g)[1]
        /\ Len(frames') = Len(frames) \/ Param.sub # None
    <3>1. CASE frames' = OnTop(frames, g)
      <4>1. frames' \in Seq(S \cup {g}) /\ Len(frames') = Len(frames)
        BY <1>3, <3>1
      <4> QED BY <1>2, <3>1, <4>1
    <3>2. ASSUME Param.sub # None, NEW h, frames' = Append(OnTop(frames, g), h)
          PROVE  frames' # <<>> /\ frames'[1] = OnTop(frames, g)[1]
      <4>1. PICK xs : xs = OnTop(frames, g)
        OBVIOUS
      <4>2. xs \in Seq(S \cup {g}) /\ Len(xs) = Len(frames)
        BY <1>3, <4>1
      <4>3. /\ frames' \in Seq(S \cup {g} \cup {h}) /\ Len(frames') = Len(xs) + 1
            /\ \A k \in 1..(Len(xs) + 1) : frames'[k] = IF k = Len(xs) + 1 THEN h ELSE xs[k]
        BY <3>2, <4>1, <4>2, AppendIs
      <4>4. 1 \in 1..(Len(xs) + 1) /\ Len(xs) + 1 # 1
        BY <1>2, <4>2
      <4> QED BY <1>2, <4>1, <4>2, <4>3, <4>4
    <3> QED BY <1>5, <3>1, <3>2
  <2>2. 1 \in 1..Len(frames)
    BY <1>2
  <2>3. OnTop(frames, g)[1] = IF Len(frames) = 1 THEN g ELSE frames[1]
    BY <1>3, <2>2
  <2>4. CASE Len(frames) = 1
    <3>1. frames'[1] = g
      BY <2>1, <2>3, <2>4
    <3> QED BY <1>5, <2>1, <2>4, <3>1 DEF Forward
  <2>5. CASE Len(frames) # 1
    BY <1>5, <2>1, <2>3, <2>5 DEF Nests
  <2> QED BY <2>4, <2>5
<1>6. CASE Binds(Top)
  <2>1. PICK v, d, g, nn : Takes(Bare(Top), v, Bare(g)) /\ OneParam(Param, v, d, nn, g)
    BY <1>6 DEF Binds
  <2>2. PICK a \in Answers(Param, v, d, nn) :
            \/ Verdict(Param, v, a, nn) = "ok" /\ Bound(Param, v, a, nn, g)
            \/ Verdict(Param, v, a, nn) # "ok" /\ bound' = Verdict(Param, v, a, nn)
    BY <2>1, Zenon DEF OneParam, Unwind
  <2>3. CASE Verdict(Param, v, a, nn) # "ok" /\ bound' = Verdict(Param, v, a, nn)
    BY <2>1, <2>3, VerdictType DEF Refused
  <2>4. CASE Bound(Param, v, a, nn, g)
    <3>1. /\ Stops(Param, v, a) => frames' = <<>> /\ bound' \in {"fail", "die"}
          /\ ~Stops(Param, v, a) =>
                /\ bound' = bound
                /\ frames' = IF Recurses(Param, v)
                             THEN Append(Replace(g), SubActivation(Param, v, a, nn))
                             ELSE Replace(g)
      BY <2>4, BoundDoes
    <3>2. CASE Stops(Param, v, a)
      BY <2>1, <3>1, <3>2 DEF Refused, Verdicts
    <3>3. CASE ~Stops(Param, v, a)
      <4>1. \/ frames' = OnTop(frames, g)
            \/ Param.sub # None /\ \E h : frames' = Append(OnTop(frames, g), h)
        BY <1>4, <3>1, <3>3 DEF Recurses
      <4> QED BY <1>5, <2>1, <3>1, <3>3, <4>1
    <3> QED BY <3>2, <3>3
  <2> QED BY <2>2, <2>3, <2>4
<1>10. CASE Throws(Top)
  BY <1>10 DEF Throws, Refused, Verdicts
<1>7. CASE Passes(Top)
  <2>1. PICK g, m : /\ Skips(Bare(Top), lex, Bare(g), m) /\ frames' = Replace(g) /\ bound' = bound
    BY <1>7 DEF Passes
  <2> QED BY <1>4, <1>5, <2>1
<1>8. CASE Leaves(Top)
  <2>1. /\ Ends(Bare(Top)) /\ frames' = SubSeq(frames, 1, Len(frames) - 1)
        /\ bound' = IF Len(frames) = 1 THEN "ok" ELSE Running
    BY <1>8 DEF Leaves
  <2>2. CASE Len(frames) = 1
    BY <2>1, <2>2 DEF Through
  <2>3. CASE Len(frames) # 1
    <3>1. PICK n : n = Len(frames) - 1
      OBVIOUS
    <3>2. n \in Nat \ {0} /\ n < Len(frames) /\ frames' = SubSeq(frames, 1, n)
      BY <1>2, <2>1, <2>3, <3>1
    <3>3. Len(frames') = n /\ \A k \in 1..n : frames'[k] = frames[k]
      BY <1>1, <3>2, Popped
    <3>4. frames'[1] = frames[1] /\ frames' # <<>>
      BY <3>2, <3>3
    <3> QED BY <2>1, <2>3, <3>4 DEF Nests
  <2> QED BY <2>2, <2>3
<1>9. CASE Fails(Top)
  BY <1>9 DEF Fails, Refused, Verdicts
<1> QED BY <1>2, <1>6, <1>7, <1>8, <1>9, <1>10, StepIs

\* A list of calls, one of them made.
LEMMA FirstCall ==
    ASSUME todo \in Seq(CallType), todo # <<>>
    PROVE  /\ Now \in CallType /\ Tail(todo) \in Seq(CallType)
           /\ Now.pos \in Seq(Plain) /\ Len(Now.pos) \in Nat
           /\ \E D \in SUBSET Names : Now.named \in [D -> Plain]
           /\ Now.named \in [DOMAIN Now.named -> Plain]
<1>1. Now \in CallType /\ Tail(todo) \in Seq(CallType)
  BY DEF Now
<1>2. Now.pos \in Seq(Plain) /\ \E D \in SUBSET Names : Now.named \in [D -> Plain]
  BY <1>1 DEF CallType
<1>3. ASSUME NEW D, NEW h \in [D -> Plain] PROVE h \in [DOMAIN h -> Plain]
  OBVIOUS
<1>4. Now.named \in [DOMAIN Now.named -> Plain]
  BY <1>2, <1>3, Zenon
<1>5. Len(Now.pos) \in Nat
  BY <1>2
<1> QED BY <1>1, <1>2, <1>4, <1>5

\* The calls made through the proto or not; the calls of s that are made.
CallsBy(via) == {c \in CallType : c.via = via}
CallsOf(s)   == {c \in CallType : c.via = "multi" => s \in Multis}

\* What is made for a call is calls.
LEMMA ThreadsType ==
    ASSUME NEW c \in CallType, NEW via \in Vias, NEW t \in Threads(c, via)
    PROVE  t \in Seq(CallsBy(via))
<1> DEFINE i == FirstJunction(c.pos)
           named == {n \in DOMAIN c.named : IsJunction(c.named[n])}
<1>1. /\ c.pos \in [1..Len(c.pos) -> Plain] /\ Len(c.pos) \in Nat /\ c.pos \in Seq(Plain)
      /\ \E D \in SUBSET Names : c.named \in [D -> Plain]
  BY DEF CallType
<1>2. \A v \in Plain : IsJunction(v) => States[v] \in Seq(Plain)
  BY CallAssumption DEF Junctions
<1>v. \A pos, h : Via(via, pos, h) \in CallType => Via(via, pos, h) \in CallsBy(via)
  BY DEF Via, CallsBy
<1>3. CASE JunctionAt(c.pos) # {}
  <2>1. t = [k \in DOMAIN States[c.pos[i]] |-> Via(via, Put(c.pos, i, States[c.pos[i]][k]), c.named)]
    BY <1>3 DEF Threads, Put
  <2>2. i \in 1..Len(c.pos) /\ IsJunction(c.pos[i])
    <3>1. JunctionAt(c.pos) \subseteq Nat /\ JunctionAt(c.pos) \subseteq 1..Len(c.pos)
      BY <1>1 DEF JunctionAt
    <3>2. \E j \in JunctionAt(c.pos) : \A k \in JunctionAt(c.pos) : j <= k
      BY <1>3, <3>1, LeastNumber
    <3>3. i \in JunctionAt(c.pos)
      BY <3>2 DEF FirstJunction
    <3> QED BY <1>1, <3>3 DEF JunctionAt
  <2> HIDE DEF i
  <2>3. PICK s : s = States[c.pos[i]]
    OBVIOUS
  <2>4. s \in Seq(Plain)
    BY <1>1, <1>2, <2>2, <2>3
  <2>5. ASSUME NEW k \in DOMAIN s PROVE Via(via, Put(c.pos, i, s[k]), c.named) \in CallsBy(via)
    <3>1. s[k] \in Plain
      BY <2>4
    <3>2. Put(c.pos, i, s[k]) \in [1..Len(c.pos) -> Plain]
      BY <1>1, <2>2, <3>1, PutOf
    <3>3. Put(c.pos, i, s[k]) \in Seq(Plain)
      BY <1>1, <3>2
    <3> QED BY <1>1, <1>v, <3>3, ViaFields
  <2>6. DOMAIN s = 1..Len(s) /\ Len(s) \in Nat
    BY <2>4
  <2>7. t \in [1..Len(s) -> CallsBy(via)]
    BY <2>1, <2>3, <2>5, <2>6
  <2> QED BY <2>6, <2>7
<1>4. CASE JunctionAt(c.pos) = {} /\ named # {}
  <2>1. PICK n \in named : t = [k \in DOMAIN States[c.named[n]] |->
                                   Via(via, c.pos, Put(c.named, n, States[c.named[n]][k]))]
    BY <1>4 DEF Threads, Put
  <2>2. PICK D \in SUBSET Names : c.named \in [D -> Plain]
    BY <1>1
  <2>3. n \in D /\ IsJunction(c.named[n]) /\ c.named[n] \in Plain
    BY <2>2
  <2>4. PICK s : s = States[c.named[n]]
    OBVIOUS
  <2>5. s \in Seq(Plain)
    BY <1>2, <2>3, <2>4
  <2>6. ASSUME NEW k \in DOMAIN s PROVE Via(via, c.pos, Put(c.named, n, s[k])) \in CallsBy(via)
    <3>1. s[k] \in Plain
      BY <2>5
    <3>2. Put(c.named, n, s[k]) \in [D -> Plain]
      BY <2>2, <2>3, <3>1, PutOf
    <3> QED BY <1>1, <1>v, <3>2, ViaFields
  <2>7. DOMAIN s = 1..Len(s) /\ Len(s) \in Nat
    BY <2>5
  <2>8. t \in [1..Len(s) -> CallsBy(via)]
    BY <2>1, <2>4, <2>6, <2>7
  <2> QED BY <2>7, <2>8
<1>5. CASE JunctionAt(c.pos) = {} /\ named = {}
  <2>1. t = <<Via(via, c.pos, c.named)>>
    BY <1>5 DEF Threads
  <2>2. Via(via, c.pos, c.named) \in CallsBy(via)
    BY <1>1, <1>v, ViaFields
  <2> QED BY <2>1, <2>2
<1> QED BY <1>3, <1>4, <1>5

\* The calls left to make are calls of the callee, and while one runs there is one;
\* a check is made for a call through the proto.
CallsLeft ==
    /\ todo \in Seq(CallsOf(fn)) /\ (Calling => todo # <<>>)
    /\ mode = "trial" => Now.via = "multi"

\* So the call being made is a call of the callee.
LEMMA CallsAre == CallsLeft => todo \in Seq(CallType) /\ (Calling => Now \in CallsOf(fn))
BY DEF CallsLeft, CallsOf, Now

\* Every step leaves calls of the callee.
LEMMA CallsLeftNext == CallsLeft /\ [Next]_vars => CallsLeft'
<1> SUFFICES ASSUME CallsLeft, [Next]_vars PROVE CallsLeft'
  OBVIOUS
<1>1. ASSUME NEW via \in Vias, via = "multi" => fn \in Multis, Calling, AutoThread(via) PROVE CallsLeft'
  <2>1. Now \in CallType /\ Tail(todo) \in Seq(CallsOf(fn))
    BY <1>1, CallsAre DEF CallsLeft, CallsOf
  <2>2. PICK t \in Threads(Now, via) :
           /\ todo' = t \o Tail(todo) /\ fn' = fn
           /\ mode' = IF t \o Tail(todo) = <<>> THEN "done" ELSE "ready"
    BY <1>1 DEF AutoThread
  <2>3. t \in Seq(CallsOf(fn))
    <3>1. t \in Seq(CallsBy(via))
      BY <2>1, ThreadsType
    <3>2. CallsBy(via) \subseteq CallsOf(fn)
      BY <1>1 DEF CallsBy, CallsOf
    <3> QED BY <3>1, <3>2
  <2>4. todo' \in Seq(CallsOf(fn'))
    BY <2>1, <2>2, <2>3
  <2> QED BY <2>2, <2>4 DEF CallsLeft, Calling
<1>2. ASSUME UNCHANGED <<todo, fn>>, Calling' => Calling,
             mode' = "trial" => mode = "trial" \/ Now.via = "multi"
      PROVE  CallsLeft'
  BY <1>2 DEF CallsLeft, Now
<1>3. CASE ProgramCalls
  <2>1. PICK s \in Callable \cup Multis, cap \in Captures, via \in Vias :
           Call(s, cap, via) /\ (via = "multi" => s \in Multis)
    BY <1>3 DEF ProgramCalls, Vias
  <2>2. todo' = <<Via(via, cap.pos, cap.named)>> /\ fn' = s /\ mode' = "ready"
    BY <2>1 DEF Call
  <2>3. cap.pos \in Seq(Plain) /\ \E D \in SUBSET Names : cap.named \in [D -> Plain]
    <3>1. cap \in Arguments
      BY CallAssumption
    <3> QED BY <3>1 DEF Arguments
  <2>4. Via(via, cap.pos, cap.named) \in CallsOf(fn')
    BY <2>1, <2>2, <2>3, ViaFields DEF Via, CallsOf
  <2> QED BY <2>2, <2>4 DEF CallsLeft
<1>4. CASE Invoke \/ DispatchTrial \/ DispatchAccepts \/ TrialPasses \/ Bind
  BY <1>2, <1>4 DEF Invoke, DispatchTrial, DispatchAccepts, TrialPasses, InvokeChecked, Bind, calls,
                    Calling
<1>5. CASE DispatchRejects \/ TrialFails
  <2>1. Calling /\ (AutoThread("multi") \/ EndCall("threw")) /\ Now.via = "multi"
    BY <1>5 DEF DispatchRejects, TrialFails, NoCandidate, Calling, CallsLeft
  <2>2. fn \in Multis
    BY <2>1, CallsAre DEF CallsOf
  <2> QED BY <1>1, <1>2, <2>1, <2>2 DEF EndCall, Vias, Calling
<1>6. CASE ThreadCall
  BY <1>1, <1>6 DEF ThreadCall, Calling, Vias
<1>7. CASE BindThrows \/ BindCrashes
  BY <1>2, <1>7 DEF BindThrows, BindCrashes, EndCall, Calling
<1>8. CASE RunBody
  <2>1. todo' = Tail(todo) /\ fn' = fn /\ mode' = (IF Len(todo) = 1 THEN "done" ELSE "ready") /\ Calling
    BY <1>8 DEF RunBody, Calling
  <2>2. todo \in Seq(CallsOf(fn)) /\ todo # <<>> /\ Len(todo) \in Nat
    BY <2>1 DEF CallsLeft
  <2>3. Tail(todo) \in Seq(CallsOf(fn)) /\ Len(Tail(todo)) = Len(todo) - 1
    BY <2>2, HeadTailProperties
  <2>4. \A s : s = <<>> => Len(s) = 0
    OBVIOUS
  <2>5. Calling' => Len(todo) # 1
    BY <2>1 DEF Calling
  <2>6. Calling' => todo' # <<>>
    <3> SUFFICES ASSUME Len(todo) # 1 PROVE Tail(todo) # <<>>
      BY <2>1, <2>5
    <3>1. PICK s : s = Tail(todo)
      OBVIOUS
    <3>2. Len(s) = Len(todo) - 1
      BY <2>3, <3>1
    <3>3. Len(s) # 0
      BY <2>2, <3>2
    <3>4. s # <<>>
      BY <2>4, <3>3, Zenon
    <3> QED BY <3>1, <3>4, Zenon
  <2> QED BY <2>1, <2>3, <2>6 DEF CallsLeft
<1>9. CASE Return
  BY <1>9 DEF Return, CallsLeft, Calling
<1>10. CASE UNCHANGED vars
  BY <1>2, <1>10 DEF vars, calls, Calling
<1> QED BY <1>3, <1>4, <1>5, <1>6, <1>7, <1>8, <1>9, <1>10 DEF Next, Progress

\* The binding of the callee's own signature is where its arguments say, and needs
\* no other signature when no parameter has one.
ArityInv ==
    /\ VarInv /\ CallsLeft
    /\ bound = Running =>
          /\ Bare(frames[1]).args = Now.pos /\ Given(Bare(frames[1]))
          /\ Aligned(Bare(frames[1]), DOMAIN Now.named)
          /\ (\A p \in Own(fn) : Untyped(p)) => Len(frames) = 1
    /\ ArityAgrees

\* An activation at the first parameter has taken nothing.
LEMMA StartsCounted ==
    ASSUME NEW f, f.sig \in Sigs, Len(f.args) \in Nat, f.i = 1, f.cur = 1
    PROVE  Counts(f) /\ \A kinds : ~Gone(f, kinds)
<1>1. \A kinds : ~Gone(f, kinds)
  BY DEF Gone
<1>2. Len(Sig[f.sig]) \in Nat /\ Required(f.sig) \in Nat /\ Places(f.sig) \in Nat
  BY Zones
<1>3. CurOf(f) = 1
  BY <1>1, <1>2 DEF CurOf, Least
<1> QED BY <1>1, <1>2, <1>3 DEF Counts

\* A bind that starts has taken nothing.
LEMMA StartsAligned ==
    ASSUME NEW noNom, NEW check, Enter(fn, Now, noNom, check), UNCHANGED <<fn, todo>>, fn \in Sigs,
           todo \in Seq(CallType), todo # <<>>, mode' \in {"trial", "final"}, VarInv', CallsLeft'
    PROVE  ArityInv'
<1> DEFINE a == Activation(fn, Now, noNom)
           b == Bare(a)
<1>1. frames' = <<a>> /\ bound' = Running
  BY DEF Enter
<1>2. /\ b.sig = fn /\ b.args = Now.pos /\ b.cur = 1 /\ b.named = Objects(Now.named) /\ b.i = 1
      /\ b.suppress = FALSE /\ b.sealed = FALSE
  BY DEF Bare, Activation
<1>3. /\ Now.pos \in Seq(Plain) /\ Len(Now.pos) \in Nat /\ Now.named \in [DOMAIN Now.named -> Plain]
  BY FirstCall
<1>4. DOMAIN Objects(Now.named) = DOMAIN Now.named
  BY DEF Objects
<1>5. \A n \in DOMAIN Now.named : Objects(Now.named)[n] \in Plain
  <2>1. \A v \in Plain : AsObject(v) \in Plain
    BY BinderAssumption DEF AsObject, PrimOf
  <2> QED BY <1>3, <2>1 DEF Objects
<1> HIDE DEF b
<1>6. Given(b)
  BY <1>2, <1>3, <1>4, <1>5 DEF Given
<1>8. /\ Len(Sig[fn]) \in Nat /\ Required(fn) \in Nat /\ Places(fn) \in Nat
      /\ DOMAIN Sig[fn] = 1..Len(Sig[fn])
  BY Zones
<1>9. Counts(b) /\ \A kinds : ~Gone(b, kinds)
  BY <1>2, <1>3, StartsCounted
<1>10. ~Loose(fn, 1)
  BY DEF Loose
<1>11. ~(b.i > Len(Sig[fn]) /\ EndsInCapture(fn))
  <2>1. Sig[fn] \in Seq(Parameters)
    BY BinderAssumption
  <2>2. b.i > Len(Sig[fn]) => Sig[fn] = <<>>
    BY <1>2, <2>1
  <2> QED BY <2>2 DEF EndsInCapture
<1>12. Claimed(fn, 1, DOMAIN Now.named) = {}
  <2>1. \A k \in OfKind(fn, {"named", "namedopt"}) : ~(k < 1)
    BY <1>8 DEF OfKind
  <2> QED BY <2>1 DEF Claimed
<1>13. Aligned(b, DOMAIN Now.named)
  <2>1. Unclaimed(b, DOMAIN Now.named) = DOMAIN Now.named
    BY <1>2, <1>9, <1>12 DEF Unclaimed
  <2>2. \A k \in OfKind(fn, {"named"}) : ~(k < b.i)
    BY <1>2, <1>8 DEF OfKind
  <2> QED BY <1>2, <1>4, <1>9, <1>10, <1>11, <2>1, <2>2 DEF Aligned
<1>14. Len(frames') = 1 /\ Bare(frames'[1]) = b
  <2> HIDE DEF a
  <2>1. Len(frames') = 1 /\ frames'[1] = a
    BY <1>1
  <2> QED BY <2>1 DEF b
<1>15. Now' = Now
  BY DEF Now
<1>16. ArityAgrees'
  BY <1>1 DEF ArityAgrees, Running
<1> QED BY <1>1, <1>2, <1>6, <1>13, <1>14, <1>15, <1>16 DEF ArityInv

\* A step of the binder takes one more parameter, or ends the bind as the
\* signature says.
LEMMA BindAligned ==
    ASSUME Orderly, MadeApart, ArityInv, Bind, VarInv', CallsLeft'
    PROVE  ArityInv'
<1>0. BindStep /\ UNCHANGED calls
  BY DEF Bind
<1>1. bound = Running
  BY <1>0 DEF BindStep, BindCapture, BindSlurpyNamed, BindSlurpy, BindPositional, BindDefault,
              MissingPositional, BindNamed, MissingNamed, EndOfParams, AtParam, Binding
<1>2. VarInv /\ FramesOk /\ fn \in Sigs /\ mode \notin {"idle", "ready", "done"}
  BY <1>1 DEF ArityInv, VarInv, Running, Idle
<1>3. todo \in Seq(CallType) /\ (Calling => todo # <<>>)
  BY CallsAre DEF ArityInv, CallsLeft
<1> DEFINE b == Bare(frames[1])
           passed == DOMAIN Now.named
           untyped == \A p \in Own(fn) : Untyped(p)
<1>4. /\ b.args = Now.pos /\ Given(b) /\ Aligned(b, passed) /\ (untyped => Len(frames) = 1)
      /\ b.sig = fn
  <2>1. Bare(frames[1]).sig = frames[1].sig
    BY BareHas
  <2> QED BY <1>1, <1>2, <2>1 DEF ArityInv, FramesOk
<1>5. /\ mode' = mode /\ fn' = fn /\ todo' = todo /\ Now' = Now /\ Calling' = Calling
      /\ outcome' = outcome
  BY <1>0 DEF calls, Now, Calling
<1>6. ArityFits(fn, Now)' = ArityFits(fn, Now)
  BY <1>5
<1>7. untyped' = untyped
  BY <1>5, Zenon DEF Own, Untyped, Attributive, TypeCheck
<1>8. Len(frames) = 1 => Bare(Top) = b
  BY DEF Top
<1>9. Len(Now.pos) \in Nat
  <2>1. CASE mode \in {"trial", "final"}
    BY <1>3, <2>1, FirstCall DEF Calling
  <2>2. Given(b) /\ b.args = Now.pos
    BY <1>4
  <2>3. Now.pos \in Seq(Plain)
    BY <2>2 DEF Given
  <2> QED BY <2>3
<1> HIDE DEF b, passed, untyped
<1>10. CASE Nests
  <2>1. bound' = Running /\ Bare(frames'[1]) = b
    BY <1>10 DEF Nests, b
  <2>2. ~untyped
    BY <1>4, <1>10 DEF Nests
  <2>3. ArityAgrees'
    BY <2>1 DEF ArityAgrees, Running
  <2> QED BY <1>3, <1>4, <1>5, <1>7, <2>1, <2>2, <2>3 DEF ArityInv, passed, untyped
<1>11. CASE Forward
  <2> DEFINE g == Bare(frames'[1])
  <2>1. /\ bound' = Running /\ Len(frames) = 1 /\ (Len(frames') = 1 \/ Param.sub # None)
        /\ (\E v : Takes(b, v, g)) \/ (\E l, m : Skips(b, l, g, m))
    BY <1>8, <1>11 DEF Forward
  <2>2. GoesOn(b, g)
    BY <2>1, TakesOn
  <2> HIDE DEF g
  <2>3. Aligned(g, passed) /\ g.args = Now.pos
    BY <1>2, <1>4, <1>9, <2>2, AlignedOn DEF GoesOn
  <2>4. Given(g)
    BY <1>4, <2>1, GivenOn
  <2>5. untyped => Len(frames') = 1
    <3> SUFFICES ASSUME untyped PROVE Param.sub = None
      BY <2>1
    <3>1. Param = ParamOf(b)
      <4>1. Top.sig = b.sig /\ Top.i = b.i
        BY <1>8, <2>1, BareHas
      <4> QED BY <4>1, Zenon DEF Param, Params, ParamOf
    <3>2. ParamOf(b) \in Own(fn)
      <4>1. b.i \in DOMAIN Sig[fn]
        BY <1>2, <1>4, <2>2, Zones DEF GoesOn, Aligned, Counts
      <4> QED BY <1>4, <4>1 DEF ParamOf, Own, Range
    <3> QED BY <3>1, <3>2 DEF untyped, Untyped
  <2>6. ArityAgrees'
    BY <2>1 DEF ArityAgrees, Running
  <2> QED BY <1>3, <1>5, <1>7, <2>1, <2>3, <2>4, <2>5, <2>6 DEF ArityInv, g, passed, untyped
<1>12. CASE Through
  <2>1. bound' = "ok" /\ Ends(b)
    BY <1>8, <1>12 DEF Through
  <2>2. ArityFits(fn, Now)
    BY <1>2, <1>4, <1>9, <2>1, AlignedEnds DEF passed
  <2>3. ArityAgrees'
    BY <1>6, <2>1, <2>2 DEF ArityAgrees
  <2> QED BY <1>3, <1>5, <2>1, <2>3 DEF ArityInv, Running
<1>13. CASE Refused
  <2>1. bound' \in Verdicts \ {"ok"}
    BY <1>13 DEF Refused
  <2>2. ASSUME bound' = "fail", untyped PROVE ~ArityFits(fn, Now)
    <3>1. Bare(Top) = b
      BY <1>4, <1>8, <2>2
    <3>2. Param = ParamOf(b)
      <4>1. Top.sig = b.sig /\ Top.i = b.i
        BY <3>1, BareHas
      <4> QED BY <4>1, Zenon DEF Param, Params, ParamOf
    <3>3. CASE Stuck(b)
      BY <1>2, <1>4, <1>9, <3>3, AlignedEnds DEF passed
    <3>4. ASSUME NEW v, NEW g, NEW nn, NEW d, Takes(b, v, Bare(g)),
                 NEW a \in Answers(Param, v, d, nn),
                 Verdict(Param, v, a, nn) # "ok" \/ Stops(Param, v, a)
          PROVE  FALSE
      <4>1. PICK h : h = Bare(g)
        OBVIOUS
      <4>2. Takes(b, v, h)
        BY <3>4, <4>1
      <4>3. GoesOn(b, h)
        BY <4>2, TakesOn
      <4>4. ParamOf(b) \in Own(fn)
        <5>1. b.i \in DOMAIN Sig[fn]
          BY <1>2, <1>4, <4>3, Zones DEF GoesOn, Aligned, Counts
        <5> QED BY <1>4, <5>1 DEF ParamOf, Own, Range
      <4>5. Untyped(ParamOf(b)) /\ Counts(b)
        BY <1>4, <2>2, <4>4 DEF untyped, Aligned
      <4>6. Verdict(Param, v, a, nn) = "ok" /\ ~Stops(Param, v, a)
        BY <1>2, <1>4, <3>2, <4>2, <4>5, UntypedTakes
      <4> QED BY <3>4, <4>6
    <3> QED BY <1>13, <2>2, <3>1, <3>3, <3>4 DEF Refused
  <2>3. ArityAgrees'
    BY <1>6, <1>7, <2>1, <2>2 DEF ArityAgrees, untyped
  <2> QED BY <1>3, <1>5, <2>1, <2>3 DEF ArityInv, Running, Verdicts
<1> QED BY <1>0, <1>1, <1>2, <1>10, <1>11, <1>12, <1>13, FirstStep

\* Every step keeps the invariant.
LEMMA ArityNext == Orderly /\ MadeApart /\ ArityInv /\ [Next]_vars => ArityInv'
<1> SUFFICES ASSUME Orderly, MadeApart, ArityInv, [Next]_vars PROVE ArityInv'
  OBVIOUS
<1>1. VarInv /\ VarInv' /\ CallsLeft /\ CallsLeft'
  BY VarNext, CallsLeftNext DEF ArityInv
<1>2. ASSUME bound' = Idle PROVE ArityInv'
  <2>1. ArityAgrees'
    BY <1>2 DEF ArityAgrees, Idle
  <2> QED BY <1>1, <1>2, <2>1 DEF ArityInv, Running, Idle
<1>3. CASE Invoke \/ DispatchTrial \/ DispatchAccepts \/ TrialPasses
  <2>1. /\ Calling /\ UNCHANGED <<fn, todo>> /\ fn \in Sigs /\ mode' \in {"trial", "final"}
        /\ \E noNom, check : Enter(fn, Now, noNom, check)
    BY <1>1, <1>3 DEF Invoke, DispatchTrial, DispatchAccepts, TrialPasses, InvokeChecked, Calling, VarInv
  <2>2. todo \in Seq(CallType) /\ todo # <<>>
    BY <1>1, <2>1, CallsAre DEF CallsLeft
  <2> QED BY <1>1, <2>1, <2>2, StartsAligned
<1>4. CASE Bind
  BY <1>1, <1>4, BindAligned
<1>5. CASE ProgramCalls \/ DispatchRejects
  <2>1. bound' = Idle
    BY <1>1, <1>5 DEF ProgramCalls, Call, DispatchRejects, VarInv, binder
  <2> QED BY <1>2, <2>1
<1>6. CASE TrialFails \/ RunBody \/ ThreadCall \/ BindThrows \/ BindCrashes \/ Return
  <2>1. bound' = Idle
    BY <1>1, <1>6 DEF TrialFails, RunBody, ThreadCall, BindThrows, BindCrashes, Return,
                      Verdictless, VarInv
  <2> QED BY <1>2, <2>1
<1>7. CASE UNCHANGED vars
  <2>1. UNCHANGED <<frames, bound, mode, fn, todo>>
    BY <1>7 DEF vars, binder, calls
  <2>2. ArityAgrees' = ArityAgrees /\ Now' = Now
    BY <2>1, Zenon DEF ArityAgrees, Now
  <2> QED BY <1>1, <2>1, <2>2 DEF ArityInv
<1> QED BY <1>3, <1>4, <1>5, <1>6, <1>7 DEF Next, Progress

\* A bind that works out was given an argument list its signature declares, and one
\* that fails though no parameter has a type to check was not: the walk of the
\* binder over parameters and arguments takes what |ArityFits| says, for every
\* signature whose parameters are in order and whose names belong to one parameter.
THEOREM ArityHolds == ASSUME Orderly, MadeApart PROVE Spec => []ArityAgrees
<1>1. Init => ArityInv
  <2> SUFFICES ASSUME Init PROVE ArityInv
    OBVIOUS
  <2>1. bodies \in Seq({}) /\ BodyVarsBound
    BY DEF Init, BodyVarsBound
  <2>2. VarInv
    BY <2>1 DEF Init, VarInv, Running, Idle
  <2>3. CallsLeft
    BY DEF Init, CallsLeft, Calling
  <2> QED BY <2>2, <2>3 DEF ArityInv, Init, ArityAgrees, Running, Idle
<1>2. ArityInv => ArityAgrees
  BY DEF ArityInv
<1> QED BY <1>1, <1>2, ArityNext, PTL DEF Spec

-----------------------------------------------------------------------------
(* What a body finds in its variables is what their parameters admit.       *)

\* There are as many numbers up to n, and no more of them that have a property.
LEMMA AtMost ==
    ASSUME NEW n \in Nat, NEW S, S \subseteq 1..n
    PROVE  Cardinality(S) \in Nat /\ Cardinality(S) <= n
<1>1. IsFiniteSet(1..n) /\ Cardinality(1..n) = IF 1 > n THEN 0 ELSE n - 1 + 1
  BY FS_Interval
<1>2. IsFiniteSet(S) /\ Cardinality(S) <= Cardinality(1..n)
  BY <1>1, FS_Subset
<1> QED BY <1>1, <1>2, FS_CardinalityType

\* The positionals and what comes after them among the first n parameters of s
\* that the dispatcher counts.
CountsUpTo(s, n, q) ==
    /\ q \in Seq(Parameters)
    /\ n <= Places(s) => Len(q) = n
    /\ n > Places(s) => Len(q) >= Places(s)
    /\ \A i \in 1..Len(q) :
          IF i <= Places(s) THEN q[i] = Sig[s][i]
          ELSE q[i] \in Own(s) /\ q[i].kind \in {"lol", "capture"}

\* One more parameter.
WithNext(s, n, q) ==
    IF n \in Scanned(s) /\ Positional(Sig[s][n]) THEN Append(q, Sig[s][n]) ELSE q

\* One parameter more is counted as the dispatcher's loop counts it.
LEMMA CountsNext ==
    ASSUME NEW s \in Sigs, NEW n \in Nat, n + 1 <= Len(Sig[s]), NEW q, CountsUpTo(s, n, q)
    PROVE  CountsUpTo(s, n + 1, WithNext(s, n + 1, q))
<1> DEFINE p == Sig[s][n + 1]
<1>1. /\ Places(s) \in Nat /\ Places(s) <= Len(Sig[s]) /\ Len(Sig[s]) \in Nat
      /\ DOMAIN Sig[s] = 1..Len(Sig[s]) /\ Sig[s] \in Seq(Parameters)
      /\ \A i \in DOMAIN Sig[s] : Sig[s][i].kind \in {"pos", "opt"} <=> i <= Places(s)
  BY Zones, BinderAssumption
<1>2. n + 1 \in DOMAIN Sig[s] /\ p \in Parameters /\ p \in Own(s)
  BY <1>1 DEF Own, Range
<1>3. n + 1 <= Places(s) => n + 1 \in Scanned(s) /\ Positional(p)
  <2> SUFFICES ASSUME n + 1 <= Places(s) PROVE n + 1 \in Scanned(s) /\ Positional(p)
    OBVIOUS
  <2>1. p.kind \in {"pos", "opt"}
    BY <1>1, <1>2
  <2>2. ASSUME NEW b \in Breaks(s) PROVE n + 1 <= b
    <3>1. b \in 1..Len(Sig[s]) /\ Sig[s][b].kind \notin {"pos", "opt"}
      BY <1>1 DEF Breaks
    <3> QED BY <1>1, <3>1
  <2> QED BY <1>2, <2>1, <2>2 DEF Scanned, Positional
<1>4. n + 1 > Places(s) /\ Positional(p) => p.kind \in {"lol", "capture"}
  BY <1>1, <1>2 DEF Positional
<1>5. q \in Seq(Parameters) /\ Len(q) \in Nat
  BY DEF CountsUpTo
<1>6. CASE n + 1 \in Scanned(s) /\ Positional(p)
  <2>1. PICK r : r = Append(q, p)
    OBVIOUS
  <2>2. /\ r \in Seq(Parameters) /\ Len(r) = Len(q) + 1
        /\ \A i \in 1..(Len(q) + 1) : r[i] = IF i = Len(q) + 1 THEN p ELSE q[i]
    BY <1>2, <1>5, <2>1
  <2>3. WithNext(s, n + 1, q) = r
    BY <1>6, <2>1 DEF WithNext
  <2>4. ASSUME NEW i \in 1..Len(r)
        PROVE  IF i <= Places(s) THEN r[i] = Sig[s][i]
               ELSE r[i] \in Own(s) /\ r[i].kind \in {"lol", "capture"}
    <3>1. CASE i = Len(q) + 1
      <4>1. r[i] = p
        BY <2>2, <3>1
      <4>2. i <= Places(s) => i = n + 1
        BY <1>1, <1>5, <3>1 DEF CountsUpTo
      <4>3. i > Places(s) => n + 1 > Places(s)
        BY <1>1, <1>5, <3>1 DEF CountsUpTo
      <4> QED BY <1>1, <1>2, <1>4, <1>5, <1>6, <3>1, <4>1, <4>2, <4>3
    <3>2. CASE i # Len(q) + 1
      <4>1. i \in 1..Len(q) /\ r[i] = q[i]
        BY <1>5, <2>2, <3>2
      <4> QED BY <4>1 DEF CountsUpTo
    <3> QED BY <3>1, <3>2
  <2>5. /\ n + 1 <= Places(s) => Len(r) = n + 1
        /\ n + 1 > Places(s) => Len(r) >= Places(s)
    BY <1>1, <1>5, <2>2 DEF CountsUpTo
  <2> HIDE DEF p
  <2> QED BY <2>2, <2>3, <2>4, <2>5 DEF CountsUpTo
<1>7. CASE ~(n + 1 \in Scanned(s) /\ Positional(p))
  <2>1. WithNext(s, n + 1, q) = q
    BY <1>7 DEF WithNext
  <2>2. n + 1 > Places(s)
    BY <1>1, <1>3, <1>7
  <2>3. Len(q) >= Places(s)
    BY <1>1, <1>5, <2>2 DEF CountsUpTo
  <2> QED BY <1>1, <2>1, <2>2, <2>3 DEF CountsUpTo
<1> QED BY <1>6, <1>7

\* What the dispatcher counts starts with the positionals of the signature; nothing
\* that comes after them is one.
LEMMA CountedIs ==
    ASSUME NEW s \in Sigs
    PROVE  CountsUpTo(s, Len(Sig[s]), Counted[s])
<1> DEFINE L    == Len(Sig[s])
           S    == Seq(Parameters)
           With(n, q) == WithNext(s, n, q)
           base == <<>>
           prev == [n \in 1..L |-> n - 1]
           step == [n \in 1..L |-> [q \in S |-> With(n, q)]]
           Body(g) == [n \in 0..L |-> IF n = 0 THEN <<>> ELSE With(n, g[n - 1])]
           found == CHOOSE g : g = Body(g)
<1>1. L \in Nat /\ Places(s) \in Nat /\ \A n \in 1..L : Sig[s][n] \in Parameters
  BY Zones, BinderAssumption
<1>3. ASSUME NEW n \in 1..L, NEW q \in S PROVE With(n, q) \in S
  BY <1>1 DEF WithNext
<1>4. Counted[s] = found[L]
  BY DEF Counted, WithNext
<1> HIDE DEF L
<1>5. Earlier(prev, L)
  BY <1>1 DEF Earlier
<1>6. StepsOn(step, L, S) /\ base \in S
  <2> HIDE DEF With
  <2> QED BY <1>3 DEF StepsOn
<1>7. PICK f \in [0..L -> S] : Follows(f, L, base, prev, step)
  <2> HIDE DEF S, prev, step, base
  <2> QED BY <1>1, <1>5, <1>6, FunctionByRecursion
<1>8. ASSUME NEW n \in 0..L PROVE f[n] = IF n = 0 THEN <<>> ELSE With(n, f[n - 1])
  <2>1. f[n] = IF n = 0 THEN base ELSE step[n][f[prev[n]]]
    <3> HIDE DEF step, prev, base, S
    <3> QED BY <1>7 DEF Follows
  <2>2. n # 0 => n \in 1..L /\ n - 1 \in 0..L /\ prev[n] = n - 1 /\ f[n - 1] \in S
    BY <1>1, <1>7
  <2> HIDE DEF With
  <2> QED BY <2>1, <2>2
<1> HIDE DEF With
<1>9. f = Body(f)
  <2>1. f = [n \in 0..L |-> f[n]]
    BY <1>7
  <2> QED BY <1>8, <2>1
<1>10. found = Body(found)
  <2> HIDE DEF Body
  <2> QED BY <1>9
<1>11. \A n \in 0..L : found[n] = IF n = 0 THEN <<>> ELSE With(n, found[n - 1])
  <2>1. \A g : \A n \in 0..L : Body(g)[n] = IF n = 0 THEN <<>> ELSE With(n, g[n - 1])
    OBVIOUS
  <2> HIDE DEF Body, found
  <2> QED BY <1>10, <2>1, Zenon
<1> HIDE DEF found, Body
<1> DEFINE T == {n \in Nat : n <= L => CountsUpTo(s, n, found[n])}
<1>12. 0 \in T
  <2>1. 0 \in 0..L
    BY <1>1
  <2>2. found[0] = <<>>
    BY <1>11, <2>1, Zenon
  <2>3. CountsUpTo(s, 0, <<>>)
    BY <1>1 DEF CountsUpTo
  <2>4. 0 \in Nat /\ (0 <= L => CountsUpTo(s, 0, found[0]))
    BY <2>2, <2>3, Zenon
  <2> QED BY <2>4
<1>13. ASSUME NEW n \in Nat, n \in T PROVE n + 1 \in T
  <2> SUFFICES ASSUME n + 1 <= L PROVE CountsUpTo(s, n + 1, found[n + 1])
    BY DEF T
  <2>1. n + 1 \in 0..L /\ n + 1 # 0 /\ (n + 1) - 1 = n /\ n <= L
    BY <1>1
  <2>2. CountsUpTo(s, n, found[n])
    BY <1>13, <2>1
  <2>3. found[n + 1] = WithNext(s, n + 1, found[n])
    BY <1>11, <2>1 DEF With
  <2> QED BY <2>1, <2>2, <2>3, CountsNext DEF L
<1> HIDE DEF T
<1>14. L \in T
  BY <1>1, <1>12, <1>13, InductiveSet
<1> QED BY <1>4, <1>14 DEF T, L

\* A parameter whose type the dispatcher looked at is the positional in its place, or
\* one that takes a list or a capture.
LEMMA DispatchedIs ==
    ASSUME NEW s \in Sigs, NEW i \in 1..NumTypes(s)
    PROVE  IF i <= Places(s) THEN Counted[s][i] = Sig[s][i] /\ i \in DOMAIN Sig[s]
           ELSE Counted[s][i] \in Own(s) /\ Counted[s][i].kind \in {"lol", "capture"}
<1>1. CountsUpTo(s, Len(Sig[s]), Counted[s])
  BY CountedIs
<1>2. PICK q : q = Counted[s]
  OBVIOUS
<1>3. q \in Seq(Parameters) /\ Len(q) \in Nat /\ DOMAIN q = 1..Len(q)
  BY <1>1, <1>2 DEF CountsUpTo
<1>4. NumTypes(s) = Cardinality({k \in DOMAIN q : q[k].invocant})
  BY <1>2 DEF NumTypes
<1>5. NumTypes(s) \in Nat /\ NumTypes(s) <= Len(q)
  BY <1>3, <1>4, AtMost
<1>6. i \in 1..Len(q)
  BY <1>3, <1>5
<1>7. /\ Places(s) \in Nat /\ Places(s) <= Len(Sig[s])
      /\ Len(Sig[s]) \in Nat /\ DOMAIN Sig[s] = 1..Len(Sig[s])
  BY Zones
<1> QED BY <1>1, <1>2, <1>6, <1>7 DEF CountsUpTo

\* What a parameter of the callee that has a variable of its own asks of a value that
\* passed the checks: its type and its definedness were checked, by the binder or by
\* the dispatcher before it, or the value is a list or capture made for it.
LEMMA CheckedConforms ==
    ASSUME NEW p \in Parameters, Shown(p), NEW v, NEW nn, NEW d, NEW a \in Answers(p, v, d, nn),
           Verdict(p, v, a, nn) = "ok"
    PROVE  LET bv == Prepared(p, v)
           IN  /\ PrimOf(bv) = p.native
               /\ bv \notin p.rejects
               /\ nn = FALSE => Conforms(p, bv)
<1> DEFINE bv == Prepared(p, v)
<1>1. p.coerce = None /\ ~p.generic /\ ~Attributive(p)
  BY DEF Shown, Declares
<1>2. Typed(p, v, nn, tvars) = "ok" /\ a.refused # Thrown /\ a.refused # TRUE
  <2>1. PICK self : Verdict(p, v, a, nn) =
           IF Typed(p, v, nn, tvars) # "ok" THEN Typed(p, v, nn, tvars)
           ELSE IF p.coerce # None /\ PrimOf(bv) # "obj" THEN IF trial THEN "crash" ELSE "fail"
           ELSE IF Decont(p, bv, a) = None THEN "fail"
           ELSE IF Decont(p, bv, a) = Thrown \/ a.refused = Thrown THEN "die"
           ELSE IF a.refused = TRUE THEN "fail"
           ELSE IF Attributive(p) THEN Stored(p, bv, a, self) ELSE "ok"
    BY Zenon DEF Verdict
  <2> HIDE DEF bv
  <2> QED BY <2>1
<1>3. bv # None /\ bv # Garbage
  BY <1>2 DEF Typed
<1>5. bv \notin p.rejects
  <2>1. a.refused \in Refusals(p, bv)
    BY <1>2, AnswerIs
  <2> HIDE DEF bv
  <2> QED BY <1>2, <2>1 DEF Refusals, MayThrow
<1>6. PrimOf(v) \in Prims /\ p.native \in Prims
  BY BinderAssumption DEF PrimOf, Parameters, Prims
<1>7. PrimOf(v) = p.native => PrimOf(bv) = p.native
  BY DEF Prepared
<1>8. ASSUME PrimOf(v) # p.native, p.native = "obj" PROVE PrimOf(bv) = p.native
  <2>1. v \in Plain /\ Prim[v] # "obj"
    BY <1>8 DEF PrimOf
  <2>2. bv = Box[v] /\ PrimOf(bv) = "obj"
    BY <1>8, <2>1, BinderAssumption DEF Prepared, PrimOf
  <2> QED BY <1>8, <2>2
<1>9. ASSUME PrimOf(v) # p.native, p.native # "obj" PROVE PrimOf(bv) = p.native
  <2>1. PrimOf(v) = "obj" /\ v \in Plain /\ bv = Unbox[v][p.native]
    BY <1>3, <1>9 DEF Prepared
  <2>2. Prim[v] = "obj"
    BY <2>1 DEF PrimOf
  <2>3. bv \in Plain /\ Prim[bv] = p.native
    BY <1>3, <1>6, <1>9, <2>1, <2>2, BinderAssumption
  <2> QED BY <1>9, <2>3 DEF PrimOf
<1>10. PrimOf(bv) = p.native
  BY <1>7, <1>8, <1>9
<1>12. ASSUME nn = FALSE, p.native = "obj" PROVE NominalOk(p, bv, NoArgs) /\ DefiniteOk(p, bv)
  <2>1. NominalOk(p, bv, tvars) /\ DefiniteOk(p, bv)
    BY <1>2, <1>10, <1>12 DEF Typed
  <2>2. NominalOk(p, bv, tvars) <=> NominalOk(p, bv, NoArgs)
    BY <1>1 DEF NominalOk, NominalType
  <2> QED BY <2>1, <2>2
<1>13. nn = FALSE => Conforms(p, bv)
  BY <1>5, <1>10, <1>12 DEF Conforms
<1> QED BY <1>5, <1>10, <1>13

\* The dispatcher's check is as good as the binder's.
LEMMA AdmittedConforms ==
    ASSUME NEW p \in Parameters, Shown(p), NEW v \in Plain, NEW nn, NEW d,
           NEW a \in Answers(p, v, d, nn), Verdict(p, v, a, nn) = "ok", TypeAdmits(p, v)
    PROVE  Conforms(p, Prepared(p, v))
<1> DEFINE bv == Prepared(p, v)
<1>1. /\ PrimOf(bv) = p.native /\ bv \notin p.rejects /\ ~p.generic
  BY CheckedConforms DEF Shown
<1>2. ASSUME p.native = "obj" PROVE NominalOk(p, bv, NoArgs) /\ DefiniteOk(p, bv)
  <2>1. bv = AsObject(v)
    BY <1>2 DEF Prepared, AsObject
  <2>2. p.type = MuType \/ TypeCheck(TypeOfValue(bv), p.type)
    BY <1>1, <1>2, <2>1 DEF TypeAdmits
  <2>3. DefiniteOk(p, v)
    BY <1>2 DEF TypeAdmits
  <2>4. Prim[v] # "obj" => v \in Defined /\ Box[v] \in Defined /\ Box[v] \in Plain
    BY CallAssumption, BinderAssumption
  <2>5. IsDefined(bv) <=> IsDefined(v)
    BY <2>1, <2>4 DEF AsObject, PrimOf, IsDefined
  <2>6. DefiniteOk(p, bv)
    BY <2>3, <2>5 DEF DefiniteOk
  <2> QED BY <1>1, <2>2, <2>6 DEF NominalOk, NominalType
<1> QED BY <1>1, <1>2 DEF Conforms

\* A list or a capture conforms when its parameter has a type that lists and captures
\* have: the dispatcher compares that type with an argument instead.
TypedAsMade ==
    \A s \in Multis : \A p \in Own(s) : Shown(p) =>
       /\ p.kind = "lol" => p.type = MuType \/ TypeCheck(ListType, p.type)
       /\ p.kind = "capture" => p.type = MuType \/ TypeCheck(CaptureType, p.type)
       /\ p.kind \in {"lol", "capture"} => p.definite # "U"

\* What the binder makes for such a parameter conforms to it.
LEMMA MadeConforms ==
    ASSUME MadeApart, NEW p \in Parameters, Shown(p), p.definite # "U", NEW v, NEW nn, NEW d,
           NEW a \in Answers(p, v, d, nn), Verdict(p, v, a, nn) = "ok",
           \/ (\E s : v = ListOf(s)) /\ (p.type = MuType \/ TypeCheck(ListType, p.type))
           \/ (\E s, h : v = CaptOf(s, h)) /\ (p.type = MuType \/ TypeCheck(CaptureType, p.type))
    PROVE  Conforms(p, Prepared(p, v))
<1> DEFINE bv == Prepared(p, v)
<1>1. /\ PrimOf(bv) = p.native /\ bv \notin p.rejects /\ ~p.generic
  BY CheckedConforms DEF Shown
<1>2. v \notin Plain
  BY MadeTypes
<1>3. p.type = MuType \/ TypeCheck(TypeOfValue(v), p.type)
  <2>1. CASE (\E s : v = ListOf(s)) /\ (p.type = MuType \/ TypeCheck(ListType, p.type))
    <3>1. TypeOfValue(v) = ListType
      BY <2>1, MadeTypes
    <3> QED BY <2>1, <3>1
  <2>2. CASE (\E s, h : v = CaptOf(s, h)) /\ (p.type = MuType \/ TypeCheck(CaptureType, p.type))
    <3>1. DOMAIN v = {"pos", "named"}
      BY <2>2 DEF CaptOf
    <3>2. TypeOfValue(v) = CaptureType
      BY <1>2, <3>1 DEF TypeOfValue
    <3> QED BY <2>2, <3>2
  <2> QED BY <2>1, <2>2
<1>4. ASSUME p.native = "obj" PROVE NominalOk(p, bv, NoArgs) /\ DefiniteOk(p, bv)
  <2>1. bv = v
    BY <1>2, <1>4 DEF Prepared, PrimOf
  <2>2. IsDefined(v)
    BY <1>2 DEF IsDefined
  <2> QED BY <1>1, <1>3, <2>1, <2>2 DEF NominalOk, NominalType, DefiniteOk
<1> QED BY <1>1, <1>4 DEF Conforms

\* The parameters that a body called in one way can be sure of, and that it finds
\* values in lexpad l which they admit.
Sure(s, via) ==
    IF via = "direct" THEN Own(s) \cup Nested(s)
    ELSE Dispatched(s) \cup {p \in Own(s) : p.kind \in {"named", "namedopt"}}
Admitted(s, l, via) ==
    \A p \in Sure(s, via) : Shown(p) /\ p.var \in DOMAIN l => Conforms(p, l[p.var])

\* They are the callee's, or those of the sub-signatures in it.
LEMMA SureIs ==
    ASSUME NEW s \in Sigs, NEW via, NEW p \in Sure(s, via)
    PROVE  /\ \E t \in Inside[s] : \E m \in DOMAIN Sig[t] : p = Sig[t][m]
           /\ via # "direct" => \E m \in DOMAIN Sig[s] : p = Sig[s][m]
<1>1. s \in Inside[s] /\ \A t : \A q \in Own(t) : \E m \in DOMAIN Sig[t] : q = Sig[t][m]
  BY CallAssumption DEF Own, Range
<1>2. CASE via = "direct"
  <2>1. \E t \in Inside[s] : p \in Own(t)
    BY <1>1, <1>2 DEF Sure, Nested
  <2> QED BY <1>1, <1>2, <2>1
<1>3. CASE via # "direct"
  <2>1. p \in Own(s)
    <3>1. CASE p \in Dispatched(s)
      <4>1. PICK i \in 1..NumTypes(s) : p = Counted[s][i]
        BY <3>1 DEF Dispatched
      <4>2. CASE i <= Places(s)
        BY <4>1, <4>2, DispatchedIs DEF Own, Range
      <4>3. CASE ~(i <= Places(s))
        BY <4>1, <4>3, DispatchedIs
      <4> QED BY <4>2, <4>3
    <3> QED BY <1>3, <3>1 DEF Sure
  <2> QED BY <1>1, <1>3, <2>1
<1> QED BY <1>2, <1>3

\* A variable is declared once.
LEMMA DeclaredOnce ==
    ASSUME NEW s \in Sigs, NEW t \in Inside[s], NEW u \in Inside[s],
           NEW m \in DOMAIN Sig[t], NEW n \in DOMAIN Sig[u],
           Declares(Sig[t][m]), Declares(Sig[u][n]), Sig[t][m].var = Sig[u][n].var
    PROVE  t = u /\ m = n /\ Sig[t][m].var # Self
BY CallAssumption

\* Where bind_one_param puts the value.
LEMMA Lands ==
    ASSUME NEW q, NEW v, NEW a, NEW l, NEW n, n \in DOMAIN LexAfter(q, v, a, l), n # Self
    PROVE  \/ n \in DOMAIN l /\ LexAfter(q, v, a, l)[n] = l[n]
           \/ /\ Declares(q) /\ n = q.var
              /\ Shown(q) => LexAfter(q, v, a, l)[n] = Prepared(q, v)
<1>1. PICK r : r = LexAfter(q, v, a, l)
  OBVIOUS
<1>2. PICK w : w = WithVar(q, v, a, l)
  OBVIOUS
<1>3. n \in DOMAIN w /\ r[n] = w[n]
  <2>1. r = IF q.self THEN Set(w, Self, Shows(q, v, a)) ELSE w
    BY <1>1, <1>2, Zenon DEF LexAfter
  <2>2. CASE q.self
    <3>1. PICK y : y = Shows(q, v, a)
      OBVIOUS
    <3>2. r = Set(w, Self, y)
      BY <2>1, <2>2, <3>1
    <3>3. DOMAIN r = DOMAIN w \cup {Self} /\ \A j \in DOMAIN w : j # Self => r[j] = w[j]
      BY <3>2 DEF Set
    <3> QED BY <1>1, <3>3
  <2> QED BY <1>1, <2>1, <2>2
<1>4. CASE ~Declares(q)
  BY <1>1, <1>2, <1>3, <1>4 DEF WithVar, Declares
<1>5. CASE Declares(q)
  <2>1. PICK y : w = Set(l, q.var, y) /\ (Shown(q) => y = Prepared(q, v))
    <3>1. Shown(q) => Shows(q, v, a) = Prepared(q, v)
      BY Zenon DEF Shown, Shows, Decont, Coerces
    <3> QED BY <1>2, <1>5, <3>1 DEF WithVar, Declares
  <2>2. DOMAIN w = DOMAIN l \cup {q.var} /\ w[q.var] = y /\ \A j \in DOMAIN l : j # q.var => w[j] = l[j]
    BY <2>1 DEF Set
  <2> QED BY <1>1, <1>3, <1>5, <2>1, <2>2
<1> QED BY <1>4, <1>5

\* The bind knows the types of the arguments from the checks it makes, or from the
\* dispatcher; and it gives each parameter the argument in its place.
Told ==
    /\ Now.via = "direct" => Lenient
    /\ Now.via # "direct" => fn \in Multis /\ Admits(fn, Now)
Placed ==
    /\ Counts(Bare(frames[1])) /\ frames[1].args = Now.pos /\ Now.pos \in Seq(Plain)
    /\ \A k \in 2..Len(frames) : frames[k].sig # fn

\* The positional that takes an argument takes the one in its place.
LEMMA InItsPlace ==
    ASSUME NEW f, f.sig \in Sigs, Counts(f), Len(f.args) \in Nat, f.i <= Places(f.sig), More(f)
    PROVE  f.cur = f.i /\ f.i \in 1..Len(f.args)
<1>1. /\ Len(Sig[f.sig]) \in Nat /\ DOMAIN Sig[f.sig] = 1..Len(Sig[f.sig])
      /\ Places(f.sig) \in Nat /\ Places(f.sig) <= Len(Sig[f.sig])
      /\ \A j \in DOMAIN Sig[f.sig] : Sig[f.sig][j].kind \in {"pos", "opt"} <=> j <= Places(f.sig)
  BY Zones
<1>2. f.i \in Nat \ {0}
  BY <1>1 DEF Counts
<1>3. ~Gone(f, {"slurpy", "lol"})
  <2> SUFFICES ASSUME NEW j \in 1..(f.i - 1) PROVE Sig[f.sig][j].kind \notin {"slurpy", "lol"}
    BY DEF Gone
  <2>1. j \in DOMAIN Sig[f.sig] /\ j <= Places(f.sig)
    BY <1>1, <1>2
  <2> QED BY <1>1, <2>1
<1>4. f.cur = 1 + Least(Least(f.i - 1, Places(f.sig)), Len(f.args))
  BY <1>3 DEF Counts, CurOf
<1> QED BY <1>1, <1>2, <1>4 DEF Least, More

\* A value that bind_one_param passed, and that a body is sure of, conforms.
LEMMA PassedConforms ==
    ASSUME MadeApart, TypedAsMade, VarInv, SigsIn, bound = Running, Told, Placed,
           NEW v, NEW g, Takes(Bare(Top), v, Bare(g)), NEW nn \in {Top.noNom, FALSE},
           Always(Bare(Top)) => nn = FALSE, NEW d, NEW a \in Answers(Param, v, d, nn),
           Verdict(Param, v, a, nn) = "ok",
           Param \in Sure(fn, Now.via), Shown(Param)
    PROVE  Conforms(Param, Prepared(Param, v))
<1> DEFINE b == Bare(Top)
<1>1. /\ fn \in Sigs /\ Top.sig \in Sigs /\ Top.sig \in Inside[fn] /\ Top.i \in Nat \ {0}
      /\ frames # <<>> /\ Len(frames) \in 1..Len(frames)
  BY TopIs
<1>2. b.sig = Top.sig /\ b.i = Top.i
  BY BareHas
<1>3. Param = ParamOf(b) /\ Param = Sig[Top.sig][Top.i]
  BY <1>2, Zenon DEF Param, Params, ParamOf
<1>4. b.i <= Len(Sig[b.sig])
  BY Zenon DEF Takes, Defaults, At
<1>5. Top.i \in DOMAIN Sig[Top.sig] /\ Param \in Parameters
  BY <1>1, <1>2, <1>3, <1>4, BinderAssumption
<1>6. nn = FALSE => Conforms(Param, Prepared(Param, v))
  BY <1>5, CheckedConforms
<1>7. CASE Now.via = "direct"
  <2>1. Top.noNom = FALSE
    BY <1>1, <1>7 DEF Told, Lenient, Top
  <2> QED BY <1>6, <2>1
<1>8. CASE Now.via # "direct"
  <2>1. fn \in Multis /\ Admits(fn, Now)
    BY <1>8 DEF Told
  <2>2. ASSUME NEW m \in DOMAIN Sig[fn], Param = Sig[fn][m] PROVE Top.sig = fn /\ Top.i = m
    <3>1. Declares(Param) /\ fn \in Inside[fn]
      BY <1>1, CallAssumption DEF Shown
    <3>2. PICK t, n : t = Top.sig /\ n = Top.i
      OBVIOUS
    <3>3. t \in Inside[fn] /\ n \in DOMAIN Sig[t] /\ Sig[t][n] = Sig[fn][m] /\ Declares(Sig[t][n])
      BY <1>1, <1>3, <1>5, <2>2, <3>1, <3>2
    <3>4. t = fn /\ n = m
      BY <1>1, <3>1, <3>3, DeclaredOnce
    <3> QED BY <3>2, <3>4
  <2>3. Top.sig = fn /\ Param \in Own(fn)
    BY <1>1, <1>8, <2>2, SureIs DEF Own, Range
  <2>4. Len(frames) = 1 /\ b = Bare(frames[1])
    <3>1. Len(frames) \in Nat /\ (Len(frames) = 1 \/ Len(frames) \in 2..Len(frames))
      <4>1. PICK S : frames \in Seq(S)
        BY TopIs
      <4>2. Len(frames) \in Nat
        BY <4>1
      <4>3. PICK n : n = Len(frames)
        OBVIOUS
      <4>4. n \in Nat /\ n \in 1..n
        BY <1>1, <4>2, <4>3
      <4>5. n = 1 \/ n \in 2..n
        BY <4>4
      <4> QED BY <4>3, <4>4, <4>5
    <3> QED BY <2>3, <3>1 DEF Placed, Top
  <2>5. Counts(b) /\ b.args = Now.pos /\ Now.pos \in Seq(Plain)
    BY <2>4, BareHas DEF Placed
  <2>6. CASE Param.kind \in {"named", "namedopt"}
    BY <1>3, <1>4, <1>6, <2>6 DEF Always, At
  <2>7. ASSUME NEW i \in 1..NumTypes(fn), Param = Counted[fn][i]
        PROVE  Conforms(Param, Prepared(Param, v))
    <3>1. CASE i <= Places(fn)
      <4>1. i \in DOMAIN Sig[fn] /\ Param = Sig[fn][i]
        BY <1>1, <2>7, <3>1, DispatchedIs
      <4>2. b.i = i /\ b.sig = fn
        BY <1>2, <2>2, <4>1
      <4>3. Param.kind \in {"pos", "opt"}
        BY <1>1, <3>1, <4>1, Zones
      <4>4. CASE ~More(b)
        <5>1. At(b, {"opt"})
          BY <1>3, <4>3, <4>4 DEF Takes, Defaults, At
        <5> QED BY <1>6, <4>4, <5>1 DEF Always
      <4>5. CASE More(b)
        <5>1. v = b.args[b.cur]
          BY <1>3, <4>3, <4>5 DEF Takes, Defaults, At
        <5>2. b.cur = i /\ i \in 1..Len(Now.pos)
          BY <1>1, <2>5, <3>1, <4>2, <4>5, InItsPlace
        <5>3. v = Now.pos[i] /\ v \in Plain /\ i \in DOMAIN Now.pos
          BY <2>5, <5>1, <5>2
        <5>4. TypeAdmits(Param, v)
          BY <2>1, <2>7, <5>3 DEF Admits, TypesAdmit
        <5> QED BY <1>5, <5>3, <5>4, AdmittedConforms
      <4> QED BY <4>4, <4>5
    <3>2. CASE ~(i <= Places(fn))
      <4>1. Param.kind \in {"lol", "capture"}
        BY <1>1, <2>7, <3>2, DispatchedIs
      <4>2. CASE Param.kind = "lol"
        <5>1. v = ListOf(Rest(b))
          BY <1>3, <4>2 DEF Takes, Defaults, At
        <5>2. Param.definite # "U" /\ (Param.type = MuType \/ TypeCheck(ListType, Param.type))
          BY <2>1, <2>3, <4>2 DEF TypedAsMade
        <5> QED BY <1>5, <5>1, <5>2, MadeConforms
      <4>3. CASE Param.kind = "capture"
        <5>1. v = CaptOf(Rest(b), b.named)
          BY <1>3, <4>3 DEF Takes, Defaults, At
        <5>2. Param.definite # "U" /\ (Param.type = MuType \/ TypeCheck(CaptureType, Param.type))
          BY <2>1, <2>3, <4>3 DEF TypedAsMade
        <5> QED BY <1>5, <5>1, <5>2, MadeConforms
      <4> QED BY <4>1, <4>2, <4>3
    <3> QED BY <3>1, <3>2
  <2> QED BY <1>8, <2>6, <2>7 DEF Sure, Dispatched
<1> QED BY <1>7, <1>8

\* A bind that enters a body has found values its parameters admit so far, knowing
\* what it was told; so has every bind whose body was entered.
ConfInv ==
    /\ VarInv /\ CallsLeft /\ HeardOk
    /\ bound = Running => SigsIn /\ Placed
    /\ mode = "trial" => Admits(fn, Now)
    /\ mode = "final" /\ bound = Running => Told
    /\ mode = "final" /\ bound \in {Running, "ok"} => Admitted(fn, lex, Now.via)
    /\ BodyArgsConform

\* An activation that starts gives the first argument its place.
LEMMA StartsPlaced ==
    ASSUME NEW noNom, NEW check, Enter(fn, Now, noNom, check), UNCHANGED <<fn, todo>>, fn \in Sigs,
           Now \in CallType
    PROVE  /\ bound' = Running /\ SigsIn' /\ Placed' /\ lex' = NoArgs
           /\ noNom = FALSE => Lenient'
<1> DEFINE a == Activation(fn, Now, noNom)
<1>1. a.sig = fn /\ a.args = Now.pos /\ a.i = 1 /\ a.cur = 1
  BY DEF Activation
<1>2. frames' = <<a>> /\ lex' = NoArgs
  BY DEF Enter
<1>3. Now.pos \in Seq(Plain) /\ Len(Now.pos) \in Nat
  BY DEF CallType
<1>4. Counts(Bare(a))
  BY <1>1, <1>3, BareHas, StartsCounted
<1> HIDE DEF a
<1>5. frames'[1] = a /\ Len(frames') = 1
  BY <1>2
<1>6. Now' = Now
  BY DEF Now
<1>7. Placed'
  <2>1. Counts(Bare(frames[1]))'
    BY <1>4, <1>5
  <2> QED BY <1>1, <1>3, <1>5, <1>6, <2>1 DEF Placed
<1> QED BY <1>2, <1>7, Starts

\* A step of the binder leaves the arguments in their places.
LEMMA StepPlaced ==
    ASSUME VarInv, SigsIn, Placed, bound = Running, BindStep, UNCHANGED calls, bound' = Running
    PROVE  Placed'
<1>1. PICK S : frames \in Seq(S)
  BY TopIs
<1>2. /\ fn \in Sigs /\ Top.sig \in Sigs /\ Top.sig \in Inside[fn] /\ frames # <<>>
      /\ Len(frames) \in Nat \ {0} /\ DOMAIN Top = Fields
  <2>1. Len(frames) \in Nat
    BY <1>1
  <2> QED BY <2>1, TopIs
<1>3. frames[1].sig = fn /\ fn' = fn /\ Now' = Now
  BY DEF VarInv, FramesOk, Running, Idle, calls, Now
<1>4. Now.pos \in Seq(Plain) /\ Len(Now.pos) \in Nat /\ Counts(Bare(frames[1])) /\ frames[1].args = Now.pos
  BY DEF Placed
<1>5. Counts(Bare(frames'[1])) /\ frames'[1].args = Now.pos
  <2>1. CASE Nests
    BY <1>4, <2>1 DEF Nests
  <2>2. CASE Forward
    <3>1. PICK b, h : b = Bare(frames[1]) /\ h = Bare(frames'[1])
      OBVIOUS
    <3>2. GoesOn(b, h)
      <4>1. \/ \E v : Takes(b, v, h)
            \/ \E l, m : Skips(b, l, h, m)
        BY <2>2, <3>1 DEF Forward, Top
      <4> QED BY <4>1, TakesOn
    <3>3. b.sig = fn /\ b.args = Now.pos /\ Counts(b)
      BY <1>3, <1>4, <3>1, BareHas
    <3>4. Counts(h) /\ h.args = Now.pos
      BY <1>2, <1>4, <3>2, <3>3, CountsOn DEF GoesOn
    <3> QED BY <3>1, <3>4, BareHas
  <2>3. ~Through /\ ~Refused
    BY DEF Through, Refused, Running, Verdicts
  <2> QED BY <2>1, <2>2, <2>3, FirstStep
<1>6. \A k \in 2..Len(frames) : frames[k].sig # fn
  BY DEF Placed
<1>7. \A k \in 2..Len(frames') : frames'[k].sig # fn
  <2>1. \A g : /\ OnTop(frames, g) \in Seq(S \cup {g}) /\ Len(OnTop(frames, g)) = Len(frames)
               /\ \A k \in 1..Len(frames) : OnTop(frames, g)[k] = IF k = Len(frames) THEN g ELSE frames[k]
    BY <1>1, <1>2 DEF OnTop
  <2>2. \A g : Replace(g) = OnTop(frames, g)
    BY DEF Replace, OnTop
  <2>3. ASSUME NEW g, Follow(Top, g), NEW k \in 2..Len(frames) PROVE OnTop(frames, g)[k].sig # fn
    <3>1. k \in 1..Len(frames)
      BY <1>2
    <3>2. OnTop(frames, g)[k] = IF k = Len(frames) THEN g ELSE frames[k]
      BY <2>1, <3>1
    <3>3. k = Len(frames) => g.sig = frames[k].sig
      BY <2>3 DEF Follow, Top
    <3> QED BY <1>6, <3>2, <3>3
  <2>4. CASE Binds(Top)
    <3>1. PICK v, d, g, nn : /\ Takes(Bare(Top), v, Bare(g)) /\ Follow(Top, g)
                             /\ OneParam(Param, v, d, nn, g)
      BY <2>4 DEF Binds
    <3>a. PICK a : \/ Verdict(Param, v, a, nn) = "ok" /\ Bound(Param, v, a, nn, g)
                   \/ Verdict(Param, v, a, nn) # "ok" /\ bound' = Verdict(Param, v, a, nn)
      BY <3>1, Zenon DEF OneParam, Unwind
    <3>2. Bound(Param, v, a, nn, g) /\ ~Stops(Param, v, a)
      BY <3>a, BoundDoes, VerdictType DEF Running, Verdicts
    <3>3. frames' = IF Recurses(Param, v)
                    THEN Append(OnTop(frames, g), SubActivation(Param, v, a, nn)) ELSE OnTop(frames, g)
      BY <2>2, <3>2, BoundDoes
    <3>4. CASE ~Recurses(Param, v)
      <4>1. Len(frames') = Len(frames) /\ frames' = OnTop(frames, g)
        BY <2>1, <3>3, <3>4
      <4> QED BY <2>3, <3>1, <4>1
    <3>5. CASE Recurses(Param, v)
      <4>1. PICK xs, h : xs = OnTop(frames, g) /\ h = SubActivation(Param, v, a, nn)
        OBVIOUS
      <4>2. xs \in Seq(S \cup {g}) /\ Len(xs) = Len(frames)
        BY <2>1, <4>1
      <4>3. /\ Len(frames') = Len(xs) + 1
            /\ \A k \in 1..(Len(xs) + 1) : frames'[k] = IF k = Len(xs) + 1 THEN h ELSE xs[k]
        BY <3>3, <3>5, <4>1, <4>2, AppendIs
      <4>4. h.sig # fn
        <5>1. h.sig = Param.sub /\ Param.sub # None
          BY <3>5, <4>1, SubActivationIs DEF Recurses
        <5>2. Param \in Own(Top.sig)
          <6>1. Bare(Top).i <= Len(Sig[Bare(Top).sig]) /\ Bare(Top).sig = Top.sig /\ Bare(Top).i = Top.i
            BY <3>1, BareHas, Zenon DEF Takes, Defaults, At
          <6>2. Top.i \in DOMAIN Sig[Top.sig]
            BY <1>2, <6>1, TopIs, BinderAssumption
          <6> QED BY <6>2 DEF Own, Range, Param, Params
        <5>3. Param.sub \in Inside[fn] \ {fn}
          BY <1>2, <5>1, <5>2, CallAssumption
        <5> QED BY <5>1, <5>3
      <4>5. ASSUME NEW k \in 2..Len(frames') PROVE frames'[k].sig # fn
        <5>1. k \in 1..(Len(xs) + 1)
          BY <4>2, <4>3, <1>2
        <5>2. CASE k = Len(xs) + 1
          BY <4>3, <4>4, <5>1, <5>2
        <5>3. CASE k # Len(xs) + 1
          <6>1. k \in 2..Len(frames) /\ frames'[k] = xs[k]
            BY <1>2, <4>2, <4>3, <5>1, <5>3
          <6> QED BY <2>3, <3>1, <4>1, <6>1
        <5> QED BY <5>2, <5>3
      <4> QED BY <4>5
    <3> QED BY <3>4, <3>5
  <2>5. CASE Passes(Top)
    <3>1. PICK g : Follow(Top, g) /\ frames' = OnTop(frames, g)
      BY <2>2, <2>5 DEF Passes
    <3>2. Len(frames') = Len(frames)
      BY <2>1, <3>1
    <3> QED BY <2>3, <3>1, <3>2
  <2>6. CASE Leaves(Top)
    <3>1. frames' = SubSeq(frames, 1, Len(frames) - 1) /\ Len(frames) # 1
      BY <2>6 DEF Leaves, Running
    <3>2. PICK n : n = Len(frames) - 1
      OBVIOUS
    <3>3. n \in Nat /\ n < Len(frames) /\ frames' = SubSeq(frames, 1, n)
      BY <1>2, <3>1, <3>2
    <3>4. Len(frames') = n /\ \A k \in 1..n : frames'[k] = frames[k]
      BY <1>1, <3>3, Popped
    <3>5. ASSUME NEW k \in 2..Len(frames') PROVE k \in 1..n /\ k \in 2..Len(frames)
      BY <1>2, <3>3, <3>4
    <3> QED BY <1>6, <3>4, <3>5
  <2>7. ~Fails(Top) /\ ~Throws(Top)
    BY DEF Fails, Throws, Running
  <2> QED BY <1>2, <2>4, <2>5, <2>6, <2>7, StepIs
<1> QED BY <1>3, <1>4, <1>5, <1>7 DEF Placed

\* A parameter of the callee with the variable of the one that is bound is that one.
LEMMA SameParam ==
    ASSUME VarInv, SigsIn, bound = Running, NEW p \in Sure(fn, Now.via), Declares(p)
    PROVE  /\ p.var # Self
           /\ Top.i <= Len(Params) /\ Declares(Param) /\ Param.var = p.var => p = Param
<1>1. fn \in Sigs /\ Top.sig \in Sigs /\ Top.sig \in Inside[fn] /\ Top.i \in Nat \ {0}
  BY TopIs
<1>a. PICK t \in Inside[fn] : \E m \in DOMAIN Sig[t] : p = Sig[t][m]
  BY <1>1, SureIs
<1>2. PICK m \in DOMAIN Sig[t] : p = Sig[t][m]
  BY <1>a
<1>3. p.var # Self
  BY <1>1, <1>2, DeclaredOnce
<1>4. ASSUME Top.i <= Len(Params), Declares(Param), Param.var = p.var PROVE p = Param
  <2>1. PICK u, n : u = Top.sig /\ n = Top.i
    OBVIOUS
  <2>2. u \in Inside[fn] /\ n \in DOMAIN Sig[u] /\ Param = Sig[u][n]
    BY <1>1, <1>4, <2>1, BinderAssumption DEF Param, Params
  <2>3. t = u /\ m = n
    BY <1>1, <1>2, <1>4, <2>2, DeclaredOnce
  <2> QED BY <1>2, <2>2, <2>3
<1> QED BY <1>3, <1>4

\* A step of a bind that enters a body puts nothing in the lexpad that its parameter
\* does not admit, and nothing in the place of what another one put there.
LEMMA StepAdmits ==
    ASSUME MadeApart, TypedAsMade, VarInv, SigsIn, bound = Running, Told, Placed, BindStep,
           Admitted(fn, lex, Now.via), bound' \in {Running, "ok"}
    PROVE  Admitted(fn, lex', Now.via)
<1> SUFFICES ASSUME NEW p \in Sure(fn, Now.via), Shown(p), p.var \in DOMAIN lex'
             PROVE  Conforms(p, lex'[p.var])
  BY DEF Admitted
<1>1. Declares(p) /\ p.var # Self
  BY SameParam DEF Shown
<1>2. ASSUME p.var \in DOMAIN lex, lex'[p.var] = lex[p.var] PROVE Conforms(p, lex'[p.var])
  BY <1>2 DEF Admitted
<1>3. DOMAIN Top = Fields
  BY TopIs
<1>4. Bare(Top).sig = Top.sig /\ Bare(Top).i = Top.i /\ ParamOf(Bare(Top)) = Param
  <2>1. Bare(Top).sig = Top.sig /\ Bare(Top).i = Top.i
    BY BareHas
  <2> QED BY <2>1, Zenon DEF Param, Params, ParamOf
<1>5. CASE Binds(Top)
  <2>1. PICK v, d, g, nn : /\ Takes(Bare(Top), v, Bare(g)) /\ nn \in {Top.noNom, FALSE}
                           /\ Always(Bare(Top)) => nn = FALSE
                           /\ OneParam(Param, v, d, nn, g)
    BY <1>5 DEF Binds
  <2>a. PICK a \in Answers(Param, v, d, nn) :
            \/ Verdict(Param, v, a, nn) = "ok" /\ Bound(Param, v, a, nn, g)
            \/ Verdict(Param, v, a, nn) # "ok" /\ bound' = Verdict(Param, v, a, nn)
    BY <2>1, Zenon DEF OneParam, Unwind
  <2>2. Verdict(Param, v, a, nn) = "ok" /\ Bound(Param, v, a, nn, g)
    BY <2>a, VerdictType DEF Running, Verdicts
  <2>3. lex' = LexAfter(Param, v, a, lex)
    BY <2>2, BoundDoes
  <2>4. Top.i <= Len(Params)
    BY <1>4, <2>1, Zenon DEF Takes, Defaults, At, Params
  <2>5. \/ p.var \in DOMAIN lex /\ lex'[p.var] = lex[p.var]
        \/ /\ Declares(Param) /\ p.var = Param.var
           /\ Shown(Param) => lex'[p.var] = Prepared(Param, v)
    BY <1>1, <2>3, Lands
  <2>6. CASE /\ Declares(Param) /\ p.var = Param.var
             /\ Shown(Param) => lex'[p.var] = Prepared(Param, v)
    <3>1. p = Param
      BY <1>1, <2>4, <2>6, SameParam
    <3>2. Conforms(Param, Prepared(Param, v))
      BY <2>1, <2>2, <3>1, PassedConforms
    <3> QED BY <2>6, <3>1, <3>2
  <2> QED BY <1>2, <2>5, <2>6
<1>6. CASE Passes(Top)
  <2>1. PICK g : Skips(Bare(Top), lex, Bare(g), lex')
    BY <1>6 DEF Passes
  <2>2. CASE lex' = lex
    BY <1>2, <2>2
  <2>3. CASE lex' # lex
    <3>1. At(Bare(Top), {"methodslurpy"}) /\ \E w : lex' = Set(lex, Param.var, w)
      BY <1>4, <2>1, <2>3 DEF Skips
    <3>2. Top.i <= Len(Params) /\ Param.kind = "methodslurpy"
      BY <1>4, <3>1 DEF At, Params
    <3>3. Declares(Param)
      <4>1. Param \in Own(Top.sig) /\ Top.sig \in Sigs
        <5>1. Top.sig \in Sigs /\ Top.i \in Nat \ {0}
          BY TopIs
        <5>2. Top.i \in DOMAIN Sig[Top.sig]
          BY <3>2, <5>1, BinderAssumption DEF Params
        <5> QED BY <5>1, <5>2 DEF Own, Range, Param, Params
      <4> QED BY <3>2, <4>1, CallAssumption
    <3>4. p.var # Param.var
      <4>1. p # Param
        BY <3>2 DEF Shown
      <4> QED BY <1>1, <3>2, <3>3, <4>1, SameParam
    <3>5. p.var \in DOMAIN lex /\ lex'[p.var] = lex[p.var]
      BY <3>1, <3>4 DEF Set
    <3> QED BY <1>2, <3>5
  <2> QED BY <2>2, <2>3
<1>7. CASE Leaves(Top)
  BY <1>2, <1>7 DEF Leaves
<1>8. ~Fails(Top) /\ ~Throws(Top)
  BY DEF Fails, Throws, Running
<1> QED BY <1>3, <1>5, <1>6, <1>7, <1>8, StepIs

\* A step of the binder keeps the invariant.
LEMMA BindConforms ==
    ASSUME MadeApart, TypedAsMade, ConfInv, Bind, VarInv', CallsLeft', HeardOk'
    PROVE  ConfInv'
<1>1. BindStep /\ UNCHANGED calls
  BY DEF Bind
<1>2. bound = Running
  BY <1>1 DEF BindStep, BindCapture, BindSlurpyNamed, BindSlurpy, BindPositional, BindDefault,
              MissingPositional, BindNamed, MissingNamed, EndOfParams, AtParam, Binding
<1>3. VarInv /\ SigsIn /\ Placed /\ HeardOk
  BY <1>2 DEF ConfInv
<1>4. mode' = mode /\ fn' = fn /\ todo' = todo /\ bodies' = bodies /\ Now' = Now
  BY <1>1 DEF calls, Now
<1>5. /\ bound' \notin Verdicts => bound' = Running
      /\ bound' = Running => \A k \in 1..Len(frames') :
            /\ frames'[k].sig \in Sigs /\ frames'[k].sig \in Inside[fn]
            /\ Lenient => frames'[k].noNom = FALSE
  BY <1>1, <1>2, <1>3, StepGoes DEF Running, Verdicts
<1>6. bound' = Running => SigsIn' /\ (Lenient => Lenient') /\ Placed'
  BY <1>1, <1>2, <1>3, <1>4, <1>5, StepPlaced DEF SigsIn, Lenient
<1>7. Admits(fn, Now)' = Admits(fn, Now) /\ \A l : Admitted(fn, l, Now.via)' = Admitted(fn, l, Now.via)
  BY <1>4
<1>8. BodyArgsConform'
  <2>1. BodyArgsConform
    BY DEF ConfInv
  <2> QED BY <1>4, <2>1, Zenon DEF BodyArgsConform
<1>9. mode' = "final" /\ bound' = Running => Told'
  <2>1. mode = "final" => Told
    BY <1>2 DEF ConfInv
  <2> QED BY <1>4, <1>6, <2>1 DEF Told
<1>10. mode' = "final" /\ bound' \in {Running, "ok"} => Admitted(fn, lex', Now.via)
  <2> SUFFICES ASSUME mode = "final", bound' \in {Running, "ok"} PROVE Admitted(fn, lex', Now.via)
    BY <1>4
  <2>1. Told /\ Admitted(fn, lex, Now.via)
    BY <1>2 DEF ConfInv
  <2> QED BY <1>1, <1>2, <1>3, <2>1, StepAdmits
<1>11. Admitted(fn, lex, Now.via)' = Admitted(fn, lex', Now.via)
  BY <1>4
<1>12. mode' = "trial" => Admits(fn, Now)'
  BY <1>4, <1>7 DEF ConfInv
<1> QED BY <1>6, <1>8, <1>9, <1>10, <1>11, <1>12 DEF ConfInv

\* The property, in these terms.
LEMMA BodiesAdmitted ==
    BodyArgsConform <=> \A k \in DOMAIN bodies : Admitted(fn, bodies[k].lex, bodies[k].call.via)
BY Zenon DEF BodyArgsConform, Admitted, Sure

\* The body that is entered finds the values of the bind that worked out.
LEMMA BodyConformed == ASSUME ConfInv, RunBody PROVE BodyArgsConform'
<1>1. mode = "final" /\ bound = "ok" /\ fn' = fn
  BY DEF RunBody
<1>2. Admitted(fn, lex, Now.via)
  BY <1>1 DEF ConfInv
<1>3. PICK S : bodies \in Seq(S)
  BY DEF ConfInv, VarInv
<1>4. PICK b : b.call = Now /\ b.lex = lex /\ bodies' = Append(bodies, b)
  BY DEF RunBody
<1>5. /\ DOMAIN bodies' = 1..(Len(bodies) + 1) /\ DOMAIN bodies = 1..Len(bodies)
      /\ \A k \in 1..(Len(bodies) + 1) : bodies'[k] = IF k = Len(bodies) + 1 THEN b ELSE bodies[k]
  BY <1>3, <1>4
<1>6. \A k \in DOMAIN bodies : Admitted(fn, bodies[k].lex, bodies[k].call.via)
  BY BodiesAdmitted DEF ConfInv
<1>7. \A k \in DOMAIN bodies' : Admitted(fn, bodies'[k].lex, bodies'[k].call.via)
  <2> SUFFICES ASSUME NEW k \in 1..(Len(bodies) + 1)
               PROVE  Admitted(fn, bodies'[k].lex, bodies'[k].call.via)
    BY <1>5
  <2>1. CASE k = Len(bodies) + 1
    BY <1>2, <1>4, <1>5, <2>1
  <2>2. CASE k # Len(bodies) + 1
    <3>1. k \in DOMAIN bodies /\ bodies'[k] = bodies[k]
      BY <1>3, <1>5, <2>2
    <3> QED BY <1>6, <3>1
  <2> QED BY <2>1, <2>2
<1>8. (\A k \in DOMAIN bodies : Admitted(fn, bodies[k].lex, bodies[k].call.via))'
  BY <1>1, <1>7
<1> QED BY <1>8, BodiesAdmitted, PTL

\* A bind that starts knows of its arguments what was checked before it.
LEMMA StartConforms ==
    ASSUME ConfInv, NEW noNom, NEW check, Enter(fn, Now, noNom, check),
           UNCHANGED <<fn, todo, bodies>>, Calling, fn \in Sigs, mode' \in {"trial", "final"},
           mode' = "trial" => Admits(fn, Now),
           mode' = "final" => \/ Now.via = "direct" /\ noNom = FALSE
                              \/ Now.via = "multi" /\ Admits(fn, Now),
           VarInv', CallsLeft', HeardOk'
    PROVE  ConfInv'
<1>1. Now \in CallType /\ (Now.via = "multi" => fn \in Multis)
  BY CallsAre DEF ConfInv, CallsOf
<1>2. /\ bound' = Running /\ SigsIn' /\ Placed' /\ lex' = NoArgs
      /\ noNom = FALSE => Lenient'
  BY <1>1, StartsPlaced
<1>3. Now' = Now
  BY DEF Now
<1>4. BodyArgsConform'
  <2>1. BodyArgsConform
    BY DEF ConfInv
  <2> QED BY <2>1, Zenon DEF BodyArgsConform
<1>5. mode' = "final" => Told'
  <2> SUFFICES ASSUME mode' = "final" PROVE Told'
    OBVIOUS
  <2>1. CASE Now.via = "direct" /\ noNom = FALSE
    BY <1>2, <1>3, <2>1 DEF Told
  <2>2. CASE Now.via = "multi" /\ Admits(fn, Now)
    BY <1>1, <1>3, <2>2 DEF Told
  <2> QED BY <2>1, <2>2
<1>6. Admitted(fn, lex, Now.via)'
  <2>1. DOMAIN lex' = {}
    BY <1>2 DEF NoArgs
  <2> QED BY <2>1 DEF Admitted
<1>7. mode' = "trial" => Admits(fn, Now)'
  BY <1>3
<1> QED BY <1>2, <1>4, <1>5, <1>6, <1>7 DEF ConfInv

\* Every step keeps the invariant.
LEMMA ConfNext == MadeApart /\ TypedAsMade /\ ConfInv /\ [Next]_vars => ConfInv'
<1> SUFFICES ASSUME MadeApart, TypedAsMade, ConfInv, [Next]_vars PROVE ConfInv'
  OBVIOUS
<1>0. VarInv /\ HeardOk /\ (bound = Running => SigsIn) /\ (BindStep => bound = Running)
  BY DEF ConfInv, BindStep, BindCapture, BindSlurpyNamed, BindSlurpy, BindPositional, BindDefault,
         MissingPositional, BindNamed, MissingNamed, EndOfParams, AtParam, Binding
<1>h. HeardOk'
  BY <1>0, HeardNext, StepGoes
<1>1. VarInv /\ VarInv' /\ CallsLeft /\ CallsLeft' /\ BodyArgsConform /\ HeardOk'
  BY <1>h, VarNext, CallsLeftNext DEF ConfInv
<1>2. ASSUME bound' = Idle, mode' # "trial", BodyArgsConform' PROVE ConfInv'
  BY <1>1, <1>2 DEF ConfInv, Running, Idle
<1>3. ASSUME UNCHANGED <<fn, bodies>> PROVE BodyArgsConform'
  BY <1>1, <1>3, Zenon DEF BodyArgsConform
<1>4. CASE Invoke
  <2>1. /\ Enter(fn, Now, FALSE, FALSE) /\ Now.via = "direct" /\ mode' = "final"
        /\ UNCHANGED <<fn, todo, bodies>> /\ Calling /\ fn \in Sigs
    BY <1>1, <1>4 DEF Invoke, Calling, VarInv
  <2> QED BY <1>1, <2>1, StartConforms
<1>5. CASE DispatchTrial
  <2>1. /\ Enter(fn, Now, FALSE, TRUE) /\ Admits(fn, Now) /\ mode' = "trial"
        /\ UNCHANGED <<fn, todo, bodies>> /\ Calling /\ fn \in Sigs
    BY <1>1, <1>5 DEF DispatchTrial, Calling, VarInv
  <2> QED BY <1>1, <2>1, StartConforms
<1>6. CASE DispatchAccepts \/ TrialPasses
  <2>1. /\ Enter(fn, Now, TRUE, FALSE) /\ mode' = "final"
        /\ UNCHANGED <<fn, todo, bodies>> /\ Calling /\ fn \in Sigs
    BY <1>1, <1>6 DEF DispatchAccepts, TrialPasses, InvokeChecked, Calling, VarInv
  <2>2. Now.via = "multi" /\ Admits(fn, Now)
    BY <1>6 DEF DispatchAccepts, TrialPasses, ConfInv, CallsLeft
  <2> QED BY <1>1, <2>1, <2>2, StartConforms
<1>7. CASE Bind
  BY <1>1, <1>7, BindConforms
<1>8. CASE ProgramCalls \/ Return
  <2>1. bound' = Idle /\ mode' # "trial" /\ bodies' = <<>>
    BY <1>1, <1>8 DEF ProgramCalls, Call, Return, VarInv, binder
  <2>2. BodyArgsConform'
    BY <2>1 DEF BodyArgsConform
  <2> QED BY <1>2, <2>1, <2>2
<1>9. CASE DispatchRejects \/ TrialFails \/ ThreadCall \/ BindThrows \/ BindCrashes
  <2>1. UNCHANGED <<fn, bodies>> /\ mode' # "trial"
    BY <1>9 DEF DispatchRejects, TrialFails, ThreadCall, BindThrows, BindCrashes,
                NoCandidate, AutoThread, EndCall
  <2>2. bound' = Idle
    BY <1>1, <1>9 DEF DispatchRejects, TrialFails, ThreadCall, BindThrows, BindCrashes,
                      Verdictless, VarInv, binder
  <2> QED BY <1>2, <1>3, <2>1, <2>2
<1>10. CASE RunBody
  <2>1. bound' = Idle /\ mode' # "trial"
    BY <1>10 DEF RunBody, Verdictless
  <2> QED BY <1>2, <1>10, <2>1, BodyConformed
<1>11. CASE UNCHANGED vars
  <2>1. UNCHANGED <<frames, lex, bound, mode, fn, todo, bodies>>
    BY <1>11 DEF vars, binder, calls
  <2>2. Now' = Now
    BY <2>1 DEF Now
  <2>3. SigsIn' = SigsIn /\ Placed' = Placed /\ Told' = Told /\ BodyArgsConform'
    BY <1>3, <2>1, <2>2, Zenon DEF SigsIn, Placed, Told, Lenient
  <2>4. Admits(fn, Now)' = Admits(fn, Now) /\ Admitted(fn, lex, Now.via)' = Admitted(fn, lex, Now.via)
    BY <2>1, <2>2
  <2> QED BY <1>1, <2>1, <2>3, <2>4 DEF ConfInv
<1> QED BY <1>4, <1>5, <1>6, <1>7, <1>8, <1>9, <1>10, <1>11 DEF Next, Progress

\* A body only finds values in its variables that their parameters admit: all its
\* parameters, when it was called by name; through a proto, where the binder is told
\* to skip the checks, those whose types the dispatcher looked at and the named ones.
\* The binder walks the arguments in step with the dispatcher's count of them, so the
\* check it skips is one that was made of the same argument.  A proto's candidate
\* that declares a capture or a |**@a| of a type these never have is left out.
THEOREM BodyConforms == ASSUME MadeApart, TypedAsMade PROVE Spec => []BodyArgsConform
<1>1. Init => ConfInv
  <2> SUFFICES ASSUME Init PROVE ConfInv
    OBVIOUS
  <2>1. bodies \in Seq({}) /\ BodyVarsBound /\ BodyArgsConform
    BY DEF Init, BodyVarsBound, BodyArgsConform
  <2>2. VarInv
    BY <2>1 DEF Init, VarInv, Running, Idle
  <2>3. CallsLeft
    BY DEF Init, CallsLeft, Calling
  <2>4. <<>> \in Seq({})
    OBVIOUS
  <2>5. HeardOk
    BY <2>4 DEF HeardOk, Init
  <2> QED BY <2>1, <2>2, <2>3, <2>5 DEF ConfInv, Init, Running, Idle
<1>2. ConfInv => BodyArgsConform
  BY DEF ConfInv
<1> QED BY <1>1, <1>2, ConfNext, PTL DEF Spec

-----------------------------------------------------------------------------
(* What a body finds in the attributes that its signature binds.            *)

\* The attribute of parameter i is what this bind made of the argument in its place.
AttrHeld(i) ==
    /\ i \in DOMAIN heard
    /\ attrs[Sig[fn][i].attr] = Decont(Sig[fn][i], Prepared(Sig[fn][i], Now.pos[i]), heard[i])

\* It is once the bind is past the parameter.  Up to there user code has answered once
\* for each parameter, and no sub-signature was entered.
AttrsSoFar ==
    \A i \in DOMAIN Sig[fn] : OwnsAttribute(fn, i) =>
       IF frames # <<>> /\ frames[1].i <= i
       THEN Len(frames) = 1 /\ Len(heard) = frames[1].i - 1
       ELSE AttrHeld(i)

\* A bind on its way to a body has all this.
AttrInv ==
    /\ VarInv /\ CallsLeft /\ HeardOk
    /\ DOMAIN attrs = Attrs
    /\ bound = Running => SigsIn /\ Placed
    /\ bound \in Verdicts => frames = <<>>
    /\ bound \in {Running, "ok"} => AttrsSoFar

\* Binding a value assigns the attribute of its parameter only.
LEMMA BoundAssigns ==
    ASSUME NEW p, NEW v, NEW a, NEW noNom, NEW f, Bound(p, v, a, noNom, f)
    PROVE  attrs' = Assigned(p, Shows(p, v, a))
BY Zenon DEF Bound, Shows

\* Binding no value assigns none.
LEMMA UnheardAssigns ==
    ASSUME HeardOk, BindStep, heard' = heard PROVE attrs' = attrs
<1>1. \A a : heard' # Append(heard, a)
  <2> SUFFICES ASSUME NEW a PROVE Append(heard, a) # heard
    OBVIOUS
  <2>1. PICK S : heard \in Seq(S)
    BY DEF HeardOk
  <2>2. Len(heard) \in Nat /\ Len(Append(heard, a)) = Len(heard) + 1
    BY <2>1, AppendIs
  <2> QED BY <2>2
<1>2. \A p, v, d, nn, g : ~OneParam(p, v, d, nn, g)
  BY <1>1, Zenon DEF OneParam
<1>3. ~DefaultThrows
  BY <1>1 DEF DefaultThrows
<1>4. /\ \A f : Skip(f) => attrs' = attrs
      /\ Fail => attrs' = attrs
  BY DEF Skip, Fail
<1>5. CASE BindCapture
  BY <1>2, <1>4, <1>5, Zenon DEF BindCapture
<1>6. CASE BindSlurpyNamed
  BY <1>2, <1>6 DEF BindSlurpyNamed
<1>7. CASE BindSlurpy \/ BindPositional \/ BindNamed
  BY <1>2, <1>7, Zenon DEF BindSlurpy, BindPositional, BindNamed
<1>8. CASE BindDefault
  BY <1>2, <1>3, <1>8, Zenon DEF BindDefault
<1>9. CASE MissingPositional \/ MissingNamed
  BY <1>4, <1>9, Zenon DEF MissingPositional, MissingNamed
<1>10. CASE EndOfParams
  BY <1>4, <1>10 DEF EndOfParams
<1> QED BY <1>5, <1>6, <1>7, <1>8, <1>9, <1>10 DEF BindStep

\* A step that goes on binds a value, which is heard and assigned, or neither hears
\* nor assigns.
LEMMA StepAssigns ==
    ASSUME VarInv, SigsIn, HeardOk, bound = Running, BindStep, bound' \in {Running, "ok"}
    PROVE  \/ \E v, a, g : /\ Takes(Bare(Top), v, Bare(g)) /\ Follow(Top, g)
                           /\ heard' = Append(heard, a)
                           /\ attrs' = Assigned(Param, Shows(Param, v, a))
                           /\ frames' = Replace(g) \/ Param.sub # None
           \/ /\ heard' = heard /\ attrs' = attrs
              /\ \/ \E g, m : Skips(Bare(Top), lex, Bare(g), m)
                 \/ Ends(Bare(Top))
<1>1. DOMAIN Top = Fields
  BY TopIs
<1>2. CASE Binds(Top)
  <2>1. PICK v, d, g, nn : /\ Takes(Bare(Top), v, Bare(g)) /\ Follow(Top, g)
                           /\ OneParam(Param, v, d, nn, g)
    BY <1>2 DEF Binds
  <2>2. PICK a : /\ heard' = Append(heard, a)
                 /\ \/ Verdict(Param, v, a, nn) = "ok" /\ Bound(Param, v, a, nn, g)
                    \/ Verdict(Param, v, a, nn) # "ok" /\ bound' = Verdict(Param, v, a, nn)
    BY <2>1, Zenon DEF OneParam, Unwind
  <2>3. Bound(Param, v, a, nn, g)
    BY <2>2, VerdictType DEF Running, Verdicts
  <2>4. attrs' = Assigned(Param, Shows(Param, v, a))
    BY <2>3, BoundAssigns
  <2>5. frames' = Replace(g) \/ Param.sub # None
    BY <2>3, BoundDoes DEF Recurses, Stops
  <2> QED BY <2>1, <2>2, <2>4, <2>5
<1>3. CASE Passes(Top)
  <2>1. heard' = heard /\ \E g, m : Skips(Bare(Top), lex, Bare(g), m)
    BY <1>3 DEF Passes
  <2> QED BY <2>1, UnheardAssigns
<1>4. CASE Leaves(Top)
  <2>1. heard' = heard /\ Ends(Bare(Top))
    BY <1>4 DEF Leaves
  <2> QED BY <2>1, UnheardAssigns
<1>5. ~Fails(Top) /\ ~Throws(Top)
  BY DEF Fails, Throws, Running
<1> QED BY <1>1, <1>2, <1>3, <1>4, <1>5, StepIs

\* Another parameter leaves the attribute alone.
LEMMA AttrKept ==
    ASSUME VarInv, SigsIn, Placed, HeardOk, bound = Running, BindStep, bound' \in {Running, "ok"},
           fn' = fn, Now' = Now, NEW i \in DOMAIN Sig[fn], OwnsAttribute(fn, i),
           frames[1].i # i, AttrHeld(i)
    PROVE  AttrHeld(i)'
<1> DEFINE q == Sig[fn][i]
<1>1. PICK S : heard \in Seq(S)
  BY DEF HeardOk
<1>2. i \in 1..Len(heard) /\ Len(heard) \in Nat
  BY <1>1 DEF AttrHeld
<1>3. ASSUME heard' = heard, attrs' = attrs PROVE AttrHeld(i)'
  BY <1>3 DEF AttrHeld
<1>4. ASSUME NEW v, NEW a, NEW g, Takes(Bare(Top), v, Bare(g)), heard' = Append(heard, a),
             attrs' = Assigned(Param, Shows(Param, v, a))
      PROVE  AttrHeld(i)'
  <2>1. Param.attr # q.attr \/ ~Attributive(Param)
    <3>1. /\ Top.sig \in Sigs /\ Top.sig \in Inside[fn] /\ Top.i \in Nat \ {0}
          /\ Len(frames) \in 1..Len(frames)
      BY TopIs
    <3>2. Bare(Top).i <= Len(Sig[Bare(Top).sig]) /\ Bare(Top).sig = Top.sig /\ Bare(Top).i = Top.i
      BY <1>4, BareHas, Zenon DEF Takes, Defaults, At
    <3>3. Top.i \in DOMAIN Sig[Top.sig]
      BY <3>1, <3>2, BinderAssumption
    <3>4. CASE Top.sig = fn
      <4>1. Len(frames) = 1
        <5>1. PICK T : frames \in Seq(T)
          BY TopIs
        <5>2. Len(frames) \in Nat
          BY <5>1
        <5>3. PICK n : n = Len(frames)
          OBVIOUS
        <5>4. n = 1 \/ n \in 2..n
          BY <3>1, <5>2, <5>3
        <5> QED BY <3>4, <5>3, <5>4 DEF Placed, Top
      <4>2. Top.i # i
        BY <4>1 DEF Top
      <4> QED BY <3>3, <3>4, <4>2 DEF OwnsAttribute, Param, Params
    <3>5. CASE Top.sig # fn
      <4>1. Param \in Own(Top.sig)
        BY <3>3 DEF Own, Range, Param, Params
      <4>2. Param \in Nested(fn)
        BY <3>1, <3>5, <4>1 DEF Nested
      <4> QED BY <4>2 DEF OwnsAttribute
    <3> QED BY <3>4, <3>5
  <2>2. attrs'[q.attr] = attrs[q.attr]
    BY <1>4, <2>1 DEF Assigned, Attributive
  <2>3. i \in DOMAIN heard' /\ heard'[i] = heard[i]
    <3>1. /\ heard' \in Seq(S \cup {a}) /\ Len(heard') = Len(heard) + 1
          /\ \A k \in 1..(Len(heard) + 1) : heard'[k] = IF k = Len(heard) + 1 THEN a ELSE heard[k]
      BY <1>1, <1>4, AppendIs
    <3> QED BY <1>2, <3>1
  <2>4. attrs[q.attr] = Decont(q, Prepared(q, Now.pos[i]), heard[i])
    BY DEF AttrHeld
  <2>5. attrs'[q.attr] = Decont(q, Prepared(q, Now.pos[i]), heard'[i])
    BY <2>2, <2>3, <2>4
  <2> QED BY <2>3, <2>5 DEF AttrHeld
<1> QED BY <1>3, <1>4, StepAssigns

\* The parameters up to the one with the attribute are bound in turn, each to the
\* argument in its place.
LEMMA AttrTaken ==
    ASSUME VarInv, SigsIn, Placed, HeardOk, DOMAIN attrs = Attrs, bound = Running, BindStep,
           bound' \in {Running, "ok"}, fn' = fn, Now' = Now,
           NEW i \in DOMAIN Sig[fn], OwnsAttribute(fn, i),
           Len(frames) = 1, frames[1].i <= i, Len(heard) = frames[1].i - 1
    PROVE  /\ frames' # <<>> /\ frames'[1].i = frames[1].i + 1
           /\ frames[1].i < i => Len(frames') = 1
           /\ Len(heard') = frames[1].i
           /\ frames[1].i = i => AttrHeld(i)'
<1> DEFINE n == Top.i
           b == Bare(Top)
<1>1. Top = frames[1] /\ Top.sig = fn /\ fn \in Sigs /\ n \in Nat \ {0} /\ n <= i
  BY TopIs DEF Top, VarInv, FramesOk, Running, Idle
<1>2. b.sig = fn /\ b.i = n /\ b.args = Now.pos /\ Counts(b) /\ Len(Now.pos) \in Nat
      /\ Now.pos \in Seq(Plain)
  BY <1>1, BareHas DEF Placed
<1>3. /\ Len(Sig[fn]) \in Nat /\ DOMAIN Sig[fn] = 1..Len(Sig[fn])
      /\ Places(fn) \in Nat /\ Required(fn) <= Places(fn)
      /\ \A j \in DOMAIN Sig[fn] : Sig[fn][j].kind = "pos" <=> j <= Required(fn)
  BY <1>1, Zones
<1>4. n \in 1..i /\ n \in DOMAIN Sig[fn] /\ i \in Nat
  BY <1>1, <1>3
<1>5. Param = Sig[fn][n] /\ ParamOf(b) = Param /\ Param.kind = "pos"
      /\ (n < i => Param.sub = None)
  BY <1>1, <1>2, <1>4 DEF OwnsAttribute, Param, Params, ParamOf
<1>6. n <= Places(fn)
  <2>1. Required(fn) \in Nat
    BY <1>1, Zones
  <2> QED BY <1>1, <1>3, <1>4, <1>5, <2>1
<1>7. \A g, m : ~Skips(b, lex, Bare(g), m)
  BY <1>5 DEF Skips, At
<1>8. ~Ends(b)
  BY <1>2, <1>3, <1>4 DEF Ends
<1>9. PICK v, a, g : /\ Takes(b, v, Bare(g)) /\ Follow(Top, g)
                     /\ heard' = Append(heard, a)
                     /\ attrs' = Assigned(Param, Shows(Param, v, a))
                     /\ frames' = Replace(g) \/ Param.sub # None
  BY <1>7, <1>8, StepAssigns
<1>10. v = Now.pos[n] /\ Bare(g).i = n + 1
  <2>1. More(b) /\ v = b.args[b.cur] /\ Bare(g) = On(b, b.cur + 1, b.named, b.suppress, b.sealed)
    BY <1>5, <1>9 DEF Takes, Defaults, At
  <2>2. b.cur = n
    BY <1>1, <1>2, <1>6, <2>1, InItsPlace
  <2> QED BY <1>2, <2>1, <2>2 DEF On
<1> HIDE DEF n, b
<1>11. frames' # <<>> /\ frames'[1].i = n + 1
  <2>1. Forward
    <3>1. ~Nests
      BY DEF Nests
    <3>2. ~Through
      BY <1>8 DEF Through, b
    <3>3. ~Refused
      BY DEF Refused, Running, Verdicts
    <3> QED BY <3>1, <3>2, <3>3, FirstStep
  <2>2. \E w : Takes(b, w, Bare(frames'[1]))
    <3>1. \A l, m : ~Skips(b, l, Bare(frames'[1]), m)
      BY <1>5 DEF Skips, At
    <3> QED BY <2>1, <3>1 DEF Forward, b
  <2>3. Bare(frames'[1]) = On(b, b.cur + 1, b.named, b.suppress, b.sealed)
    BY <1>5, <2>2 DEF Takes, Defaults, At
  <2>4. Bare(frames'[1]).i = n + 1
    BY <1>2, <2>3 DEF On
  <2> QED BY <2>1, <2>4, BareHas DEF Forward
<1>12. n < i => Len(frames') = 1
  <2> SUFFICES ASSUME n < i PROVE Len(frames') = 1
    OBVIOUS
  <2>1. PICK T : frames \in Seq(T)
    BY TopIs
  <2>2. frames' = Replace(g)
    BY <1>5, <1>9
  <2> QED BY <2>1, <2>2 DEF Replace
<1>13. PICK S : heard \in Seq(S)
  BY DEF HeardOk
<1>14. Len(heard) = n - 1
  BY <1>1 DEF n
<1>15. /\ Len(heard') = n /\ DOMAIN heard' = 1..n /\ heard'[n] = a
  <2>1. /\ heard' \in Seq(S \cup {a}) /\ Len(heard') = Len(heard) + 1
        /\ \A k \in 1..(Len(heard) + 1) : heard'[k] = IF k = Len(heard) + 1 THEN a ELSE heard[k]
    BY <1>9, <1>13, AppendIs
  <2> QED BY <1>4, <1>14, <2>1
<1>16. ASSUME n = i PROVE AttrHeld(i)'
  <2>1. Attributive(Param) /\ Param.attr \in Attrs
    <3>1. Attributive(Param)
      BY <1>5, <1>16 DEF OwnsAttribute
    <3>2. Param \in Parameters
      BY <1>1, <1>4, <1>5, BinderAssumption
    <3> QED BY <3>1, <3>2 DEF Attributive, Parameters
  <2>2. attrs'[Param.attr] = Shows(Param, v, a)
    BY <1>9, <2>1 DEF Assigned
  <2>3. attrs'[Param.attr] = Decont(Param, Prepared(Param, Now.pos[i]), heard'[i])
    BY <1>10, <1>15, <1>16, <2>2 DEF Shows
  <2>4. i \in DOMAIN heard'
    BY <1>4, <1>15, <1>16
  <2> QED BY <1>5, <1>16, <2>3, <2>4 DEF AttrHeld
<1> QED BY <1>1, <1>11, <1>12, <1>15, <1>16 DEF n

\* A bind that starts has nothing behind it.
LEMMA StartAssigns ==
    ASSUME AttrInv, NEW noNom, NEW check, Enter(fn, Now, noNom, check), UNCHANGED <<fn, todo>>,
           Calling, fn \in Sigs, VarInv', CallsLeft', HeardOk'
    PROVE  AttrInv'
<1>1. Now \in CallType
  BY CallsAre DEF AttrInv, CallsOf
<1>2. bound' = Running /\ SigsIn' /\ Placed'
  BY <1>1, StartsPlaced
<1>3. heard' = <<>> /\ attrs' = attrs /\ frames' = <<Activation(fn, Now, noNom)>>
  BY DEF Enter
<1>4. Len(frames') = 1 /\ frames'[1].i = 1 /\ frames' # <<>> /\ Len(heard') = 0
  BY <1>3 DEF Activation
<1>5. AttrsSoFar'
  <2> SUFFICES ASSUME NEW i \in DOMAIN Sig[fn] PROVE frames'[1].i <= i
    BY <1>4 DEF AttrsSoFar
  <2>1. i \in 1..Len(Sig[fn])
    BY Zones
  <2> QED BY <1>4, <2>1
<1>6. DOMAIN attrs' = Attrs
  BY <1>3 DEF AttrInv
<1>7. bound' \notin Verdicts
  BY <1>2 DEF Running, Verdicts
<1> QED BY <1>2, <1>5, <1>6, <1>7 DEF AttrInv

\* A step assigns one attribute at most.
LEMMA AttrsMove == ASSUME BindStep PROVE attrs' = attrs \/ \E p, v : attrs' = Assigned(p, v)
<1>1. ASSUME NEW p, NEW v, NEW d, NEW nn, NEW g, OneParam(p, v, d, nn, g)
      PROVE  attrs' = attrs \/ \E q, w : attrs' = Assigned(q, w)
  <2>1. attrs' = attrs \/ \E a : Bound(p, v, a, nn, g)
    BY <1>1, Zenon DEF OneParam
  <2> QED BY <2>1, BoundAssigns
<1>2. (\E p, v, d, nn, g : OneParam(p, v, d, nn, g)) \/ attrs' = attrs
  <2>1. \A f : Skip(f) => attrs' = attrs
    BY DEF Skip
  <2>2. CASE BindCapture
    BY <2>1, <2>2, Zenon DEF BindCapture
  <2>3. CASE BindSlurpyNamed
    BY <2>3, Zenon DEF BindSlurpyNamed
  <2>4. CASE BindSlurpy \/ BindPositional \/ BindNamed
    BY <2>4, Zenon DEF BindSlurpy, BindPositional, BindNamed
  <2>5. CASE BindDefault
    BY <2>5, Zenon DEF BindDefault, DefaultThrows
  <2>6. CASE MissingPositional \/ MissingNamed \/ EndOfParams
    BY <2>1, <2>6, Zenon DEF MissingPositional, MissingNamed, EndOfParams, Fail
  <2> QED BY <2>2, <2>3, <2>4, <2>5, <2>6 DEF BindStep
<1> QED BY <1>1, <1>2

\* The callee's own signature is bound forward.
LEMMA OuterOn ==
    ASSUME VarInv, bound = Running, BindStep, frames' # <<>>, frames[1].i \in Nat,
           bound' \in Verdicts => frames' = <<>>
    PROVE  frames'[1].i \in Nat /\ frames'[1].i >= frames[1].i
<1>1. CASE Nests
  BY <1>1 DEF Nests
<1>2. CASE Forward
  <2>1. Top = frames[1]
    BY <1>2 DEF Forward, Top
  <2>2. GoesOn(Bare(Top), Bare(frames'[1]))
    BY <1>2, TakesOn DEF Forward
  <2>3. Bare(frames'[1]).i = Bare(Top).i + 1
    BY <2>2 DEF GoesOn
  <2> QED BY <2>1, <2>3, BareHas
<1>3. ~Through /\ ~Refused
  BY DEF Through, Refused, Verdicts
<1> QED BY <1>1, <1>2, <1>3, FirstStep

\* A step of the binder keeps the invariant.
LEMMA BindAssigns ==
    ASSUME AttrInv, Bind, VarInv', CallsLeft', HeardOk' PROVE AttrInv'
<1>1. BindStep /\ UNCHANGED calls
  BY DEF Bind
<1>2. bound = Running
  BY <1>1 DEF BindStep, BindCapture, BindSlurpyNamed, BindSlurpy, BindPositional, BindDefault,
              MissingPositional, BindNamed, MissingNamed, EndOfParams, AtParam, Binding
<1>3. VarInv /\ SigsIn /\ Placed /\ HeardOk /\ AttrsSoFar /\ DOMAIN attrs = Attrs
  BY <1>2 DEF AttrInv
<1>4. fn' = fn /\ Now' = Now /\ fn \in Sigs
  BY <1>1, <1>2, <1>3, TopIs DEF calls, Now
<1>5. /\ bound' \notin Verdicts => bound' = Running
      /\ bound' \in Verdicts => frames' = <<>>
      /\ bound' = Running => \A k \in 1..Len(frames') :
            /\ frames'[k].sig \in Sigs /\ frames'[k].sig \in Inside[fn]
  BY <1>1, <1>2, <1>3, StepGoes DEF Running, Verdicts
<1>6. bound' = Running => SigsIn' /\ Placed'
  BY <1>1, <1>2, <1>3, <1>4, <1>5, StepPlaced DEF SigsIn
<1>7. DOMAIN attrs' = Attrs
  <2>1. \A p, v : DOMAIN Assigned(p, v) = DOMAIN attrs
    BY DEF Assigned
  <2>2. attrs' = attrs \/ \E p, v : attrs' = Assigned(p, v)
    BY <1>1, AttrsMove
  <2> QED BY <1>3, <2>1, <2>2
<1>8. bound' \in {Running, "ok"} => AttrsSoFar'
  <2> SUFFICES ASSUME bound' \in {Running, "ok"}, NEW i \in DOMAIN Sig[fn], OwnsAttribute(fn, i)
               PROVE  IF frames' # <<>> /\ frames'[1].i <= i
                      THEN Len(frames') = 1 /\ Len(heard') = frames'[1].i - 1
                      ELSE AttrHeld(i)'
    BY <1>4 DEF AttrsSoFar
  <2>1. /\ i \in Nat /\ frames # <<>> /\ Len(frames) \in Nat /\ frames[1].i \in Nat \ {0}
    <3>1. i \in 1..Len(Sig[fn]) /\ Len(Sig[fn]) \in Nat
      BY <1>4, Zones
    <3>2. PICK S : frames \in Seq(S)
      BY <1>2, <1>3, TopIs
    <3>3. frames # <<>> /\ FrameOk(frames[1])
      BY <1>2, <1>3, <3>2 DEF VarInv, FramesOk
    <3> QED BY <3>1, <3>2, <3>3 DEF FrameOk
  <2>2. CASE frames[1].i <= i
    <3>1. Len(frames) = 1 /\ Len(heard) = frames[1].i - 1
      BY <1>3, <2>1, <2>2 DEF AttrsSoFar
    <3>2. /\ frames' # <<>> /\ frames'[1].i = frames[1].i + 1
          /\ frames[1].i < i => Len(frames') = 1
          /\ Len(heard') = frames[1].i
          /\ frames[1].i = i => AttrHeld(i)'
      BY <1>1, <1>2, <1>3, <1>4, <2>2, <3>1, AttrTaken
    <3>3. CASE frames[1].i < i
      BY <2>1, <3>2, <3>3
    <3>4. CASE frames[1].i = i
      BY <2>1, <3>2, <3>4
    <3> QED BY <2>1, <2>2, <3>3, <3>4
  <2>3. CASE ~(frames[1].i <= i)
    <3>1. AttrHeld(i)
      BY <1>3, <2>3 DEF AttrsSoFar
    <3>2. frames[1].i # i
      BY <2>1, <2>3
    <3>3. AttrHeld(i)'
      BY <1>1, <1>2, <1>3, <1>4, <3>1, <3>2, AttrKept
    <3>4. frames' # <<>> => frames'[1].i \in Nat /\ frames'[1].i >= frames[1].i
      BY <1>1, <1>2, <1>3, <1>5, <2>1, OuterOn
    <3> QED BY <2>1, <2>3, <3>3, <3>4
  <2> QED BY <2>2, <2>3
<1> QED BY <1>5, <1>6, <1>7, <1>8 DEF AttrInv

\* Every step keeps the invariant.
LEMMA AttrNext == AttrInv /\ [Next]_vars => AttrInv'
<1> SUFFICES ASSUME AttrInv, [Next]_vars PROVE AttrInv'
  OBVIOUS
<1>0. VarInv /\ HeardOk /\ (bound = Running => SigsIn) /\ (BindStep => bound = Running)
  BY DEF AttrInv, BindStep, BindCapture, BindSlurpyNamed, BindSlurpy, BindPositional, BindDefault,
         MissingPositional, BindNamed, MissingNamed, EndOfParams, AtParam, Binding
<1>h. HeardOk'
  BY <1>0, HeardNext, StepGoes
<1>1. VarInv /\ VarInv' /\ CallsLeft /\ CallsLeft' /\ HeardOk' /\ DOMAIN attrs = Attrs
  BY <1>h, VarNext, CallsLeftNext DEF AttrInv
<1>2. ASSUME bound' = Idle, DOMAIN attrs' = Attrs PROVE AttrInv'
  BY <1>1, <1>2 DEF AttrInv, Running, Idle, Verdicts
<1>3. CASE Invoke \/ DispatchTrial \/ DispatchAccepts \/ TrialPasses
  <2>1. /\ \E noNom, check : Enter(fn, Now, noNom, check)
        /\ UNCHANGED <<fn, todo>> /\ Calling /\ fn \in Sigs
    BY <1>1, <1>3 DEF Invoke, DispatchTrial, DispatchAccepts, TrialPasses, InvokeChecked,
                      Calling, VarInv
  <2> QED BY <1>1, <2>1, StartAssigns
<1>4. CASE Bind
  BY <1>1, <1>4, BindAssigns
<1>5. CASE ProgramCalls \/ Return \/ DispatchRejects
  <2>1. bound' = Idle /\ attrs' = attrs
    BY <1>1, <1>5 DEF ProgramCalls, Call, Return, DispatchRejects, VarInv, binder
  <2> QED BY <1>1, <1>2, <2>1
<1>6. CASE TrialFails \/ ThreadCall \/ BindThrows \/ RunBody
  <2>1. bound' = Idle /\ attrs' = attrs
    BY <1>6 DEF TrialFails, ThreadCall, BindThrows, RunBody, Verdictless
  <2> QED BY <1>1, <1>2, <2>1
<1>7. CASE BindCrashes
  <2>1. bound' = Idle /\ DOMAIN attrs' = Attrs
    BY <1>7 DEF BindCrashes
  <2> QED BY <1>2, <2>1
<1>8. CASE UNCHANGED vars
  <2>1. UNCHANGED <<frames, attrs, bound, heard, fn, todo>>
    BY <1>8 DEF vars, binder, calls
  <2>2. Now' = Now
    BY <2>1 DEF Now
  <2>3. SigsIn' = SigsIn /\ Placed' = Placed /\ AttrsSoFar' = AttrsSoFar
    BY <2>1, <2>2 DEF SigsIn, Placed, AttrsSoFar, AttrHeld
  <2> QED BY <1>1, <2>1, <2>3 DEF AttrInv
<1> QED BY <1>3, <1>4, <1>5, <1>6, <1>7, <1>8 DEF Next, Progress

\* When a body is entered, the attribute of an attributive parameter that comes after
\* required positionals only, and is the only one to have it, holds what this bind made
\* of the argument in its place: whatever a bindability check or a bind that failed left
\* there was assigned over, and no parameter after it and none of a sub-signature
\* disturbed it.
THEOREM AttrsHeld == Spec => []AttrsBound
<1>1. Init => AttrInv
  <2> SUFFICES ASSUME Init PROVE AttrInv
    OBVIOUS
  <2>1. bodies \in Seq({}) /\ BodyVarsBound
    BY DEF Init, BodyVarsBound
  <2>2. VarInv
    BY <2>1 DEF Init, VarInv, Running, Idle
  <2>3. CallsLeft
    BY DEF Init, CallsLeft, Calling
  <2>4. <<>> \in Seq({})
    OBVIOUS
  <2>5. HeardOk
    BY <2>4 DEF HeardOk, Init
  <2>6. DOMAIN attrs = Attrs /\ bound = Idle
    BY DEF Init
  <2> QED BY <2>2, <2>3, <2>5, <2>6 DEF AttrInv, Running, Idle, Verdicts
<1>2. AttrInv => AttrsBound
  BY DEF AttrInv, AttrsSoFar, AttrHeld, AttrsBound, Verdicts
<1> QED BY <1>1, <1>2, AttrNext, PTL DEF Spec

=============================================================================
