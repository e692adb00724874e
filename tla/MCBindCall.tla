----------------------------- MODULE MCBindCall -----------------------------
(***************************************************************************)
(* Small instances of BindCall: two integers, a string, a type object, two  *)
(* junctions, a native and lists that a sub-signature takes apart, against  *)
(* one signature for each way a parameter is bound.                         *)
(***************************************************************************)
EXTENDS BindCall, TLC

CONSTANTS
    TMu, TAny, TInt, TStr, TJunction, TList, THash, TCapture,
    i1, i2, s1, tInt, j, js, n1, l1,
    x, y, z, me, T, k1, k2

MCTypes == {TMu, TAny, TInt, TStr, TJunction, TList, THash, TCapture}
Lattice  == {<<t, t>> : t \in MCTypes} \cup {<<t, TMu>> : t \in MCTypes}
           \cup {<<t, TAny>> : t \in MCTypes \ {TMu, TJunction}}

PlainValues  == {i1, i2, s1, tInt, j, js, n1, l1}
PlainTypes == [v \in PlainValues |->
    CASE v \in {i1, i2, tInt} -> TInt [] v = s1 -> TStr [] v \in {j, js} -> TJunction
      [] v = l1 -> TList [] OTHER -> TInt]
PlainPrims == [v \in PlainValues |-> IF v = n1 THEN "int" ELSE "obj"]
MCBox  == [v \in {n1} |-> i1]
MCUnbox == [v \in PlainValues |-> [k \in {"int", "num", "str"} |->
                                  IF v \in {i1, i2} /\ k = "int" THEN n1 ELSE None]]
MCDefined == PlainValues \ {tInt}
MCCoerced == [v \in PlainValues |-> [t \in MCTypes |->
                 CASE v = i1 /\ t = TStr -> {s1} [] v = i2 /\ t = TStr -> {s1, i2}
                   [] OTHER -> {}]]
MCAsCapture == [v \in PlainValues |->
    IF v = l1 THEN {CaptOf(<<c>>, NoArgs) : c \in {i1, s1, j}} ELSE {}]
MCStates == j :> <<i1, i2>> @@ js :> <<i2, s1>>

\* ($p): a required positional of type Mu.
Par(v) ==
    [ kind |-> "pos", names |-> <<>>, var |-> v, type |-> TMu, generic |-> FALSE,
      tcap |-> None, definite |-> "any", native |-> "obj", coerce |-> None,
      rejects |-> {}, doubts |-> {}, raw |-> FALSE, attr |-> None, public |-> FALSE, sub |-> None,
      self |-> FALSE, default |-> {tInt}, thunk |-> FALSE,
      invocant |-> TRUE ]

Kind(v, k)     == [Par(v) EXCEPT !.kind = k]
Of(v, t)       == [Par(v) EXCEPT !.type = t]
Opt(v, t, d)   == [Of(v, t) EXCEPT !.kind = "opt", !.default = {d}]
Thunk(p, ds)   == [p EXCEPT !.default = ds, !.thunk = TRUE]
Named(v, ns)   == [Kind(v, "named") EXCEPT !.names = ns]
After(p)       == [p EXCEPT !.invocant = FALSE]     \* after ;;
Slurpy(v)      == [Kind(v, "slurpy") EXCEPT !.type = TList]
SlurpyNamed(v) == [Kind(v, "slurpynamed") EXCEPT !.type = THash]
Self1          == [Par(None) EXCEPT !.self = TRUE]
Attribute(at, pub) == [Par(x) EXCEPT !.attr = at, !.public = pub]

Signatures ==
    \* (Int $x, Int:D $y = 2) and its sub-signature use ([Int $x, *@y])
    "opt"      :> <<Of(x, TInt), [Opt(y, TInt, i2) EXCEPT !.definite = "D"]>>
 @@ "sub"      :> <<[Of(z, TAny) EXCEPT !.sub = "inner"]>>
 @@ "inner"    :> <<Of(x, TInt), Slurpy(y)>>
    \* (Int $x = 'a'), (Int $x = 1|2), ($x where ..., Int $y = ...)
 @@ "badopt"   :> <<Opt(x, TInt, s1)>>
 @@ "anyopt"   :> <<Opt(x, TInt, j)>>
 @@ "thunk"    :> <<[Par(x) EXCEPT !.doubts = {i1}], Thunk(Opt(y, TInt, i1), {i1, i2, s1})>>
    \* (Mu $x, Int $y), ($x where ..., :a(:$b)!, :$y, *%z)
 @@ "mu"       :> <<Par(x), Of(y, TInt)>>
 @@ "named"    :> <<[Par(x) EXCEPT !.rejects = {s1}], Named(y, <<k1, k2>>)>>
 @@ "nameds"   :> <<Named(x, <<k1>>), [Named(y, <<k2>>) EXCEPT !.kind = "namedopt", !.type = TInt],
                    SlurpyNamed(z)>>
    \* (|$x, *@y, :$z!), (|$x, :$z), (Mu, |$z (Int $x, *@y)) and ($x, |)
 @@ "capslurp" :> <<Kind(x, "capture"), Slurpy(y), Named(z, <<k1>>)>>
 @@ "capnamed" :> <<Kind(x, "capture"), [Named(z, <<k1>>) EXCEPT !.kind = "namedopt"]>>
 @@ "caplast"  :> <<Par(None), [Kind(z, "capture") EXCEPT !.sub = "inner"]>>
 @@ "capanon"  :> <<Opt(x, TMu, i1), Kind(None, "capture")>>
    \* method ($self: $!attr, *%_), method ($self: Str(Any) $!attr, $x where ...), method ($self: $.attr), ($.attr), **@x
 @@ "meth"     :> <<Self1, Attribute("rw", FALSE), Kind(z, "methodslurpy")>>
 @@ "methas"   :> <<Self1, [Attribute("str", FALSE) EXCEPT !.coerce = TStr],
                    [Par(x) EXCEPT !.doubts = {i1}]>>
 @@ "access"   :> <<Self1, Attribute("rw", TRUE), Par(x)>>
 @@ "accessro" :> <<Self1, Attribute("ro", TRUE)>>
 @@ "accessno" :> <<Self1, Attribute("none", TRUE)>>
 @@ "noself"   :> <<Attribute("rw", TRUE)>>
 @@ "lol"      :> <<Kind(x, "lol")>>
    \* (::T $x, T $y), (int $x), (num $x), (Str(Any) $x), ($x as Str is rw)
 @@ "generic"  :> <<[Of(x, TAny) EXCEPT !.tcap = T], [Of(y, T) EXCEPT !.generic = TRUE]>>
 @@ "int"      :> <<[Of(x, TInt) EXCEPT !.native = "int"]>>
 @@ "num"      :> <<[Of(x, TInt) EXCEPT !.native = "num"]>>
 @@ "coerce"   :> <<[Of(x, TAny) EXCEPT !.coerce = TStr], After(Of(y, TInt))>>
    \* (Int $x;; Int $y), (Int $x;; Int $y where ...)
 @@ "after"    :> <<Of(x, TInt), After(Of(y, TInt))>>
 @@ "aftercheck" :> <<Of(x, TInt), After([Of(y, TInt) EXCEPT !.rejects = {i1}])>>

MCSigs == DOMAIN Signatures
SubSignatures[s \in MCSigs] ==
    {s} \cup UNION {SubSignatures[p.sub] : p \in {q \in Range(Signatures[s]) : q.sub # None}}

Pos(vs, n) == {CaptOf(s, NoArgs) : s \in UNION {[1..k -> vs] : k \in 0..n}}

\* Positionals of every shape; nameds around one positional; natives and lists.
MCPosArgs   == Pos({i1, s1, tInt, j}, 2) \cup Pos({i1}, 3)
MCNamedArgs == {CaptOf(s, h) : s \in {<<>>, <<i1>>, <<s1>>, <<j>>, <<i1, s1>>},
                               h \in UNION {[D -> {i1, js}] : D \in SUBSET {k1, k2}}}
MCOddArgs   == Pos({n1, i2, l1}, 1) \cup {CaptOf(<<js, j>>, NoArgs), CaptOf(<<i1, l1>>, NoArgs)}
MCCaptures == MCPosArgs \cup MCNamedArgs \cup MCOddArgs
MCAttrs    == {"rw", "ro", "none", "str"}      \* named after their accessors
MCAttrType == [at \in MCAttrs |-> IF at = "str" THEN TAny ELSE TInt]
MCAccessor == [at \in MCAttrs |-> CASE at = "rw" -> {"rw", "ro"} [] at = "ro" -> {"ro"} [] OTHER -> {}]
MCVars == {x, y, z, me, T}

\* TLC evaluates what replaces a constant at each use, and the definitions that this
\* refers to once.
MCSig    == Signatures
MCTypeOf == PlainTypes
MCPrim   == PlainPrims
MCDoes   == Lattice
MCPlain  == PlainValues
MCInside == SubSignatures

=============================================================================
