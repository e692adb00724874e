----------------------------- MODULE Containers -----------------------------
(***************************************************************************)
(* Scalar containers (src/binder/container.c) and what hands them around:   *)
(* variables that are bound and assigned, parameters, values returned, the  *)
(* elements of an array and of a hash that come to be when first assigned,  *)
(* and list assignment (src/core/Array.pm, Hash.pm, List.pm, Parcel.pm).    *)
(***************************************************************************)
EXTENDS Integers, Sequences, FiniteSets, Functions, SequencesExt

CONSTANTS
    Vars,           \* scalar variables of the program
    VarType,        \* VarType[x]: the declared type of $x
    ParamOf,        \* ParamOf[T]: the type in the descriptor of a parameter of type T
    Literals,       \* values the program writes down
    Values,         \* those and the initial ones
    Initial,        \* Initial[T]: what a new variable of type T holds
    Conforms,       \* <<v, T>>: value v passes the type check of T
    Falsy,          \* values that are false
    Mu, Nil,
    Keys,           \* keys of the hash %h
    MaxPos,         \* bound: positions of the array @a that are looked at
    Scalars,        \* bound: the names of the Scalars in reach at a time
    MaxList,        \* bound on the variables in a list
    Null,           \* PMCNULL
    None

ASSUME ContainersAssumption ==
    /\ VarType \in [Vars -> DOMAIN Initial] /\ Mu \in DOMAIN Initial
    /\ ParamOf \in [DOMAIN Initial -> DOMAIN Initial]
    /\ Initial \in [DOMAIN Initial -> Values]
    /\ Literals \subseteq Values /\ Falsy \subseteq Values /\ Nil \in Values
    /\ \A T \in DOMAIN Initial : <<Initial[T], T>> \in Conforms
    /\ \A v \in Values : <<v, Mu>> \in Conforms
    \* A parameter takes no value that its descriptor refuses; generic parameters,
    \* whose descriptor keeps the type variable, are left out.
    /\ \A v \in Values, T \in DOMAIN Initial : <<v, T>> \in Conforms => <<v, ParamOf[T]>> \in Conforms
    /\ {None, Null} \cap (Values \cup Keys \cup Scalars \cup Nat) = {} /\ None # Null
    /\ Scalars \cap Values = {} /\ IsFiniteSet(Scalars)
    /\ Keys \cap Nat = {} /\ Vars \cap Literals = {}
    /\ MaxPos \in Nat /\ MaxList \in Nat

VARIABLES
    scalars,    \* the Scalars
    pad,        \* pad[x]: the Scalar or the plain value that $x is bound to
    items,      \* $!items of @a: Scalars, and nulls where nothing was bound yet
    storage,    \* $!storage of %h
    copied,     \* for a variable bound to something that was to be a copy: that value
    removed     \* Scalars that were elements once and are still referred to

vars == <<scalars, pad, items, storage, copied, removed>>

-----------------------------------------------------------------------------
(* Scalars.                                                                 *)

Scalar(desc, value) == [desc |-> desc, value |-> value, whence |-> None]

Descriptor(of, rw) == [of |-> of, rw |-> rw]

\* scalar_from_descriptor, and scalar_with_value_no_descriptor.
Typed(of, rw, v) == Scalar(Descriptor(of, rw), v)
Bare(v)          == Scalar(None, v)

Plain(v) == Typed(Mu, TRUE, v)      \* of `my $v`

Decont(sc, e) == IF e \in Scalars THEN sc[e].value ELSE e

Rw(s) == s.desc # None /\ s.desc.rw

\* Mutant: no type check.
AcceptsAny(s, v) == s.desc # None

Accepts(s, v) == s.desc # None /\ <<v, s.desc.of>> \in Conforms

\* perl6_assert_bind_ok.
BindOk(x, e) == VarType[x] = Mu \/ (e # Null /\ <<Decont(scalars, e), VarType[x]>> \in Conforms)

\* A program state: what the operations below work on.
Heap == [sc |-> scalars, items |-> items, storage |-> storage]

Elements(h) == Range(h.items) \cup Range(h.storage)
Held(p, h)  == Range(p) \cup Elements(h)

\* The state becomes h with variables p.  Scalars out of reach are forgotten.
Become(h, p) ==
    /\ pad' = p /\ items' = h.items /\ storage' = h.storage
    /\ scalars' = LET held == Held(p, h)
                  IN  [s \in Scalars |-> IF s \in held THEN h.sc[s] ELSE Bare(None)]
    /\ removed' = (removed \cup (Elements(Heap) \ Elements(h))) \cap Range(p) \cap Scalars

Free == Scalars \ Held(pad, Heap)

\* The choices of at least n new Scalars: the free ones in any order.
New(n) == LET free == Free IN IF Cardinality(free) < n THEN {} ELSE {SetToSeq(free)}

-----------------------------------------------------------------------------
(* Stores.                                                                  *)

\* bindpos: the array grows by nulls up to the position.
BindPos(it, i, s) ==
    [n \in 1..(IF i > Len(it) THEN i ELSE Len(it)) |->
        IF n = i THEN s ELSE IF n <= Len(it) THEN it[n] ELSE Null]

\* The closure in $!whence, made by at_pos or at_key.
Vivify(h, s) ==
    LET w == h.sc[s].whence
    IN  IF w = None THEN h
        ELSE IF w \in Keys THEN [h EXCEPT !.storage[w] = s]
        ELSE [h EXCEPT !.items = BindPos(h.items, w, s)]

\* Mutant: $!whence stays.
PutKeepingWhence(h, s, v) == [Vivify(h, s) EXCEPT !.sc[s].value = v]

\* What storing v in s leads to once the checks are passed.
Put(h, s, v) == [Vivify(h, s) EXCEPT !.sc[s].value = v, !.sc[s].whence = None]

\* Rakudo_cont_store with both checks: whether it dies, and the heap.
CanStore(h, e, v) == e \in Scalars /\ Rw(h.sc[e]) /\ Accepts(h.sc[e], v)

-----------------------------------------------------------------------------
(* Variables and parameters.                                                *)

\* What an operand of the program is: a literal, or what a variable is bound to.
Operand(o) == IF o \in Vars THEN pad[o] ELSE o
Usable(o)  == o \in Vars => pad[o] # Null

Operands == {o \in Literals \cup Vars : Usable(o)}

\* $x is bound to e, a copy of v or, when v is None, something it may share.
BindTo(x, h, e, v) ==
    /\ Become(h, [pad EXCEPT ![x] = e])
    /\ copied' = [copied EXCEPT ![x] = v]

\* A store that dies changes nothing.
Assign ==
    \E x \in Vars, o \in Operands :
        LET v == Decont(scalars, Operand(o))
        IN  /\ CanStore(Heap, pad[x], v)
            /\ Become(Put(Heap, pad[x], v), pad)
            /\ UNCHANGED copied

\* $x := ...
Bind ==
    \E x \in Vars, o \in Operands :
        /\ BindOk(x, Operand(o))
        /\ BindTo(x, Heap, Operand(o), IF o \in Literals THEN o ELSE copied[o])

\* $x is declared anew: another activation of its block.
Declare ==
    \E x \in Vars, new \in New(1) :
        BindTo(x, [Heap EXCEPT !.sc[new[1]] = Typed(VarType[x], TRUE, Initial[VarType[x]])],
               new[1], None)

\* $x is the parameter of a call: bind_one_param binds the container itself for
\* `is rw`, else a new one with the descriptor of the parameter.
Call ==
    \E x \in Vars, o \in Operands, mode \in {"rw", "copy", "ro"} :
        LET e == Operand(o)
            v == Decont(scalars, e)
        IN  /\ <<v, VarType[x]>> \in Conforms
            /\ IF mode = "rw" THEN BindTo(x, Heap, e, IF e \in Scalars THEN None ELSE e)
               ELSE \E new \in New(1) :
                      BindTo(x, [Heap EXCEPT !.sc[new[1]] = Typed(ParamOf[VarType[x]], mode = "copy", v)],
                             new[1], IF mode = "ro" THEN v ELSE None)

\* Mutant: the container itself is returned.
ReturnedAsIs(e, s) == [h |-> Heap, e |-> e]

\* perl6_decontainerize_return_value, for a routine that is not rw.
Returned(e, s) ==
    IF e \in Scalars /\ Rw(scalars[e])
    THEN [h |-> [Heap EXCEPT !.sc[s] = Bare(scalars[e].value)], e |-> s]
    ELSE [h |-> Heap, e |-> e]

\* $x is bound to what such a routine returns.
Return ==
    \E x \in Vars, o \in Operands, new \in New(1) :
        LET e == Operand(o)
            r == Returned(e, new[1])
        IN  BindOk(x, e) /\ BindTo(x, r.h, r.e, Decont(scalars, e))

-----------------------------------------------------------------------------
(* Elements.                                                                *)

\* A container for an element that is not there: its first store puts it at w.
Promise(s, w) == [Heap EXCEPT !.sc[s] = [Plain(Initial[Mu]) EXCEPT !.whence = w]]

\* Array.at_pos.
AtPos ==
    \E x \in Vars, i \in 1..MaxPos :
        LET exists == i <= Len(items) /\ items[i] # Null
        IN  IF exists THEN BindOk(x, items[i]) /\ BindTo(x, Heap, items[i], None)
            ELSE \E new \in New(1) :
                    /\ <<Initial[Mu], VarType[x]>> \in Conforms
                    /\ BindTo(x, Promise(new[1], i), new[1], None)

\* Hash.at_key.
AtKey ==
    \E x \in Vars, k \in Keys :
        IF storage[k] # None THEN BindOk(x, storage[k]) /\ BindTo(x, Heap, storage[k], None)
        ELSE \E new \in New(1) :
                /\ <<Initial[Mu], VarType[x]>> \in Conforms
                /\ BindTo(x, Promise(new[1], k), new[1], None)

\* List.shift, an `is rw` method: the element's container, or the null of a hole.
Shift ==
    \E x \in Vars :
        /\ items # <<>> /\ BindOk(x, Head(items))
        /\ BindTo(x, [Heap EXCEPT !.items = Tail(items)], Head(items), None)

\* List.push of one value, through Array.STORE_AT_POS.
Push ==
    \E o \in Operands, new \in New(1) :
        LET v == Decont(scalars, Operand(o))
        IN  /\ Len(items) < MaxPos
            /\ Become([Heap EXCEPT !.sc[new[1]] = Plain(v), !.items = Append(items, new[1])], pad)
    /\ UNCHANGED copied

\* List.unshift of one value.  Its container is the parameter of the block that
\* the value is passed through, and a false value ends the loop.
Unshift ==
    \E o \in Operands, new \in New(1) :
        LET v == Decont(scalars, Operand(o))
        IN  /\ Len(items) < MaxPos /\ v \notin Falsy
            /\ Become([Heap EXCEPT !.sc[new[1]] = Typed(Mu, FALSE, v),
                                   !.items = <<new[1]>> \o items], pad)
    /\ UNCHANGED copied

Delete ==
    /\ \E k \in Keys : storage[k] # None /\ Become([Heap EXCEPT !.storage[k] = None], pad)
    /\ UNCHANGED copied

-----------------------------------------------------------------------------
(* List assignment.                                                         *)

\* Mutant: the elements are the containers in the list.
StoreShared(h, list, new) == [h EXCEPT !.items = list]

\* Array.STORE: Array.REIFY puts each element into a container of its own.
StoreArray(h, list, new) ==
    [ h EXCEPT !.items = SubSeq(new, 1, Len(list)),
               !.sc = [s \in Scalars |-> IF \E n \in DOMAIN list : new[n] = s
                                     THEN Plain(Decont(h.sc, list[CHOOSE n \in DOMAIN list : new[n] = s]))
                                     ELSE h.sc[s]] ]

\* Lists of variables, on either side of an assignment.
Lists == {l \in BoundedSeq({x \in Vars : Usable(x)}, MaxList) : IsInjective(l)}

AssignArray ==
    /\ \E l \in Lists :
          LET list == [n \in DOMAIN l |-> Operand(l[n])]
          IN  \E new \in New(Len(list)) : Become(StoreArray(Heap, list, new), pad)
    /\ UNCHANGED copied

\* Mutant: a source is looked at when its target is assigned.
PickedLate(h, list, n) == IF n <= Len(list) THEN Decont(h.sc, list[n]) ELSE Nil

\* Parcel.STORE, first pass: what each target that is a container gets.
Picked(h, list, n) == IF n <= Len(list) THEN Decont(scalars, list[n]) ELSE Nil

\* Second pass: the stores in order, up to the first that dies.
StoreNext(r, target, v) ==
    IF r.ok /\ CanStore(r.h, target, v) THEN [h |-> Put(r.h, target, v), ok |-> TRUE]
    ELSE [h |-> r.h, ok |-> FALSE]

Stored(targets, list) ==
    LET after[n \in 0..Len(targets)] ==
            IF n = 0 THEN [h |-> Heap, ok |-> TRUE]
            ELSE StoreNext(after[n - 1], targets[n], Picked(after[n - 1].h, list, n))
    IN  after

StoreAll(targets, list) == Stored(targets, list)[Len(targets)]

\* (t) = (l), and (t, @a) = (l): the array takes what the scalars have left.
AssignList(t, l) ==
    /\ Become(StoreAll([n \in DOMAIN t |-> pad[t[n]]], [n \in DOMAIN l |-> Operand(l[n])]).h, pad)
    /\ UNCHANGED copied

AssignListAndArray(t, l) ==
    LET list == [n \in DOMAIN l |-> Operand(l[n])]
        r    == StoreAll([n \in DOMAIN t |-> pad[t[n]]], list)
        rest == SubSeq(list, Len(t) + 1, Len(list))
    IN  /\ \E new \in New(Len(rest)) : Become(IF r.ok THEN StoreArray(r.h, rest, new) ELSE r.h, pad)
        /\ UNCHANGED copied

AssignLists ==
    \E t, l \in Lists :
        \/ Len(t) = MaxList /\ AssignList(t, l)
        \/ t # <<>> /\ Len(t) < MaxList /\ AssignListAndArray(t, l)

Init ==
    /\ pad \in [Vars -> Scalars] /\ \A x, y \in Vars : pad[x] = pad[y] => x = y
    /\ scalars = [s \in Scalars |->
                    IF s \in Range(pad)
                    THEN LET T == VarType[CHOOSE x \in Vars : pad[x] = s]
                         IN  Typed(T, TRUE, Initial[T])
                    ELSE Bare(None)]
    /\ items = <<>> /\ storage = [k \in Keys |-> None]
    /\ copied = [x \in Vars |-> None] /\ removed = {}

Next ==
    \/ Assign \/ Bind \/ Declare \/ Call \/ Return
    \/ AtPos \/ AtKey \/ Shift \/ Push \/ Unshift \/ Delete
    \/ AssignArray \/ AssignLists

Spec == Init /\ [][Next]_vars

-----------------------------------------------------------------------------
(* What containers promise.                                                 *)

InReach == Held(pad, Heap) \cap Scalars

\* References lead to Scalars there are, and those out of reach are forgotten.
TypeOK ==
    /\ pad \in [Vars -> Scalars \cup {Null} \cup Values]
    /\ items \in Seq(Scalars \cup {Null}) /\ storage \in [Keys -> Scalars \cup {None}]
    /\ copied \in [Vars -> Values \cup {None}] /\ removed \subseteq InReach
    /\ \A s \in Scalars :
          IF s \in InReach
          THEN /\ scalars[s].value \in Values
               /\ scalars[s].desc # None => scalars[s].desc \in [of : DOMAIN Initial, rw : BOOLEAN]
               /\ scalars[s].whence \in {None} \cup Keys \cup (1..MaxPos)
          ELSE scalars[s] = Bare(None)

\* A Scalar holds a value of the type its descriptor declares, though many stores
\* (binds of parameters, elements, arrays) go past the check.
TypedValues ==
    \A s \in InReach : scalars[s].desc # None => <<scalars[s].value, scalars[s].desc.of>> \in Conforms

Places(s) == {n \in DOMAIN items : items[n] = s} \cup {k \in Keys : storage[k] = s}

\* An element's container is at one place only, so that assigning one element never
\* changes another; one that waits for its first store is at none.
ElementsOwned ==
    \A s \in InReach :
        /\ \A p, q \in Places(s) : p = q
        /\ scalars[s].whence # None => Places(s) = {}

\* A read-only parameter and what a routine that is not rw returned keep their value,
\* whatever is assigned to the variable or element it was taken from.
CopiesKept == \A x \in Vars : copied[x] # None => Decont(scalars, pad[x]) = copied[x]

\* A container that was removed from the array or the hash (shift, delete, a new list
\* of elements, another container in its place) never gets back in, though it can
\* still be assigned: only a first store attaches.
NeverBack == removed \cap Elements(Heap) = {}

\* ($x, $y) = ($y, $x) exchanges the values when each variable can hold the other's:
\* the first pass of Parcel.STORE takes the values before any is assigned.
Exchanges ==
    [][\A x, y \in Vars :
          LET s == pad[x]
              t == pad[y]
          IN  ( /\ Usable(x) /\ Usable(y) /\ s # t
                /\ CanStore(Heap, s, Decont(scalars, t)) /\ CanStore(Heap, t, Decont(scalars, s))
                /\ AssignList(<<x, y>>, <<y, x>>) )
              => scalars'[s].value = scalars[t].value /\ scalars'[t].value = scalars[s].value]_vars

=============================================================================
