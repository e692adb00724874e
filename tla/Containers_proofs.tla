-------------------------- MODULE Containers_proofs --------------------------
(***************************************************************************)
(* What Containers promises for any variables, types, values and Scalars:   *)
(* one inductive invariant, stated of heaps so that it is also known in the  *)
(* middle of a list assignment.                                             *)
(***************************************************************************)
EXTENDS Containers, Induction, FiniteSetTheorems

Cell == [ desc   : {None} \cup [of : DOMAIN Initial, rw : BOOLEAN],
          value  : Values \cup {None},
          whence : {None} \cup Keys \cup (1..MaxPos) ]

HeapType == [ sc      : [Scalars -> Cell],
              items   : Seq(Scalars \cup {Null}),
              storage : [Keys -> Scalars \cup {None}] ]

Pads == [Vars -> Scalars \cup {Null} \cup Values]

\* An element's container is at one place, one that waits for its first store at none.
PlacesIn(h, s) == {n \in DOMAIN h.items : h.items[n] = s} \cup {k \in Keys : h.storage[k] = s}

Owned(h) ==
    \A s \in Scalars : /\ \A p, q \in PlacesIn(h, s) : p = q
                       /\ h.sc[s].whence # None => PlacesIn(h, s) = {}

TypedCells(h) ==
    \A s \in Scalars : h.sc[s].desc # None => <<h.sc[s].value, h.sc[s].desc.of>> \in Conforms

Full(h, p) == \A s \in Held(p, h) \cap Scalars : h.sc[s].value \in Values

\* Whatever was to be a copy is a value, or in a Scalar that cannot be assigned.
Copies(p, c, sc) ==
    \A x \in Vars : c[x] # None =>
        Decont(sc, p[x]) = c[x] /\ (p[x] \in Scalars => ~Rw(sc[p[x]]))

HeapInv ==
    /\ Heap \in HeapType /\ pad \in Pads
    /\ copied \in [Vars -> Values \cup {None}]
    /\ removed \subseteq Held(pad, Heap) \cap Scalars
    /\ Owned(Heap) /\ TypedCells(Heap) /\ Full(Heap, pad)
    /\ \A s \in Scalars : s \notin Held(pad, Heap) => scalars[s] = Bare(None)
    /\ \A s \in removed : scalars[s].whence = None /\ s \notin Elements(Heap)
    /\ Copies(pad, copied, scalars)

-----------------------------------------------------------------------------
(* Steps of the program.                                                    *)

\* What heap h, variables p and copies c need to be for the program to go on with.
Settled(h, p, c) ==
    /\ h \in HeapType /\ p \in Pads /\ c \in [Vars -> Values \cup {None}]
    /\ Owned(h) /\ TypedCells(h) /\ Full(h, p)
    /\ \A s \in Scalars : s \in removed \cup Elements(Heap) => h.sc[s].whence = None
    /\ removed \cap Elements(h) = {}
    /\ Copies(p, c, h.sc)

\* A Scalar that is forgotten.
LEMMA BareCell == Bare(None) \in Cell /\ Bare(None).whence = None /\ Bare(None).desc = None
BY DEF Bare, Scalar, Cell

\* A step that makes a settled heap h and pad p the new ones, and forgets the
\* Scalars out of reach, keeps the invariant.
LEMMA BecomeKeeps ==
    ASSUME HeapInv, NEW h, NEW p, Settled(h, p, copied'), Become(h, p)
    PROVE  HeapInv'
<1>1. pad' = p /\ items' = h.items /\ storage' = h.storage
  BY DEF Become
<1>2. Heap' = [sc |-> scalars', items |-> items', storage |-> storage']
  BY DEF Heap
<1> DEFINE held == Held(p, h)
<1>3. scalars' = [s \in Scalars |-> IF s \in held THEN h.sc[s] ELSE Bare(None)]
  BY DEF Become
<1>4. Elements(Heap)' = Elements(h) /\ Held(pad, Heap)' = held
  BY <1>1, <1>2 DEF Elements, Held
<1>5. h \in HeapType /\ p \in Pads
  BY DEF Settled
<1>6. Heap' \in HeapType
  <2>1. scalars' \in [Scalars -> Cell]
    BY <1>3, <1>5, BareCell DEF HeapType
  <2> QED BY <1>1, <1>2, <1>5, <2>1 DEF HeapType
<1>7. removed' = (removed \cup (Elements(Heap) \ Elements(h))) \cap Range(p) \cap Scalars
  BY DEF Become
<1>8. \A s \in Scalars : PlacesIn(Heap, s)' = PlacesIn(h, s)
  BY <1>1, <1>2 DEF PlacesIn
<1>9. \A s \in Scalars : s \notin held => PlacesIn(h, s) = {}
  BY DEF PlacesIn, Held, Elements, Range, Settled, HeapType
<1>10. Heap'.sc = scalars'
  BY <1>2
<1>11. Owned(Heap)'
  <2> SUFFICES ASSUME NEW s \in Scalars
               PROVE  /\ \A i, j \in PlacesIn(h, s) : i = j
                      /\ scalars'[s].whence # None => PlacesIn(h, s) = {}
    BY <1>8, <1>10 DEF Owned
  <2> HIDE DEF held
  <2> QED BY <1>3, <1>9, BareCell DEF Settled, Owned
<1>12. TypedCells(Heap)'
  <2> HIDE DEF held
  <2> QED BY <1>3, <1>10, BareCell DEF Settled, TypedCells
<1>13. Full(Heap, pad)'
  <2> HIDE DEF held
  <2>1. \A s \in held \cap Scalars : scalars'[s].value \in Values
    BY <1>3 DEF Settled, Full, held
  <2> QED BY <1>4, <1>10, <2>1 DEF Full
<1>14. \A s \in Scalars : s \notin Held(pad, Heap)' => scalars'[s] = Bare(None)
  BY <1>3, <1>4
<1>15. Range(p) \subseteq held
  BY DEF Held
<1>16. removed' \subseteq held \cap Scalars
  BY <1>7, <1>15
<1>17. \A s \in removed' : scalars'[s].whence = None /\ s \notin Elements(h)
  <2> SUFFICES ASSUME NEW s \in removed'
               PROVE  scalars'[s].whence = None /\ s \notin Elements(h)
    OBVIOUS
  <2>1. s \in Scalars /\ s \in removed \cup Elements(Heap) /\ s \in held
    BY <1>7, <1>16
  <2>2. h.sc[s].whence = None
    BY <2>1 DEF Settled
  <2>3. s \notin Elements(h)
    BY <1>7 DEF Settled
  <2> HIDE DEF held
  <2> QED BY <1>3, <2>1, <2>2, <2>3
<1>18. Copies(pad, copied, scalars)'
  <2> SUFFICES ASSUME NEW x \in Vars, copied'[x] # None
               PROVE  /\ Decont(scalars', p[x]) = copied'[x]
                      /\ p[x] \in Scalars => ~Rw(scalars'[p[x]])
    BY <1>1 DEF Copies, Decont
  <2>1. /\ Decont(h.sc, p[x]) = copied'[x]
        /\ p[x] \in Scalars => ~Rw(h.sc[p[x]])
    BY DEF Settled, Copies
  <2>2. p[x] \in Scalars => p[x] \in held
    BY <1>5, <1>15 DEF Range, Pads
  <2>3. p[x] \in Scalars => scalars'[p[x]] = h.sc[p[x]]
    <3> HIDE DEF held
    <3> QED BY <1>3, <2>2
  <2> QED BY <2>1, <2>3 DEF Decont
<1>19. copied' \in [Vars -> Values \cup {None}]
  BY DEF Settled
<1> QED BY <1>1, <1>4, <1>5, <1>6, <1>11, <1>12, <1>13, <1>14, <1>16, <1>17, <1>18, <1>19
        DEF HeapInv

-----------------------------------------------------------------------------
(* What the operations take.                                                *)

\* New(n) hands out n different Scalars, none of them in use.
LEMMA NewScalars ==
    ASSUME NEW n \in Nat, NEW new \in New(n)
    PROVE  /\ new \in Seq(Scalars) /\ n <= Len(new) /\ IsInjective(new)
           /\ \A m \in 1..n : new[m] \in Free
<1> DEFINE count == Cardinality(Free)
<1>1. IsFiniteSet(Free)
  BY FS_Subset, ContainersAssumption DEF Free
<1>2. count \in Nat /\ ExistsBijection(1..count, Free)
  BY <1>1, FS_CardinalityType
<1>3. \E f \in [1..count -> Free] : IsInjective(f)
  BY <1>2 DEF ExistsBijection, Bijection, Injection
<1>4. new = SetToSeq(Free) /\ ~(count < n)
  BY DEF New
<1>5. new \in [1..count -> Free] /\ IsInjective(new)
  BY <1>3, <1>4 DEF SetToSeq
<1>6. Free \subseteq Scalars
  BY DEF Free
<1> HIDE DEF count
<1>7. new \in Seq(Scalars) /\ Len(new) = count
  BY <1>2, <1>5, <1>6
<1> QED BY <1>2, <1>4, <1>5, <1>7

\* A container is an element if it is at some place.
LEMMA ElementPlaces ==
    ASSUME NEW h \in HeapType, NEW s \in Scalars
    PROVE  s \in Elements(h) <=> PlacesIn(h, s) # {}
BY ContainersAssumption DEF Elements, PlacesIn, Range, HeapType

\* An operand is a value, or a Scalar in reach that has one.
LEMMA OperandValue ==
    ASSUME HeapInv, NEW o \in Operands
    PROVE  /\ Operand(o) \in Values \/ Operand(o) \in Held(pad, Heap) \cap Scalars
           /\ Decont(scalars, Operand(o)) \in Values
<1>1. pad \in Pads /\ Full(Heap, pad) /\ Heap.sc = scalars
  BY DEF HeapInv, Heap
<1>2. CASE o \in Vars
  <2>1. pad[o] \in Scalars \cup Values /\ pad[o] \in Range(pad) /\ Operand(o) = pad[o]
    BY <1>1, <1>2 DEF Operands, Usable, Operand, Pads, Range
  <2>2. pad[o] \in Scalars => pad[o] \in Held(pad, Heap) \cap Scalars
    BY <2>1 DEF Held
  <2>3. pad[o] \in Scalars => scalars[pad[o]].value \in Values
    BY <1>1, <2>2 DEF Full
  <2> QED BY <2>1, <2>2, <2>3 DEF Decont
<1>3. CASE o \notin Vars
  BY <1>3, ContainersAssumption DEF Operands, Operand, Decont
<1> QED BY <1>2, <1>3

\* The program may always go on as it is.
LEMMA HeapSettled ==
    ASSUME HeapInv
    PROVE  Settled(Heap, pad, copied)
<1>1. Heap.sc = scalars
  BY DEF Heap
<1>2. \A s \in Scalars : s \in Elements(Heap) => scalars[s].whence = None
  BY <1>1, ElementPlaces DEF HeapInv, Owned
<1>3. removed \cap Elements(Heap) = {}
  BY DEF HeapInv
<1>4. \A s \in Scalars : s \in removed => scalars[s].whence = None
  BY DEF HeapInv
<1> QED BY <1>1, <1>2, <1>3, <1>4 DEF HeapInv, Settled

\* What is known of a free Scalar.
LEMMA FreeScalar ==
    ASSUME HeapInv, NEW s \in Free
    PROVE  /\ s \in Scalars /\ s \notin Held(pad, Heap) /\ s \notin Elements(Heap)
           /\ PlacesIn(Heap, s) = {} /\ s \notin removed /\ \A x \in Vars : pad[x] # s
<1>1. s \in Scalars /\ s \notin Held(pad, Heap)
  BY DEF Free
<1>2. s \notin Elements(Heap) /\ \A x \in Vars : pad[x] # s
  BY <1>1 DEF Held, HeapInv, Pads, Range
<1> QED BY <1>1, <1>2, ElementPlaces DEF HeapInv

\* A variable is bound to a new Scalar.
LEMMA FreshSettles ==
    ASSUME HeapInv, NEW s \in Free, NEW cell \in Cell, cell.value \in Values,
           cell.desc # None => <<cell.value, cell.desc.of>> \in Conforms,
           NEW x \in Vars, NEW v \in Values \cup {None},
           v # None => cell.value = v /\ ~Rw(cell)
    PROVE  Settled([Heap EXCEPT !.sc[s] = cell], [pad EXCEPT ![x] = s], [copied EXCEPT ![x] = v])
<1> DEFINE h == [Heap EXCEPT !.sc[s] = cell]
           p == [pad EXCEPT ![x] = s]
           c == [copied EXCEPT ![x] = v]
<1>1. /\ h.items = items /\ h.storage = storage /\ h.sc = [scalars EXCEPT ![s] = cell]
      /\ Heap.items = items /\ Heap.storage = storage /\ Heap.sc = scalars
  BY DEF Heap
<1>2. scalars \in [Scalars -> Cell] /\ Heap \in HeapType
  BY <1>1 DEF HeapInv, HeapType
<1>3. h \in HeapType
  BY <1>2 DEF HeapType
<1>4. p \in Pads /\ c \in [Vars -> Values \cup {None}]
  BY FreeScalar DEF HeapInv, Pads
<1>5. \A r \in Scalars : h.sc[r] = IF r = s THEN cell ELSE scalars[r]
  BY <1>1, <1>2
<1>6. Elements(h) = Elements(Heap) /\ \A r : PlacesIn(h, r) = PlacesIn(Heap, r)
  BY <1>1 DEF Elements, PlacesIn
<1>7. \A r \in Held(p, h) : r = s \/ r \in Held(pad, Heap)
  BY <1>6, FreeScalar DEF Held, Range, HeapInv, Pads
<1> HIDE DEF h
<1>8. Owned(h)
  BY <1>1, <1>5, <1>6, FreeScalar DEF HeapInv, Owned
<1>9. TypedCells(h)
  BY <1>1, <1>5 DEF HeapInv, TypedCells
<1>10. Full(h, p)
  BY <1>1, <1>5, <1>7 DEF HeapInv, Full
<1>11. \A r \in Scalars : r \in removed \cup Elements(Heap) => h.sc[r].whence = None
  BY <1>1, <1>5, HeapSettled, FreeScalar DEF Settled
<1>12. removed \cap Elements(h) = {}
  BY <1>6, HeapSettled DEF Settled
<1>13. Copies(p, c, h.sc)
  <2> SUFFICES ASSUME NEW y \in Vars, c[y] # None
               PROVE  Decont(h.sc, p[y]) = c[y] /\ (p[y] \in Scalars => ~Rw(h.sc[p[y]]))
    BY DEF Copies
  <2>1. CASE y = x
    <3>1. p[y] = s /\ c[y] = v
      BY <2>1 DEF HeapInv, Pads
    <3> QED BY <1>5, <3>1, FreeScalar DEF Decont
  <2>2. CASE y # x
    <3>1. p[y] = pad[y] /\ c[y] = copied[y] /\ pad[y] # s
      BY <2>2, FreeScalar DEF HeapInv, Pads
    <3>2. Decont(scalars, pad[y]) = copied[y] /\ (pad[y] \in Scalars => ~Rw(scalars[pad[y]]))
      BY <3>1 DEF HeapInv, Copies
    <3> QED BY <1>5, <3>1, <3>2 DEF Decont
  <2> QED BY <2>1, <2>2
<1> QED BY <1>3, <1>4, <1>8, <1>9, <1>10, <1>11, <1>12, <1>13 DEF Settled, h

\* A variable is bound to what there is, or elements go.
LEMMA ShareSettles ==
    ASSUME HeapInv, NEW h \in HeapType, h.sc = scalars, Owned(h),
           Elements(h) \subseteq Elements(Heap),
           NEW e, e \in Values \cup {Null} \/ e \in Held(pad, Heap) \cap Scalars,
           NEW x \in Vars, NEW v \in Values \cup {None},
           v # None => Decont(scalars, e) = v /\ (e \in Scalars => ~Rw(scalars[e]))
    PROVE  Settled(h, [pad EXCEPT ![x] = e], [copied EXCEPT ![x] = v])
<1> DEFINE p == [pad EXCEPT ![x] = e]
           c == [copied EXCEPT ![x] = v]
<1>1. Heap.sc = scalars
  BY DEF Heap
<1>2. p \in Pads /\ c \in [Vars -> Values \cup {None}]
  BY DEF HeapInv, Pads
<1>3. \A r \in Held(p, h) \cap Scalars : r \in Held(pad, Heap)
  BY ContainersAssumption DEF Held, Range, HeapInv, Pads
<1>4. TypedCells(h) /\ Full(h, p)
  BY <1>1, <1>3 DEF HeapInv, TypedCells, Full
<1>5. \A r \in Scalars : r \in removed \cup Elements(Heap) => h.sc[r].whence = None
  BY <1>1, HeapSettled DEF Settled
<1>6. removed \cap Elements(h) = {}
  BY HeapSettled DEF Settled
<1>7. Copies(p, c, scalars)
  BY DEF HeapInv, Copies, Pads
<1> QED BY <1>2, <1>4, <1>5, <1>6, <1>7 DEF Settled

-----------------------------------------------------------------------------
(* The operations that bind a variable.                                     *)

\* $x := $y.
LEMMA BindKeeps == ASSUME HeapInv, Bind PROVE HeapInv'
<1>1. PICK x \in Vars, o \in Operands :
        BindTo(x, Heap, Operand(o), IF o \in Literals THEN o ELSE copied[o])
  BY DEF Bind
<1> DEFINE e == Operand(o)
           v == IF o \in Literals THEN o ELSE copied[o]
<1>2. e \in Values \/ e \in Held(pad, Heap) \cap Scalars
  BY OperandValue
<1>3. v \in Values \cup {None}
  BY ContainersAssumption DEF Operands, HeapInv
<1>4. v # None => Decont(scalars, e) = v /\ (e \in Scalars => ~Rw(scalars[e]))
  <2>1. CASE o \in Literals
    BY <2>1, ContainersAssumption DEF Operand, Decont
  <2>2. CASE o \notin Literals
    BY <2>2 DEF Operands, Operand, HeapInv, Copies
  <2> QED BY <2>1, <2>2
<1>5. Heap \in HeapType /\ Owned(Heap) /\ Heap.sc = scalars
  BY DEF HeapInv, Heap
<1>6. Settled(Heap, [pad EXCEPT ![x] = e], [copied EXCEPT ![x] = v])
  BY <1>2, <1>3, <1>4, <1>5, ShareSettles
<1> QED BY <1>1, <1>6, BecomeKeeps DEF BindTo

\* my T $x.
LEMMA DeclareKeeps == ASSUME HeapInv, Declare PROVE HeapInv'
<1>1. PICK x \in Vars, new \in New(1) :
        BindTo(x, [Heap EXCEPT !.sc[new[1]] = Typed(VarType[x], TRUE, Initial[VarType[x]])],
               new[1], None)
  BY DEF Declare
<1> DEFINE T    == VarType[x]
           cell == Typed(T, TRUE, Initial[T])
<1>2. new[1] \in Free
  BY NewScalars
<1>3. T \in DOMAIN Initial /\ Initial[T] \in Values /\ <<Initial[T], T>> \in Conforms
  BY ContainersAssumption
<1>4. cell \in Cell /\ cell.value \in Values /\ <<cell.value, cell.desc.of>> \in Conforms
  BY <1>3 DEF Typed, Descriptor, Scalar, Cell
<1> HIDE DEF cell
<1>5. Settled([Heap EXCEPT !.sc[new[1]] = cell], [pad EXCEPT ![x] = new[1]],
              [copied EXCEPT ![x] = None])
  BY <1>2, <1>4, FreshSettles
<1> QED BY <1>1, <1>5, BecomeKeeps DEF BindTo, cell

\* A call binds a parameter: the container itself, or a copy.
LEMMA CallKeeps == ASSUME HeapInv, Call PROVE HeapInv'
<1>1. PICK x \in Vars, o \in Operands, mode \in {"rw", "copy", "ro"} :
        LET e == Operand(o)
            v == Decont(scalars, e)
        IN  /\ <<v, VarType[x]>> \in Conforms
            /\ IF mode = "rw" THEN BindTo(x, Heap, e, IF e \in Scalars THEN None ELSE e)
               ELSE \E new \in New(1) :
                      BindTo(x, [Heap EXCEPT !.sc[new[1]] = Typed(ParamOf[VarType[x]], mode = "copy", v)],
                             new[1], IF mode = "ro" THEN v ELSE None)
  BY DEF Call
<1> DEFINE e == Operand(o)
           v == Decont(scalars, e)
           c == IF e \in Scalars THEN None ELSE e
<1>2. /\ e \in Values \/ e \in Held(pad, Heap) \cap Scalars
      /\ v \in Values
  BY OperandValue
<1>3. CASE mode = "rw"
  <2>1. BindTo(x, Heap, e, c)
    BY <1>1, <1>3
  <2>2. Heap \in HeapType /\ Owned(Heap) /\ Heap.sc = scalars
    BY DEF HeapInv, Heap
  <2>3. /\ c \in Values \cup {None}
        /\ c # None => Decont(scalars, e) = c /\ (e \in Scalars => ~Rw(scalars[e]))
    BY <1>2 DEF Decont
  <2> HIDE DEF c, e
  <2>4. Settled(Heap, [pad EXCEPT ![x] = e], [copied EXCEPT ![x] = c])
    BY <1>2, <2>2, <2>3, ShareSettles
  <2> QED BY <2>1, <2>4, BecomeKeeps DEF BindTo
<1>4. CASE mode # "rw"
  <2> DEFINE rw   == mode = "copy"
             cell == Typed(ParamOf[VarType[x]], rw, v)
             w    == IF mode = "ro" THEN v ELSE None
  <2>1. PICK new \in New(1) : BindTo(x, [Heap EXCEPT !.sc[new[1]] = cell], new[1], w)
    BY <1>1, <1>4
  <2>2. ParamOf[VarType[x]] \in DOMAIN Initial /\ <<v, ParamOf[VarType[x]]>> \in Conforms
    BY <1>1, <1>2, ContainersAssumption
  <2>3. rw \in BOOLEAN /\ (rw => w = None) /\ w \in {v, None}
    BY <1>4
  <2>4. new[1] \in Free
    BY NewScalars
  <2> HIDE DEF e, v, rw, w
  <2>5. /\ cell \in Cell /\ cell.value = v /\ <<v, cell.desc.of>> \in Conforms
        /\ Rw(cell) => rw
    BY <1>2, <2>2, <2>3 DEF Typed, Descriptor, Scalar, Cell, Rw
  <2> HIDE DEF cell
  <2>6. w # None => cell.value = w /\ ~Rw(cell)
    BY <2>3, <2>5
  <2>7. Settled([Heap EXCEPT !.sc[new[1]] = cell], [pad EXCEPT ![x] = new[1]],
                [copied EXCEPT ![x] = w])
    BY <1>2, <2>3, <2>4, <2>5, <2>6, FreshSettles
  <2> QED BY <2>1, <2>7, BecomeKeeps DEF BindTo
<1> QED BY <1>3, <1>4

\* What a routine returns is decontainerized unless the routine is rw.
LEMMA ReturnKeeps == ASSUME HeapInv, Return PROVE HeapInv'
<1>1. PICK x \in Vars, o \in Operands, new \in New(1) :
        LET e == Operand(o)
            r == Returned(e, new[1])
        IN  BindTo(x, r.h, r.e, Decont(scalars, e))
  BY DEF Return
<1> DEFINE e == Operand(o)
           v == Decont(scalars, e)
           r == Returned(e, new[1])
           s == new[1]
<1>2. /\ e \in Values \/ e \in Held(pad, Heap) \cap Scalars
      /\ v \in Values
  BY OperandValue
<1>3. BindTo(x, r.h, r.e, v)
  BY <1>1
<1>4. s \in Free
  BY NewScalars
<1> HIDE DEF e, s
<1>5. CASE e \in Scalars /\ Rw(scalars[e])
  <2> DEFINE cell == Bare(v)
  <2>1. r.h = [Heap EXCEPT !.sc[s] = cell] /\ r.e = s
    BY <1>5 DEF Returned, Decont, s
  <2>2. cell \in Cell /\ cell.value = v /\ cell.desc = None /\ ~Rw(cell)
    BY <1>2 DEF Bare, Scalar, Cell, Rw
  <2> HIDE DEF cell, r, v
  <2>3. Settled([Heap EXCEPT !.sc[s] = cell], [pad EXCEPT ![x] = s], [copied EXCEPT ![x] = v])
    BY <1>2, <1>4, <2>2, FreshSettles
  <2> QED BY <1>3, <2>1, <2>3, BecomeKeeps DEF BindTo
<1>6. CASE ~(e \in Scalars /\ Rw(scalars[e]))
  <2>1. r.h = Heap /\ r.e = e
    BY <1>6 DEF Returned
  <2>2. Heap \in HeapType /\ Owned(Heap) /\ Heap.sc = scalars
    BY DEF HeapInv, Heap
  <2> HIDE DEF r
  <2>3. Settled(Heap, [pad EXCEPT ![x] = e], [copied EXCEPT ![x] = v])
    BY <1>2, <1>6, <2>2, ShareSettles
  <2> QED BY <1>3, <2>1, <2>3, BecomeKeeps DEF BindTo
<1> QED BY <1>5, <1>6

\* A container that waits for its first store.
LEMMA PromiseKeeps ==
    ASSUME HeapInv, NEW x \in Vars, NEW new \in New(1), NEW w \in Keys \cup (1..MaxPos),
           BindTo(x, Promise(new[1], w), new[1], None)
    PROVE  HeapInv'
<1> DEFINE cell == [Plain(Initial[Mu]) EXCEPT !.whence = w]
<1>1. Initial[Mu] \in Values /\ <<Initial[Mu], Mu>> \in Conforms /\ Mu \in DOMAIN Initial
  BY ContainersAssumption
<1>2. cell \in Cell /\ cell.value = Initial[Mu] /\ cell.desc.of = Mu
  BY <1>1 DEF Plain, Typed, Descriptor, Scalar, Cell
<1>3. new[1] \in Free
  BY NewScalars
<1> HIDE DEF cell
<1>4. Settled([Heap EXCEPT !.sc[new[1]] = cell], [pad EXCEPT ![x] = new[1]],
              [copied EXCEPT ![x] = None])
  BY <1>1, <1>2, <1>3, FreshSettles
<1> QED BY <1>4, BecomeKeeps DEF BindTo, Promise, cell

\* An element's own container.
LEMMA ElementKeeps ==
    ASSUME HeapInv, NEW x \in Vars, NEW e \in Elements(Heap) \cap (Scalars \cup {Null}),
           NEW h \in HeapType, h.sc = scalars, Owned(h), Elements(h) \subseteq Elements(Heap),
           BindTo(x, h, e, None)
    PROVE  HeapInv'
<1>1. e \in Values \cup {Null} \/ e \in Held(pad, Heap) \cap Scalars
  BY DEF Held
<1>2. Settled(h, [pad EXCEPT ![x] = e], [copied EXCEPT ![x] = None])
  BY <1>1, ShareSettles
<1> QED BY <1>2, BecomeKeeps DEF BindTo

\* @a[i], vivified or not.
LEMMA AtPosKeeps == ASSUME HeapInv, AtPos PROVE HeapInv'
<1>1. PICK x \in Vars, i \in 1..MaxPos :
        IF i <= Len(items) /\ items[i] # Null THEN BindTo(x, Heap, items[i], None)
        ELSE \E new \in New(1) : BindTo(x, Promise(new[1], i), new[1], None)
  BY DEF AtPos
<1>2. Heap \in HeapType /\ Owned(Heap) /\ Heap.sc = scalars /\ Heap.items = items
  BY DEF HeapInv, Heap
<1>3. CASE i <= Len(items) /\ items[i] # Null
  <2>1. items[i] \in Scalars \cup {Null} /\ items[i] \in Elements(Heap)
    BY <1>2, <1>3, ContainersAssumption DEF HeapType, Elements, Range
  <2> QED BY <1>1, <1>2, <1>3, <2>1, ElementKeeps
<1>4. CASE ~(i <= Len(items) /\ items[i] # Null)
  BY <1>1, <1>4, PromiseKeeps
<1> QED BY <1>3, <1>4

\* %h{k}, vivified or not.
LEMMA AtKeyKeeps == ASSUME HeapInv, AtKey PROVE HeapInv'
<1>1. PICK x \in Vars, k \in Keys :
        IF storage[k] # None THEN BindTo(x, Heap, storage[k], None)
        ELSE \E new \in New(1) : BindTo(x, Promise(new[1], k), new[1], None)
  BY DEF AtKey
<1>2. Heap \in HeapType /\ Owned(Heap) /\ Heap.sc = scalars /\ Heap.storage = storage
  BY DEF HeapInv, Heap
<1>3. CASE storage[k] # None
  <2>1. storage[k] \in Scalars /\ storage[k] \in Elements(Heap)
    BY <1>2, <1>3 DEF HeapType, Elements, Range
  <2> QED BY <1>1, <1>2, <1>3, <2>1, ElementKeeps
<1>4. CASE storage[k] = None
  BY <1>1, <1>4, PromiseKeeps
<1> QED BY <1>3, <1>4

\* @a.shift.
LEMMA ShiftKeeps == ASSUME HeapInv, Shift PROVE HeapInv'
<1> DEFINE h == [Heap EXCEPT !.items = Tail(items)]
<1>1. PICK x \in Vars : items # <<>> /\ BindTo(x, h, Head(items), None)
  BY DEF Shift
<1>2. /\ Heap \in HeapType /\ Owned(Heap) /\ Heap.sc = scalars
      /\ Heap.items = items /\ Heap.storage = storage
  BY DEF HeapInv, Heap
<1>3. items \in Seq(Scalars \cup {Null}) /\ Tail(items) \in Seq(Scalars \cup {Null})
  BY <1>1, <1>2 DEF HeapType
<1>4. h \in HeapType /\ h.sc = scalars /\ h.items = Tail(items) /\ h.storage = storage
  BY <1>2, <1>3 DEF HeapType, Heap
<1>5. /\ Head(items) = items[1] /\ 1 \in DOMAIN items
      /\ \A n \in DOMAIN Tail(items) : n \in Nat /\ n + 1 \in DOMAIN items /\ Tail(items)[n] = items[n + 1]
  BY <1>1, <1>3
<1>6. Head(items) \in Elements(Heap) \cap (Scalars \cup {Null})
  BY <1>2, <1>3, <1>5 DEF Elements, Range
<1>7. Elements(h) \subseteq Elements(Heap)
  BY <1>2, <1>4, <1>5 DEF Elements, Range
<1> HIDE DEF h
<1>8. Owned(h)
  <2> SUFFICES ASSUME NEW s \in Scalars
               PROVE  /\ \A p, q \in PlacesIn(h, s) : p = q
                      /\ h.sc[s].whence # None => PlacesIn(h, s) = {}
    BY DEF Owned
  <2> DEFINE back(p) == IF p \in Keys THEN p ELSE p + 1
  <2>1. \A p \in PlacesIn(h, s) : back(p) \in PlacesIn(Heap, s) /\ (p \in Nat \/ p \in Keys)
    BY <1>2, <1>4, <1>5, ContainersAssumption DEF PlacesIn
  <2>2. /\ \A p, q \in PlacesIn(Heap, s) : p = q
        /\ Heap.sc[s].whence # None => PlacesIn(Heap, s) = {}
    BY <1>2 DEF Owned
  <2>3. ASSUME NEW p \in PlacesIn(h, s), NEW q \in PlacesIn(h, s) PROVE p = q
    <3>1. back(p) = back(q)
      BY <2>1, <2>2
    <3>2. (p \in Nat \/ p \in Keys) /\ (q \in Nat \/ q \in Keys)
      BY <2>1
    <3>3. \A n \in Nat : n + 1 \in Nat /\ n + 1 \notin Keys
      BY ContainersAssumption
    <3> QED BY <3>1, <3>2, <3>3, ContainersAssumption
  <2> QED BY <1>2, <1>4, <2>1, <2>2, <2>3
<1> QED BY <1>1, <1>4, <1>6, <1>7, <1>8, ElementKeeps

\* %h{k} :delete.
LEMMA DeleteKeeps == ASSUME HeapInv, Delete PROVE HeapInv'
<1>1. PICK k \in Keys : storage[k] # None /\ Become([Heap EXCEPT !.storage[k] = None], pad)
  BY DEF Delete
<1> DEFINE h == [Heap EXCEPT !.storage[k] = None]
<1>2. /\ Heap \in HeapType /\ Owned(Heap) /\ Heap.sc = scalars
      /\ Heap.items = items /\ Heap.storage = storage
  BY DEF HeapInv, Heap
<1>3. /\ h \in HeapType /\ h.sc = scalars /\ h.items = items
      /\ \A j \in Keys : h.storage[j] = IF j = k THEN None ELSE storage[j]
  BY <1>2 DEF HeapType, Heap
<1> HIDE DEF h
<1>4. \A s \in Scalars : PlacesIn(h, s) \subseteq PlacesIn(Heap, s)
  BY <1>2, <1>3, ContainersAssumption DEF PlacesIn
<1>5. Owned(h)
  BY <1>2, <1>3, <1>4 DEF Owned
<1>6. removed \cap Elements(h) = {}
  BY <1>2, <1>3, <1>4, ElementPlaces, HeapSettled DEF Settled, HeapInv
<1>7. Full(h, pad)
  <2>1. \A s \in Held(pad, h) \cap Scalars : s \in Held(pad, Heap)
    BY <1>2, <1>3, <1>4, ElementPlaces DEF Held
  <2> QED BY <1>2, <1>3, <2>1 DEF HeapInv, Full
<1>8. Settled(h, pad, copied)
  BY <1>2, <1>3, <1>5, <1>6, <1>7, HeapSettled DEF Settled, TypedCells
<1>9. copied' = copied
  BY DEF Delete
<1> QED BY <1>1, <1>8, <1>9, BecomeKeeps DEF h

-----------------------------------------------------------------------------
(* The stores.                                                              *)

\* A heap in the middle of a list assignment.
Evolved(h) == Settled(h, pad, copied) /\ Elements(h) \subseteq Held(pad, Heap) \cup {Null, None}

\* The heap a step begins with has evolved from itself.
LEMMA HeapEvolved == ASSUME HeapInv PROVE Evolved(Heap)
BY HeapSettled DEF Evolved, Held

\* The first store puts a container at the one place it waits for.
LEMMA VivifyPlaces ==
    ASSUME NEW h \in HeapType, Owned(h), NEW s \in Scalars
    PROVE  /\ Vivify(h, s) \in HeapType /\ Vivify(h, s).sc = h.sc
           /\ \A r \in Scalars : r # s => PlacesIn(Vivify(h, s), r) \subseteq PlacesIn(h, r)
           /\ \A p, q \in PlacesIn(Vivify(h, s), s) : p = q
           /\ h.sc[s].whence = None => Vivify(h, s) = h
<1> DEFINE w == h.sc[s].whence
           g == Vivify(h, s)
<1>1. w \in {None} \cup Keys \cup (1..MaxPos)
  BY DEF HeapType, Cell
<1>2. CASE w = None
  <2>1. g = h
    BY <1>2 DEF Vivify
  <2> QED BY <2>1 DEF Owned
<1>3. CASE w # None
  <2>1. PlacesIn(h, s) = {}
    BY <1>3 DEF Owned
  <2>2. CASE w \in Keys
    <3>1. g = [h EXCEPT !.storage[w] = s]
      BY <1>3, <2>2 DEF Vivify
    <3>2. /\ g \in HeapType /\ g.sc = h.sc /\ g.items = h.items
          /\ \A k \in Keys : g.storage[k] = IF k = w THEN s ELSE h.storage[k]
      <4> DEFINE store == [h.storage EXCEPT ![w] = s]
      <4> HIDE DEF g, w
      <4>0. h.storage \in [Keys -> Scalars \cup {None}]
        BY DEF HeapType
      <4>1. /\ store \in [Keys -> Scalars \cup {None}]
            /\ \A k \in Keys : store[k] = IF k = w THEN s ELSE h.storage[k]
        BY <2>2, <4>0
      <4>2. g = [h EXCEPT !.storage = store]
        BY <3>1
      <4> HIDE DEF store
      <4> QED BY <4>1, <4>2 DEF HeapType
    <3> HIDE DEF g, w
    <3>3. \A r \in Scalars : r # s => PlacesIn(g, r) \subseteq PlacesIn(h, r)
      BY <3>2 DEF PlacesIn
    <3>4. PlacesIn(g, s) \subseteq PlacesIn(h, s) \cup {w}
      BY <3>2 DEF PlacesIn
    <3> QED BY <1>3, <2>1, <3>2, <3>3, <3>4 DEF g, w
  <2>3. CASE w \notin Keys
    <3> DEFINE it == BindPos(h.items, w, s)
    <3>1. g = [h EXCEPT !.items = it]
      BY <1>3, <2>3 DEF Vivify
    <3>2. w \in Nat /\ h.items \in Seq(Scalars \cup {Null}) /\ Len(h.items) \in Nat
      BY <1>1, <1>3, <2>3, ContainersAssumption DEF HeapType
    <3> DEFINE L == IF w > Len(h.items) THEN w ELSE Len(h.items)
    <3>3. L \in Nat /\ it = [n \in 1..L |-> IF n = w THEN s ELSE IF n <= Len(h.items) THEN h.items[n] ELSE Null]
      BY <3>2 DEF BindPos
    <3>4. \A n \in 1..L : n <= Len(h.items) => n \in DOMAIN h.items /\ h.items[n] \in Scalars \cup {Null}
      BY <3>2, <3>3
    <3>5. it \in [1..L -> Scalars \cup {Null}]
      BY <3>3, <3>4
    <3>6. it \in Seq(Scalars \cup {Null}) /\ DOMAIN it = 1..L
      BY <3>3, <3>5
    <3>7. \A n \in DOMAIN it : n # w => it[n] = Null \/ (n \in DOMAIN h.items /\ it[n] = h.items[n])
      BY <3>3, <3>4
    <3> HIDE DEF it, L
    <3>8. g \in HeapType /\ g.sc = h.sc /\ g.storage = h.storage /\ g.items = it
      BY <3>1, <3>6 DEF HeapType
    <3> HIDE DEF g, w
    <3>9. \A r \in Scalars : PlacesIn(g, r) \subseteq PlacesIn(h, r) \cup {w}
      BY <3>7, <3>8, ContainersAssumption DEF PlacesIn
    <3>10. \A r \in Scalars : r # s => w \notin PlacesIn(g, r)
      BY <2>3, <3>3, <3>8 DEF PlacesIn, it
    <3> QED BY <1>3, <2>1, <3>8, <3>9, <3>10 DEF g, w
  <2> QED BY <2>2, <2>3
<1> QED BY <1>2, <1>3

\* A store that passes the checks.
LEMMA PutEvolves ==
    ASSUME HeapInv, NEW h, Evolved(h), NEW e \in Range(pad), NEW v \in Values, CanStore(h, e, v)
    PROVE  /\ Evolved(Put(h, e, v))
           /\ \A r \in Scalars : /\ Put(h, e, v).sc[r].desc = h.sc[r].desc
                                 /\ Put(h, e, v).sc[r].value = IF r = e THEN v ELSE h.sc[r].value
<1> DEFINE g == Vivify(h, e)
           f == Put(h, e, v)
<1>1. h \in HeapType /\ Owned(h) /\ e \in Scalars /\ Rw(h.sc[e]) /\ <<v, h.sc[e].desc.of>> \in Conforms
  BY DEF Evolved, Settled, CanStore, Accepts
<1>2. /\ g \in HeapType /\ g.sc = h.sc
      /\ \A r \in Scalars : r # e => PlacesIn(g, r) \subseteq PlacesIn(h, r)
      /\ \A p, q \in PlacesIn(g, e) : p = q
      /\ h.sc[e].whence = None => g = h
  BY <1>1, VivifyPlaces
<1>3. f = [g EXCEPT !.sc[e].value = v, !.sc[e].whence = None]
  BY DEF Put
<1> HIDE DEF f, g
<1>4. h.sc \in [Scalars -> Cell]
  BY <1>1 DEF HeapType
<1> DEFINE cell == [h.sc[e] EXCEPT !.value = v, !.whence = None]
<1>5. cell \in Cell /\ cell.value = v /\ cell.whence = None /\ cell.desc = h.sc[e].desc
  BY <1>1, <1>4 DEF Cell
<1>6. f = [g EXCEPT !.sc = [h.sc EXCEPT ![e] = cell]]
  BY <1>1, <1>2, <1>3, <1>4 DEF HeapType, Cell
<1>7. /\ f.items = g.items /\ f.storage = g.storage /\ f \in HeapType
      /\ \A r \in Scalars : f.sc[r] = IF r = e THEN cell ELSE h.sc[r]
  <2> HIDE DEF cell
  <2> QED BY <1>1, <1>2, <1>4, <1>5, <1>6 DEF HeapType
<1> HIDE DEF cell
<1>8. Elements(f) = Elements(g) /\ \A r : PlacesIn(f, r) = PlacesIn(g, r)
  BY <1>7 DEF Elements, PlacesIn
<1>9. \A r \in Scalars : r \in Elements(f) => r = e \/ r \in Elements(h)
  BY <1>1, <1>2, <1>8, ElementPlaces
<1>10. Elements(f) \subseteq Held(pad, Heap) \cup {Null, None}
  <2>1. e \in Held(pad, Heap)
    BY DEF Held
  <2>2. Elements(f) \subseteq Scalars \cup {Null, None}
    BY <1>7 DEF Elements, Range, HeapType
  <2> QED BY <1>9, <2>1, <2>2 DEF Evolved
<1>11. Owned(f)
  BY <1>1, <1>2, <1>5, <1>7, <1>8 DEF Owned
<1>12. TypedCells(f)
  BY <1>1, <1>5, <1>7 DEF TypedCells, Evolved, Settled
<1>13. Full(f, pad)
  BY <1>5, <1>7, <1>9 DEF Full, Held, Evolved, Settled
<1>14. \A r \in Scalars : r \in removed \cup Elements(Heap) => f.sc[r].whence = None
  BY <1>5, <1>7 DEF Evolved, Settled
<1>15. removed \cap Elements(f) = {}
  <2> SUFFICES ASSUME NEW r \in removed, r \in Elements(f) PROVE FALSE
    OBVIOUS
  <2>1. r \in Scalars /\ h.sc[r].whence = None /\ r \notin Elements(h)
    BY DEF HeapInv, Evolved, Settled
  <2>2. r = e
    BY <1>9, <2>1
  <2> QED BY <1>2, <1>8, <2>1, <2>2
<1>16. Copies(pad, copied, f.sc)
  <2> SUFFICES ASSUME NEW x \in Vars, copied[x] # None
               PROVE  Decont(f.sc, pad[x]) = copied[x] /\ (pad[x] \in Scalars => ~Rw(f.sc[pad[x]]))
    BY DEF Copies
  <2>1. Decont(h.sc, pad[x]) = copied[x] /\ (pad[x] \in Scalars => ~Rw(h.sc[pad[x]]))
    BY DEF Evolved, Settled, Copies
  <2>2. pad[x] # e
    BY <1>1, <2>1
  <2> QED BY <1>7, <2>1, <2>2 DEF Decont
<1>17. Evolved(f)
  BY <1>7, <1>10, <1>11, <1>12, <1>13, <1>14, <1>15, <1>16 DEF Evolved, Settled
<1> QED BY <1>5, <1>7, <1>17 DEF f

\* $x = value, with the promise of a vivified element fulfilled.
LEMMA AssignKeeps == ASSUME HeapInv, Assign PROVE HeapInv'
<1>1. PICK x \in Vars, o \in Operands :
        LET v == Decont(scalars, Operand(o))
        IN  CanStore(Heap, pad[x], v) /\ Become(Put(Heap, pad[x], v), pad)
  BY DEF Assign
<1>2. pad[x] \in Range(pad) /\ Decont(scalars, Operand(o)) \in Values
  BY OperandValue DEF HeapInv, Pads, Range
<1>3. Evolved(Put(Heap, pad[x], Decont(scalars, Operand(o))))
  BY <1>1, <1>2, HeapEvolved, PutEvolves
<1>4. copied' = copied
  BY DEF Assign
<1> QED BY <1>1, <1>3, <1>4, BecomeKeeps DEF Evolved

\* New Scalars become elements.
LEMMA GrownSettles ==
    ASSUME HeapInv, NEW h, Evolved(h), NEW g \in HeapType, Owned(g), NEW N \in SUBSET Free,
           \A s \in Scalars \ N : g.sc[s] = h.sc[s] /\ (s \in Elements(g) => s \in Elements(h)),
           \A s \in N : /\ g.sc[s].value \in Values /\ g.sc[s].whence = None
                        /\ <<g.sc[s].value, g.sc[s].desc.of>> \in Conforms
    PROVE  Settled(g, pad, copied)
<1>1. \A s \in N : /\ s \in Scalars /\ s \notin removed /\ s \notin Elements(Heap)
                   /\ \A x \in Vars : pad[x] # s
  BY FreeScalar
<1>2. Settled(h, pad, copied)
  BY DEF Evolved
<1>3. TypedCells(g)
  BY <1>1, <1>2 DEF TypedCells, Settled
<1>4. Full(g, pad)
  <2>1. \A s \in Held(pad, g) \cap Scalars : s \in N \/ s \in Held(pad, h)
    BY DEF Held
  <2> QED BY <1>1, <1>2, <2>1 DEF Full, Settled
<1>5. \A r \in Scalars : r \in removed \cup Elements(Heap) => g.sc[r].whence = None
  BY <1>1, <1>2 DEF Settled
<1>6. removed \cap Elements(g) = {}
  BY <1>1, <1>2 DEF Settled, HeapInv
<1>7. Copies(pad, copied, g.sc)
  <2> SUFFICES ASSUME NEW x \in Vars, copied[x] # None
               PROVE  Decont(g.sc, pad[x]) = copied[x] /\ (pad[x] \in Scalars => ~Rw(g.sc[pad[x]]))
    BY DEF Copies
  <2>1. Decont(h.sc, pad[x]) = copied[x] /\ (pad[x] \in Scalars => ~Rw(h.sc[pad[x]]))
    BY <1>2 DEF Settled, Copies
  <2>2. pad[x] \notin N
    BY <1>1
  <2> QED BY <2>1, <2>2 DEF Decont
<1> QED BY <1>2, <1>3, <1>4, <1>5, <1>6, <1>7 DEF Settled

\* What a list assignment leads to, done or up to a store that dies.
Outcomes == {r \in [h : HeapType, ok : BOOLEAN] : Evolved(r.h)}

\* One more store of a list assignment.
LEMMA StoreNextEvolves ==
    ASSUME HeapInv, NEW r \in Outcomes, NEW e \in Range(pad), NEW v \in Values
    PROVE  StoreNext(r, e, v) \in Outcomes
<1>1. CASE r.ok /\ CanStore(r.h, e, v)
  <2>1. Evolved(Put(r.h, e, v))
    BY <1>1, PutEvolves DEF Outcomes
  <2>2. Put(r.h, e, v) \in HeapType
    BY <2>1 DEF Evolved, Settled
  <2> QED BY <1>1, <2>1, <2>2 DEF StoreNext, Outcomes
<1>2. CASE ~(r.ok /\ CanStore(r.h, e, v))
  BY <1>2 DEF StoreNext, Outcomes
<1> QED BY <1>1, <1>2

\* Targets that variables are bound to, and a list of values and such.
Assignable(targets, list) ==
    /\ targets \in Seq(Range(pad)) /\ DOMAIN list = 1..Len(list) /\ Len(list) \in Nat
    /\ \A n \in DOMAIN list : Decont(scalars, list[n]) \in Values

\* Stored, which is a recursive function of how many stores are done, unfolded:
\* it begins with the heap and goes on store by store.
LEMMA StoredEvolves ==
    ASSUME HeapInv, NEW targets, NEW list, Assignable(targets, list)
    PROVE  /\ Stored(targets, list) \in [0..Len(targets) -> Outcomes]
           /\ Stored(targets, list)[0] = [h |-> Heap, ok |-> TRUE]
           /\ \A n \in 1..Len(targets) :
                 Stored(targets, list)[n] =
                 StoreNext(Stored(targets, list)[n - 1], targets[n],
                           Picked(Stored(targets, list)[n - 1].h, list, n))
<1> DEFINE L    == Len(targets)
           base == [h |-> Heap, ok |-> TRUE]
           prev == [n \in 1..L |-> n - 1]
           step == [n \in 1..L |-> [r \in Outcomes |-> StoreNext(r, targets[n], Picked(r.h, list, n))]]
           Body(g) == [n \in 0..L |->
                         IF n = 0 THEN [h |-> Heap, ok |-> TRUE]
                         ELSE StoreNext(g[n - 1], targets[n], Picked(g[n - 1].h, list, n))]
<1>1. L \in Nat /\ \A n \in 1..L : targets[n] \in Range(pad)
  BY DEF Assignable
<1>2. \A n \in 1..L : \A h : Picked(h, list, n) \in Values
  BY <1>1, ContainersAssumption DEF Picked, Assignable
<1>3. base \in Outcomes
  BY HeapEvolved DEF Outcomes, HeapInv
<1>4. Earlier(prev, L)
  BY <1>1 DEF Earlier
<1>5. StepsOn(step, L, Outcomes)
  <2> SUFFICES ASSUME NEW n \in 1..L, NEW r \in Outcomes
               PROVE  StoreNext(r, targets[n], Picked(r.h, list, n)) \in Outcomes
    BY DEF StepsOn
  <2> QED BY <1>1, <1>2, StoreNextEvolves
<1>6. PICK f \in [0..L -> Outcomes] : Follows(f, L, base, prev, step)
  <2> HIDE DEF L, prev, step, base
  <2> QED BY <1>1, <1>3, <1>4, <1>5, FunctionByRecursion
<1>7. \A n \in 1..L : f[n - 1] \in Outcomes /\ f[n] = StoreNext(f[n - 1], targets[n], Picked(f[n - 1].h, list, n))
  <2> SUFFICES ASSUME NEW n \in 1..L
               PROVE  f[n - 1] \in Outcomes /\ f[n] = StoreNext(f[n - 1], targets[n], Picked(f[n - 1].h, list, n))
    OBVIOUS
  <2>1. n \in 0..L /\ n # 0 /\ n - 1 \in 0..L /\ prev[n] = n - 1
    BY <1>1
  <2>2. f[n - 1] \in Outcomes
    BY <2>1
  <2>3. f[n] = step[n][f[prev[n]]]
    <3> HIDE DEF step, prev, base
    <3> QED BY <1>6, <2>1 DEF Follows
  <2> QED BY <2>1, <2>2, <2>3
<1>8. f[0] = base
  <2> HIDE DEF base, step, prev
  <2> QED BY <1>1, <1>6 DEF Follows
<1>9. ASSUME NEW n \in 0..L PROVE f[n] = Body(f)[n]
  <2>1. CASE n = 0
    BY <1>8, <2>1
  <2>2. CASE n # 0
    BY <1>1, <1>7, <2>2
  <2> QED BY <2>1, <2>2
<1>10. f = Body(f)
  <2>1. DOMAIN Body(f) = 0..L /\ Body(f) = [n \in 0..L |-> Body(f)[n]]
    OBVIOUS
  <2> HIDE DEF Body
  <2>2. f = [n \in 0..L |-> f[n]]
    BY <1>6
  <2> QED BY <1>9, <2>1, <2>2
<1>11. Stored(targets, list) = CHOOSE g : g = Body(g)
  BY DEF Stored
<1> HIDE DEF Body
<1>12. Stored(targets, list) = Body(Stored(targets, list))
  BY <1>10, <1>11, Zenon
<1> DEFINE g == Stored(targets, list)
<1>13. \A n \in 0..L : g[n] = Body(g)[n]
  BY <1>12, Zenon
<1>14. g[0] = base /\ DOMAIN g = 0..L
  BY <1>1, <1>12, <1>13 DEF Body
<1>15. \A n \in 1..L : g[n] = StoreNext(g[n - 1], targets[n], Picked(g[n - 1].h, list, n))
  BY <1>1, <1>13 DEF Body
<1> HIDE DEF g
<1>16. \A n \in 0..L : g[n] \in Outcomes
  <2> DEFINE T == {n \in Nat : n <= L => g[n] \in Outcomes}
  <2>1. 0 \in T
    BY <1>3, <1>14
  <2>2. ASSUME NEW n \in Nat, n \in T PROVE n + 1 \in T
    <3> SUFFICES ASSUME n + 1 <= L PROVE g[n + 1] \in Outcomes
      OBVIOUS
    <3>1. n + 1 \in 1..L /\ g[n] \in Outcomes
      BY <1>1, <2>2
    <3>2. g[n + 1] = StoreNext(g[n], targets[n + 1], Picked(g[n].h, list, n + 1))
      BY <1>15, <3>1
    <3> QED BY <1>1, <1>2, <3>1, <3>2, StoreNextEvolves
  <2> HIDE DEF T
  <2>3. Nat \subseteq T
    BY <2>1, <2>2, InductiveSet
  <2> QED BY <1>1, <2>3 DEF T
<1>17. g = [n \in 0..L |-> g[n]]
  BY <1>12 DEF Body, g
<1> QED BY <1>14, <1>15, <1>16, <1>17 DEF g

\* The Scalar of a fresh element.
LEMMA PlainCell ==
    ASSUME NEW v \in Values
    PROVE  /\ Plain(v) \in Cell /\ Plain(v).value \in Values /\ Plain(v).whence = None
           /\ <<Plain(v).value, Plain(v).desc.of>> \in Conforms
BY ContainersAssumption DEF Plain, Typed, Descriptor, Scalar, Cell

\* The elements of an array are new Scalars, one for each value of the list.
LEMMA StoreArraySettles ==
    ASSUME HeapInv, NEW h, Evolved(h), NEW list, DOMAIN list = 1..Len(list), Len(list) \in Nat,
           \A n \in DOMAIN list : Decont(h.sc, list[n]) \in Values, NEW new \in New(Len(list))
    PROVE  Settled(StoreArray(h, list, new), pad, copied)
<1> DEFINE g   == StoreArray(h, list, new)
           N   == {new[n] : n \in DOMAIN list}
           at(s) == CHOOSE n \in DOMAIN list : new[n] = s
           sc  == [s \in Scalars |-> IF \E n \in DOMAIN list : new[n] = s
                                     THEN Plain(Decont(h.sc, list[at(s)])) ELSE h.sc[s]]
           it  == SubSeq(new, 1, Len(list))
<1>1. /\ new \in Seq(Scalars) /\ Len(list) <= Len(new) /\ IsInjective(new)
      /\ \A n \in DOMAIN list : new[n] \in Free
  BY NewScalars
<1>2. g = [h EXCEPT !.items = it, !.sc = sc]
  BY DEF StoreArray
<1>3. h \in HeapType /\ Owned(h)
  BY DEF Evolved, Settled
<1>4. it \in Seq(Scalars \cup {Null}) /\ DOMAIN it = DOMAIN list /\ \A n \in DOMAIN list : it[n] = new[n]
  BY <1>1
<1>5. ASSUME NEW s \in N
      PROVE  /\ s \in Scalars /\ at(s) \in DOMAIN list
             /\ sc[s] = Plain(Decont(h.sc, list[at(s)])) /\ Decont(h.sc, list[at(s)]) \in Values
  <2>1. \E n \in DOMAIN list : new[n] = s
    OBVIOUS
  <2>2. s \in Scalars
    BY <1>1 DEF Free
  <2>3. at(s) \in DOMAIN list
    BY <2>1
  <2> HIDE DEF at
  <2> QED BY <2>1, <2>2, <2>3
<1>6. \A s \in N : /\ sc[s] \in Cell /\ sc[s].value \in Values /\ sc[s].whence = None
                   /\ <<sc[s].value, sc[s].desc.of>> \in Conforms
  <2> HIDE DEF sc, at
  <2> QED BY <1>5, PlainCell
<1>7. \A s \in Scalars \ N : sc[s] = h.sc[s]
  OBVIOUS
<1>8. sc \in [Scalars -> Cell]
  <2>1. \A s \in Scalars : sc[s] \in Cell
    <3> HIDE DEF sc, N
    <3> QED BY <1>3, <1>6, <1>7 DEF HeapType
  <2>2. sc = [s \in Scalars |-> sc[s]]
    OBVIOUS
  <2> HIDE DEF sc
  <2> QED BY <2>1, <2>2
<1> HIDE DEF it, sc
<1>9. g \in HeapType /\ g.items = it /\ g.sc = sc /\ g.storage = h.storage
  BY <1>2, <1>3, <1>4, <1>8 DEF HeapType
<1> HIDE DEF g
<1>10. N \subseteq Free
  BY <1>1
<1>11. \A s \in N : \A k \in Keys : h.storage[k] # s
  <2> SUFFICES ASSUME NEW s \in N, NEW k \in Keys, h.storage[k] = s PROVE FALSE
    OBVIOUS
  <2>1. s \in Scalars /\ s \notin Held(pad, Heap)
    BY <1>10, FreeScalar
  <2>2. s \in Elements(h)
    BY <1>3 DEF Elements, Range, HeapType
  <2> QED BY <2>1, <2>2, ContainersAssumption DEF Evolved
<1>12. \A s \in Scalars \ N : PlacesIn(g, s) \subseteq PlacesIn(h, s)
  BY <1>4, <1>9 DEF PlacesIn
<1>13. \A s \in N : \A p, q \in PlacesIn(g, s) : p = q
  <2> SUFFICES ASSUME NEW s \in N, NEW p \in PlacesIn(g, s), NEW q \in PlacesIn(g, s) PROVE p = q
    OBVIOUS
  <2>1. p \in DOMAIN list /\ q \in DOMAIN list /\ new[p] = s /\ new[q] = s
    <3> HIDE DEF N
    <3> QED BY <1>4, <1>9, <1>11 DEF PlacesIn
  <2>2. p \in DOMAIN new /\ q \in DOMAIN new
    BY <1>1, <2>1
  <2> QED BY <1>1, <2>1, <2>2 DEF IsInjective
<1> HIDE DEF N
<1>14. Owned(g)
  BY <1>3, <1>6, <1>7, <1>9, <1>12, <1>13 DEF Owned
<1>15. \A s \in Scalars \ N : g.sc[s] = h.sc[s] /\ (s \in Elements(g) => s \in Elements(h))
  BY <1>3, <1>7, <1>9, <1>12, ElementPlaces
<1>16. \A s \in N : /\ g.sc[s].value \in Values /\ g.sc[s].whence = None
                    /\ <<g.sc[s].value, g.sc[s].desc.of>> \in Conforms
  BY <1>6, <1>9
<1> QED BY <1>9, <1>10, <1>14, <1>15, <1>16, GrownSettles DEF g

\* One new element, before or behind the others.
LEMMA ElementAdded ==
    ASSUME HeapInv, NEW s \in Free, NEW cell \in Cell, cell.value \in Values, cell.whence = None,
           <<cell.value, cell.desc.of>> \in Conforms,
           NEW it \in {Append(items, s), <<s>> \o items},
           Become([Heap EXCEPT !.sc[s] = cell, !.items = it], pad), copied' = copied
    PROVE  HeapInv'
<1> DEFINE g == [Heap EXCEPT !.sc[s] = cell, !.items = it]
<1>1. /\ Heap \in HeapType /\ Owned(Heap) /\ Heap.sc = scalars
      /\ Heap.items = items /\ Heap.storage = storage
  BY DEF HeapInv, Heap
<1>2. /\ s \in Scalars /\ s \notin Elements(Heap) /\ PlacesIn(Heap, s) = {}
  BY FreeScalar
<1>3. items \in Seq(Scalars \cup {Null}) /\ Len(items) \in Nat
  BY <1>1 DEF HeapType
<1>4. /\ it \in Seq(Scalars \cup {Null}) /\ DOMAIN it = 1..(Len(items) + 1)
      /\ \E own \in DOMAIN it, d \in {0, 1} : \A n \in DOMAIN it :
            IF n = own THEN it[n] = s ELSE n - d \in DOMAIN items /\ it[n] = items[n - d]
  <2>1. CASE it = Append(items, s)
    <3>1. /\ it \in Seq(Scalars \cup {Null}) /\ DOMAIN it = 1..(Len(items) + 1)
          /\ \A n \in DOMAIN it : it[n] = IF n = Len(items) + 1 THEN s ELSE items[n]
      BY <1>2, <1>3, <2>1
    <3>2. \A n \in DOMAIN it : IF n = Len(items) + 1 THEN it[n] = s
                              ELSE n - 0 \in DOMAIN items /\ it[n] = items[n - 0]
      BY <1>3, <3>1
    <3>3. Len(items) + 1 \in DOMAIN it
      BY <1>3, <3>1
    <3> QED BY <3>1, <3>2, <3>3
  <2>2. CASE it = <<s>> \o items
    <3> DEFINE one == <<s>>
    <3>1. one \in Seq(Scalars \cup {Null}) /\ Len(one) = 1 /\ one[1] = s
      BY <1>2
    <3>2. it = one \o items
      BY <2>2
    <3> HIDE DEF one
    <3>3. /\ it \in Seq(Scalars \cup {Null}) /\ DOMAIN it = 1..(Len(items) + 1)
          /\ \A n \in DOMAIN it : it[n] = IF n = 1 THEN s ELSE items[n - 1]
      BY <1>3, <3>1, <3>2
    <3>4. \A n \in DOMAIN it : IF n = 1 THEN it[n] = s ELSE n - 1 \in DOMAIN items /\ it[n] = items[n - 1]
      BY <1>3, <3>3
    <3>5. 1 \in DOMAIN it
      BY <1>3, <3>3
    <3> QED BY <3>3, <3>4, <3>5
  <2> QED BY <2>1, <2>2
<1>5. /\ g \in HeapType /\ g.items = it /\ g.storage = storage
      /\ g.sc = [scalars EXCEPT ![s] = cell]
  BY <1>1, <1>4 DEF HeapType, Heap
<1> HIDE DEF g
<1>6. \A r \in Scalars : g.sc[r] = IF r = s THEN cell ELSE scalars[r]
  BY <1>1, <1>5 DEF HeapType
<1>7. PICK own \in DOMAIN it, d \in {0, 1} : \A n \in DOMAIN it :
        IF n = own THEN it[n] = s ELSE n - d \in DOMAIN items /\ it[n] = items[n - d]
  BY <1>4
<1> DEFINE back(p) == IF p \in Keys THEN p ELSE p - d
<1>8. \A n \in DOMAIN it : n \in Nat /\ n - d \in Nat /\ n \notin Keys /\ n - d \notin Keys
  BY <1>3, <1>4, ContainersAssumption
<1>9. \A r \in Scalars \ {s} : \A p \in PlacesIn(g, r) : back(p) \in PlacesIn(Heap, r)
  <2> SUFFICES ASSUME NEW r \in Scalars \ {s}, NEW p \in PlacesIn(g, r) PROVE back(p) \in PlacesIn(Heap, r)
    OBVIOUS
  <2>1. CASE p \in Keys
    BY <1>1, <1>5, <1>8, <2>1 DEF PlacesIn
  <2>2. CASE p \notin Keys
    BY <1>1, <1>5, <1>7, <2>2 DEF PlacesIn
  <2> QED BY <2>1, <2>2
<1>10. PlacesIn(g, s) \subseteq {own}
  <2>1. \A k \in Keys : storage[k] # s
    BY <1>1, <1>2 DEF PlacesIn
  <2>2. \A n \in DOMAIN items : items[n] # s
    BY <1>1, <1>2 DEF PlacesIn
  <2> QED BY <1>5, <1>7, <2>1, <2>2 DEF PlacesIn
<1>11. \A r \in Scalars : \A p \in PlacesIn(g, r) :
          p \in Keys \/ (p \in Nat /\ p \notin Keys /\ p - d \in Nat /\ p - d \notin Keys)
  BY <1>5, <1>8 DEF PlacesIn
<1>12. \A r \in Scalars : \A p, q \in PlacesIn(g, r) : back(p) = back(q) => p = q
  BY <1>11
<1>14. Owned(g)
  <2> SUFFICES ASSUME NEW r \in Scalars
               PROVE  /\ \A p, q \in PlacesIn(g, r) : p = q
                      /\ g.sc[r].whence # None => PlacesIn(g, r) = {}
    BY DEF Owned
  <2>1. CASE r = s
    BY <1>6, <1>10, <2>1
  <2>2. CASE r # s
    <3>1. /\ \A p, q \in PlacesIn(Heap, r) : p = q
          /\ scalars[r].whence # None => PlacesIn(Heap, r) = {}
      BY <1>1 DEF Owned
    <3> HIDE DEF back
    <3>2. \A p, q \in PlacesIn(g, r) : back(p) = back(q)
      BY <1>9, <2>2, <3>1
    <3> QED BY <1>6, <1>9, <1>12, <2>2, <3>1, <3>2
  <2> QED BY <2>1, <2>2
<1>15. \A r \in Scalars \ {s} : g.sc[r] = Heap.sc[r] /\ (r \in Elements(g) => r \in Elements(Heap))
  <2> HIDE DEF back
  <2> QED BY <1>1, <1>5, <1>6, <1>9, ElementPlaces
<1>16. {s} \in SUBSET Free /\ \A r \in {s} : g.sc[r] = cell
  BY <1>2, <1>6
<1>17. Settled(g, pad, copied)
  <2> DEFINE N == {s}
  <2>1. N \in SUBSET Free /\ \A r \in N : g.sc[r] = cell
    BY <1>16
  <2>2. \A r \in Scalars \ N : g.sc[r] = Heap.sc[r] /\ (r \in Elements(g) => r \in Elements(Heap))
    BY <1>15
  <2>3. \A r \in N : /\ g.sc[r].value \in Values /\ g.sc[r].whence = None
                     /\ <<g.sc[r].value, g.sc[r].desc.of>> \in Conforms
    BY <2>1
  <2> HIDE DEF N
  <2>4. g \in HeapType /\ Evolved(Heap)
    BY <1>5, HeapEvolved
  <2> QED BY <1>14, <2>1, <2>2, <2>3, <2>4, GrownSettles
<1> QED BY <1>17, BecomeKeeps DEF g

\* @a.push.
LEMMA PushKeeps == ASSUME HeapInv, Push PROVE HeapInv'
<1>1. PICK o \in Operands, new \in New(1) :
        Become([Heap EXCEPT !.sc[new[1]] = Plain(Decont(scalars, Operand(o))),
                            !.items = Append(items, new[1])], pad)
  BY DEF Push
<1> DEFINE cell == Plain(Decont(scalars, Operand(o)))
           it   == Append(items, new[1])
<1>2. new[1] \in Free
  BY NewScalars
<1>3. /\ cell \in Cell /\ cell.value \in Values /\ cell.whence = None
      /\ <<cell.value, cell.desc.of>> \in Conforms
  BY OperandValue, PlainCell
<1>4. copied' = copied
  BY DEF Push
<1>5. it \in {Append(items, new[1]), <<new[1]>> \o items}
  OBVIOUS
<1>6. Become([Heap EXCEPT !.sc[new[1]] = cell, !.items = it], pad)
  BY <1>1
<1> HIDE DEF cell, it
<1> QED BY <1>2, <1>3, <1>4, <1>5, <1>6, ElementAdded

\* @a.unshift.
LEMMA UnshiftKeeps == ASSUME HeapInv, Unshift PROVE HeapInv'
<1>1. PICK o \in Operands, new \in New(1) :
        Become([Heap EXCEPT !.sc[new[1]] = Typed(Mu, FALSE, Decont(scalars, Operand(o))),
                            !.items = <<new[1]>> \o items], pad)
  BY DEF Unshift
<1> DEFINE cell == Typed(Mu, FALSE, Decont(scalars, Operand(o)))
           it   == <<new[1]>> \o items
<1>2. new[1] \in Free
  BY NewScalars
<1>3. /\ cell \in Cell /\ cell.value \in Values /\ cell.whence = None
      /\ <<cell.value, cell.desc.of>> \in Conforms
  BY OperandValue, ContainersAssumption DEF Typed, Descriptor, Scalar, Cell
<1>4. copied' = copied
  BY DEF Unshift
<1>5. it \in {Append(items, new[1]), <<new[1]>> \o items}
  OBVIOUS
<1>6. Become([Heap EXCEPT !.sc[new[1]] = cell, !.items = it], pad)
  BY <1>1
<1> HIDE DEF cell, it
<1> QED BY <1>2, <1>3, <1>4, <1>5, <1>6, ElementAdded

-----------------------------------------------------------------------------
(* List assignment.                                                         *)

\* The variables of a list and what they are bound to.
LEMMA ListOfVariables ==
    ASSUME HeapInv, NEW l \in Lists
    PROVE  /\ DOMAIN l = 1..Len(l) /\ Len(l) \in Nat
           /\ \A n \in DOMAIN l : /\ l[n] \in Vars /\ l[n] \in Operands
                                /\ Operand(l[n]) = pad[l[n]] /\ pad[l[n]] \in Range(pad)
<1>1. l \in Seq({x \in Vars : Usable(x)})
  <2>1. PICK m \in 0..MaxList : l \in [1..m -> {x \in Vars : Usable(x)}]
    BY DEF Lists, BoundedSeq, SeqOf
  <2> QED BY <2>1, ContainersAssumption
<1>2. DOMAIN l = 1..Len(l) /\ Len(l) \in Nat /\ \A n \in DOMAIN l : l[n] \in Vars /\ Usable(l[n])
  BY <1>1
<1> QED BY <1>2 DEF Operands, Operand, HeapInv, Pads, Range

\* What a list assignment evaluates its two sides to.
LEMMA TargetsAndSources ==
    ASSUME HeapInv, NEW t \in Lists, NEW l \in Lists
    PROVE  /\ Assignable([n \in DOMAIN t |-> pad[t[n]]], [n \in DOMAIN l |-> Operand(l[n])])
           /\ Len([n \in DOMAIN t |-> pad[t[n]]]) = Len(t)
           /\ Len([n \in DOMAIN l |-> Operand(l[n])]) = Len(l)
<1> DEFINE targets == [n \in DOMAIN t |-> pad[t[n]]]
           list    == [n \in DOMAIN l |-> Operand(l[n])]
<1>1. targets \in [1..Len(t) -> Range(pad)] /\ Len(t) \in Nat
  BY ListOfVariables
<1>2. targets \in Seq(Range(pad)) /\ Len(targets) = Len(t)
  BY <1>1
<1>3. DOMAIN list = 1..Len(l) /\ Len(l) \in Nat
  BY ListOfVariables
<1>4. Len(list) = Len(l)
  BY <1>3
<1>5. \A n \in DOMAIN list : Decont(scalars, list[n]) \in Values
  BY ListOfVariables, OperandValue
<1> QED BY <1>2, <1>3, <1>4, <1>5 DEF Assignable

\* @a = list.
LEMMA AssignArrayKeeps == ASSUME HeapInv, AssignArray PROVE HeapInv'
<1>1. PICK l \in Lists :
        LET list == [n \in DOMAIN l |-> Operand(l[n])]
        IN  \E new \in New(Len(list)) : Become(StoreArray(Heap, list, new), pad)
  BY DEF AssignArray
<1> DEFINE list == [n \in DOMAIN l |-> Operand(l[n])]
<1>2. PICK new \in New(Len(list)) : Become(StoreArray(Heap, list, new), pad)
  BY <1>1
<1>3. Assignable([n \in DOMAIN l |-> pad[l[n]]], list)
  BY TargetsAndSources
<1>4. Heap.sc = scalars /\ Evolved(Heap)
  BY HeapEvolved DEF Heap
<1> HIDE DEF list
<1>5. Settled(StoreArray(Heap, list, new), pad, copied)
  BY <1>3, <1>4, StoreArraySettles DEF Assignable
<1>6. copied' = copied
  BY DEF AssignArray
<1> QED BY <1>2, <1>5, <1>6, BecomeKeeps

\* All the stores of a list assignment.
LEMMA StoreAllEvolves ==
    ASSUME HeapInv, NEW targets, NEW list, Assignable(targets, list)
    PROVE  StoreAll(targets, list) \in Outcomes
<1>1. Len(targets) \in 0..Len(targets)
  BY DEF Assignable
<1> QED BY <1>1, StoredEvolves DEF StoreAll

\* ($x, $y, ...) = list, to scalars only.
LEMMA AssignListKeeps ==
    ASSUME HeapInv, NEW t \in Lists, NEW l \in Lists, AssignList(t, l)
    PROVE  HeapInv'
<1> DEFINE targets == [n \in DOMAIN t |-> pad[t[n]]]
           list    == [n \in DOMAIN l |-> Operand(l[n])]
<1>1. Become(StoreAll(targets, list).h, pad) /\ copied' = copied
  BY DEF AssignList
<1>2. Assignable(targets, list)
  BY TargetsAndSources
<1> HIDE DEF targets, list
<1>3. Settled(StoreAll(targets, list).h, pad, copied)
  BY <1>2, StoreAllEvolves DEF Outcomes, Evolved
<1> QED BY <1>1, <1>3, BecomeKeeps

\* What SubSeq leaves of a sequence from k + 1 on.
LEMMA RestOfSequence ==
    ASSUME NEW S, NEW s \in Seq(S), NEW k \in Nat
    PROVE  LET rest == SubSeq(s, k + 1, Len(s))
           IN  /\ Len(rest) \in Nat /\ DOMAIN rest = 1..Len(rest)
               /\ \A m \in DOMAIN rest : m + k \in DOMAIN s /\ rest[m] = s[m + k]
OBVIOUS

\* What is left of the list is looked at after the stores.
LEMMA AssignListAndArrayKeeps ==
    ASSUME HeapInv, NEW t \in Lists, NEW l \in Lists, AssignListAndArray(t, l)
    PROVE  HeapInv'
<1> DEFINE targets == [n \in DOMAIN t |-> pad[t[n]]]
           list    == [n \in DOMAIN l |-> Operand(l[n])]
           r       == StoreAll(targets, list)
           rest    == SubSeq(list, Len(t) + 1, Len(list))
<1>1. PICK new \in New(Len(rest)) : Become(IF r.ok THEN StoreArray(r.h, rest, new) ELSE r.h, pad)
  BY DEF AssignListAndArray
<1>2. copied' = copied
  BY DEF AssignListAndArray
<1>3. Assignable(targets, list) /\ Len(list) = Len(l)
  BY TargetsAndSources
<1>4. Len(t) \in Nat /\ Len(l) \in Nat /\ \A n \in DOMAIN l : l[n] \in Operands /\ pad[l[n]] \in Range(pad)
  BY ListOfVariables
<1>5. r \in Outcomes
  <2> HIDE DEF targets, list
  <2> QED BY <1>3, StoreAllEvolves
<1>6. DOMAIN list = 1..Len(l) /\ \A n \in DOMAIN list : n \in DOMAIN l /\ list[n] = Operand(l[n])
  BY ListOfVariables
<1>7. /\ Len(rest) \in Nat /\ DOMAIN rest = 1..Len(rest)
      /\ \A m \in DOMAIN rest : m + Len(t) \in DOMAIN list /\ rest[m] = list[m + Len(t)]
  <2>1. list \in Seq({list[n] : n \in DOMAIN list})
    BY <1>3, <1>4, <1>6
  <2> QED BY <1>4, <2>1, RestOfSequence
<1>8. Settled(r.h, pad, copied) /\ Evolved(r.h)
  BY <1>5 DEF Outcomes, Evolved
<1> HIDE DEF r, rest
<1>9. \A m \in DOMAIN rest : Decont(r.h.sc, rest[m]) \in Values
  <2> SUFFICES ASSUME NEW m \in DOMAIN rest PROVE Decont(r.h.sc, rest[m]) \in Values
    OBVIOUS
  <2>1. PICK n \in DOMAIN l : rest[m] = Operand(l[n])
    BY <1>6, <1>7
  <2>2. rest[m] \in Values \/ rest[m] \in Range(pad) \cap Scalars
    BY <1>4, <2>1, OperandValue, ListOfVariables
  <2>3. rest[m] \in Scalars => r.h.sc[rest[m]].value \in Values
    BY <1>8, <2>2, ContainersAssumption DEF Settled, Full, Held
  <2> QED BY <2>2, <2>3 DEF Decont
<1>10. CASE r.ok
  <2>1. Settled(StoreArray(r.h, rest, new), pad, copied)
    BY <1>7, <1>8, <1>9, StoreArraySettles
  <2> QED BY <1>1, <1>2, <1>10, <2>1, BecomeKeeps
<1>11. CASE ~r.ok
  BY <1>1, <1>2, <1>8, <1>11, BecomeKeeps
<1> QED BY <1>10, <1>11

\* ($x, @a) = list: the array takes the rest.
LEMMA AssignListsKeeps == ASSUME HeapInv, AssignLists PROVE HeapInv'
BY AssignListKeeps, AssignListAndArrayKeeps DEF AssignLists

-----------------------------------------------------------------------------
(* The invariant.                                                           *)

\* What the runs check follows from the invariant.
LEMMA HeapInvGives ==
    ASSUME HeapInv
    PROVE  TypedValues /\ ElementsOwned /\ CopiesKept /\ NeverBack
<1>1. Heap.sc = scalars /\ Heap.items = items /\ Heap.storage = storage /\ Heap \in HeapType
  BY DEF HeapInv, Heap
<1>2. \A s : Places(s) = PlacesIn(Heap, s)
  BY <1>1 DEF Places, PlacesIn
<1>3. TypedValues
  BY <1>1 DEF HeapInv, TypedCells, TypedValues, InReach
<1>4. ElementsOwned
  BY <1>1, <1>2 DEF HeapInv, Owned, ElementsOwned, InReach
<1>5. CopiesKept
  BY DEF HeapInv, Copies, CopiesKept
<1>6. NeverBack
  BY DEF HeapInv, NeverBack
<1> QED BY <1>3, <1>4, <1>5, <1>6

\* The invariant gives the types.
LEMMA HeapInvTypes ==
    ASSUME HeapInv
    PROVE  TypeOK
<1>1. Heap.sc = scalars /\ Heap.items = items /\ Heap.storage = storage
  BY DEF Heap
<1>2. /\ scalars \in [Scalars -> Cell] /\ items \in Seq(Scalars \cup {Null})
      /\ storage \in [Keys -> Scalars \cup {None}]
  BY <1>1 DEF HeapInv, HeapType
<1>3. \A s \in InReach : scalars[s].value \in Values
  BY <1>1 DEF HeapInv, Full, InReach
<1>4. \A s \in Scalars : /\ scalars[s].desc # None => scalars[s].desc \in [of : DOMAIN Initial, rw : BOOLEAN]
                         /\ scalars[s].whence \in {None} \cup Keys \cup (1..MaxPos)
  <2> SUFFICES ASSUME NEW s \in Scalars
               PROVE  /\ scalars[s].desc # None => scalars[s].desc \in [of : DOMAIN Initial, rw : BOOLEAN]
                      /\ scalars[s].whence \in {None} \cup Keys \cup (1..MaxPos)
    OBVIOUS
  <2>1. scalars[s] \in Cell
    BY <1>2
  <2> DEFINE cell == scalars[s]
  <2>2. cell \in Cell
    BY <2>1
  <2> HIDE DEF cell
  <2>3. cell.desc # None => cell.desc \in [of : DOMAIN Initial, rw : BOOLEAN]
    BY <2>2 DEF Cell
  <2>4. cell.whence \in {None} \cup Keys \cup (1..MaxPos)
    BY <2>2 DEF Cell
  <2> QED BY <2>3, <2>4 DEF cell
<1>5. \A s \in Scalars : s \notin InReach => scalars[s] = Bare(None)
  BY DEF HeapInv, InReach
<1>6. /\ pad \in [Vars -> Scalars \cup {Null} \cup Values]
      /\ copied \in [Vars -> Values \cup {None}] /\ removed \subseteq InReach
  BY DEF HeapInv, Pads, InReach
<1> QED BY <1>2, <1>3, <1>4, <1>5, <1>6 DEF TypeOK

\* The invariant holds of the heap a program starts with.
LEMMA InitHolds == ASSUME Init PROVE HeapInv
<1> DEFINE of(s) == CHOOSE x \in Vars : pad[x] = s
<1>1. /\ Heap.sc = scalars /\ Heap.items = <<>> /\ Heap.storage = [k \in Keys |-> None]
      /\ pad \in [Vars -> Scalars] /\ items = <<>> /\ storage = [k \in Keys |-> None]
      /\ copied = [x \in Vars |-> None] /\ removed = {}
  BY DEF Init, Heap
<1>2. \A s \in Range(pad) : s \in Scalars /\ of(s) \in Vars /\ VarType[of(s)] \in DOMAIN Initial
  BY <1>1, ContainersAssumption DEF Range
<1>3. scalars = [s \in Scalars |-> IF s \in Range(pad)
                                  THEN Typed(VarType[of(s)], TRUE, Initial[VarType[of(s)]])
                                  ELSE Bare(None)]
  BY Zenon DEF Init
<1> HIDE DEF of
<1>4. \A T \in DOMAIN Initial :
         /\ Typed(T, TRUE, Initial[T]) \in Cell /\ Typed(T, TRUE, Initial[T]).value \in Values
         /\ Typed(T, TRUE, Initial[T]).whence = None
         /\ <<Typed(T, TRUE, Initial[T]).value, Typed(T, TRUE, Initial[T]).desc.of>> \in Conforms
  BY ContainersAssumption DEF Typed, Descriptor, Scalar, Cell
<1>5. \A s \in Scalars : /\ scalars[s] \in Cell /\ scalars[s].whence = None
                         /\ s \in Range(pad) => scalars[s].value \in Values
                         /\ scalars[s].desc # None => <<scalars[s].value, scalars[s].desc.of>> \in Conforms
  BY <1>2, <1>3, <1>4, BareCell
<1>6. Heap \in HeapType
  <2>1. scalars \in [Scalars -> Cell]
    BY <1>3, <1>5
  <2>2. Heap = [sc |-> scalars, items |-> <<>>, storage |-> [k \in Keys |-> None]]
    BY <1>1 DEF Heap
  <2> QED BY <2>1, <2>2 DEF HeapType
<1>7. \A s \in Scalars : PlacesIn(Heap, s) = {} /\ s \notin Elements(Heap)
  BY <1>1, ContainersAssumption DEF PlacesIn, Elements, Range
<1>8. Owned(Heap) /\ TypedCells(Heap)
  BY <1>1, <1>5, <1>7 DEF Owned, TypedCells
<1>9. \A s \in Scalars : s \in Held(pad, Heap) <=> s \in Range(pad)
  BY <1>7 DEF Held
<1>10. Full(Heap, pad)
  BY <1>1, <1>5, <1>9 DEF Full
<1>11. \A s \in Scalars : s \notin Held(pad, Heap) => scalars[s] = Bare(None)
  BY <1>3, <1>9
<1>12. Copies(pad, copied, scalars)
  BY <1>1 DEF Copies
<1>13. pad \in Pads /\ copied \in [Vars -> Values \cup {None}]
  BY <1>1 DEF Pads
<1> QED BY <1>1, <1>6, <1>8, <1>10, <1>11, <1>12, <1>13 DEF HeapInv

\* Every operation keeps the invariant.
LEMMA NextKeeps == ASSUME HeapInv, Next PROVE HeapInv'
BY AssignKeeps, BindKeeps, DeclareKeeps, CallKeeps, ReturnKeeps, AtPosKeeps, AtKeyKeeps,
   ShiftKeeps, PushKeeps, UnshiftKeeps, DeleteKeeps, AssignArrayKeeps, AssignListsKeeps
   DEF Next

\* So does a step of anything else.
LEMMA StutterKeeps == ASSUME HeapInv, UNCHANGED vars PROVE HeapInv'
BY DEF vars, HeapInv, Heap, Held, Elements, Owned, PlacesIn, TypedCells, Full, Copies, Decont

\* The invariant of the heap: references lead to Scalars in use, which hold what their
\* descriptors take and are owned once (container.c, Array.pm, Hash.pm, Parcel.pm).
THEOREM HeapInvariance == Spec => []HeapInv
<1>1. HeapInv /\ [Next]_vars => HeapInv'
  BY NextKeeps, StutterKeeps
<1> QED BY InitHolds, <1>1, PTL DEF Spec

\* References lead to Scalars there are; those out of reach are forgotten.
THEOREM ContainersTyped == Spec => []TypeOK
BY HeapInvariance, HeapInvTypes, PTL

\* A Scalar holds a value of its declared type, though binds of parameters,
\* elements and arrays go past the check (container.c, bind.c).
THEOREM TypedValuesAlways == Spec => []TypedValues
BY HeapInvariance, HeapInvGives, PTL

\* No container is at two places of the array and the hash, and one that waits for
\* its first store is at none (Array.at_pos, Hash.at_key, $!whence).
THEOREM ElementsOwnedAlways == Spec => []ElementsOwned
BY HeapInvariance, HeapInvGives, PTL

\* Read-only parameters and values returned keep their value, whatever is assigned
\* to what they were taken from.
THEOREM CopiesKeptAlways == Spec => []CopiesKept
BY HeapInvariance, HeapInvGives, PTL

\* A container that was removed from the array or the hash never gets back in.
THEOREM NeverBackAlways == Spec => []NeverBack
BY HeapInvariance, HeapInvGives, PTL

-----------------------------------------------------------------------------
(* The exchange of two variables.                                           *)

\* The two members of a pair.
LEMMA InSequence ==
    ASSUME NEW S, NEW s \in Seq(S), Len(s) = 2
    PROVE  s[1] \in S /\ s[2] \in S
<1>1. \A n \in 1..Len(s) : s[n] \in S
  OBVIOUS
<1> QED BY <1>1

\* Both passes of ($x, $y) = ($y, $x).
LEMMA StoredTwice ==
    ASSUME HeapInv, NEW targets, NEW list, Assignable(targets, list),
           Len(targets) = 2, Len(list) = 2, targets[1] # targets[2],
           CanStore(Heap, targets[1], Decont(scalars, list[1])),
           CanStore(Heap, targets[2], Decont(scalars, list[2]))
    PROVE  /\ StoreAll(targets, list).h.sc[targets[1]].value = Decont(scalars, list[1])
           /\ StoreAll(targets, list).h.sc[targets[2]].value = Decont(scalars, list[2])
<1> DEFINE f  == Stored(targets, list)
           v1 == Decont(scalars, list[1])
           v2 == Decont(scalars, list[2])
           t1 == targets[1]
           t2 == targets[2]
           base == [h |-> Heap, ok |-> TRUE]
<1>1. base.h = Heap /\ base.ok
  OBVIOUS
<1>2. StoreAll(targets, list) = f[2]
  BY DEF StoreAll
<1>3. \A h : Picked(h, list, 1) = v1 /\ Picked(h, list, 2) = v2
  BY DEF Picked
<1>4. t1 \in Range(pad) /\ t2 \in Range(pad) /\ v1 \in Values /\ v2 \in Values
  <2>1. targets \in Seq(Range(pad)) /\ 1 \in DOMAIN list /\ 2 \in DOMAIN list
    BY DEF Assignable
  <2>2. targets[1] \in Range(pad) /\ targets[2] \in Range(pad)
    BY <2>1, InSequence
  <2> QED BY <2>1, <2>2 DEF Assignable
<1>5. t1 \in Scalars /\ t2 \in Scalars /\ t1 # t2
  BY DEF CanStore
<1>6. CanStore(Heap, t1, v1) /\ CanStore(Heap, t2, v2)
  OBVIOUS
<1> DEFINE h1 == Put(Heap, t1, v1)
           h2 == Put(h1, t2, v2)
           r1 == [h |-> h1, ok |-> TRUE]
<1>7. f[1] = r1 /\ r1.h = h1 /\ r1.ok
  <2>1. f[0] = base
    BY StoredEvolves
  <2>2. \A n, m : n \in 1..2 /\ m = n - 1 => f[n] = StoreNext(f[m], targets[n], Picked(f[m].h, list, n))
    BY StoredEvolves
  <2> HIDE DEF f, v1, base, h1
  <2>3. f[1] = StoreNext(base, t1, v1)
    BY <1>3, <2>1, <2>2
  <2>4. base.ok /\ CanStore(base.h, t1, v1) /\ Put(base.h, t1, v1) = h1
    BY <1>1, <1>6 DEF h1
  <2> QED BY <2>3, <2>4 DEF StoreNext
<1> HIDE DEF f, v1, v2, t1, t2, base
<1>8. /\ Evolved(h1)
      /\ \A r \in Scalars : /\ h1.sc[r].desc = Heap.sc[r].desc
                            /\ h1.sc[r].value = IF r = t1 THEN v1 ELSE Heap.sc[r].value
  BY <1>4, <1>6, HeapEvolved, PutEvolves
<1> HIDE DEF h1
<1>9. CanStore(h1, t2, v2)
  BY <1>5, <1>6, <1>8 DEF CanStore, Rw, Accepts
<1>10. f[2].h = h2
  <2>1. \A n, m : n \in 1..2 /\ m = n - 1 => f[n] = StoreNext(f[m], targets[n], Picked(f[m].h, list, n))
    BY StoredEvolves DEF f
  <2> HIDE DEF h2, r1
  <2>2. f[2] = StoreNext(r1, t2, v2)
    BY <1>3, <1>7, <2>1 DEF t2
  <2>3. r1.ok /\ CanStore(r1.h, t2, v2) /\ Put(r1.h, t2, v2) = h2
    BY <1>7, <1>9 DEF h2
  <2> QED BY <2>2, <2>3 DEF StoreNext
<1>11. \A r \in Scalars : h2.sc[r].value = IF r = t2 THEN v2 ELSE h1.sc[r].value
  BY <1>4, <1>8, <1>9, PutEvolves
<1> HIDE DEF h2
<1> QED BY <1>2, <1>5, <1>8, <1>10, <1>11 DEF v1, v2, t1, t2

\* The assignment ($x, $y) = ($y, $x), step by step.
LEMMA ExchangesStep ==
    ASSUME HeapInv, NEW x \in Vars, NEW y \in Vars, Usable(x), Usable(y), pad[x] # pad[y],
           CanStore(Heap, pad[x], Decont(scalars, pad[y])),
           CanStore(Heap, pad[y], Decont(scalars, pad[x])),
           AssignList(<<x, y>>, <<y, x>>)
    PROVE  /\ scalars'[pad[x]].value = scalars[pad[y]].value
           /\ scalars'[pad[y]].value = scalars[pad[x]].value
<1> DEFINE t == <<x, y>>
           l == <<y, x>>
           targets == [n \in DOMAIN t |-> pad[t[n]]]
           list    == [n \in DOMAIN l |-> Operand(l[n])]
           h       == StoreAll(targets, list).h
<1>1. Become(h, pad)
  BY DEF AssignList
<1>2. Operand(x) = pad[x] /\ Operand(y) = pad[y] /\ x \in Operands /\ y \in Operands
  BY DEF Operand, Operands
<1>3. /\ targets = [n \in 1..2 |-> pad[t[n]]] /\ list = [n \in 1..2 |-> Operand(l[n])]
      /\ t[1] = x /\ t[2] = y /\ l[1] = y /\ l[2] = x
  OBVIOUS
<1>4. pad[x] \in Range(pad) /\ pad[y] \in Range(pad) /\ pad[x] \in Scalars /\ pad[y] \in Scalars
  BY DEF HeapInv, Pads, Range, CanStore
<1>5. /\ targets[1] = pad[x] /\ targets[2] = pad[y] /\ list[1] = pad[y] /\ list[2] = pad[x]
      /\ DOMAIN list = 1..2 /\ Len(list) = 2
      /\ targets \in Seq(Range(pad)) /\ Len(targets) = 2
  BY <1>2, <1>3, <1>4
<1> HIDE DEF targets, list
<1>6. Decont(scalars, pad[x]) \in Values /\ Decont(scalars, pad[y]) \in Values
  BY <1>2, OperandValue
<1>7. Assignable(targets, list)
  BY <1>5, <1>6 DEF Assignable
<1>8. /\ h.sc[pad[x]].value = Decont(scalars, pad[y])
      /\ h.sc[pad[y]].value = Decont(scalars, pad[x])
  BY <1>5, <1>7, StoredTwice
<1> HIDE DEF h
<1>9. scalars'[pad[x]] = h.sc[pad[x]] /\ scalars'[pad[y]] = h.sc[pad[y]]
  BY <1>1, <1>4 DEF Become, Held
<1> QED BY <1>4, <1>8, <1>9 DEF Decont

\* ($x, $y) = ($y, $x) exchanges the values of the two variables: Parcel.STORE
\* takes every value before it assigns the first.
THEOREM ExchangesAlways == Spec => Exchanges
<1>1. HeapInv /\ [Next]_vars =>
        [\A x, y \in Vars :
          LET s == pad[x]
              t == pad[y]
          IN  ( /\ Usable(x) /\ Usable(y) /\ s # t
                /\ CanStore(Heap, s, Decont(scalars, t)) /\ CanStore(Heap, t, Decont(scalars, s))
                /\ AssignList(<<x, y>>, <<y, x>>) )
              => scalars'[s].value = scalars[t].value /\ scalars'[t].value = scalars[s].value]_vars
  BY ExchangesStep
<1> QED BY HeapInvariance, <1>1, PTL DEF Spec, Exchanges
=============================================================================
