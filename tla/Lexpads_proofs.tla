--------------------------- MODULE Lexpads_proofs ---------------------------
(***************************************************************************)
(* What Lexpads promises for every program: which container each register   *)
(* has is an inductive invariant, and the search for $_ is followed outwards *)
(* pad by pad.                                                              *)
(***************************************************************************)
EXTENDS Lexpads, Induction

\* Containers by name and pad, and registers that have some of them.
Places  == Names \X Nat
Partial == UNION {[D -> Places \cup {None}] : D \in SUBSET Names}

CodeType == [block : Blocks, early : BOOLEAN, state : Partial]
PadType  == [block : Blocks, early : BOOLEAN, code : Nat, outer : Nat, regs : Partial]

Typed ==
    /\ codes \in Seq(CodeType)
    /\ pads \in Seq(PadType)
    /\ running \in BOOLEAN

\* Pads lie in earlier ones.
Nested == \A p \in DOMAIN pads : pads[p].outer \in 0..(p - 1)

\* What the registers of an activation have.
HoldsOwn(p) ==
    /\ pads[p].code \in DOMAIN codes /\ codes[pads[p].code].block = pads[p].block
    /\ DOMAIN pads[p].regs \ {"$_"} = Own(pads[p].block)
    /\ \A n \in Mine[pads[p].block] : pads[p].regs[n] = Container(n, p)
    /\ \A n \in State[pads[p].block] :
          pads[p].regs[n] # None /\ pads[p].regs[n] = codes[pads[p].code].state[n]

ActivationsHold == \A p \in DOMAIN pads : ~Wraps(p) => HoldsOwn(p)

\* A pad of compile_in_context has the static containers.
WrapsHold ==
    \A p \in DOMAIN pads : Wraps(p) =>
        \A n \in DOMAIN pads[p].regs \ {"$_"} : pads[p].regs[n] = Static(n)

TopicsHold ==
    \A p \in DOMAIN pads : HasTopic(p) =>
        pads[p].regs["$_"] \in {None} \cup ({"$_", ":="} \X Nat)

\* A state variable is made for a pad of its code object.
StateHolds ==
    \A c \in DOMAIN codes :
        /\ DOMAIN codes[c].state = State[codes[c].block]
        /\ \A n \in State[codes[c].block] :
              \/ codes[c].state[n] = None
              \/ \E k \in DOMAIN pads : pads[k].code = c /\ codes[c].state[n] = Container(n, k)

PadInv == Typed /\ Nested /\ ActivationsHold /\ WrapsHold /\ TopicsHold /\ StateHolds

-----------------------------------------------------------------------------
(* The search for $_.                                                       *)

\* The search ends: each pad asks an earlier one.
LEMMA SourceDef ==
    ASSUME Typed, Nested
    PROVE  Source = [p \in 0..Len(pads) |->
                        IF p = 0 THEN 0
                        ELSE IF ~HasTopic(p) THEN 0
                        ELSE IF pads[p].regs["$_"] # None \/ Fresh(p) THEN p
                        ELSE Source[pads[p].outer]]
<1> DEFINE L == Len(pads)
           prev == [p \in 1..L |-> pads[p].outer]
           step == [p \in 1..L |-> [s \in Nat |->
                       IF ~HasTopic(p) THEN 0
                       ELSE IF pads[p].regs["$_"] # None \/ Fresh(p) THEN p ELSE s]]
           Body(f) == [p \in 0..L |->
                        IF p = 0 THEN 0
                        ELSE IF ~HasTopic(p) THEN 0
                        ELSE IF pads[p].regs["$_"] # None \/ Fresh(p) THEN p
                        ELSE f[pads[p].outer]]
<1>1. L \in Nat /\ DOMAIN pads = 1..L
  BY DEF Typed
<1>2. Earlier(prev, L)
  BY <1>1 DEF Nested, Earlier
<1>3. StepsOn(step, L, Nat)
  BY <1>1 DEF StepsOn
<1>4. PICK f \in [0..L -> Nat] : Follows(f, L, 0, prev, step)
  <2> HIDE DEF L, prev, step
  <2>1. 0 \in Nat
    OBVIOUS
  <2> QED BY <2>1, <1>1, <1>2, <1>3, FunctionByRecursion
<1>5. ASSUME NEW p \in 0..L PROVE f[p] = Body(f)[p]
  <2>1. CASE p = 0
    BY <2>1, <1>4 DEF Follows
  <2>2. CASE p # 0
    <3>1. p \in 1..L /\ pads[p].outer \in 0..L /\ prev[p] = pads[p].outer
      BY <2>2, <1>1 DEF Nested
    <3>2. f[pads[p].outer] \in Nat
      BY <3>1
    <3>3. f[p] = step[p][f[pads[p].outer]]
      BY <3>1, <2>2, <1>4 DEF Follows
    <3> QED BY <3>1, <3>2, <3>3, <2>2
  <2> QED BY <2>1, <2>2
<1>6. f = Body(f)
  <2>1. DOMAIN Body(f) = 0..L /\ f \in [0..L -> Nat]
    OBVIOUS
  <2> HIDE DEF Body
  <2>2. f = [p \in 0..L |-> f[p]]
    BY <2>1
  <2>3. Body(f) = [p \in 0..L |-> Body(f)[p]]
    BY DEF Body
  <2> QED BY <1>5, <2>2, <2>3
<1>7. Source = CHOOSE g : g = Body(g)
  BY DEF Source
<1> HIDE DEF Body
<1>8. Source = Body(Source)
  BY <1>6, <1>7, Zenon
<1> QED BY <1>8 DEF Body

\* The pads around a pad, itself included.
LEMMA OutwardsDef ==
    ASSUME Typed, Nested
    PROVE  Outwards = [p \in 0..Len(pads) |->
                          IF p = 0 THEN {} ELSE {p} \cup Outwards[pads[p].outer]]
<1> DEFINE L == Len(pads)
           prev == [p \in 1..L |-> pads[p].outer]
           step == [p \in 1..L |-> [s \in SUBSET Nat |-> {p} \cup s]]
           Body(f) == [p \in 0..L |-> IF p = 0 THEN {} ELSE {p} \cup f[pads[p].outer]]
<1>1. L \in Nat /\ DOMAIN pads = 1..L
  BY DEF Typed
<1>2. Earlier(prev, L)
  BY <1>1 DEF Nested, Earlier
<1>3. StepsOn(step, L, SUBSET Nat)
  BY <1>1 DEF StepsOn
<1>4. PICK f \in [0..L -> SUBSET Nat] : Follows(f, L, {}, prev, step)
  <2> HIDE DEF L, prev, step
  <2>1. {} \in SUBSET Nat
    OBVIOUS
  <2> QED BY <2>1, <1>1, <1>2, <1>3, FunctionByRecursion
<1>5. ASSUME NEW p \in 0..L PROVE f[p] = Body(f)[p]
  <2>1. CASE p = 0
    BY <2>1, <1>4 DEF Follows
  <2>2. CASE p # 0
    <3>1. p \in 1..L /\ pads[p].outer \in 0..L /\ prev[p] = pads[p].outer
      BY <2>2, <1>1 DEF Nested
    <3>2. f[pads[p].outer] \in SUBSET Nat
      BY <3>1
    <3>3. f[p] = step[p][f[pads[p].outer]]
      BY <3>1, <2>2, <1>4 DEF Follows
    <3> QED BY <3>1, <3>2, <3>3, <2>2
  <2> QED BY <2>1, <2>2
<1>6. f = Body(f)
  <2>1. DOMAIN Body(f) = 0..L /\ f \in [0..L -> SUBSET Nat]
    OBVIOUS
  <2> HIDE DEF Body
  <2>2. f = [p \in 0..L |-> f[p]]
    BY <2>1
  <2>3. Body(f) = [p \in 0..L |-> Body(f)[p]]
    BY DEF Body
  <2> QED BY <1>5, <2>2, <2>3
<1>7. Outwards = CHOOSE g : g = Body(g)
  BY DEF Outwards
<1> HIDE DEF Body
<1>8. Outwards = Body(Outwards)
  BY <1>6, <1>7, Zenon
<1> QED BY <1>8 DEF Body

\* A source found for pad p has the $_, and holds it or makes a fresh one.
Gives(s) == s \in DOMAIN pads /\ HasTopic(s) /\ (pads[s].regs["$_"] # None \/ Fresh(s))

\* Pad q has no $_ yet and asks the one around it.
Asks(q) == q \in DOMAIN pads /\ HasTopic(q) /\ pads[q].regs["$_"] = None /\ ~Fresh(q)

\* The pad that gives a pad its $_ is at or outside it and has one.
LEMMA SourceGives ==
    ASSUME Typed, Nested, NEW p \in 0..Len(pads)
    PROVE  /\ Source[p] \in 0..p
           /\ Source[p] # 0 => Gives(Source[p])
<1> DEFINE L == Len(pads)
           T == {q \in 0..L : Source[q] \in 0..q /\ (Source[q] # 0 => Gives(Source[q]))}
<1>1. L \in Nat /\ DOMAIN pads = 1..L
  BY DEF Typed
<1>2. ASSUME NEW q \in 0..L, \A r \in 0..(q - 1) : r \in T PROVE q \in T
  <2>1. CASE q = 0
    BY <2>1, SourceDef
  <2>2. CASE q # 0
    <3>1. pads[q].outer \in 0..(q - 1) /\ q \in DOMAIN pads
      BY <2>2, <1>1 DEF Nested
    <3>2. pads[q].outer \in T
      BY <3>1, <1>2
    <3>3. Source[q] = IF ~HasTopic(q) THEN 0
                      ELSE IF pads[q].regs["$_"] # None \/ Fresh(q) THEN q
                      ELSE Source[pads[q].outer]
      BY <2>2, SourceDef
    <3> QED BY <3>1, <3>2, <3>3 DEF Gives
  <2> QED BY <2>1, <2>2
<1> HIDE DEF T
<1>3. p \in T
  BY <1>1, <1>2, InductiveUpTo
<1> QED BY <1>3 DEF T

\* From a pad to its source every pad asks the one around it.
Chained(p, q) ==
    \/ q = Source[p]
    \/ /\ Asks(q) /\ pads[q].outer \in Outwards[p] /\ pads[q].outer >= Source[p]
       /\ pads[q].outer # 0

\* The pads the search for $_ passes on its way are chained to where it began.
LEMMA SearchChained ==
    ASSUME Typed, Nested, NEW p \in 0..Len(pads), Source[p] # 0,
           NEW q \in Outwards[p], q >= Source[p]
    PROVE  q \in DOMAIN pads /\ Chained(p, q)
<1> DEFINE L == Len(pads)
           T == {r \in 0..L : /\ Outwards[r] \subseteq 1..r
                              /\ r # 0 => r \in Outwards[r]
                              /\ \A t \in Outwards[r] :
                                    Source[r] # 0 /\ t >= Source[r] => Chained(r, t)}
<1>1. L \in Nat /\ DOMAIN pads = 1..L
  BY DEF Typed
<1>2. ASSUME NEW r \in 0..L, \A t \in 0..(r - 1) : t \in T PROVE r \in T
  <2>1. CASE r = 0
    BY <2>1, OutwardsDef
  <2>2. CASE r # 0
    <3> DEFINE o == pads[r].outer
    <3>1. o \in 0..(r - 1) /\ r \in DOMAIN pads
      BY <2>2, <1>1 DEF Nested
    <3>2. o \in T
      BY <3>1, <1>2
    <3>3. Outwards[r] = {r} \cup Outwards[o]
      BY <2>2, OutwardsDef
    <3>4. Source[r] = IF ~HasTopic(r) THEN 0
                      ELSE IF pads[r].regs["$_"] # None \/ Fresh(r) THEN r ELSE Source[o]
      BY <2>2, SourceDef
    <3>5. Outwards[r] \subseteq 1..r
      BY <3>1, <3>2, <3>3, <2>2
    <3>6. ASSUME NEW t \in Outwards[r], Source[r] # 0, t >= Source[r] PROVE Chained(r, t)
      <4>1. CASE Source[r] = r
        BY <4>1, <3>5, <3>6 DEF Chained
      <4>2. CASE Source[r] # r
        <5>1. Asks(r) /\ Source[r] = Source[o] /\ Source[o] # 0
          BY <4>2, <3>4, <3>1, <3>6 DEF Asks
        <5>2. o # 0 /\ Source[o] \in 0..o
          BY <5>1, SourceGives, <3>1, SourceDef
        <5>3. CASE t = r
          <6>1. o \in Outwards[r] /\ o >= Source[r]
            BY <3>2, <3>3, <5>1, <5>2
          <6> QED BY <5>3, <6>1, <5>1, <5>2 DEF Chained
        <5>4. CASE t # r
          <6>1. t \in Outwards[o] /\ Chained(o, t)
            BY <5>4, <3>2, <3>3, <5>1, <3>6
          <6> QED BY <6>1, <5>1, <3>3 DEF Chained
        <5> QED BY <5>3, <5>4
      <4> QED BY <4>1, <4>2
    <3>7. r \in Outwards[r]
      BY <3>3
    <3> QED BY <3>5, <3>6, <3>7
  <2> QED BY <2>1, <2>2
<1> HIDE DEF T
<1>3. p \in T
  BY <1>1, <1>2, InductiveUpTo
<1> QED BY <1>1, <1>3 DEF T

-----------------------------------------------------------------------------
(* Steps on pads.                                                           *)

\* Nothing but the $_ of pads changes, and it is bound to a container for a $_.
TopicsOnly(new) ==
    /\ new \in Seq(PadType) /\ Len(new) = Len(pads)
    /\ \A q \in DOMAIN pads :
          /\ new[q].block = pads[q].block /\ new[q].early = pads[q].early
          /\ new[q].code = pads[q].code /\ new[q].outer = pads[q].outer
          /\ DOMAIN new[q].regs = DOMAIN pads[q].regs
          /\ \A n \in DOMAIN pads[q].regs \ {"$_"} : new[q].regs[n] = pads[q].regs[n]
          /\ HasTopic(q) => new[q].regs["$_"] \in {None} \cup ({"$_", ":="} \X Nat)

\* Registers may be given another container.
LEMMA RegsReplaced ==
    ASSUME NEW pad \in PadType, NEW v, v \in {None} \cup ({"$_", ":="} \X Nat),
           NEW new, new = [pad EXCEPT !.regs["$_"] = v]
    PROVE  /\ new \in PadType
           /\ new.block = pad.block /\ new.early = pad.early
           /\ new.code = pad.code /\ new.outer = pad.outer
           /\ DOMAIN new.regs = DOMAIN pad.regs
           /\ \A n \in DOMAIN pad.regs \ {"$_"} : new.regs[n] = pad.regs[n]
           /\ "$_" \in DOMAIN pad.regs => new.regs["$_"] = v
<1> DEFINE regs == [pad.regs EXCEPT !["$_"] = v]
<1>1. new = [pad EXCEPT !.regs = regs] /\ new.regs = regs
  BY DEF PadType
<1>2. regs \in Partial
  <2>1. PICK D \in SUBSET Names : pad.regs \in [D -> Places \cup {None}]
    BY DEF PadType, Partial
  <2>2. v \in Places \cup {None}
    BY DEF Places, Names
  <2>3. regs \in [D -> Places \cup {None}]
    BY <2>1, <2>2
  <2> QED BY <2>3 DEF Partial
<1>3. DOMAIN regs = DOMAIN pad.regs
  OBVIOUS
<1>4. \A n \in DOMAIN pad.regs \ {"$_"} : regs[n] = pad.regs[n]
  OBVIOUS
<1>5. "$_" \in DOMAIN pad.regs => regs["$_"] = v
  OBVIOUS
<1> HIDE DEF regs
<1> QED BY <1>1, <1>2, <1>3, <1>4, <1>5 DEF PadType

\* What a look finds is a container for a $_.
LEMMA FoundType ==
    ASSUME Typed, Nested, TopicsHold, NEW p \in DOMAIN pads
    PROVE  Found(p) \in {None} \cup ({"$_", ":="} \X Nat)
<1>1. p \in 0..Len(pads)
  BY DEF Typed
<1>2. Source[p] \in 0..p /\ (Source[p] # 0 => Gives(Source[p]))
  BY <1>1, SourceGives
<1>3. Source[p] \in Nat
  BY <1>1, <1>2
<1> QED BY <1>2, <1>3 DEF Found, Gives, TopicsHold, Container

\* Looking $_ up from a pad keeps what is said of topics.
LEMMA LookedKeeps ==
    ASSUME Typed, Nested, TopicsHold, NEW p \in DOMAIN pads
    PROVE  TopicsOnly(Looked(p))
<1> DEFINE v == Found(p)
           gets(q) == Source[p] # 0 /\ q \in Outwards[p] /\ q >= Source[p]
           new == Looked(p)
<1>1. v \in {None} \cup ({"$_", ":="} \X Nat)
  BY FoundType
<1>2. new = [q \in DOMAIN pads |-> IF gets(q) THEN [pads[q] EXCEPT !.regs["$_"] = v] ELSE pads[q]]
  BY DEF Looked
<1> HIDE DEF v, gets, new
<1>3. ASSUME NEW q \in DOMAIN pads
      PROVE  /\ new[q] \in PadType
             /\ new[q].block = pads[q].block /\ new[q].early = pads[q].early
             /\ new[q].code = pads[q].code /\ new[q].outer = pads[q].outer
             /\ DOMAIN new[q].regs = DOMAIN pads[q].regs
             /\ \A n \in DOMAIN pads[q].regs \ {"$_"} : new[q].regs[n] = pads[q].regs[n]
             /\ HasTopic(q) => new[q].regs["$_"] \in {None} \cup ({"$_", ":="} \X Nat)
  <2>1. pads[q] \in PadType
    BY DEF Typed
  <2>2. CASE gets(q)
    <3>1. new[q] = [pads[q] EXCEPT !.regs["$_"] = v]
      BY <1>2, <2>2
    <3> QED BY <1>1, <2>1, <3>1, RegsReplaced DEF HasTopic
  <2>3. CASE ~gets(q)
    BY <1>2, <2>1, <2>3 DEF TopicsHold
  <2> QED BY <2>2, <2>3
<1>4. Len(pads) \in Nat /\ DOMAIN pads = 1..Len(pads)
  BY DEF Typed
<1>5. new \in [1..Len(pads) -> PadType]
  BY <1>2, <1>3, <1>4
<1>6. new \in Seq(PadType) /\ Len(new) = Len(pads)
  BY <1>4, <1>5
<1> QED BY <1>3, <1>6 DEF TopicsOnly, new

\* A look takes $_ from the pad around, or makes a fresh one.
LEMMA LookedFinds ==
    ASSUME Typed, Nested, TopicsHold, NEW p \in DOMAIN pads,
           NEW q \in DOMAIN pads, HasTopic(q), Looked(p)[q].regs["$_"] # pads[q].regs["$_"]
    PROVE  LET new == Looked(p)[q].regs["$_"]
               o   == pads[q].outer
           IN  /\ pads[q].regs["$_"] = None
               /\ \/ Fresh(q) /\ new = Container("$_", q)
                  \/ ~Fresh(q) /\ HasTopic(o) /\ o \in DOMAIN pads /\ new = Looked(p)[o].regs["$_"]
<1> DEFINE s == Source[p]
           gets(r) == s # 0 /\ r \in Outwards[p] /\ r >= s
<1>1. p \in 0..Len(pads)
  BY DEF Typed
<1>2. ASSUME NEW r \in DOMAIN pads, HasTopic(r), gets(r)
      PROVE  Looked(p)[r].regs["$_"] = Found(p)
  <2>1. Looked(p)[r] = [pads[r] EXCEPT !.regs["$_"] = Found(p)] /\ pads[r] \in PadType
    BY <1>2 DEF Looked, Typed
  <2>2. Found(p) \in {None} \cup ({"$_", ":="} \X Nat)
    BY FoundType
  <2> QED BY <1>2, <2>1, <2>2, RegsReplaced DEF HasTopic
<1>3. gets(q)
  BY DEF Looked
<1>4. Looked(p)[q].regs["$_"] = Found(p)
  BY <1>2, <1>3
<1>5. Chained(p, q) /\ (s # 0 => Gives(s))
  BY <1>1, <1>3, SearchChained, SourceGives
<1>6. CASE q = s
  BY <1>3, <1>4, <1>5, <1>6 DEF Gives, Found
<1>7. CASE q # s
  <2>1. Asks(q) /\ gets(pads[q].outer)
    BY <1>3, <1>5, <1>7 DEF Chained
  <2>2. pads[q].outer \in DOMAIN pads /\ Chained(p, pads[q].outer)
    BY <1>1, <2>1, SearchChained
  <2>3. HasTopic(pads[q].outer)
    BY <1>5, <2>1, <2>2 DEF Chained, Gives, Asks
  <2> QED BY <1>2, <1>4, <2>1, <2>2, <2>3 DEF Asks
<1> QED BY <1>6, <1>7

-----------------------------------------------------------------------------
(* The actions.                                                             *)

\* What is known of blocks and of the names they declare.
LEMMA BlockNames ==
    ASSUME NEW b \in Blocks
    PROVE  /\ Own(b) \subseteq Names /\ Own(b) = Mine[b] \cup State[b]
           /\ "$_" \notin Own(b) /\ ":=" \notin Own(b)
           /\ Mine[b] \cap State[b] = {}
BY LexpadsAssumption DEF Names, Own

\* The pad of a call: its variables are filled, its $_ is what it is given.
LEMMA PadFacts ==
    ASSUME Typed, StateHolds, NEW c \in DOMAIN codes, NEW o \in Nat, NEW p \in Nat,
           NEW topic, topic \in {None} \cup ({"$_", ":="} \X Nat)
    PROVE  LET new == Pad(c, o, p, topic)
               b   == codes[c].block
           IN  /\ new \in PadType
               /\ new.block = b /\ new.code = c /\ new.outer = o
               /\ DOMAIN new.regs \ {"$_"} = Own(b)
               /\ \A n \in Mine[b] : new.regs[n] = Container(n, p)
               /\ \A n \in State[b] :
                     /\ new.regs[n] = IF codes[c].state[n] # None THEN codes[c].state[n]
                                      ELSE Container(n, p)
                     /\ new.regs[n] \in Places
               /\ "$_" \in DOMAIN new.regs => new.regs["$_"] = topic
<1> DEFINE new == Pad(c, o, p, topic)
           b   == codes[c].block
           fill == Filled(c, p)
<1>1. c \in Nat /\ codes[c] \in CodeType /\ b \in Blocks
  <2>1. c \in Nat /\ codes[c] \in CodeType
    BY DEF Typed
  <2> QED BY <2>1 DEF CodeType
<1>2. DOMAIN fill = Own(b)
  BY DEF Filled
<1>3. ASSUME NEW n \in Own(b) PROVE fill[n] \in Places
  <2>1. n \in Names /\ Container(n, p) \in Places
    BY <1>1, BlockNames DEF Container, Places
  <2>2. ASSUME n \in State[b], codes[c].state[n] # None PROVE codes[c].state[n] \in Places
    <3>1. PICK k \in DOMAIN pads : codes[c].state[n] = Container(n, k)
      BY <2>2 DEF StateHolds
    <3> QED BY <2>1, <3>1 DEF Container, Places, Typed
  <2> QED BY <2>1, <2>2 DEF Filled, Cloned
<1>4. \A n \in Mine[b] : n \in Own(b) /\ fill[n] = Container(n, p)
  BY <1>1, BlockNames DEF Filled, Cloned
<1>5. \A n \in State[b] :
         n \in Own(b) /\ fill[n] = IF codes[c].state[n] # None THEN codes[c].state[n] ELSE Container(n, p)
  BY <1>1, BlockNames DEF Filled, Cloned
<1> DEFINE D == DOMAIN new.regs
<1>6. /\ new.block = b /\ new.code = c /\ new.outer = o /\ new.early \in BOOLEAN
      /\ new = [block |-> new.block, early |-> new.early, code |-> new.code,
                outer |-> new.outer, regs |-> new.regs]
  BY <1>1 DEF Pad, CodeType
<1>7. /\ D \ {"$_"} = Own(b)
      /\ \A n \in Own(b) : n \in D /\ new.regs[n] = fill[n]
      /\ "$_" \in D => new.regs["$_"] = topic
      /\ new.regs = [n \in D |-> new.regs[n]]
  <2>1. CASE Topic[b] = "none"
    <3>1. new.regs = fill
      BY <2>1 DEF Pad
    <3>2. "$_" \notin Own(b)
      BY <1>1, BlockNames
    <3>3. fill = [n \in Own(b) |-> fill[n]]
      BY DEF Filled
    <3> HIDE DEF new, fill, b
    <3> QED BY <1>2, <3>1, <3>2, <3>3
  <2>2. CASE Topic[b] # "none"
    <3>1. new.regs = [n \in Own(b) \cup {"$_"} |-> IF n = "$_" THEN topic ELSE fill[n]]
      BY <2>2 DEF Pad
    <3>2. "$_" \notin Own(b)
      BY <1>1, BlockNames
    <3> HIDE DEF new, fill, b
    <3> QED BY <3>1, <3>2
  <2> QED BY <2>1, <2>2
<1> HIDE DEF new, fill, b
<1>8. new.regs \in [D -> Places \cup {None}] /\ D \subseteq Names
  <2>1. ASSUME NEW n \in D PROVE new.regs[n] \in Places \cup {None}
    <3>1. CASE n = "$_"
      BY <3>1, <1>7 DEF Places, Names
    <3>2. CASE n # "$_"
      BY <3>2, <1>7, <1>3
    <3> QED BY <3>1, <3>2
  <2>2. D \subseteq Names
    BY <1>1, <1>7, BlockNames DEF Names
  <2> HIDE DEF D
  <2> QED BY <2>1, <2>2, <1>7
<1>9. new \in PadType
  <2>1. new.regs \in Partial
    BY <1>8 DEF Partial
  <2> HIDE DEF D
  <2> QED BY <2>1, <1>1, <1>6 DEF PadType
<1>10. \A n \in State[b] : new.regs[n] \in Places
  BY <1>3, <1>5, <1>7
<1> QED BY <1>4, <1>5, <1>6, <1>7, <1>9, <1>10 DEF new, b

\* A pad is of a block.
LEMMA PadBlock == ASSUME Typed, NEW p \in DOMAIN pads PROVE pads[p].block \in Blocks
<1>1. pads[p] \in PadType
  BY DEF Typed
<1> QED BY <1>1 DEF PadType

\* The invariant is kept when only what $_ is bound to changes.
LEMMA TopicsOnlyKeeps ==
    ASSUME PadInv, TopicsOnly(pads'), UNCHANGED <<codes, running>>
    PROVE  PadInv'
<1>1. DOMAIN pads' = DOMAIN pads
  BY DEF PadInv, Typed, TopicsOnly
<1>2. Typed'
  BY DEF PadInv, Typed, TopicsOnly
<1>3. Nested'
  BY <1>1 DEF PadInv, Nested, TopicsOnly
<1>4. ActivationsHold'
  <2> SUFFICES ASSUME NEW p \in DOMAIN pads, ~Wraps(p)' PROVE HoldsOwn(p)'
    BY <1>1 DEF ActivationsHold
  <2>0. ~Wraps(p)
    BY DEF Wraps, TopicsOnly
  <2>1. HoldsOwn(p) /\ pads[p].block \in Blocks
    BY <2>0, PadBlock DEF PadInv, ActivationsHold
  <2>2. /\ pads'[p].block = pads[p].block /\ pads'[p].code = pads[p].code
        /\ DOMAIN pads'[p].regs = DOMAIN pads[p].regs
        /\ \A n \in Own(pads[p].block) : pads'[p].regs[n] = pads[p].regs[n]
    BY <2>1, BlockNames DEF TopicsOnly, HoldsOwn
  <2> QED BY <2>1, <2>2, BlockNames DEF HoldsOwn
<1>5. WrapsHold'
  BY <1>1 DEF PadInv, WrapsHold, Wraps, TopicsOnly
<1>6. TopicsHold'
  BY <1>1 DEF PadInv, TopicsHold, HasTopic, TopicsOnly
<1>7. StateHolds'
  BY <1>1 DEF PadInv, StateHolds, TopicsOnly
<1> QED BY <1>2, <1>3, <1>4, <1>5, <1>6, <1>7 DEF PadInv

\* A call adds a pad whose state variables are, or become, those of the code object.
LEMMA EnterKeeps ==
    ASSUME PadInv, NEW c \in DOMAIN codes, NEW o \in 0..Len(pads),
           NEW before, TopicsOnly(before),
           NEW topic, topic \in {None} \cup ({"$_", ":="} \X Nat),
           Enter(c, o, before, topic)
    PROVE  PadInv'
<1> DEFINE k == Len(pads) + 1
           new == Pad(c, o, k, topic)
           b == codes[c].block
<1> USE DEF PadInv
<1>1. k \in Nat /\ o \in Nat /\ DOMAIN pads = 1..Len(pads) /\ c \in Nat /\ c # 0
  BY DEF Typed
<1>2. /\ new \in PadType
      /\ new.block = b /\ new.code = c /\ new.outer = o
      /\ DOMAIN new.regs \ {"$_"} = Own(b)
      /\ \A n \in Mine[b] : new.regs[n] = Container(n, k)
      /\ \A n \in State[b] :
            /\ new.regs[n] = IF codes[c].state[n] # None THEN codes[c].state[n]
                             ELSE Container(n, k)
            /\ new.regs[n] \in Places
      /\ "$_" \in DOMAIN new.regs => new.regs["$_"] = topic
  BY <1>1, PadFacts
<1>3. pads' = Append(before, new)
  BY DEF Enter
<1>4. codes' = [codes EXCEPT ![c].state = [n \in DOMAIN codes[c].state |-> new.regs[n]]]
  BY DEF Enter
<1> HIDE DEF new
<1>5. /\ pads' \in Seq(PadType) /\ DOMAIN pads' = DOMAIN pads \cup {k} /\ pads'[k] = new
      /\ \A q \in DOMAIN pads : pads'[q] = before[q]
      /\ k \notin DOMAIN pads
  <2>1. before \in Seq(PadType) /\ Len(before) = Len(pads)
    BY DEF TopicsOnly
  <2> QED BY <1>1, <1>2, <1>3, <2>1
<1>6. codes[c] \in CodeType /\ b \in Blocks /\ DOMAIN codes[c].state = State[b]
  <2>1. codes[c] \in CodeType
    BY DEF Typed
  <2> QED BY <2>1 DEF CodeType, StateHolds
<1> DEFINE st == [n \in State[b] |-> new.regs[n]]
<1>7. /\ DOMAIN codes' = DOMAIN codes
      /\ codes'[c] = [codes[c] EXCEPT !.state = st]
      /\ \A d \in DOMAIN codes : d # c => codes'[d] = codes[d]
  BY <1>4, <1>6
<1>8. codes'[c].block = b /\ codes'[c].state = st /\ codes'[c] \in CodeType
  <2>1. st \in Partial
    <3>1. State[b] \subseteq Names
      BY <1>6, BlockNames
    <3>2. st \in [State[b] -> Places \cup {None}]
      BY <1>2
    <3> HIDE DEF st
    <3> QED BY <3>1, <3>2 DEF Partial
  <2> HIDE DEF st
  <2> QED BY <2>1, <1>6, <1>7 DEF CodeType
<1>9. Typed'
  <2> HIDE DEF st
  <2>0. \A d \in DOMAIN codes : codes[d] \in CodeType
    BY DEF Typed
  <2>1. ASSUME NEW d \in DOMAIN codes PROVE codes'[d] \in CodeType
    <3>1. CASE d = c
      BY <3>1, <1>8
    <3>2. CASE d # c
      <4>1. codes'[d] = codes[d]
        BY <3>2, <1>7
      <4> QED BY <4>1, <2>0
    <3> QED BY <3>1, <3>2
  <2>2. codes' \in Seq(CodeType)
    <3>1. DOMAIN codes = 1..Len(codes) /\ Len(codes) \in Nat
      BY DEF Typed
    <3>2. codes' \in [1..Len(codes) -> CodeType]
      <4>1. codes' = [d \in DOMAIN codes |-> codes'[d]]
        BY <1>4
      <4> QED BY <2>1, <3>1, <4>1
    <3> QED BY <3>1, <3>2
  <2>3. running' \in BOOLEAN
    BY DEF Enter, Typed
  <2> QED BY <1>5, <2>2, <2>3 DEF Typed
<1>10. Nested'
  <2> SUFFICES ASSUME NEW p \in DOMAIN pads' PROVE pads'[p].outer \in 0..(p - 1)
    BY DEF Nested
  <2>1. CASE p = k
    BY <1>1, <1>2, <1>5, <2>1
  <2>2. CASE p \in DOMAIN pads
    BY <1>5, <2>2 DEF Nested, TopicsOnly
  <2> QED BY <1>5, <2>1, <2>2
<1>11. None \notin Places
  BY LexpadsAssumption DEF Places
<1>12. ActivationsHold'
  <2> SUFFICES ASSUME NEW p \in DOMAIN pads', ~Wraps(p)' PROVE HoldsOwn(p)'
    BY DEF ActivationsHold
  <2>1. CASE p = k
    <3>1. /\ pads'[p].code = c /\ pads'[p].block = b /\ codes'[c].block = b
          /\ c \in DOMAIN codes' /\ pads'[p].regs = new.regs
      BY <1>2, <1>5, <1>7, <1>8, <2>1
    <3>2. \A n \in State[b] : new.regs[n] # None /\ codes'[c].state[n] = new.regs[n]
      BY <1>2, <1>8, <1>11
    <3>3. \A n \in Mine[b] : new.regs[n] = Container(n, p)
      BY <1>2, <2>1
    <3> QED BY <1>2, <3>1, <3>2, <3>3 DEF HoldsOwn
  <2>2. CASE p \in DOMAIN pads
    <3>0. ~Wraps(p)
      BY <1>5, <2>2 DEF Wraps, TopicsOnly
    <3>1. HoldsOwn(p) /\ pads[p].block \in Blocks
      BY <2>2, <3>0, PadBlock DEF ActivationsHold
    <3>2. /\ pads'[p].block = pads[p].block /\ pads'[p].code = pads[p].code
          /\ DOMAIN pads'[p].regs = DOMAIN pads[p].regs
          /\ \A n \in Own(pads[p].block) : pads'[p].regs[n] = pads[p].regs[n]
      BY <1>5, <2>2, <3>1, BlockNames DEF TopicsOnly, HoldsOwn
    <3>3. /\ pads'[p].code \in DOMAIN codes'
          /\ codes'[pads'[p].code].block = pads[p].block
      <4>1. pads[p].code \in DOMAIN codes /\ codes[pads[p].code].block = pads[p].block
        BY <3>1 DEF HoldsOwn
      <4> QED BY <1>7, <1>8, <3>2, <4>1
    <3>4. ASSUME NEW n \in State[pads[p].block]
          PROVE  pads'[p].regs[n] # None /\ pads'[p].regs[n] = codes'[pads'[p].code].state[n]
      <4>1. pads'[p].regs[n] = pads[p].regs[n] /\ pads[p].regs[n] # None
            /\ pads[p].regs[n] = codes[pads[p].code].state[n]
        BY <3>1, <3>2, BlockNames DEF HoldsOwn
      <4>2. CASE pads[p].code = c
        <5>1. pads[p].block = b
          BY <3>1, <4>2 DEF HoldsOwn
        <5> QED BY <1>2, <1>8, <3>2, <4>1, <4>2, <5>1
      <4>3. CASE pads[p].code # c
        BY <1>7, <3>1, <3>2, <4>1, <4>3 DEF HoldsOwn
      <4> QED BY <4>2, <4>3
    <3> QED BY <3>1, <3>2, <3>3, <3>4, BlockNames DEF HoldsOwn
  <2> QED BY <1>5, <2>1, <2>2
<1>13. WrapsHold'
  <2> SUFFICES ASSUME NEW p \in DOMAIN pads', Wraps(p)',
                      NEW n \in DOMAIN pads'[p].regs \ {"$_"}
               PROVE  pads'[p].regs[n] = Static(n)
    BY DEF WrapsHold
  <2>1. p \in DOMAIN pads
    BY <1>1, <1>2, <1>5 DEF Wraps
  <2> QED BY <1>5, <2>1 DEF WrapsHold, Wraps, TopicsOnly
<1>14. TopicsHold'
  <2> SUFFICES ASSUME NEW p \in DOMAIN pads', HasTopic(p)'
               PROVE  pads'[p].regs["$_"] \in {None} \cup ({"$_", ":="} \X Nat)
    BY DEF TopicsHold
  <2>1. CASE p = k
    BY <1>2, <1>5, <2>1 DEF HasTopic
  <2>2. CASE p \in DOMAIN pads
    BY <1>5, <2>2 DEF HasTopic, TopicsOnly
  <2> QED BY <1>5, <2>1, <2>2
<1>15. StateHolds'
  <2> SUFFICES ASSUME NEW d \in DOMAIN codes
               PROVE  /\ DOMAIN codes'[d].state = State[codes'[d].block]
                      /\ \A n \in State[codes'[d].block] :
                            \/ codes'[d].state[n] = None
                            \/ \E q \in DOMAIN pads' :
                                  pads'[q].code = d /\ codes'[d].state[n] = Container(n, q)
    BY <1>7 DEF StateHolds
  <2>1. \A q \in DOMAIN pads : q \in DOMAIN pads' /\ pads'[q].code = pads[q].code
    BY <1>5 DEF TopicsOnly
  <2>2. CASE d # c
    BY <1>7, <2>1, <2>2 DEF StateHolds
  <2>3. CASE d = c
    <3>1. ASSUME NEW n \in State[b]
          PROVE  \E q \in DOMAIN pads' :
                    pads'[q].code = c /\ codes'[c].state[n] = Container(n, q)
      <4>1. codes'[c].state[n] = new.regs[n]
        BY <1>8
      <4>2. CASE codes[c].state[n] = None
        <5>1. k \in DOMAIN pads' /\ pads'[k].code = c
          BY <1>2, <1>5
        <5> QED BY <1>2, <4>1, <4>2, <5>1
      <4>3. CASE codes[c].state[n] # None
        <5>1. PICK q \in DOMAIN pads : pads[q].code = c /\ codes[c].state[n] = Container(n, q)
          BY <4>3 DEF StateHolds
        <5> QED BY <1>2, <2>1, <4>1, <4>3, <5>1
      <4> QED BY <4>2, <4>3
    <3>2. DOMAIN codes'[c].state = State[b]
      BY <1>8
    <3> QED BY <1>8, <2>3, <3>1, <3>2
  <2> QED BY <2>2, <2>3
<1> QED BY <1>9, <1>10, <1>12, <1>13, <1>14, <1>15

\* The blocks around a block are blocks.
LEMMA AroundBlocks == ASSUME NEW b \in 0..N PROVE Around[b] \subseteq Blocks
<1> DEFINE step == [a \in 1..N |-> [s \in SUBSET Blocks |-> {a} \cup s]]
           Body(f) == [a \in 0..N |-> IF a = 0 THEN {} ELSE {a} \cup f[Outer[a]]]
<1>1. N \in Nat /\ \A a \in 1..N : Outer[a] \in 0..N /\ Outer[a] < a
  BY LexpadsAssumption DEF Blocks
<1>2. Earlier(Outer, N)
  BY <1>1, LexpadsAssumption DEF Earlier, Blocks
<1>3. StepsOn(step, N, SUBSET Blocks)
  BY DEF StepsOn, Blocks
<1>4. PICK f \in [0..N -> SUBSET Blocks] : Follows(f, N, {}, Outer, step)
  <2> HIDE DEF step
  <2>1. {} \in SUBSET Blocks
    OBVIOUS
  <2> QED BY <2>1, <1>1, <1>2, <1>3, FunctionByRecursion
<1>5. ASSUME NEW a \in 0..N PROVE f[a] = Body(f)[a]
  <2>1. CASE a = 0
    BY <2>1, <1>4 DEF Follows
  <2>2. CASE a # 0
    <3>1. a \in 1..N /\ Outer[a] \in 0..N /\ f[Outer[a]] \in SUBSET Blocks
      BY <2>2, <1>1
    <3>2. f[a] = step[a][f[Outer[a]]]
      BY <3>1, <2>2, <1>4 DEF Follows
    <3> QED BY <3>1, <3>2, <2>2
  <2> QED BY <2>1, <2>2
<1>6. f = Body(f)
  <2>1. f = [a \in 0..N |-> f[a]]
    OBVIOUS
  <2>2. Body(f) = [a \in 0..N |-> Body(f)[a]]
    OBVIOUS
  <2> HIDE DEF Body
  <2> QED BY <1>5, <2>1, <2>2
<1>7. Around = CHOOSE g : g = Body(g)
  BY DEF Around
<1> HIDE DEF Body
<1>8. Around = Body(Around)
  BY <1>6, <1>7, Zenon
<1> DEFINE T == {a \in 0..N : Around[a] \subseteq Blocks}
<1>9. ASSUME NEW a \in 0..N, \A d \in 0..(a - 1) : d \in T PROVE a \in T
  <2>1. CASE a = 0
    BY <1>8, <2>1 DEF Body
  <2>2. CASE a # 0
    <3>1. a \in Blocks /\ Outer[a] \in 0..(a - 1)
      BY <1>1, <2>2 DEF Blocks
    <3>2. Around[a] = {a} \cup Around[Outer[a]]
      BY <1>8, <2>2 DEF Body
    <3> QED BY <1>9, <3>1, <3>2
  <2> QED BY <2>1, <2>2
<1> HIDE DEF T
<1>10. b \in T
  BY <1>1, <1>9, InductiveUpTo
<1> QED BY <1>10 DEF T

\* New pads of the static containers, new code objects whose state variables were not
\* made yet, and other ways to have compiled old ones keep the invariant.
LEMMA ExtendKeeps ==
    ASSUME PadInv, Typed',
           \A q \in DOMAIN pads : q \in DOMAIN pads' /\ pads'[q] = pads[q],
           \A q \in DOMAIN pads' \ DOMAIN pads :
              /\ q > 0 /\ pads'[q].code = 0 /\ pads'[q].outer = 0
              /\ \A n \in DOMAIN pads'[q].regs : pads'[q].regs[n] = Static(n),
           \A d \in DOMAIN codes :
              /\ d \in DOMAIN codes'
              /\ codes'[d].block = codes[d].block /\ codes'[d].state = codes[d].state,
           \A d \in DOMAIN codes' \ DOMAIN codes :
              /\ DOMAIN codes'[d].state = State[codes'[d].block]
              /\ \A n \in State[codes'[d].block] : codes'[d].state[n] = None
    PROVE  PadInv'
<1> USE DEF PadInv
<1>1. Nested'
  <2> SUFFICES ASSUME NEW p \in DOMAIN pads' PROVE pads'[p].outer \in 0..(p - 1)
    BY DEF Nested
  <2>1. p \in Nat
    BY DEF Typed
  <2> QED BY <2>1 DEF Nested
<1>2. ActivationsHold'
  <2> SUFFICES ASSUME NEW p \in DOMAIN pads', ~Wraps(p)' PROVE HoldsOwn(p)'
    BY DEF ActivationsHold
  <2>1. p \in DOMAIN pads /\ pads'[p] = pads[p]
    BY DEF Wraps
  <2>2. HoldsOwn(p)
    BY <2>1 DEF Wraps, ActivationsHold
  <2> QED BY <2>1, <2>2 DEF HoldsOwn
<1>3. WrapsHold'
  BY DEF WrapsHold, Wraps
<1>4. TopicsHold'
  <2> SUFFICES ASSUME NEW p \in DOMAIN pads', HasTopic(p)'
               PROVE  pads'[p].regs["$_"] \in {None} \cup ({"$_", ":="} \X Nat)
    BY DEF TopicsHold
  <2>1. CASE p \in DOMAIN pads
    BY <2>1 DEF TopicsHold, HasTopic
  <2>2. CASE p \notin DOMAIN pads
    <3>1. pads'[p].regs["$_"] = <<"$_", 0>>
      BY <2>2 DEF HasTopic, Static, Container
    <3> QED BY <3>1
  <2> QED BY <2>1, <2>2
<1>5. StateHolds'
  BY DEF StateHolds
<1> QED BY <1>1, <1>2, <1>3, <1>4, <1>5

\* Reading $_.
LEMMA LookAtKeeps == ASSUME PadInv, NEW p \in DOMAIN pads, LookAt(p) PROVE PadInv'
BY LookedKeeps, TopicsOnlyKeeps DEF LookAt, PadInv

\* Binding $_.
LEMMA RebindKeeps == ASSUME PadInv, NEW p \in DOMAIN pads, Rebind(p) PROVE PadInv'
<1>1. pads' = [pads EXCEPT ![p].regs["$_"] = Container(":=", p)] /\ p \in Nat
  BY DEF Rebind, PadInv, Typed
<1> DEFINE v == Container(":=", p)
           new == [pads[p] EXCEPT !.regs["$_"] = v]
<1>2. v \in {":="} \X Nat
  BY <1>1 DEF Container
<1>3. pads' = [pads EXCEPT ![p] = new]
  BY <1>1
<1>4. \A q \in DOMAIN pads : pads[q] \in PadType
  BY DEF PadInv, Typed
<1> HIDE DEF v
<1>5. /\ new \in PadType
      /\ new.block = pads[p].block /\ new.early = pads[p].early
      /\ new.code = pads[p].code /\ new.outer = pads[p].outer
      /\ DOMAIN new.regs = DOMAIN pads[p].regs
      /\ \A n \in DOMAIN pads[p].regs \ {"$_"} : new.regs[n] = pads[p].regs[n]
      /\ "$_" \in DOMAIN pads[p].regs => new.regs["$_"] = v
  BY <1>2, <1>4, RegsReplaced
<1> HIDE DEF new
<1>6. pads' \in Seq(PadType) /\ Len(pads') = Len(pads)
  BY <1>3, <1>5 DEF PadInv, Typed
<1>7. TopicsOnly(pads')
  <2> SUFFICES ASSUME NEW q \in DOMAIN pads
               PROVE  /\ pads'[q].block = pads[q].block /\ pads'[q].early = pads[q].early
                      /\ pads'[q].code = pads[q].code /\ pads'[q].outer = pads[q].outer
                      /\ DOMAIN pads'[q].regs = DOMAIN pads[q].regs
                      /\ \A n \in DOMAIN pads[q].regs \ {"$_"} : pads'[q].regs[n] = pads[q].regs[n]
                      /\ HasTopic(q) => pads'[q].regs["$_"] \in {None} \cup ({"$_", ":="} \X Nat)
    BY <1>6 DEF TopicsOnly
  <2>1. CASE q = p
    BY <1>2, <1>3, <1>5, <2>1 DEF HasTopic
  <2>2. CASE q # p
    BY <1>3, <2>2 DEF PadInv, TopicsHold
  <2> QED BY <2>1, <2>2
<1> QED BY <1>7, TopicsOnlyKeeps DEF Rebind

\* TopicsOnly of the present pads is TopicsHold.
LEMMA SamePads == ASSUME Typed PROVE TopicsOnly(pads) <=> TopicsHold
BY DEF Typed, TopicsOnly, TopicsHold

\* Calling a code object (set_pointer makes its pad).
LEMMA CallKeeps ==
    ASSUME PadInv, NEW c \in DOMAIN codes, NEW o \in 0..Len(pads), Call(c, o)
    PROVE  PadInv'
<1>1. TopicsOnly(pads)
  BY SamePads DEF PadInv
<1> QED BY <1>1, EnterKeeps DEF Call

\* A block whose parameter defaults to the outer $_ is in another block.
LEMMA ParamIsInside ==
    ASSUME PadInv, NEW c \in DOMAIN codes, NEW o \in 0..Len(pads),
           Surrounds(o, c), Topic[codes[c].block] = "param"
    PROVE  o \in DOMAIN pads
<1>1. codes[c] \in CodeType
  BY DEF PadInv, Typed
<1>2. codes[c].block \in Blocks
  BY <1>1 DEF CodeType
<1>3. DOMAIN pads = 1..Len(pads) /\ Len(pads) \in Nat
  BY DEF PadInv, Typed
<1> QED BY <1>2, <1>3, LexpadsAssumption DEF Surrounds

\* Calling one that is given its $_.
LEMMA CallWithTopicKeeps ==
    ASSUME PadInv, NEW c \in DOMAIN codes, NEW o \in 0..Len(pads), CallWithTopic(c, o)
    PROVE  PadInv'
<1>1. o \in DOMAIN pads /\ Len(pads) + 1 \in Nat
  BY ParamIsInside DEF CallWithTopic, PadInv, Typed
<1>2. CASE Enter(c, o, pads, Container("$_", Len(pads) + 1))
  <2>1. TopicsOnly(pads)
    BY SamePads DEF PadInv
  <2>2. Container("$_", Len(pads) + 1) \in {"$_", ":="} \X Nat
    BY <1>1 DEF Container
  <2> QED BY <1>2, <2>1, <2>2, EnterKeeps
<1>3. CASE Enter(c, o, Looked(o), Found(o))
  BY <1>1, <1>3, LookedKeeps, FoundType, EnterKeeps DEF PadInv
<1> QED BY <1>2, <1>3 DEF CallWithTopic

\* Taking a closure (Block.clone).
LEMMA CloneKeeps == ASSUME PadInv, NEW c \in DOMAIN codes, Clone(c) PROVE PadInv'
<1> DEFINE b == codes[c].block
           state == [n \in DOMAIN codes[c].state |-> None]
           new == [codes[c] EXCEPT !.state = state]
<1>1. codes' = Append(codes, new) /\ UNCHANGED <<pads, running>>
  BY DEF Clone
<1>2. codes \in Seq(CodeType) /\ codes[c] \in CodeType
  BY DEF PadInv, Typed
<1>3. DOMAIN codes[c].state = State[b] /\ b \in Blocks
  BY <1>2 DEF PadInv, StateHolds, CodeType
<1>4. state \in Partial /\ DOMAIN state = State[b] /\ \A n \in State[b] : state[n] = None
  <2>1. state \in [State[b] -> Places \cup {None}] /\ State[b] \subseteq Names
    BY <1>3, BlockNames
  <2>2. DOMAIN state = State[b] /\ \A n \in State[b] : state[n] = None
    BY <1>3
  <2> HIDE DEF state
  <2> QED BY <2>1, <2>2 DEF Partial
<1> HIDE DEF state
<1>5. new \in CodeType /\ new.block = b /\ new.state = state
  BY <1>2, <1>4 DEF CodeType
<1> HIDE DEF new
<1>6. /\ codes' \in Seq(CodeType)
      /\ \A d \in DOMAIN codes : d \in DOMAIN codes' /\ codes'[d] = codes[d]
      /\ \A d \in DOMAIN codes' \ DOMAIN codes : codes'[d] = new
  BY <1>1, <1>2, <1>5
<1>7. Typed'
  BY <1>1, <1>6 DEF PadInv, Typed
<1> QED BY <1>1, <1>4, <1>5, <1>6, <1>7, ExtendKeeps

\* Code that is compiled early, or is replaced by what was compiled in the end.
LEMMA EarlyKept ==
    ASSUME Typed, NEW B, NEW e \in BOOLEAN,
           codes' = [c \in DOMAIN codes |-> IF c \in B THEN [codes[c] EXCEPT !.early = e] ELSE codes[c]]
    PROVE  /\ codes' \in Seq(CodeType) /\ DOMAIN codes' = DOMAIN codes
           /\ \A d \in DOMAIN codes :
                 codes'[d].block = codes[d].block /\ codes'[d].state = codes[d].state
<1>1. codes \in Seq(CodeType)
  BY DEF Typed
<1>2. ASSUME NEW d \in DOMAIN codes
      PROVE  /\ codes'[d] \in CodeType
             /\ codes'[d].block = codes[d].block /\ codes'[d].state = codes[d].state
  <2>1. codes[d] \in CodeType
    BY <1>1
  <2> QED BY <2>1 DEF CodeType
<1>3. DOMAIN codes = 1..Len(codes) /\ Len(codes) \in Nat
  BY <1>1
<1>4. codes' \in [1..Len(codes) -> CodeType]
  BY <1>2, <1>3
<1> QED BY <1>2, <1>3, <1>4

\* The code objects of the program get what was compiled in the end.
LEMMA FixupKeeps == ASSUME PadInv, Fixup PROVE PadInv'
<1>1. codes' = [c \in DOMAIN codes |->
                   IF c \in Blocks THEN [codes[c] EXCEPT !.early = FALSE] ELSE codes[c]]
  BY DEF Fixup
<1>2. /\ codes' \in Seq(CodeType) /\ DOMAIN codes' = DOMAIN codes
      /\ \A d \in DOMAIN codes :
            codes'[d].block = codes[d].block /\ codes'[d].state = codes[d].state
  BY <1>1, EarlyKept DEF PadInv
<1>3. Typed' /\ UNCHANGED pads
  BY <1>2 DEF Fixup, PadInv, Typed
<1> QED BY <1>2, <1>3, ExtendKeeps

\* A block compiled in its context before its unit is (BEGIN, constants).
LEMMA CompileKeeps == ASSUME PadInv, NEW b \in Blocks, CompileInContext(b) PROVE PadInv'
<1> DEFINE B == {c \in Blocks : b \in Around[c]}
           D == {"$_"} \cup UNION {Own(a) : a \in Around[b]}
           regs == [n \in D |-> Static(n)]
           new == [block |-> Outer[b], early |-> TRUE, code |-> 0, outer |-> 0, regs |-> regs]
<1>1. codes' = [c \in DOMAIN codes |->
                   IF c \in B THEN [codes[c] EXCEPT !.early = TRUE] ELSE codes[c]]
  BY DEF CompileInContext
<1>2. /\ codes' \in Seq(CodeType) /\ DOMAIN codes' = DOMAIN codes
      /\ \A d \in DOMAIN codes :
            codes'[d].block = codes[d].block /\ codes'[d].state = codes[d].state
  <2> HIDE DEF B
  <2> QED BY <1>1, EarlyKept DEF PadInv
<1>3. pads' = Append(pads, new) /\ UNCHANGED running /\ Outer[b] # 0
  BY DEF CompileInContext
<1>4. Outer[b] \in Blocks
  BY <1>3, LexpadsAssumption DEF Blocks
<1>5. D \subseteq Names
  <2>1. Around[b] \subseteq Blocks
    BY AroundBlocks DEF Blocks
  <2> QED BY <2>1, BlockNames DEF Names
<1>6. regs \in Partial /\ \A n \in DOMAIN regs : regs[n] = Static(n)
  <2> HIDE DEF D
  <2>1. regs \in [D -> Places \cup {None}]
    BY <1>5 DEF Static, Container, Places
  <2>2. \A n \in DOMAIN regs : regs[n] = Static(n)
    OBVIOUS
  <2> HIDE DEF regs
  <2> QED BY <1>5, <2>1, <2>2 DEF Partial
<1> HIDE DEF regs
<1>7. new \in PadType /\ new.code = 0 /\ new.outer = 0 /\ new.regs = regs
  BY <1>4, <1>6 DEF PadType
<1> HIDE DEF new
<1>8. /\ pads' \in Seq(PadType)
      /\ \A q \in DOMAIN pads : q \in DOMAIN pads' /\ pads'[q] = pads[q]
      /\ \A q \in DOMAIN pads' \ DOMAIN pads : pads'[q] = new /\ q > 0
  BY <1>3, <1>7 DEF PadInv, Typed
<1>9. Typed'
  BY <1>2, <1>3, <1>8 DEF PadInv, Typed
<1> QED BY <1>2, <1>6, <1>7, <1>8, <1>9, ExtendKeeps

-----------------------------------------------------------------------------
(* The invariant and what follows from it.                                  *)

\* The invariant holds when a program starts.
LEMMA InitInv == Init => PadInv
<1> SUFFICES ASSUME Init PROVE PadInv
  OBVIOUS
<1> DEFINE state(b) == [n \in State[b] |-> None]
<1>1. \A b \in Blocks : state(b) \in Partial
  <2> TAKE b \in Blocks
  <2>1. State[b] \subseteq Names /\ state(b) \in [State[b] -> Places \cup {None}]
    BY BlockNames
  <2> HIDE DEF state
  <2> QED BY <2>1 DEF Partial
<1>2. codes = [b \in 1..N |-> [block |-> b, early |-> FALSE, state |-> state(b)]]
  BY DEF Init, Blocks
<1>3. \A b \in 1..N : DOMAIN state(b) = State[b] /\ \A n \in State[b] : state(b)[n] = None
  OBVIOUS
<1> HIDE DEF state
<1>4. codes \in Seq(CodeType) /\ DOMAIN codes = 1..N
  <2>1. codes \in [1..N -> CodeType] /\ N \in Nat
    BY <1>1, <1>2, LexpadsAssumption DEF CodeType, Blocks
  <2> QED BY <2>1
<1>5. \A d \in DOMAIN codes : codes[d].block = d /\ codes[d].state = state(d)
  BY <1>2
<1>6. StateHolds
  BY <1>3, <1>4, <1>5 DEF StateHolds
<1>7. pads = <<>> /\ DOMAIN pads = {} /\ running \in BOOLEAN /\ pads \in Seq(PadType)
  <2>1. pads = <<>> /\ running \in BOOLEAN
    BY DEF Init
  <2> QED BY <2>1
<1> QED BY <1>4, <1>6, <1>7 DEF PadInv, Typed, Nested, ActivationsHold, WrapsHold, TopicsHold

\* Every step keeps the invariant.
LEMMA NextKeeps == PadInv /\ [Next]_vars => PadInv'
<1> SUFFICES ASSUME PadInv, [Next]_vars PROVE PadInv'
  OBVIOUS
<1>1. ASSUME NEW c \in DOMAIN codes, Clone(c) PROVE PadInv'
  BY <1>1, CloneKeeps
<1>2. ASSUME NEW c \in DOMAIN codes, NEW o \in 0..Len(pads), Call(c, o) PROVE PadInv'
  BY <1>2, CallKeeps
<1>3. ASSUME NEW c \in DOMAIN codes, NEW o \in 0..Len(pads), CallWithTopic(c, o) PROVE PadInv'
  BY <1>3, CallWithTopicKeeps
<1>4. ASSUME NEW b \in Blocks, CompileInContext(b) PROVE PadInv'
  BY <1>4, CompileKeeps
<1>5. CASE Fixup
  BY <1>5, FixupKeeps
<1>6. ASSUME NEW p \in DOMAIN pads, LookAt(p) PROVE PadInv'
  BY <1>6, LookAtKeeps
<1>7. ASSUME NEW p \in DOMAIN pads, Rebind(p) PROVE PadInv'
  BY <1>7, RebindKeeps
<1>8. CASE UNCHANGED vars
  BY <1>8 DEF vars, PadInv, Typed, Nested, ActivationsHold, HoldsOwn, WrapsHold, Wraps,
              TopicsHold, HasTopic, StateHolds
<1> QED BY <1>1, <1>2, <1>3, <1>4, <1>5, <1>6, <1>7, <1>8 DEF Next

\* Each container is in the registers it was made for and, the variable a state
\* variable, in those of later calls of the code object.
LEMMA PadInvIsolates == PadInv => Isolated
<1> SUFFICES ASSUME PadInv, NEW p \in Activations, NEW n \in Mine[pads[p].block]
             PROVE  /\ pads[p].regs[n] # Static(n)
                    /\ \A q \in DOMAIN pads \ {p} : pads[p].regs[n] \notin Containers(q)
  BY DEF Isolated
<1>1. p \in DOMAIN pads /\ p \in Nat /\ p # 0 /\ HoldsOwn(p) /\ pads[p].block \in Blocks
  BY PadBlock DEF PadInv, Typed, Activations, ActivationsHold
<1>2. pads[p].regs[n] = <<n, p>>
  BY <1>1 DEF HoldsOwn, Container
<1>3. n \in Own(pads[p].block) /\ n # "$_" /\ n # ":=" /\ <<n, p>> \in Places
  BY <1>1, BlockNames DEF Places
<1>4. ASSUME NEW q \in DOMAIN pads \ {p}, NEW m \in DOMAIN pads[q].regs
      PROVE  pads[q].regs[m] # <<n, p>>
  <2>1. CASE m = "$_"
    <3>1. pads[q].regs[m] \in {None} \cup ({"$_", ":="} \X Nat)
      BY <2>1 DEF PadInv, TopicsHold, HasTopic
    <3> QED BY <1>3, <3>1, LexpadsAssumption DEF Places
  <2>2. CASE m # "$_" /\ Wraps(q)
    BY <1>1, <2>2 DEF PadInv, WrapsHold, Static, Container
  <2>3. CASE m # "$_" /\ ~Wraps(q)
    <3>1. HoldsOwn(q) /\ pads[q].block \in Blocks /\ q # p
      BY <2>3, PadBlock DEF PadInv, ActivationsHold
    <3>2. m \in Own(pads[q].block)
      BY <2>3, <3>1 DEF HoldsOwn
    <3>3. CASE m \in Mine[pads[q].block]
      BY <3>1, <3>3 DEF HoldsOwn, Container
    <3>4. CASE m \in State[pads[q].block]
      <4>1. \E k \in DOMAIN pads : pads[q].regs[m] = <<m, k>>
        BY <3>1, <3>4 DEF HoldsOwn, PadInv, StateHolds, Container
      <4>2. m # n
        BY <1>1, <1>3, <3>1, <3>2, <3>4, BlockNames, LexpadsAssumption
      <4> QED BY <4>1, <4>2
    <3> QED BY <3>1, <3>2, <3>3, <3>4, BlockNames
  <2> QED BY <2>1, <2>2, <2>3
<1> QED BY <1>1, <1>2, <1>4 DEF Static, Container, Containers

\* The invariant gives StateShared.
LEMMA PadInvShares == PadInv => StateShared
<1> SUFFICES ASSUME PadInv, NEW p \in Activations, NEW q \in Activations,
                    pads[p].block = pads[q].block, NEW n \in State[pads[p].block]
             PROVE  pads[p].regs[n] = pads[q].regs[n] <=> pads[p].code = pads[q].code
  BY DEF StateShared
<1> DEFINE c == pads[p].code
           d == pads[q].code
<1>1. HoldsOwn(p) /\ HoldsOwn(q)
  BY DEF PadInv, Activations, ActivationsHold
<1>2. /\ pads[p].regs[n] = codes[c].state[n] /\ pads[q].regs[n] = codes[d].state[n]
      /\ codes[c].state[n] # None /\ codes[d].state[n] # None
      /\ n \in State[codes[c].block] /\ n \in State[codes[d].block]
      /\ c \in DOMAIN codes /\ d \in DOMAIN codes
  BY <1>1 DEF HoldsOwn
<1>3. PICK k \in DOMAIN pads : pads[k].code = c /\ codes[c].state[n] = <<n, k>>
  BY <1>2 DEF PadInv, StateHolds, Container
<1>4. PICK l \in DOMAIN pads : pads[l].code = d /\ codes[d].state[n] = <<n, l>>
  BY <1>2 DEF PadInv, StateHolds, Container
<1> QED BY <1>2, <1>3, <1>4

\* No step changes a $_ otherwise than TopicFound says.
LEMMA NextFinds == PadInv /\ [Next]_vars => [TopicFound]_vars
<1> SUFFICES ASSUME PadInv, Next PROVE TopicFound
  OBVIOUS
<1> SUFFICES ASSUME NEW q \in DOMAIN pads, HasTopic(q),
                    pads'[q].regs["$_"] # pads[q].regs["$_"]
             PROVE  LET new == pads'[q].regs["$_"]
                        o   == pads[q].outer
                    IN  \/ pads[q].regs["$_"] = None /\ Fresh(q) /\ new = Container("$_", q)
                        \/ /\ pads[q].regs["$_"] = None /\ ~Fresh(q) /\ HasTopic(o)
                           /\ new = pads'[o].regs["$_"]
                        \/ Rebind(q)
  BY DEF TopicFound
<1>1. pads \in Seq(PadType) /\ Typed /\ Nested /\ TopicsHold
  BY DEF PadInv, Typed
<1>2. ASSUME NEW p \in DOMAIN pads, \A r \in DOMAIN pads : pads'[r] = Looked(p)[r]
      PROVE  LET new == pads'[q].regs["$_"]
                 o   == pads[q].outer
             IN  \/ pads[q].regs["$_"] = None /\ Fresh(q) /\ new = Container("$_", q)
                 \/ /\ pads[q].regs["$_"] = None /\ ~Fresh(q) /\ HasTopic(o)
                    /\ new = pads'[o].regs["$_"]
  BY <1>1, <1>2, LookedFinds
<1>3. ASSUME NEW before, NEW new, Len(before) = Len(pads), before \in Seq(PadType),
             pads' = Append(before, new)
      PROVE  \A r \in DOMAIN pads : pads'[r] = before[r]
  BY <1>1, <1>3
<1>4. ASSUME NEW c \in DOMAIN codes, NEW o \in 0..Len(pads), NEW topic,
             Enter(c, o, pads, topic)
      PROVE  FALSE
  <2>1. \E new : pads' = Append(pads, new)
    BY <1>4 DEF Enter
  <2> QED BY <1>1, <1>3, <2>1
<1>5. ASSUME NEW c \in DOMAIN codes, NEW o \in 0..Len(pads), CallWithTopic(c, o)
      PROVE  o \in DOMAIN pads /\ \A r \in DOMAIN pads : pads'[r] = Looked(o)[r]
  <2>1. o \in DOMAIN pads
    BY <1>5, ParamIsInside DEF CallWithTopic
  <2>2. Enter(c, o, Looked(o), Found(o))
    BY <1>4, <1>5 DEF CallWithTopic
  <2>3. \E new : pads' = Append(Looked(o), new)
    BY <2>2 DEF Enter
  <2>4. Looked(o) \in Seq(PadType) /\ Len(Looked(o)) = Len(pads)
    BY <1>1, <2>1, LookedKeeps DEF TopicsOnly
  <2> QED BY <1>3, <2>1, <2>3, <2>4
<1>6. ASSUME NEW b \in Blocks, CompileInContext(b) PROVE FALSE
  <2>1. \E new : pads' = Append(pads, new)
    BY <1>6 DEF CompileInContext
  <2> QED BY <1>1, <1>3, <2>1
<1>7. ASSUME NEW c \in DOMAIN codes, Clone(c) \/ Fixup PROVE FALSE
  BY <1>7 DEF Clone, Fixup
<1>8. ASSUME Fixup PROVE FALSE
  BY <1>8 DEF Fixup
<1>9. ASSUME NEW p \in DOMAIN pads, LookAt(p) PROVE \A r \in DOMAIN pads : pads'[r] = Looked(p)[r]
  BY <1>9 DEF LookAt
<1>10. ASSUME NEW p \in DOMAIN pads, Rebind(p) PROVE p = q
  <2>1. SUFFICES ASSUME p # q PROVE FALSE
    OBVIOUS
  <2>2. pads'[q] = pads[q]
    BY <1>10, <2>1 DEF Rebind
  <2> QED BY <2>2
<1>11. ASSUME NEW c \in DOMAIN codes, NEW o \in 0..Len(pads), Call(c, o) PROVE FALSE
  BY <1>4, <1>11 DEF Call
<1> QED BY <1>2, <1>5, <1>6, <1>7, <1>8, <1>9, <1>10, <1>11 DEF Next

\* The invariant of pads: who wraps whom, what each activation holds, and where its
\* state variables and its $_ come from (perl6lexpad.pmc, Block.clone, add_code of
\* World.pm).
THEOREM PadInvariance == Spec => []PadInv
<1> QED BY InitInv, NextKeeps, PTL DEF Spec

\* No `my` variable of an activation, by recursion, by another closure or at BEGIN time,
\* is that of another one, nor the static one (set_pointer of perl6lexpad.pmc).
THEOREM IsolatedAlways == Spec => []Isolated
<1> QED BY PadInvariance, PadInvIsolates, PTL

\* State variables belong to the code object that is called (Block.clone, set_pointer).
THEOREM StateSharedAlways == Spec => []StateShared
<1> QED BY PadInvariance, PadInvShares, PTL

\* The $_ of a pad comes from the pad around it, or is its own, and then stays
\* (get_pmc_keyed_str of perl6lexpad.pmc).
THEOREM TopicFoundAlways == Spec => TopicStolen
<1> QED BY PadInvariance, NextFinds, PTL DEF Spec, TopicStolen
=============================================================================
