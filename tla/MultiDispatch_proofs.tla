------------------------ MODULE MultiDispatch_proofs ------------------------
(***************************************************************************)
(* What MultiDispatch promises for every set of candidates, captures and    *)
(* dispatchers: one inductive invariant, kept by each action; then that it  *)
(* answers as AbstractMulti promises, with its cache, its walk of the tied  *)
(* groups and its bind checks: each of its steps is a step of the abstract  *)
(* dispatcher, or none.                                                     *)
(***************************************************************************)
EXTENDS MultiDispatch, MultiSort_proofs

\* Sequences with the same indices have the same length.
LEMMA SameDomain ==
    ASSUME NEW S, NEW s \in Seq(S), NEW t \in Seq(S), DOMAIN s = DOMAIN t
    PROVE  Len(s) = Len(t) /\ \A i \in 1..Len(s) : s[i] \in S /\ t[i] \in S
OBVIOUS

\* What the dispatcher looks at in an argument is in the cache key.
LEMMA KeyFixesArgument ==
    ASSUME NEW a \in Captures, NEW b \in Captures, KeyOf(a) = KeyOf(b)
    PROVE  /\ Arity(a) = Arity(b)
           /\ \A i \in 1..Arity(a) :
                 /\ a.args[i].prim = b.args[i].prim
                 /\ ArgType(a.args[i]) = ArgType(b.args[i])
                 /\ ArgDefined(a.args[i]) = ArgDefined(b.args[i])
<1>1. a.args \in Seq(Args) /\ b.args \in Seq(Args)
  BY CaptureAssumption DEF CaptureType
<1>2. DOMAIN a.args = DOMAIN b.args
  BY DEF KeyOf
<1>3. DOMAIN a.args = 1..Arity(a)
  BY <1>1 DEF Arity
<1>4. Arity(a) = Arity(b)
  BY <1>1, <1>2, SameDomain DEF Arity
<1>5. ASSUME NEW i \in 1..Arity(a)
      PROVE  /\ a.args[i].prim = b.args[i].prim
             /\ ArgType(a.args[i]) = ArgType(b.args[i])
             /\ ArgDefined(a.args[i]) = ArgDefined(b.args[i])
  <2>1. a.args[i] \in Args /\ b.args[i] \in Args
    BY <1>1, <1>2, SameDomain DEF Arity
  <2>2. KeyOf(a)[i] = KeyOf(b)[i]
    OBVIOUS
  <2>0. i \in DOMAIN a.args /\ i \in DOMAIN b.args
    BY <1>2, <1>3
  <2>3. a.args[i].prim = "obj" <=> b.args[i].prim = "obj"
    BY <2>1, <2>2, <2>0, SigAssumption DEF KeyOf, Args
  <2> QED
    BY <2>0, <2>1, <2>2, <2>3 DEF KeyOf, Args, ArgType, ArgDefined
<1> QED BY <1>4, <1>5

\* So captures with the same key are admissible for the same candidates.
LEMMA AdmissibleByKey ==
    ASSUME NEW c \in Cands, NEW a \in Captures, NEW b \in Captures,
           KeyOf(a) = KeyOf(b)
    PROVE  Admissible(c, a) = Admissible(c, b)
<1>1. ASSUME NEW i \in 1..Arity(a)
      PROVE  Accepts(Info[c].types[i], Info[c].params[i], a.args[i])
             = Accepts(Info[c].types[i], Info[c].params[i], b.args[i])
  BY KeyFixesArgument DEF Accepts
<1>2. Arity(a) = Arity(b)
  BY KeyFixesArgument
<1> QED BY <1>1, <1>2 DEF Admissible, Checked

-----------------------------------------------------------------------------
(* Stacks.                                                                  *)

\* The stack with its innermost activation replaced ...
LEMMA SetTopLemma ==
    ASSUME NEW S, NEW s \in Seq(S), s # <<>>, NEW f \in S, NEW t,
           t = [s EXCEPT ![Len(s)] = f]
    PROVE  /\ t \in Seq(S) /\ Len(t) = Len(s) /\ t # <<>>
           /\ Len(s) \in DOMAIN s /\ DOMAIN t = DOMAIN s
           /\ t[Len(t)] = f
           /\ \A i \in DOMAIN s : i # Len(s) => t[i] = s[i]
OBVIOUS

\* ... and with one more activation on it.
LEMMA PushLemma ==
    ASSUME NEW S, NEW s \in Seq(S), NEW f \in S, NEW t, t = Append(s, f)
    PROVE  /\ t \in Seq(S) /\ Len(t) = Len(s) + 1 /\ t # <<>>
           /\ DOMAIN t = 1..(Len(s) + 1)
           /\ t[Len(t)] = f
           /\ \A i \in DOMAIN s : i \in DOMAIN t /\ i # Len(t) /\ t[i] = s[i]
           /\ \A i \in DOMAIN t : i # Len(t) => i \in DOMAIN s
OBVIOUS

-----------------------------------------------------------------------------
(* Winners.                                                                 *)

\* A single winner is what CHOOSE picks.
LEMMA OneWinner ==
    ASSUME NEW w, IsFiniteSet(w), Cardinality(w) = 1
    PROVE  \E i : w = {i} /\ (CHOOSE j \in w : TRUE) = i
<1>1. PICK i : w = {i}
  BY FS_Singleton
<1> QED BY <1>1

-----------------------------------------------------------------------------
(* The inductive invariant.                                                 *)

\* Before the first step nothing is cached and nothing runs.
LEMMA InitInd == Init => IndInv
<1> SUFFICES ASSUME Init PROVE IndInv
  OBVIOUS
<1>1. DOMAIN stack = {} /\ DOMAIN caches = {} /\ Len(caches) = 0
  BY DEF Init
<1>2. TypeOK
  BY <1>1, DispatchAssumption DEF Init, TypeOK, Idle, Failed, Outcomes, None
<1>3. ~Walking
  BY DEF Init, Walking
<1> QED BY <1>1, <1>2, <1>3 DEF IndInv, CachesSorted, FramesOK,
           PureWalkUndisturbed, PureWalkExact, CacheSound

\* Entries stay justified while default traits are only ever added.
LEMMA CacheSoundStable ==
    ASSUME CacheSound, caches' = caches, default \subseteq default'
    PROVE  CacheSound'
<1> SUFFICES ASSUME NEW k \in DOMAIN caches, NEW key \in DOMAIN caches[k].entries,
                    NEW cap \in Captures, KeyOf(cap) = key
             PROVE  Justified(caches[k], cap, caches[k].entries[key])'
  BY DEF CacheSound, KeyOf
<1>1. Justified(caches[k], cap, caches[k].entries[key])
  BY DEF CacheSound
<1> QED BY <1>1 DEF Justified

\* Steps of user code that neither enter nor leave a dispatch.
LEMMA UserStep ==
    ASSUME IndInv, UserRuns, stack' = stack, caches' = caches,
           default \subseteq default', TypeOK'
    PROVE  IndInv'
<1>1. CachesSorted'
  BY DEF IndInv, CachesSorted
<1>2. FramesOK'
  BY DEF IndInv, FramesOK, List
<1>3. ~Walking'
  BY DEF UserRuns, Walking, Top
<1>4. PureWalkUndisturbed' /\ PureWalkExact'
  BY <1>3 DEF PureWalkUndisturbed, PureWalkExact
<1>5. CacheSound'
  BY CacheSoundStable DEF IndInv
<1> QED BY <1>1, <1>2, <1>4, <1>5 DEF IndInv

\* No dispatch in progress counts as an outcome.
LEMMA IdleType == Idle \in Outcomes
BY DEF Idle, Failed, Outcomes

\* A declaration drops the dispatcher's cache, so what it claims holds trivially.
LEMMA DeclareInd == IndInv /\ Declare => IndInv'
<1> SUFFICES ASSUME IndInv, Declare PROVE IndInv'
  OBVIOUS
<1> USE IdleType
<1>1. TypeOK
  BY DEF IndInv
<1>2. ASSUME NEW d \in Dispatchers, NewDispatcher(d)
      PROVE  UserRuns /\ stack' = stack /\ caches' = caches
             /\ default \subseteq default' /\ TypeOK'
  BY <1>1, <1>2 DEF NewDispatcher, TypeOK
<1>3. ASSUME NEW d \in Dispatchers, NEW c \in Cands, AddDispatchee(d, c)
      PROVE  UserRuns /\ stack' = stack /\ caches' = caches
             /\ default \subseteq default' /\ TypeOK'
  <2>1. Append(arrays[arrayOf[d]], c) \in Seq(Cands)
    BY <1>1 DEF TypeOK
  <2>2. 0 \in 0..Len(caches)
    BY <1>1 DEF TypeOK
  <2> QED BY <1>1, <1>3, <2>1, <2>2 DEF AddDispatchee, TypeOK
<1>4. ASSUME NEW d \in Dispatchers, NEW e \in Dispatchers, CloneDispatcher(d, e)
      PROVE  UserRuns /\ stack' = stack /\ caches' = caches
             /\ default \subseteq default' /\ TypeOK'
  BY <1>1, <1>4 DEF CloneDispatcher, TypeOK
<1>5. ASSUME NEW d \in Dispatchers, NEW e \in Dispatchers, DeriveDispatcher(d, e)
      PROVE  UserRuns /\ stack' = stack /\ caches' = caches
             /\ default \subseteq default' /\ TypeOK'
  BY <1>1, <1>5 DEF DeriveDispatcher, TypeOK, ListOf
<1>6. ASSUME NEW c \in Cands, SetDefault(c)
      PROVE  UserRuns /\ stack' = stack /\ caches' = caches
             /\ default \subseteq default' /\ TypeOK'
  BY <1>1, <1>6 DEF SetDefault, TypeOK
<1> QED BY <1>2, <1>3, <1>4, <1>5, <1>6, UserStep DEF Declare

\* An answer from the cache changes nothing.
LEMMA CacheHitInd ==
    ASSUME IndInv, NEW d \in Dispatchers, NEW cap \in Captures,
           DispatchFromCache(d, cap)
    PROVE  IndInv'
<1>1. TypeOK
  BY DEF IndInv
<1> DEFINE k == cacheOf[d]
<1>2. k \in DOMAIN caches
  BY <1>1 DEF DispatchFromCache, Cached, TypeOK
<1>3. caches[k] \in CacheRecs
  BY <1>1, <1>2 DEF TypeOK
<1>4. \A key \in DOMAIN caches[k].entries : caches[k].entries[key] \in Cands
  BY <1>3 DEF CacheRecs
<1>5. caches[k].entries[KeyOf(cap)] \in Cands
  BY <1>4 DEF DispatchFromCache, Cached
<1>6. result' \in Outcomes
  BY <1>5 DEF DispatchFromCache, Chosen, Outcomes
<1>7. TypeOK'
  BY <1>1, <1>6 DEF DispatchFromCache, TypeOK
<1> QED BY <1>7, UserStep DEF DispatchFromCache

\* Nor does a sort that finds a circularity.
LEMMA CircularInd ==
    ASSUME IndInv, NEW d \in Dispatchers, NEW cap \in Captures,
           DispatchCircular(d, cap)
    PROVE  IndInv'
<1>1. result' \in Outcomes
  BY DEF DispatchCircular, Failed, Outcomes
<1>2. TypeOK'
  BY <1>1 DEF DispatchCircular, TypeOK, IndInv
<1> QED BY <1>2, UserStep DEF DispatchCircular

\* The activation a dispatch begins with.
LEMMA NewFrameType ==
    ASSUME NEW d \in Dispatchers, NEW cap \in Captures, NEW k \in Nat,
           NEW many \in BOOLEAN
    PROVE  NewFrame(d, cap, k, many) \in Frames
BY DEF NewFrame, Frames

\* A dispatch that begins over a cache k, new or not.
LEMMA BeginOver ==
    ASSUME IndInv, NEW d \in Dispatchers, NEW cap \in Captures,
           NEW many \in BOOLEAN, NEW k, UserRuns,
           k \in DOMAIN caches', cacheOf'[d] = k,
           stack' = Append(stack, NewFrame(d, cap, k, many)),
           many \/ Arity(cap) > MaxArity \/ KeyOf(cap) \notin DOMAIN caches'[k].entries,
           \A i \in DOMAIN caches : i \in DOMAIN caches' /\ caches'[i] = caches[i],
           caches' \in Seq(CacheRecs), cacheOf' \in [Dispatchers -> 0..Len(caches')],
           CachesSorted', CacheSound',
           result' = Idle, UNCHANGED <<live, arrayOf, arrays, owner, default>>
    PROVE  IndInv'
<1> DEFINE f == NewFrame(d, cap, k, many)
<1>1. TypeOK /\ FramesOK
  BY DEF IndInv
<1>2. k \in Nat
  OBVIOUS
<1>3. f \in Frames
  BY <1>2, NewFrameType
<1>4. stack \in Seq(Frames)
  BY <1>1 DEF TypeOK
<1> HIDE DEF f
<1>5. /\ stack' \in Seq(Frames) /\ Len(stack') = Len(stack) + 1 /\ stack' # <<>>
      /\ DOMAIN stack' = 1..(Len(stack) + 1)
      /\ stack'[Len(stack')] = f
      /\ \A i \in DOMAIN stack : /\ i \in DOMAIN stack' /\ i # Len(stack')
                                 /\ stack'[i] = stack[i]
      /\ \A i \in DOMAIN stack' : i # Len(stack') => i \in DOMAIN stack
  BY <1>3, <1>4, PushLemma DEF f
<1>6. /\ f.disp = d /\ f.cap = cap /\ f.cache = k /\ f.group = 0 /\ f.todo = {}
      /\ f.kept = {} /\ f.found = {} /\ f.mode = "walk" /\ f.many = many
  BY DEF f, NewFrame
<1>7. TypeOK'
  <2>1. \A i \in DOMAIN stack' : stack'[i].cache \in DOMAIN caches'
    BY <1>1, <1>5, <1>6 DEF TypeOK
  <2> QED BY <1>1, <1>5, <2>1, IdleType DEF TypeOK
<1>8. FramesOK'
  <2> SUFFICES ASSUME NEW i \in DOMAIN stack'
               PROVE  /\ stack'[i].todo \subseteq DOMAIN List(stack[i])'
                      /\ stack'[i].kept \subseteq DOMAIN List(stack[i])'
                      /\ stack'[i].found \subseteq DOMAIN List(stack[i])'
                      /\ stack'[i].group \in 0..Len(List(stack[i])')
                      /\ stack'[i].mode = "user" => stack'[i].todo # {}
                      /\ i < Len(stack') => stack'[i].mode = "user"
    BY DEF FramesOK
  <2>1. CASE i = Len(stack')
    <3>0. caches'[k] \in CacheRecs
      OBVIOUS
    <3>1. caches'[k].source \in Seq(Cands)
      BY <3>0 DEF CacheRecs
    <3>2. Len(caches'[k].source) \in Nat
      BY <3>1
    <3> QED BY <2>1, <3>2, <1>5, <1>6 DEF List
  <2>2. CASE i # Len(stack')
    <3>1. i \in DOMAIN stack /\ stack'[i] = stack[i]
      BY <2>2, <1>5
    <3>2. stack[i].cache \in DOMAIN caches
      BY <3>1, <1>1 DEF TypeOK
    <3>3. List(stack[i])' = List(stack[i])
      BY <3>1, <3>2 DEF List
    <3>4. stack[i].mode = "user"
      <4>1. CASE i < Len(stack)
        BY <4>1, <3>1, <1>1 DEF FramesOK
      <4>2. CASE i = Len(stack)
        BY <4>2, <3>1, <1>4 DEF UserRuns, Top
      <4> QED BY <4>1, <4>2, <3>1, <1>4
    <3> QED BY <3>1, <3>3, <3>4, <1>1 DEF FramesOK
  <2> QED BY <2>1, <2>2
<1>9. Top' = f
  BY <1>5 DEF Top
<1>10. PureWalkUndisturbed'
  BY <1>6, <1>9 DEF PureWalkUndisturbed
<1>11. PureWalkExact'
  BY <1>6, <1>9 DEF PureWalkExact
<1> QED BY <1>7, <1>8, <1>10, <1>11 DEF IndInv

\* A dispatch that begins, over the cache there is or over a new one.
LEMMA BeginInd ==
    ASSUME IndInv, NEW d \in Dispatchers, NEW cap \in Captures,
           NEW many \in BOOLEAN, BeginDispatch(d, cap, many)
    PROVE  IndInv'
<1>1. TypeOK /\ CachesSorted /\ CacheSound
  BY DEF IndInv
<1>2. /\ caches \in Seq(CacheRecs) /\ cacheOf \in [Dispatchers -> 0..Len(caches)]
      /\ Len(caches) \in Nat /\ DOMAIN caches = 1..Len(caches)
  BY <1>1 DEF TypeOK
<1>3. UserRuns /\ result' = Idle /\ UNCHANGED <<live, arrayOf, arrays, owner, default>>
  BY DEF BeginDispatch
<1>4. CASE cacheOf[d] # 0
  <2>1. stack' = Append(stack, NewFrame(d, cap, cacheOf[d], many))
        /\ UNCHANGED <<cacheOf, caches>>
    BY <1>4 DEF BeginDispatch
  <2>2. cacheOf[d] \in DOMAIN caches
    BY <1>2, <1>4
  <2>3. many \/ Arity(cap) > MaxArity
        \/ KeyOf(cap) \notin DOMAIN caches[cacheOf[d]].entries
    <3>1. Arity(cap) \in Nat
      BY CaptureAssumption DEF CaptureType, Arity
    <3> QED BY <3>1, <1>4, DispatchAssumption DEF BeginDispatch, Cached
  <2>4. CachesSorted' /\ CacheSound'
    BY <2>1, <1>1, <1>3, CacheSoundStable DEF CachesSorted
  <2> QED BY <1>2, <1>3, <2>1, <2>2, <2>3, <2>4, BeginOver
<1>5. CASE cacheOf[d] = 0
  <2> DEFINE k == Len(caches) + 1
             rec == [source |-> ListOf(d), groups |-> Sorted(ListOf(d)),
                     entries |-> NoEntries]
  <2>1. /\ caches' = Append(caches, rec)
        /\ cacheOf' = [cacheOf EXCEPT ![d] = k]
        /\ stack' = Append(stack, NewFrame(d, cap, k, many))
    BY <1>5 DEF BeginDispatch
  <2>2. ListOf(d) \in Seq(Cands)
    BY <1>1 DEF TypeOK, ListOf
  <2>3. NoEntries \in [{} -> Cands]
    BY DEF NoEntries
  <2>4. NoEntries \in UNION {[S -> Cands] : S \in SUBSET Keys}
    <3>1. {} \in SUBSET Keys
      OBVIOUS
    <3> QED BY <2>3, <3>1
  <2>5. rec \in CacheRecs
    BY <2>2, <2>4, SortedType DEF CacheRecs
  <2>6. rec.source = ListOf(d) /\ rec.groups = Sorted(ListOf(d))
        /\ DOMAIN rec.entries = {}
    BY DEF NoEntries
  <2> HIDE DEF rec
  <2>7. /\ caches' \in Seq(CacheRecs) /\ Len(caches') = Len(caches) + 1
        /\ DOMAIN caches' = 1..(Len(caches) + 1)
        /\ caches'[k] = rec
        /\ \A i \in DOMAIN caches : i \in DOMAIN caches' /\ caches'[i] = caches[i]
        /\ \A i \in DOMAIN caches' : i # k => i \in DOMAIN caches
    BY <2>1, <2>5, <1>2, PushLemma
  <2>8. CachesSorted'
    BY <2>6, <2>7, <1>1 DEF CachesSorted
  <2>9. CacheSound'
    <3> SUFFICES ASSUME NEW i \in DOMAIN caches', NEW key \in DOMAIN caches'[i].entries,
                        NEW c \in Captures, KeyOf(c) = key
                 PROVE  Justified(caches[i], c, caches[i].entries[key])'
      BY DEF CacheSound, KeyOf
    <3>1. i # k
      BY <2>6, <2>7
    <3>2. i \in DOMAIN caches /\ caches'[i] = caches[i]
      BY <3>1, <2>7
    <3>3. Justified(caches[i], c, caches[i].entries[key])
      BY <3>2, <1>1 DEF CacheSound
    <3> QED BY <3>2, <3>3, <1>3 DEF Justified
  <2>10. cacheOf' \in [Dispatchers -> 0..Len(caches')] /\ cacheOf'[d] = k
    <3>1. 0..Len(caches) \subseteq 0..Len(caches') /\ k \in 0..Len(caches')
      BY <1>2, <2>7
    <3> QED BY <3>1, <2>1, <1>2
  <2>11. k \in DOMAIN caches' /\ KeyOf(cap) \notin DOMAIN caches'[k].entries
    BY <2>6, <2>7, <1>2
  <2> HIDE DEF k
  <2> QED BY <1>3, <2>1, <2>7, <2>8, <2>9, <2>10, <2>11, BeginOver
<1> QED BY <1>4, <1>5

-----------------------------------------------------------------------------
(* The walk.  f is what becomes of the innermost activation.                *)

\* What the invariant says of the innermost activation.
LEMMA TopFacts ==
    ASSUME IndInv, stack # <<>>
    PROVE  /\ stack \in Seq(Frames) /\ Len(stack) \in DOMAIN stack
           /\ Top \in Frames /\ Top.cache \in DOMAIN caches
           /\ caches[Top.cache] \in CacheRecs
           /\ List(Top) \in Seq(Cands)
           /\ caches[Top.cache].groups = Sorted(List(Top))
           /\ Top.todo \subseteq DOMAIN List(Top) /\ Top.kept \subseteq DOMAIN List(Top)
           /\ Top.found \subseteq DOMAIN List(Top)
           /\ Top.group \in 0..Len(List(Top))
           /\ Top.mode = "user" => Top.todo # {}
<1>1. stack \in Seq(Frames) /\ caches \in Seq(CacheRecs)
  BY DEF IndInv, TypeOK
<1>2. Len(stack) \in DOMAIN stack
  BY <1>1
<1>3. Top \in Frames
  BY <1>1, <1>2 DEF Top
<1>4. Top.cache \in DOMAIN caches
  BY <1>2 DEF IndInv, TypeOK, Top
<1>5. caches[Top.cache] \in CacheRecs
  BY <1>1, <1>4
<1>6. List(Top) \in Seq(Cands)
  BY <1>5 DEF List, CacheRecs
<1>7. caches[Top.cache].groups = Sorted(List(Top))
  BY <1>4 DEF IndInv, CachesSorted, List
<1> QED BY <1>1, <1>2, <1>3, <1>4, <1>5, <1>6, <1>7 DEF IndInv, FramesOK, Top

\* The admissible positions of a group are positions in the list walked.
LEMMA PossiblesInList ==
    ASSUME IndInv, stack # <<>>, NEW k \in DOMAIN List(Top)
    PROVE  PossiblesIn(Top, k) \subseteq DOMAIN List(Top)
BY TopFacts, SortedType DEF PossiblesIn, Possibles

\* Walking on keeps the invariant if the activation's own part of it is kept.
LEMMA SetTopInd ==
    ASSUME IndInv, stack # <<>>, NEW f \in Frames, SetTop(f), Silent,
           f.disp = Top.disp, f.cap = Top.cap, f.cache = Top.cache, f.many = Top.many,
           f.todo \subseteq DOMAIN List(Top), f.kept \subseteq DOMAIN List(Top),
           f.found \subseteq DOMAIN List(Top), f.group \in 0..Len(List(Top)),
           f.mode = "user" => f.todo # {},
           (f.mode = "walk" /\ f.pure) =>
                /\ Top.mode = "walk" /\ Top.pure
                /\ ~f.many =>
                     /\ \A j \in 1..(f.group - 1) : PossiblesIn(Top, j) = {}
                     /\ f.group = 0 => f.todo = {} /\ f.kept = {}
                     /\ f.group # 0 => f.todo \cup f.kept = PossiblesIn(Top, f.group)
                     /\ \A i \in f.kept : ~Info[List(Top)[i]].bindCheck
    PROVE  IndInv'
<1>1. TypeOK /\ FramesOK /\ CachesSorted /\ CacheSound /\ PureWalkUndisturbed
  BY DEF IndInv
<1>2. /\ stack' \in Seq(Frames) /\ Len(stack') = Len(stack) /\ stack' # <<>>
      /\ DOMAIN stack' = DOMAIN stack /\ Len(stack) \in DOMAIN stack
      /\ stack'[Len(stack')] = f
      /\ \A i \in DOMAIN stack : i # Len(stack) => stack'[i] = stack[i]
  BY TopFacts, SetTopLemma DEF SetTop
<1>3. UNCHANGED <<heap, caches>> /\ result' = Idle
  BY DEF Silent
<1>4. Top' = f /\ List(f)' = List(Top) /\ f.cache \in DOMAIN caches
  BY <1>2, <1>3, TopFacts DEF Top, List
<1>5. TypeOK'
  <2>1. \A i \in DOMAIN stack' : stack'[i].cache \in DOMAIN caches'
    BY <1>1, <1>2, <1>3, <1>4 DEF TypeOK
  <2> QED BY <1>1, <1>2, <1>3, <2>1, IdleType DEF TypeOK, heap
<1>6. CachesSorted'
  BY <1>1, <1>3 DEF CachesSorted
<1>7. CacheSound'
  BY <1>1, <1>3, CacheSoundStable DEF heap
<1>8. FramesOK'
  <2> SUFFICES ASSUME NEW i \in DOMAIN stack'
               PROVE  /\ stack'[i].todo \subseteq DOMAIN List(stack[i])'
                      /\ stack'[i].kept \subseteq DOMAIN List(stack[i])'
                      /\ stack'[i].found \subseteq DOMAIN List(stack[i])'
                      /\ stack'[i].group \in 0..Len(List(stack[i])')
                      /\ stack'[i].mode = "user" => stack'[i].todo # {}
                      /\ i < Len(stack') => stack'[i].mode = "user"
    BY DEF FramesOK
  <2>1. CASE i = Len(stack)
    <3>1. stack'[i] = f /\ List(stack[i])' = List(Top)
      BY <2>1, <1>2, <1>3, <1>4 DEF List
    <3>2. ~(i < Len(stack'))
      BY <2>1, <1>2, TopFacts
    <3> QED BY <3>1, <3>2
  <2>2. CASE i # Len(stack)
    <3>1. i \in DOMAIN stack /\ stack'[i] = stack[i] /\ List(stack[i])' = List(stack[i])
      BY <2>2, <1>2, <1>3 DEF List
    <3> QED BY <3>1, <1>1, <1>2 DEF FramesOK
  <2> QED BY <2>1, <2>2
<1>9. \A j : PossiblesIn(f, j)' = PossiblesIn(Top, j)
  BY <1>3, <1>4 DEF PossiblesIn, List, Possibles
<1>10. PureWalkExact'
  BY <1>4, <1>9 DEF PureWalkExact, Walking
<1>11. PureWalkUndisturbed'
  BY <1>1, <1>3, <1>4 DEF PureWalkUndisturbed, Walking, heap
<1> QED BY <1>5, <1>6, <1>7, <1>8, <1>10, <1>11 DEF IndInv

\* The candidate looked at next is one of those still to be looked at.
LEMMA FirstInTodo ==
    ASSUME IndInv, stack # <<>>, Top.todo # {}
    PROVE  /\ First(Top) \in Top.todo
           /\ First(Top) \in DOMAIN List(Top)
<1>1. Top.todo \subseteq Nat
  BY TopFacts DEF Frames
<1>2. PICK n \in Top.todo : \A j \in Top.todo : n <= j
  BY <1>1, LeastNumber
<1>3. First(Top) \in Top.todo
  BY <1>2 DEF First
<1> QED BY <1>3, TopFacts

\* The next group: those before it gave no candidate.
LEMMA NextGroupInd == IndInv /\ NextGroup => IndInv'
<1> SUFFICES ASSUME IndInv, NextGroup PROVE IndInv'
  OBVIOUS
<1>1. Walking /\ stack # <<>> /\ Top.mode = "walk" /\ Silent
      /\ Top.todo = {} /\ Top.kept = {}
  BY DEF NextGroup, Walking
<1>2. PICK k \in GroupsLeft(Top) :
         /\ \A j \in GroupsLeft(Top) : k <= j
         /\ SetTop([Top EXCEPT !.group = k, !.todo = PossiblesIn(Top, k)])
  BY DEF NextGroup
<1>3. k \in DOMAIN List(Top) /\ k > Top.group
  BY <1>2 DEF GroupsLeft
<1>4. Top \in Frames /\ DOMAIN List(Top) = 1..Len(List(Top)) /\ Len(List(Top)) \in Nat
  BY <1>1, TopFacts
<1>5. PossiblesIn(Top, k) \subseteq DOMAIN List(Top)
  BY <1>1, <1>3, PossiblesInList
<1> DEFINE f == [Top EXCEPT !.group = k, !.todo = PossiblesIn(Top, k)]
<1>6. /\ f \in Frames /\ f.disp = Top.disp /\ f.cap = Top.cap /\ f.cache = Top.cache
      /\ f.many = Top.many /\ f.todo = PossiblesIn(Top, k) /\ f.kept = {}
      /\ f.found = Top.found /\ f.group = k /\ f.mode = "walk" /\ f.pure = Top.pure
  <2>1. k \in Nat /\ DOMAIN List(Top) \subseteq Nat
    BY <1>3, <1>4
  <2>2. PossiblesIn(Top, k) \in SUBSET Nat
    BY <2>1, <1>5
  <2> QED BY <1>1, <1>4, <2>1, <2>2 DEF Frames
<1>7. ASSUME Top.pure, ~Top.many
      PROVE  \A j \in 1..(k - 1) : PossiblesIn(Top, j) = {}
  <2>1. /\ \A j \in 1..(Top.group - 1) : PossiblesIn(Top, j) = {}
        /\ Top.group # 0 => PossiblesIn(Top, Top.group) = {}
    BY <1>1, <1>7 DEF IndInv, PureWalkExact
  <2>2. Top.group \in Nat /\ k \in Nat
    BY <1>4, <1>3 DEF Frames
  <2> SUFFICES ASSUME NEW j \in 1..(k - 1) PROVE PossiblesIn(Top, j) = {}
    OBVIOUS
  <2>3. CASE j > Top.group
    BY <2>2, <2>3, <1>2, <1>3, <1>4 DEF GroupsLeft
  <2>4. CASE j <= Top.group
    BY <2>1, <2>2, <2>4
  <2> QED BY <2>2, <2>3, <2>4
<1>8. SetTop(f)
  BY <1>2
<1>9. f.group \in 0..Len(List(Top)) /\ f.group # 0
  BY <1>3, <1>4, <1>6
<1> HIDE DEF f
<1> QED BY <1>1, <1>4, <1>5, <1>6, <1>7, <1>8, <1>9, TopFacts, SetTopInd

\* A missing named argument makes the result impure.
LEMMA EliminateInd == IndInv /\ EliminateByName => IndInv'
<1> SUFFICES ASSUME IndInv, EliminateByName PROVE IndInv'
  OBVIOUS
<1>1. stack # <<>> /\ Top.mode = "walk" /\ Silent
  BY DEF EliminateByName, Walking
<1> DEFINE f == [Top EXCEPT !.todo = @ \ {First(Top)}, !.pure = FALSE]
<1>2. SetTop(f)
  BY DEF EliminateByName
<1>3. /\ f \in Frames /\ f.disp = Top.disp /\ f.cap = Top.cap /\ f.cache = Top.cache
      /\ f.many = Top.many /\ f.todo \subseteq Top.todo /\ f.kept = Top.kept
      /\ f.found = Top.found /\ f.group = Top.group /\ f.mode = "walk" /\ ~f.pure
  BY <1>1, TopFacts DEF Frames
<1> HIDE DEF f
<1> QED BY <1>1, <1>2, <1>3, TopFacts, SetTopInd

\* A candidate accepted on its types alone keeps a pure result pure.
LEMMA AcceptInd == IndInv /\ AcceptNominal => IndInv'
<1> SUFFICES ASSUME IndInv, AcceptNominal PROVE IndInv'
  OBVIOUS
<1>1. stack # <<>> /\ Top.mode = "walk" /\ Silent /\ Top.todo # {}
      /\ ~Info[Cand(Top)].bindCheck
  BY DEF AcceptNominal, Walking
<1> DEFINE f == [Top EXCEPT !.todo = @ \ {First(Top)}, !.kept = @ \cup {First(Top)}]
<1>2. SetTop(f)
  BY DEF AcceptNominal
<1>3. First(Top) \in Top.todo /\ First(Top) \in DOMAIN List(Top)
  BY <1>1, FirstInTodo
<1>4. /\ f \in Frames /\ f.disp = Top.disp /\ f.cap = Top.cap /\ f.cache = Top.cache
      /\ f.many = Top.many /\ f.todo = Top.todo \ {First(Top)}
      /\ f.kept = Top.kept \cup {First(Top)}
      /\ f.found = Top.found /\ f.group = Top.group /\ f.mode = "walk"
      /\ f.pure = Top.pure
  BY <1>1, <1>3, TopFacts DEF Frames
<1>5. ASSUME Top.pure, ~Top.many
      PROVE  /\ \A j \in 1..(Top.group - 1) : PossiblesIn(Top, j) = {}
             /\ Top.group # 0
             /\ f.todo \cup f.kept = PossiblesIn(Top, Top.group)
             /\ \A i \in f.kept : ~Info[List(Top)[i]].bindCheck
  BY <1>1, <1>3, <1>4, <1>5 DEF IndInv, PureWalkExact, Walking, Cand
<1> HIDE DEF f
<1> QED BY <1>1, <1>2, <1>3, <1>4, <1>5, TopFacts, SetTopInd

\* Control passes to user code ...
LEMMA BeginCheckInd == IndInv /\ BeginBindCheck => IndInv'
<1> SUFFICES ASSUME IndInv, BeginBindCheck PROVE IndInv'
  OBVIOUS
<1>1. stack # <<>> /\ Top.todo # {} /\ Silent
  BY DEF BeginBindCheck, Walking
<1> DEFINE f == [Top EXCEPT !.mode = "user"]
<1>2. SetTop(f)
  BY DEF BeginBindCheck
<1>3. /\ f \in Frames /\ f.disp = Top.disp /\ f.cap = Top.cap /\ f.cache = Top.cache
      /\ f.many = Top.many /\ f.todo = Top.todo /\ f.kept = Top.kept
      /\ f.found = Top.found /\ f.group = Top.group /\ f.mode = "user"
  BY <1>1, TopFacts DEF Frames
<1> HIDE DEF f
<1> QED BY <1>1, <1>2, <1>3, TopFacts, SetTopInd

\* ... and comes back to a walk that is no longer pure.
LEMMA EndCheckInd ==
    ASSUME IndInv, NEW ok \in BOOLEAN, EndBindCheck(ok)
    PROVE  IndInv'
<1>1. stack # <<>> /\ Top.mode = "user" /\ Silent
  BY DEF EndBindCheck
<1>2. Top.todo # {} /\ First(Top) \in DOMAIN List(Top)
  BY <1>1, TopFacts, FirstInTodo
<1> DEFINE f == [Top EXCEPT !.mode = "walk", !.todo = @ \ {First(Top)}, !.pure = FALSE,
                           !.kept = IF ok THEN @ \cup {First(Top)} ELSE @]
<1>3. SetTop(f)
  BY DEF EndBindCheck
<1>4. First(Top) \in Nat /\ Top \in Frames
  BY <1>1, <1>2, TopFacts
<1>5. /\ f \in Frames /\ f.disp = Top.disp /\ f.cap = Top.cap /\ f.cache = Top.cache
      /\ f.many = Top.many /\ f.todo \subseteq Top.todo
      /\ f.kept \subseteq Top.kept \cup {First(Top)}
      /\ f.found = Top.found /\ f.group = Top.group /\ f.mode = "walk" /\ ~f.pure
  BY <1>4 DEF Frames
<1> HIDE DEF f
<1> QED BY <1>1, <1>2, <1>3, <1>5, TopFacts, SetTopInd

\* Matches are collected.
LEMMA CollectInd == IndInv /\ CollectMatches => IndInv'
<1> SUFFICES ASSUME IndInv, CollectMatches PROVE IndInv'
  OBVIOUS
<1>1. stack # <<>> /\ Top.mode = "walk" /\ Silent /\ Top.many
  BY DEF CollectMatches, Walking
<1> DEFINE f == [Top EXCEPT !.found = @ \cup Top.kept, !.kept = {}]
<1>2. SetTop(f)
  BY DEF CollectMatches
<1>3. /\ f \in Frames /\ f.disp = Top.disp /\ f.cap = Top.cap /\ f.cache = Top.cache
      /\ f.many = Top.many /\ f.todo = Top.todo /\ f.kept = {}
      /\ f.found = Top.found \cup Top.kept
      /\ f.group = Top.group /\ f.mode = "walk" /\ f.pure = Top.pure
  BY <1>1, TopFacts DEF Frames
<1> HIDE DEF f
<1> QED BY <1>1, <1>2, <1>3, TopFacts, SetTopInd

-----------------------------------------------------------------------------
(* Returning: the innermost activation goes, and what was below it is in a  *)
(* bind check.  caches may have gained an entry but no list has changed.    *)

\* An activation that ends leaves those below it as they were.
LEMMA PopInd ==
    ASSUME IndInv, stack # <<>>, Pop, UNCHANGED heap, result' \in Outcomes,
           caches' \in Seq(CacheRecs), Len(caches') = Len(caches),
           \A k \in DOMAIN caches : /\ caches'[k].source = caches[k].source
                                    /\ caches'[k].groups = caches[k].groups,
           CacheSound'
    PROVE  IndInv'
<1>1. TypeOK /\ FramesOK /\ CachesSorted
  BY DEF IndInv
<1>2. stack \in Seq(Frames) /\ caches \in Seq(CacheRecs)
  BY <1>1 DEF TypeOK
<1>3. DOMAIN caches' = DOMAIN caches
  BY <1>2
<1>4. /\ stack' \in Seq(Frames) /\ Len(stack') = Len(stack) - 1
      /\ DOMAIN stack' = 1..(Len(stack) - 1)
      /\ \A i \in DOMAIN stack' : /\ i \in DOMAIN stack /\ i < Len(stack)
                                  /\ stack'[i] = stack[i]
  <2>1. Len(stack) \in Nat /\ Len(stack) # 0 /\ DOMAIN stack = 1..Len(stack)
    BY <1>2
  <2>2. stack' = [i \in 1..(Len(stack) - 1) |-> stack[i]]
    BY <2>1 DEF Pop
  <2>3. stack' \in Seq(Frames) /\ Len(stack') = Len(stack) - 1
    BY <1>2, <2>1, <2>2
  <2> QED BY <2>1, <2>2, <2>3
<1>5. TypeOK'
  <2>1. \A i \in DOMAIN stack' : stack'[i].cache \in DOMAIN caches'
    BY <1>1, <1>3, <1>4 DEF TypeOK
  <2> QED BY <1>1, <1>4, <2>1 DEF TypeOK, heap
<1>6. CachesSorted'
  BY <1>1, <1>3 DEF CachesSorted
<1>7. ASSUME NEW i \in DOMAIN stack'
      PROVE  /\ stack'[i] = stack[i] /\ i \in DOMAIN stack
             /\ stack'[i].mode = "user" /\ List(stack[i])' = List(stack[i])
  <2>1. stack[i].cache \in DOMAIN caches
    BY <1>1, <1>4 DEF TypeOK
  <2> QED BY <1>1, <1>4, <2>1 DEF FramesOK, List
<1>8. FramesOK'
  BY <1>1, <1>7 DEF FramesOK
<1>9. ~Walking'
  <2>1. CASE stack' = <<>>
    BY <2>1 DEF Walking
  <2>2. CASE stack' # <<>>
    <3>1. Len(stack') \in DOMAIN stack'
      BY <2>2, <1>4
    <3> QED BY <3>1, <1>7 DEF Walking, Top
  <2> QED BY <2>1, <2>2
<1>10. PureWalkUndisturbed' /\ PureWalkExact'
  BY <1>9 DEF PureWalkUndisturbed, PureWalkExact
<1> QED BY <1>5, <1>6, <1>8, <1>10 DEF IndInv

\* An exception in a bind check ends the activation.
LEMMA DiesInd == IndInv /\ BindCheckDies => IndInv'
<1> SUFFICES ASSUME IndInv, BindCheckDies PROVE IndInv'
  OBVIOUS
<1>1. stack # <<>> /\ Pop /\ UNCHANGED <<heap, caches>>
  BY DEF BindCheckDies
<1>2. result' \in Outcomes
  BY DEF BindCheckDies, Failed, Outcomes
<1>3. CacheSound' /\ caches \in Seq(CacheRecs)
  BY <1>1, CacheSoundStable DEF IndInv, TypeOK, heap
<1> QED BY <1>1, <1>2, <1>3, PopInd

\* All matches are handed over.
LEMMA MatchesInd == IndInv /\ ReturnMatches => IndInv'
<1> SUFFICES ASSUME IndInv, ReturnMatches PROVE IndInv'
  OBVIOUS
<1>1. stack # <<>> /\ Pop /\ UNCHANGED <<heap, caches>>
  BY DEF ReturnMatches, Walking
<1>2. \A i \in Top.found : List(Top)[i] \in Cands
  BY <1>1, TopFacts
<1>3. result' \in Outcomes
  BY <1>2 DEF ReturnMatches, Outcomes
<1>4. CacheSound' /\ caches \in Seq(CacheRecs)
  BY <1>1, CacheSoundStable DEF IndInv, TypeOK, heap
<1> QED BY <1>1, <1>3, <1>4, PopInd

\* What a pure walk that found a single winner returns is justified in the
\* cache walked for every capture with the key of the one dispatched.
LEMMA WinnerJustified ==
    ASSUME IndInv, Walking, Decided(Top), Top.pure, NEW i \in Top.kept,
           Top.kept = {i} \/ List(Top)[i] \in default,
           NEW cap \in Captures, KeyOf(cap) = KeyOf(Top.cap)
    PROVE  Justified(caches[Top.cache], cap, List(Top)[i])
<1>1. stack # <<>> /\ ~Top.many /\ Top.todo = {}
  BY DEF Walking, Decided
<1> DEFINE g == Top.group
<1>2. /\ Top \in Frames /\ List(Top) \in Seq(Cands)
      /\ caches[Top.cache].groups = Sorted(List(Top))
      /\ g \in 0..Len(List(Top)) /\ Len(List(Top)) \in Nat
      /\ DOMAIN List(Top) = 1..Len(List(Top))
  BY <1>1, TopFacts
<1>3. /\ g # 0 /\ Top.kept = PossiblesIn(Top, g)
      /\ \A j \in 1..(g - 1) : PossiblesIn(Top, j) = {}
      /\ \A l \in Top.kept : ~Info[List(Top)[l]].bindCheck
  BY <1>1 DEF IndInv, PureWalkExact
<1>4. g \in DOMAIN List(Top)
  BY <1>2, <1>3
<1>5. DOMAIN Sorted(List(Top)) = DOMAIN List(Top)
  <2>1. Sorted(List(Top)) \in Seq(SUBSET Nat)
        /\ Len(Sorted(List(Top))) = Len(List(Top))
    BY <1>2, SortedType
  <2> QED BY <2>1, <1>2
<1>6. ASSUME NEW k \in DOMAIN List(Top)
      PROVE  Possibles(List(Top), caches[Top.cache].groups[k], cap)
             = PossiblesIn(Top, k)
  <2>1. Sorted(List(Top))[k] \subseteq DOMAIN List(Top)
    BY <1>2, SortedType
  <2>2. \A l \in Sorted(List(Top))[k] :
           Admissible(List(Top)[l], cap) = Admissible(List(Top)[l], Top.cap)
    <3>1. Top.cap \in Captures
      BY <1>2 DEF Frames
    <3> QED BY <3>1, <2>1, <1>2, AdmissibleByKey
  <2> QED BY <1>2, <2>2 DEF PossiblesIn, Possibles
<1>7. \A j \in 1..(g - 1) : j \in DOMAIN List(Top)
  BY <1>2
<1> HIDE DEF g
<1> QED BY <1>2, <1>3, <1>4, <1>5, <1>6, <1>7 DEF Justified, List

\* The entry added is of the right type, keeps every list and every other
\* entry, and leaves the cache sound.
LEMMA EntryAdded ==
    ASSUME IndInv, NEW k \in DOMAIN caches, NEW key \in Keys, NEW c \in Cands,
           \A cap \in Captures : KeyOf(cap) = key => Justified(caches[k], cap, c),
           caches' = WithEntry(k, key, c), default' = default
    PROVE  /\ caches' \in Seq(CacheRecs) /\ Len(caches') = Len(caches)
           /\ \A j \in DOMAIN caches : /\ caches'[j].source = caches[j].source
                                       /\ caches'[j].groups = caches[j].groups
           /\ CacheSound'
<1>1. caches \in Seq(CacheRecs) /\ CacheSound
  BY DEF IndInv, TypeOK
<1>2. CASE caches' = caches
  BY <1>1, <1>2, CacheSoundStable
<1>3. CASE caches' # caches
  <2> DEFINE old == caches[k].entries
             new == [x \in DOMAIN old \cup {key} |-> IF x = key THEN c ELSE old[x]]
             rec == [caches[k] EXCEPT !.entries = new]
  <2>1. caches' = [caches EXCEPT ![k] = rec]
    BY <1>3 DEF WithEntry
  <2>2. caches[k] \in CacheRecs
    BY <1>1
  <2>3. PICK S \in SUBSET Keys : old \in [S -> Cands]
    BY <2>2 DEF CacheRecs
  <2>4. new \in [S \cup {key} -> Cands]
    BY <2>3
  <2>5. new \in UNION {[T -> Cands] : T \in SUBSET Keys}
    <3>1. S \cup {key} \in SUBSET Keys
      OBVIOUS
    <3> HIDE DEF new
    <3> QED BY <3>1, <2>4
  <2>6. /\ rec \in CacheRecs /\ rec.source = caches[k].source
        /\ rec.groups = caches[k].groups /\ rec.entries = new
    <3> HIDE DEF new
    <3> QED BY <2>2, <2>5 DEF CacheRecs
  <2>7. /\ DOMAIN new = DOMAIN old \cup {key} /\ new[key] = c
        /\ \A x \in DOMAIN old : x # key => new[x] = old[x]
    OBVIOUS
  <2> HIDE DEF new, rec
  <2>8. /\ caches' \in Seq(CacheRecs) /\ Len(caches') = Len(caches)
        /\ DOMAIN caches' = DOMAIN caches /\ caches'[k] = rec
        /\ \A j \in DOMAIN caches : j # k => caches'[j] = caches[j]
    BY <1>1, <2>1, <2>6
  <2>9. CacheSound'
    <3> SUFFICES ASSUME NEW j \in DOMAIN caches', NEW x \in DOMAIN caches'[j].entries,
                        NEW cap \in Captures, KeyOf(cap) = x
                 PROVE  Justified(caches[j], cap, caches[j].entries[x])'
      BY DEF CacheSound, KeyOf
    <3>1. /\ j \in DOMAIN caches /\ caches'[j].source = caches[j].source
          /\ caches'[j].groups = caches[j].groups
      BY <2>6, <2>8
    <3>2. CASE j = k /\ x = key
      <4>1. caches'[j].entries[x] = c
        BY <3>2, <2>6, <2>7, <2>8
      <4>2. Justified(caches[j], cap, c)
        BY <3>2
      <4> QED BY <4>1, <4>2, <3>1 DEF Justified
    <3>3. CASE ~(j = k /\ x = key)
      <4>1. x \in DOMAIN caches[j].entries
            /\ caches'[j].entries[x] = caches[j].entries[x]
        BY <3>1, <3>3, <2>6, <2>7, <2>8
      <4>2. Justified(caches[j], cap, caches[j].entries[x])
        BY <4>1, <3>1, <1>1 DEF CacheSound
      <4> QED BY <4>1, <4>2, <3>1 DEF Justified
    <3> QED BY <3>2, <3>3
  <2> QED BY <2>6, <2>8, <2>9
<1> QED BY <1>2, <1>3

\* What ReturnBest answers, and from which of the candidates kept.
LEMMA VerdictOfTop ==
    ASSUME IndInv, stack # <<>>
    PROVE  LET winners == Winners(List(Top), Top.kept, default)
               verdict == Verdict(List(Top), winners, Top.cap)
           IN  /\ verdict \in Outcomes
               /\ Cardinality(winners) = 1 =>
                    \E i \in Top.kept :
                        /\ verdict = Chosen(List(Top)[i])
                        /\ verdict.cand = List(Top)[i]
                        /\ Top.kept = {i} \/ List(Top)[i] \in default
<1> DEFINE list == List(Top)
           kept == Top.kept
           def  == default
           cap  == Top.cap
           w    == Winners(list, kept, def)
<1>0. list \in Seq(Cands) /\ kept \subseteq DOMAIN list
  BY TopFacts
<1> HIDE DEF list, kept, def, cap
<1>1. w \subseteq kept /\ (w = kept \/ w = {i \in kept : list[i] \in def})
  BY DEF Winners
<1>2. IsFiniteSet(DOMAIN list)
  <2>1. DOMAIN list = 1..Len(list) /\ Len(list) \in Nat
    BY <1>0
  <2> QED BY <2>1, FS_Interval
<1>3. IsFiniteSet(w)
  BY <1>0, <1>1, <1>2, FS_Subset
<1>4. ASSUME Cardinality(w) = 1
      PROVE \E i \in kept : /\ Verdict(list, w, cap) = Chosen(list[i])
                            /\ Verdict(list, w, cap).cand = list[i]
                            /\ kept = {i} \/ list[i] \in def
  <2>1. PICK i : w = {i} /\ (CHOOSE j \in w : TRUE) = i
    BY <1>3, <1>4, OneWinner
  <2> HIDE DEF w
  <2>2. Verdict(list, w, cap) = Chosen(list[i])
    BY <1>4, <2>1 DEF Verdict
  <2>4. Verdict(list, w, cap).cand = list[i]
    BY <2>2 DEF Chosen
  <2>3. i \in kept /\ (kept = {i} \/ list[i] \in def)
    BY <1>1, <2>1
  <2> QED BY <2>2, <2>3, <2>4
<1>5. Verdict(list, w, cap) \in Outcomes
  <2>1. CASE Cardinality(w) = 1
    <3>1. PICK i \in kept : Verdict(list, w, cap) = Chosen(list[i])
      BY <1>4, <2>1
    <3>2. list[i] \in Cands
      BY <1>0
    <3> QED BY <3>1, <3>2 DEF Chosen, Outcomes
  <2>2. CASE Cardinality(w) # 1
    <3> HIDE DEF w
    <3> QED BY <2>2 DEF Verdict, Failed, Outcomes
  <2> QED BY <2>1, <2>2
<1> QED BY <1>4, <1>5 DEF list, kept, def, cap

\* The walk ends, with or without an entry for the cache.
LEMMA ReturnBestInd == IndInv /\ ReturnBest => IndInv'
<1> SUFFICES ASSUME IndInv, ReturnBest PROVE IndInv'
  OBVIOUS
<1> DEFINE winners == Winners(List(Top), Top.kept, default)
           verdict == Verdict(List(Top), winners, Top.cap)
<1>1. /\ Walking /\ stack # <<>> /\ Decided(Top) /\ Pop /\ UNCHANGED heap
      /\ result' = verdict
      /\ caches' = IF Cacheable(Top, winners)
                   THEN WithEntry(cacheOf[Top.disp], KeyOf(Top.cap), verdict.cand)
                   ELSE caches
  BY DEF ReturnBest, Walking
<1>2. /\ Top \in Frames /\ Top.cache \in DOMAIN caches /\ List(Top) \in Seq(Cands)
      /\ Top.kept \in SUBSET DOMAIN List(Top)
  BY <1>1, TopFacts
<1>3. /\ verdict \in Outcomes
      /\ Cardinality(winners) = 1 =>
           \E i \in Top.kept : /\ verdict.cand = List(Top)[i]
                               /\ Top.kept = {i} \/ List(Top)[i] \in default
  BY <1>1, VerdictOfTop
<1> HIDE DEF winners, verdict
<1>4. default' = default
  BY <1>1 DEF heap
<1>5. CASE Cacheable(Top, winners)
  <2>1. PICK i \in Top.kept : /\ verdict.cand = List(Top)[i]
                              /\ Top.kept = {i} \/ List(Top)[i] \in default
    BY <1>3, <1>5 DEF Cacheable
  <2>2. Top.pure
    BY <1>5 DEF Cacheable
  <2>3. verdict.cand = List(Top)[i] /\ List(Top)[i] \in Cands
    BY <1>2, <2>1
  <2>4. \A cap \in Captures : KeyOf(cap) = KeyOf(Top.cap) =>
           Justified(caches[Top.cache], cap, List(Top)[i])
    BY <1>1, <2>1, <2>2, WinnerJustified
  <2>5. cacheOf[Top.disp] = Top.cache
    BY <1>1, <2>2 DEF IndInv, PureWalkUndisturbed
  <2>6. KeyOf(Top.cap) \in Keys
    BY <1>2 DEF Frames, Keys
  <2>7. caches' = WithEntry(Top.cache, KeyOf(Top.cap), List(Top)[i])
    BY <1>1, <1>5, <2>3, <2>5
  <2> QED BY <1>1, <1>2, <1>3, <1>4, <2>3, <2>4, <2>6, <2>7, EntryAdded, PopInd
<1>6. CASE ~Cacheable(Top, winners)
  <2>1. CacheSound' /\ caches' = caches /\ caches \in Seq(CacheRecs)
    BY <1>1, <1>4, <1>6, CacheSoundStable DEF IndInv, TypeOK
  <2> QED BY <1>1, <1>3, <2>1, PopInd
<1> QED BY <1>5, <1>6

-----------------------------------------------------------------------------
(* The theorems.                                                            *)

\* Every step keeps the invariant.
LEMMA NextInd == IndInv /\ [Next]_vars => IndInv'
<1> SUFFICES ASSUME IndInv, [Next]_vars PROVE IndInv'
  OBVIOUS
<1>1. CASE Declare
  BY <1>1, DeclareInd
<1>2. CASE Call
  <2>1. PICK d \in Dispatchers, cap \in Captures :
           \/ DispatchFromCache(d, cap) \/ DispatchCircular(d, cap)
           \/ \E many \in BOOLEAN : BeginDispatch(d, cap, many)
    BY <1>2 DEF Call
  <2> QED BY <2>1, CacheHitInd, CircularInd, BeginInd
<1>3. CASE Walk
  BY <1>3, NextGroupInd, EliminateInd, AcceptInd, BeginCheckInd, CollectInd,
     MatchesInd, ReturnBestInd DEF Walk
<1>4. CASE UserEnds
  BY <1>4, DiesInd, EndCheckInd DEF UserEnds
<1>5. CASE UNCHANGED vars
  <2> SUFFICES ASSUME UNCHANGED vars PROVE IndInv'
    BY <1>5
  <2>1. TypeOK' /\ CachesSorted' /\ FramesOK'
    BY DEF vars, IndInv, TypeOK, CachesSorted, FramesOK, List
  <2>2. CacheSound'
    BY CacheSoundStable DEF vars, IndInv
  <2>3. \A j : PossiblesIn(Top, j)' = PossiblesIn(Top, j)
    BY DEF vars, PossiblesIn, List, Possibles, Top
  <2>4. PureWalkUndisturbed' /\ PureWalkExact'
    BY <2>3 DEF vars, IndInv, PureWalkUndisturbed, PureWalkExact, Walking, Top, List
  <2> QED BY <2>1, <2>2, <2>4 DEF IndInv
<1> QED BY <1>1, <1>2, <1>3, <1>4, <1>5 DEF Next

\* The invariant that carries the theorems below.
THEOREM Invariance == Spec => []IndInv
<1>1. Init => IndInv
  BY InitInd
<1>2. IndInv /\ [Next]_vars => IndInv'
  BY NextInd
<1> QED BY <1>1, <1>2, PTL DEF Spec

\* The heap of dispatchers, arrays, caches and activations is well formed: in
\* particular every activation walks a cache that exists.
THEOREM TypeCorrect == Spec => []TypeOK
<1>1. IndInv => TypeOK
  BY DEF IndInv
<1> QED BY <1>1, Invariance, PTL

\* Whatever an arity cache answers is what a walk of the groups it was made
\* from gives for every capture with that key, for any candidates, types,
\* captures and number of entries, and with dispatchers cloned and derived.
THEOREM CacheSoundness == Spec => []CacheSound
<1>1. IndInv => CacheSound
  BY DEF IndInv
<1> QED BY <1>1, Invariance, PTL

\* What add_to_cache is about to store belongs in the cache it is stored in,
\* however the bind checks of other dispatches were interleaved.
THEOREM PureWalks == Spec => []PureWalkUndisturbed
<1>1. IndInv => PureWalkUndisturbed
  BY DEF IndInv
<1> QED BY <1>1, Invariance, PTL

-----------------------------------------------------------------------------
(* What becomes of the caches: they are only ever added to.                 *)

\* Every cache is still there, made from the same candidates, with every entry
\* it had.
CachesGrow ==
    \A k \in DOMAIN caches :
        /\ k \in DOMAIN caches'
        /\ caches'[k].source = caches[k].source
        /\ caches'[k].groups = caches[k].groups
        /\ \A key \in DOMAIN caches[k].entries :
              /\ key \in DOMAIN caches'[k].entries
              /\ caches'[k].entries[key] = caches[k].entries[key]

\* An entry for a key that has none disturbs no other.
LEMMA NewEntryGrows ==
    ASSUME caches \in Seq(CacheRecs), NEW k \in DOMAIN caches, NEW key, NEW c,
           key \notin DOMAIN caches[k].entries, caches' = WithEntry(k, key, c)
    PROVE  CachesGrow
<1>1. CASE caches' = caches
  BY <1>1 DEF CachesGrow
<1>2. CASE caches' # caches
  <2> DEFINE old == caches[k].entries
             new == [x \in DOMAIN old \cup {key} |-> IF x = key THEN c ELSE old[x]]
             rec == [caches[k] EXCEPT !.entries = new]
  <2>1. caches' = [caches EXCEPT ![k] = rec]
    BY <1>2 DEF WithEntry
  <2>2. \A x \in DOMAIN old : x \in DOMAIN new /\ new[x] = old[x]
    OBVIOUS
  <2>3. caches[k] \in CacheRecs
    OBVIOUS
  <2>4. rec.source = caches[k].source /\ rec.groups = caches[k].groups
        /\ rec.entries = new
    <3> HIDE DEF new
    <3> QED BY <2>3 DEF CacheRecs
  <2> HIDE DEF new, rec
  <2>5. DOMAIN caches' = DOMAIN caches /\ caches'[k] = rec
        /\ \A j \in DOMAIN caches : j # k => caches'[j] = caches[j]
    BY <2>1
  <2> QED BY <2>2, <2>4, <2>5 DEF CachesGrow
<1> QED BY <1>1, <1>2

\* What ReturnBest does to the caches: nothing, or an entry for a new key.
LEMMA BestGrows == IndInv /\ ReturnBest => CachesGrow
<1> SUFFICES ASSUME IndInv, ReturnBest PROVE CachesGrow
  OBVIOUS
<1> DEFINE winners == Winners(List(Top), Top.kept, default)
           verdict == Verdict(List(Top), winners, Top.cap)
<1>1. /\ Walking /\ stack # <<>> /\ Decided(Top)
      /\ caches' = IF Cacheable(Top, winners)
                   THEN WithEntry(cacheOf[Top.disp], KeyOf(Top.cap), verdict.cand)
                   ELSE caches
  BY DEF ReturnBest, Walking
<1> HIDE DEF winners, verdict
<1>2. CASE Cacheable(Top, winners)
  <2>1. Top.pure /\ ~Top.many /\ ~(Arity(Top.cap) > MaxArity)
    <3>1. Top.cap \in Captures
      BY <1>1, TopFacts DEF Frames
    <3>2. Arity(Top.cap) \in Nat
      BY <3>1, CaptureAssumption DEF CaptureType, Arity
    <3> QED BY <3>2, <1>1, <1>2, DispatchAssumption DEF Cacheable, Decided
  <2>2. cacheOf[Top.disp] = Top.cache
        /\ KeyOf(Top.cap) \notin DOMAIN caches[Top.cache].entries
    BY <1>1, <2>1 DEF IndInv, PureWalkUndisturbed
  <2>3. Top.cache \in DOMAIN caches /\ caches \in Seq(CacheRecs)
    BY <1>1, TopFacts DEF IndInv, TypeOK
  <2> QED BY <1>1, <1>2, <2>2, <2>3, NewEntryGrows
<1>3. CASE ~Cacheable(Top, winners)
  BY <1>1, <1>3 DEF CachesGrow
<1> QED BY <1>2, <1>3

\* A dispatch may add a cache.
LEMMA BeginGrows ==
    ASSUME IndInv, NEW d \in Dispatchers, NEW cap \in Captures,
           NEW many \in BOOLEAN, BeginDispatch(d, cap, many)
    PROVE  CachesGrow
<1>1. caches \in Seq(CacheRecs)
  BY DEF IndInv, TypeOK
<1>2. caches' = caches \/ \E rec : caches' = Append(caches, rec)
  BY DEF BeginDispatch
<1>3. \A k \in DOMAIN caches : k \in DOMAIN caches' /\ caches'[k] = caches[k]
  BY <1>1, <1>2
<1> QED BY <1>3 DEF CachesGrow

\* Caches only grow.
LEMMA NextGrows == IndInv /\ [Next]_vars => CachesGrow
<1> SUFFICES ASSUME IndInv, [Next]_vars PROVE CachesGrow
  OBVIOUS
<1>1. CASE caches' = caches
  BY <1>1 DEF CachesGrow
<1>2. CASE Declare
  BY <1>1, <1>2 DEF Declare, NewDispatcher, AddDispatchee, CloneDispatcher,
     DeriveDispatcher, SetDefault
<1>3. CASE Call
  <2>1. PICK d \in Dispatchers, cap \in Captures :
           \/ DispatchFromCache(d, cap) \/ DispatchCircular(d, cap)
           \/ \E many \in BOOLEAN : BeginDispatch(d, cap, many)
    BY <1>3 DEF Call
  <2>2. CASE DispatchFromCache(d, cap) \/ DispatchCircular(d, cap)
    BY <1>1, <2>2 DEF DispatchFromCache, DispatchCircular
  <2>3. CASE \E many \in BOOLEAN : BeginDispatch(d, cap, many)
    BY <2>3, BeginGrows
  <2> QED BY <2>1, <2>2, <2>3
<1>4. CASE Walk
  <2>1. CASE ReturnBest
    BY <2>1, BestGrows
  <2>2. CASE ~ReturnBest
    BY <1>1, <1>4, <2>2 DEF Walk, NextGroup, EliminateByName, AcceptNominal,
       BeginBindCheck, CollectMatches, ReturnMatches, Silent
  <2> QED BY <2>1, <2>2
<1>5. CASE UserEnds
  BY <1>1, <1>5 DEF UserEnds, BindCheckDies, EndBindCheck, Silent
<1>6. CASE UNCHANGED vars
  BY <1>1, <1>6 DEF vars
<1> QED BY <1>2, <1>3, <1>4, <1>5, <1>6 DEF Next

\* Once a cache holds an answer for a key the answer stays, however many walks
\* of the same list are under way when it is stored: no walk that could store
\* a second one is pure.
THEOREM EntriesStay == Spec => EntriesStable
<1>1. IndInv /\ [Next]_vars =>
        [\A k \in DOMAIN caches : \A key \in DOMAIN caches[k].entries :
          /\ key \in DOMAIN caches'[k].entries
          /\ caches'[k].entries[key] = caches[k].entries[key]]_vars
  BY NextGrows DEF CachesGrow
<1> QED BY <1>1, Invariance, PTL DEF Spec, EntriesStable

-----------------------------------------------------------------------------
(* The links from dispatchers to their lists and caches.                    *)

\* Code objects that do not exist point nowhere; one that does points to the
\* array of one that does: its own, unless it came of a clone.
LinksOK ==
    /\ \A d \in Dispatchers \ live : arrayOf[d] = d /\ cacheOf[d] = 0
    /\ \A d \in live : arrayOf[d] \in live
    /\ ~MayClone => NoneCloned

\* The shared array of a clone may have grown past the cache of the original,
\* so that a cache is fresh only as long as no code object was cloned.
LinkInv == LinksOK /\ CacheReachable /\ CacheFresh

\* s is how t begins.
Prefix(s, t) == Len(s) <= Len(t) /\ \A i \in DOMAIN s : s[i] = t[i]

\* A prefix of a list is one of the longer list.
LEMMA PrefixAppend ==
    ASSUME NEW S, NEW s \in Seq(S), NEW t \in Seq(S), NEW c \in S, Prefix(s, t)
    PROVE  Prefix(s, Append(t, c))
BY DEF Prefix

\* The cache of a dispatcher is one of the caches and was made from candidates.
LEMMA CacheOfType ==
    ASSUME TypeOK, NEW d \in Dispatchers, cacheOf[d] # 0
    PROVE  cacheOf[d] \in DOMAIN caches /\ caches[cacheOf[d]].source \in Seq(Cands)
<1>1. cacheOf[d] \in DOMAIN caches
  BY DEF TypeOK
<1>2. caches[cacheOf[d]] \in CacheRecs
  BY <1>1 DEF TypeOK
<1> QED BY <1>1, <1>2 DEF CacheRecs

\* Steps that leave the dispatchers alone.
LEMMA LinksKept ==
    ASSUME IndInv, LinkInv, CachesGrow, UNCHANGED <<live, arrayOf, arrays, cacheOf>>
    PROVE  LinkInv'
<1>0. \A d \in live : d \in Dispatchers
  BY DEF IndInv, TypeOK
<1>1. \A d \in live : cacheOf[d] # 0 =>
         /\ cacheOf[d] \in DOMAIN caches
         /\ caches'[cacheOf[d]].source = caches[cacheOf[d]].source
  BY <1>0, CacheOfType DEF IndInv, CachesGrow
<1>2. \A d : ListOf(d)' = ListOf(d)
  BY DEF ListOf
<1>3. LinksOK'
  BY DEF LinkInv, LinksOK, NoneCloned
<1>4. CacheReachable'
  BY <1>1, <1>2 DEF LinkInv, CacheReachable
<1>5. CacheFresh'
  BY <1>1, <1>2 DEF LinkInv, CacheFresh, NoneCloned
<1> QED BY <1>3, <1>4, <1>5 DEF LinkInv

\* What LinkInv says of one dispatcher.
Linked(d) ==
    /\ arrayOf[d] \in live /\ (~MayClone => arrayOf[d] = d)
    /\ cacheOf[d] # 0 => /\ Prefix(caches[cacheOf[d]].source, ListOf(d))
                         /\ NoneCloned => caches[cacheOf[d]].source = ListOf(d)

\* LinkInv dispatcher by dispatcher, before a step ...
LEMMA LinkedEach ==
    LinkInv <=> /\ \A d \in Dispatchers \ live : arrayOf[d] = d /\ cacheOf[d] = 0
                /\ \A d \in live : Linked(d)
BY DEF LinkInv, LinksOK, Linked, Prefix, CacheReachable, CacheFresh, NoneCloned

\* ... and after it.
LEMMA LinkedEachNext ==
    ASSUME \A d \in Dispatchers \ live' : arrayOf'[d] = d /\ cacheOf'[d] = 0,
           \A d \in live' : Linked(d)'
    PROVE  LinkInv'
BY DEF LinkInv, LinksOK, Linked, Prefix, CacheReachable, CacheFresh, NoneCloned

\* A dispatcher nothing happens to.
LEMMA LinkedKept ==
    ASSUME IndInv, CachesGrow, NEW d \in live, Linked(d), d \in live',
           arrayOf[d] \in live', arrayOf'[d] = arrayOf[d],
           arrays'[arrayOf[d]] = arrays[arrayOf[d]], cacheOf'[d] = cacheOf[d],
           NoneCloned' => NoneCloned
    PROVE  Linked(d)'
<1>1. cacheOf[d] # 0 => /\ cacheOf[d] \in DOMAIN caches
                        /\ caches'[cacheOf[d]].source = caches[cacheOf[d]].source
  BY CacheOfType DEF IndInv, TypeOK, CachesGrow
<1>2. ListOf(d)' = ListOf(d)
  BY DEF ListOf
<1> QED BY <1>1, <1>2 DEF Linked, Prefix

\* A new dispatcher comes without a cache, to a list nobody has used.
LEMMA NewLinks ==
    ASSUME IndInv, LinkInv, NEW d \in Dispatchers, NewDispatcher(d)
    PROVE  LinkInv'
<1>1. TypeOK /\ live \subseteq Dispatchers
  BY DEF IndInv, TypeOK
<1>2. /\ d \notin live /\ live' = live \cup {d} /\ arrayOf' = [arrayOf EXCEPT ![d] = d]
      /\ UNCHANGED <<arrays, cacheOf, caches>>
  BY DEF NewDispatcher
<1>3. arrayOf[d] = d /\ cacheOf[d] = 0
  BY <1>2 DEF LinkInv, LinksOK
<1>4. arrayOf' = arrayOf
  BY <1>1, <1>2, <1>3 DEF TypeOK
<1>5. CachesGrow
  BY <1>2 DEF CachesGrow
<1>6. \A e \in live : Linked(e) /\ arrayOf[e] \in live
  BY LinkedEach DEF LinkInv, LinksOK
<1>7. ASSUME NEW e \in live PROVE Linked(e)'
  <2>1. NoneCloned' => NoneCloned
    BY <1>2, <1>4 DEF NoneCloned
  <2> QED BY <1>2, <1>4, <1>5, <1>6, <2>1, LinkedKept
<1>8. Linked(d)'
  BY <1>2, <1>3, <1>4 DEF Linked
<1>9. \A e \in Dispatchers \ live' : arrayOf'[e] = e /\ cacheOf'[e] = 0
  BY <1>2, <1>4 DEF LinkInv, LinksOK
<1> QED BY <1>2, <1>7, <1>8, <1>9, LinkedEachNext

\* A new candidate goes to the list of every dispatcher that shares it; the
\* caches of the others are then shorter than their lists.
LEMMA AddLinks ==
    ASSUME IndInv, LinkInv, NEW d \in Dispatchers, NEW c \in Cands, AddDispatchee(d, c)
    PROVE  LinkInv'
<1>1. TypeOK /\ live \subseteq Dispatchers
  BY DEF IndInv, TypeOK
<1> DEFINE a == arrayOf[d]
<1>2. /\ d \in live /\ UNCHANGED <<live, arrayOf, caches>>
      /\ arrays' = [arrays EXCEPT ![a] = Append(@, c)]
      /\ cacheOf' = [cacheOf EXCEPT ![d] = 0]
  BY DEF AddDispatchee
<1>3. a \in Dispatchers /\ arrays[a] \in Seq(Cands) /\ a \in live
  BY <1>1, <1>2 DEF TypeOK, LinkInv, LinksOK
<1>4. CachesGrow
  BY <1>2 DEF CachesGrow
<1>5. \A e \in live : Linked(e) /\ arrayOf[e] \in live
  BY LinkedEach DEF LinkInv, LinksOK
<1>6. cacheOf'[d] = 0 /\ \A e \in Dispatchers : e # d => cacheOf'[e] = cacheOf[e]
  BY <1>1, <1>2 DEF TypeOK
<1>7. arrays'[a] = Append(arrays[a], c)
      /\ \A b \in Dispatchers : b # a => arrays'[b] = arrays[b]
  BY <1>1, <1>2, <1>3 DEF TypeOK
<1>8. ASSUME NEW e \in live PROVE Linked(e)'
  <2>1. e \in Dispatchers /\ arrayOf[e] \in Dispatchers
    BY <1>1 DEF TypeOK
  <2>2. CASE e = d
    BY <2>2, <1>2, <1>5, <1>6 DEF Linked
  <2>3. CASE e # d /\ arrayOf[e] # a
    <3>1. NoneCloned' => NoneCloned
      BY <1>2 DEF NoneCloned
    <3> QED BY <2>1, <2>3, <3>1, <1>2, <1>4, <1>5, <1>6, <1>7, LinkedKept
  <2>4. CASE e # d /\ arrayOf[e] = a
    <3>1. ~NoneCloned' /\ MayClone
      BY <2>4, <1>2, <1>5 DEF NoneCloned, Linked
    <3>2. cacheOf[e] # 0 => Prefix(caches[cacheOf[e]].source, Append(arrays[a], c))
      BY <2>1, <2>4, <1>1, <1>3, <1>5, CacheOfType, PrefixAppend DEF Linked, ListOf
    <3>3. ListOf(e)' = Append(arrays[a], c)
      BY <2>4, <1>2, <1>7 DEF ListOf
    <3> HIDE DEF a
    <3> QED BY <2>1, <2>4, <3>1, <3>2, <3>3, <1>2, <1>3, <1>6 DEF Linked, Prefix
  <2> QED BY <2>2, <2>3, <2>4
<1>9. \A e \in Dispatchers \ live' : arrayOf'[e] = e /\ cacheOf'[e] = 0
  BY <1>2, <1>6 DEF LinkInv, LinksOK
<1> QED BY <1>2, <1>8, <1>9, LinkedEachNext

\* A clone shares its original's list and cache, ...
LEMMA CloneLinks ==
    ASSUME IndInv, LinkInv, NEW d \in Dispatchers, NEW e \in Dispatchers,
           CloneDispatcher(d, e)
    PROVE  LinkInv'
<1>1. TypeOK /\ live \subseteq Dispatchers
  BY DEF IndInv, TypeOK
<1>2. /\ MayClone /\ d \in live /\ e \notin live /\ live' = live \cup {e}
      /\ UNCHANGED <<arrays, caches>>
      /\ arrayOf' = [arrayOf EXCEPT ![e] = arrayOf[d]]
      /\ cacheOf' = [cacheOf EXCEPT ![e] = cacheOf[d]]
  BY DEF CloneDispatcher
<1>3. /\ arrayOf'[e] = arrayOf[d] /\ cacheOf'[e] = cacheOf[d]
      /\ \A x \in Dispatchers : x # e => /\ arrayOf'[x] = arrayOf[x]
                                         /\ cacheOf'[x] = cacheOf[x]
  BY <1>1, <1>2 DEF TypeOK
<1>4. CachesGrow
  BY <1>2 DEF CachesGrow
<1>5. \A x \in live : Linked(x) /\ arrayOf[x] \in live
  BY LinkedEach DEF LinkInv, LinksOK
<1>6. ASSUME NEW x \in live PROVE Linked(x)'
  <2>1. x \in Dispatchers /\ x # e
    BY <1>1, <1>2
  <2>2. NoneCloned' => NoneCloned
    BY <1>1, <1>2, <1>3 DEF NoneCloned
  <2> QED BY <2>1, <2>2, <1>2, <1>3, <1>4, <1>5, LinkedKept
<1>7. Linked(e)'
  <2>1. ListOf(e)' = ListOf(d)
    BY <1>2, <1>3 DEF ListOf
  <2>2. Linked(d)
    BY <1>2, <1>5
  <2>3. ~NoneCloned'
    BY <1>2, <1>3, <1>5 DEF NoneCloned
  <2> QED BY <2>1, <2>2, <2>3, <1>2, <1>3 DEF Linked, Prefix
<1>8. \A x \in Dispatchers \ live' : arrayOf'[x] = x /\ cacheOf'[x] = 0
  BY <1>2, <1>3 DEF LinkInv, LinksOK
<1> QED BY <1>2, <1>6, <1>7, <1>8, LinkedEachNext

\* ... a derived dispatcher has a list of its own, which no other points to.
LEMMA DeriveLinks ==
    ASSUME IndInv, LinkInv, NEW d \in Dispatchers, NEW e \in Dispatchers,
           DeriveDispatcher(d, e)
    PROVE  LinkInv'
<1>1. TypeOK /\ live \subseteq Dispatchers
  BY DEF IndInv, TypeOK
<1>2. /\ d \in live /\ e \notin live /\ live' = live \cup {e}
      /\ UNCHANGED <<caches>>
      /\ arrayOf' = [arrayOf EXCEPT ![e] = e]
      /\ arrays' = [arrays EXCEPT ![e] = ListOf(d)]
      /\ cacheOf' = [cacheOf EXCEPT ![e] = cacheOf[d]]
  BY DEF DeriveDispatcher
<1>3. /\ arrayOf'[e] = e /\ cacheOf'[e] = cacheOf[d] /\ arrays'[e] = ListOf(d)
      /\ \A x \in Dispatchers : x # e => /\ arrayOf'[x] = arrayOf[x]
                                         /\ cacheOf'[x] = cacheOf[x]
                                         /\ arrays'[x] = arrays[x]
  BY <1>1, <1>2 DEF TypeOK
<1>4. CachesGrow
  BY <1>2 DEF CachesGrow
<1>5. \A x \in live : Linked(x) /\ arrayOf[x] \in live
  BY LinkedEach DEF LinkInv, LinksOK
<1>9. NoneCloned' => NoneCloned
  BY <1>1, <1>2, <1>3 DEF NoneCloned
<1>6. ASSUME NEW x \in live PROVE Linked(x)'
  <2>1. x \in Dispatchers /\ x # e /\ arrayOf[x] # e /\ arrayOf[x] \in Dispatchers
    BY <1>1, <1>2, <1>5
  <2> QED BY <2>1, <1>2, <1>3, <1>4, <1>5, <1>9, LinkedKept
<1>7. Linked(e)'
  <2>1. ListOf(e)' = ListOf(d)
    BY <1>2, <1>3 DEF ListOf
  <2>2. Linked(d)
    BY <1>2, <1>5
  <2> QED BY <2>1, <2>2, <1>2, <1>3, <1>9 DEF Linked, Prefix
<1>8. \A x \in Dispatchers \ live' : arrayOf'[x] = x /\ cacheOf'[x] = 0
  BY <1>2, <1>3 DEF LinkInv, LinksOK
<1> QED BY <1>2, <1>6, <1>7, <1>8, LinkedEachNext

\* A cache is made from the dispatcher's candidates of the moment.
LEMMA BeginLinks ==
    ASSUME IndInv, LinkInv, NEW d \in Dispatchers, NEW cap \in Captures,
           NEW many \in BOOLEAN, BeginDispatch(d, cap, many)
    PROVE  LinkInv'
<1>1. TypeOK /\ live \subseteq Dispatchers /\ caches \in Seq(CacheRecs)
  BY DEF IndInv, TypeOK
<1>2. d \in live /\ UNCHANGED <<live, arrayOf, arrays>>
  BY DEF BeginDispatch
<1>3. CachesGrow
  BY BeginGrows
<1>4. CASE cacheOf[d] # 0
  BY <1>2, <1>3, <1>4, LinksKept DEF BeginDispatch
<1>5. CASE cacheOf[d] = 0
  <2> DEFINE k == Len(caches) + 1
             rec == [source |-> ListOf(d), groups |-> Sorted(ListOf(d)),
                     entries |-> NoEntries]
  <2>1. caches' = Append(caches, rec) /\ cacheOf' = [cacheOf EXCEPT ![d] = k]
    BY <1>5 DEF BeginDispatch
  <2>2. rec.source = ListOf(d)
    OBVIOUS
  <2> HIDE DEF rec
  <2>3. caches'[k].source = ListOf(d) /\ k # 0
    BY <1>1, <2>1, <2>2
  <2>4. cacheOf'[d] = k /\ \A x \in Dispatchers : x # d => cacheOf'[x] = cacheOf[x]
    BY <1>1, <2>1 DEF TypeOK
  <2>5. \A x \in live : Linked(x) /\ arrayOf[x] \in live
    BY LinkedEach DEF LinkInv, LinksOK
  <2>6. ASSUME NEW x \in live, x # d PROVE Linked(x)'
    <3>1. x \in Dispatchers
      BY <1>1
    <3>2. NoneCloned' => NoneCloned
      BY <1>2 DEF NoneCloned
    <3> QED BY <3>1, <3>2, <2>4, <2>5, <2>6, <1>2, <1>3, LinkedKept
  <2>7. Linked(d)'
    <3>1. ListOf(d)' = ListOf(d)
      BY <1>2 DEF ListOf
    <3>2. ListOf(d) \in Seq(Cands)
      BY <1>1 DEF TypeOK, ListOf
    <3>3. Prefix(ListOf(d), ListOf(d))
      BY <3>2 DEF Prefix
    <3>4. arrayOf'[d] \in live' /\ (~MayClone => arrayOf'[d] = d)
      BY <1>2 DEF LinkInv, LinksOK, NoneCloned
    <3>5. caches'[cacheOf'[d]].source = ListOf(d)
      BY <2>3, <2>4
    <3> HIDE DEF k
    <3> QED BY <3>1, <3>3, <3>4, <3>5 DEF Linked, Prefix
  <2>8. \A x \in Dispatchers \ live' : arrayOf'[x] = x /\ cacheOf'[x] = 0
    BY <1>2, <2>4 DEF LinkInv, LinksOK
  <2> QED BY <1>2, <2>6, <2>7, <2>8, LinkedEachNext
<1> QED BY <1>4, <1>5

\* Every step keeps the links.
LEMMA NextLinks == IndInv /\ LinkInv /\ [Next]_vars => LinkInv'
<1> SUFFICES ASSUME IndInv, LinkInv, [Next]_vars PROVE LinkInv'
  OBVIOUS
<1>1. CachesGrow
  BY NextGrows
<1>2. CASE UNCHANGED <<live, arrayOf, arrays, cacheOf>>
  BY <1>1, <1>2, LinksKept
<1>3. CASE Declare
  <2>1. CASE \E c \in Cands : SetDefault(c)
    BY <2>1, <1>2 DEF SetDefault
  <2> QED BY <2>1, <1>3, NewLinks, AddLinks, CloneLinks, DeriveLinks DEF Declare
<1>4. CASE Call
  <2>1. PICK d \in Dispatchers, cap \in Captures :
           \/ DispatchFromCache(d, cap) \/ DispatchCircular(d, cap)
           \/ \E many \in BOOLEAN : BeginDispatch(d, cap, many)
    BY <1>4 DEF Call
  <2>2. CASE DispatchFromCache(d, cap) \/ DispatchCircular(d, cap)
    BY <1>2, <2>2 DEF DispatchFromCache, DispatchCircular
  <2>3. CASE \E many \in BOOLEAN : BeginDispatch(d, cap, many)
    BY <2>3, BeginLinks
  <2> QED BY <2>1, <2>2, <2>3
<1>5. CASE Walk
  BY <1>2, <1>5 DEF Walk, NextGroup, EliminateByName, AcceptNominal, BeginBindCheck,
     CollectMatches, ReturnMatches, ReturnBest, Silent, heap
<1>6. CASE UserEnds
  BY <1>2, <1>6 DEF UserEnds, BindCheckDies, EndBindCheck, Silent, heap
<1>7. CASE UNCHANGED vars
  BY <1>2, <1>7 DEF vars
<1> QED BY <1>3, <1>4, <1>5, <1>6, <1>7 DEF Next

\* At first there are no dispatchers.
LEMMA InitLinks == Init => LinkInv
BY DEF Init, LinkInv, LinksOK, CacheReachable, CacheFresh, NoneCloned

\* The invariant of the links.
THEOREM Links == Spec => []LinkInv
BY InitLinks, NextLinks, Invariance, PTL DEF Spec

\* The candidates a cache was made from are the first of the dispatcher's own,
\* cloned or not: what the cache points to is alive as long as the dispatcher.
THEOREM Reachable == Spec => []CacheReachable
<1>1. LinkInv => CacheReachable
  BY DEF LinkInv
<1> QED BY <1>1, Links, PTL

\* As long as no dispatcher was cloned a cache was made from all of them.
THEOREM Fresh == Spec => []CacheFresh
<1>1. LinkInv => CacheFresh
  BY DEF LinkInv
<1> QED BY <1>1, Links, PTL

-----------------------------------------------------------------------------
(* The instance is about the same candidates: its copies of the operators   *)
(* of MultiSort and MultiMatch are the ones used here.                      *)

\* What is extracted from the signatures ...
LEMMA SameInfo == Uncached!Info = Info
BY DEF Uncached!Info, Info, Uncached!Positionals, Positionals,
       Uncached!ScannedOf, ScannedOf, Uncached!Scanned, Scanned,
       Uncached!SlurpyAt, SlurpyAt, Uncached!Cardinality, Cardinality

\* ... and so which candidate is narrower, ...
LEMMA SameNarrower == Uncached!Narrower = Narrower
BY SameInfo DEF Uncached!Narrower, Narrower, Uncached!IsNarrowerInfo, IsNarrowerInfo,
       Uncached!LessSlurpy, LessSlurpy, Uncached!Compared, Compared,
       Uncached!NarrowerAt, NarrowerAt, Uncached!TiedAt, TiedAt,
       Uncached!TypeCheck, TypeCheck

\* ... the sort, ...
LEMMA SameSort ==
    \A list : /\ Uncached!Sorted(list) = Sorted(list)
              /\ Uncached!Circular(list) = Circular(list)
<1>1. \A list : Uncached!Placed(list) = Placed(list)
  BY SameNarrower DEF Uncached!Placed, Placed, Uncached!IsNarrower, IsNarrower
<1> QED BY <1>1 DEF Uncached!Sorted, Sorted, Uncached!Circular, Circular

\* ... which candidates a capture may go to ...
LEMMA SameMatch ==
    /\ \A list, group, cap : Uncached!Possibles(list, group, cap) = Possibles(list, group, cap)
    /\ \A c, cap : Uncached!Admissible(c, cap) = Admissible(c, cap)
    /\ \A c, cap : Uncached!NameMissing(c, cap) = NameMissing(c, cap)
<1>1. \A c, cap : Uncached!Admissible(c, cap) = Admissible(c, cap)
  BY SameInfo DEF Uncached!Admissible, Admissible, Uncached!Arity, Arity,
     Uncached!Checked, Checked, Uncached!Accepts, Accepts, Uncached!TypeCheck, TypeCheck,
     Uncached!ArgType, ArgType, Uncached!ArgDefined, ArgDefined
<1> QED BY <1>1, SameInfo DEF Uncached!Possibles, Possibles,
           Uncached!NameMissing, NameMissing

\* ... and the verdicts.
LEMMA SameVerdicts ==
    /\ \A list, kept, def : Uncached!Winners(list, kept, def) = Winners(list, kept, def)
    /\ \A list, winners, cap : Uncached!Verdict(list, winners, cap) = Verdict(list, winners, cap)
    /\ \A k : Uncached!Failed(k) = Failed(k)
    /\ Uncached!Idle = Idle
BY DEF Uncached!Winners, Winners, Uncached!Verdict, Verdict, Uncached!Chosen, Chosen,
       Uncached!Failed, Failed, Uncached!Idle, Idle, Uncached!HasJunction, HasJunction,
       Uncached!TypeCheck, TypeCheck, Uncached!Cardinality, Cardinality

-----------------------------------------------------------------------------
(* Names that miss.                                                         *)

\* Only a candidate with named parameters can miss one, and that one needs a
\* bind check.
LEMMA MissingNeedsCheck ==
    ASSUME NEW c \in Cands, NEW cap, NameMissing(c, cap)
    PROVE  Info[c].bindCheck
<1> DEFINE named == ScannedOf(Sig[c], {"named"})
<1>1. named # <<>> => Info[c].bindCheck
  BY DEF Info
<1>2. Info[c].reqNamed # NoName => \E i \in DOMAIN named : named[i].required
  BY DEF Info
<1> HIDE DEF named
<1> QED BY <1>1, <1>2 DEF NameMissing

-----------------------------------------------------------------------------
(* What a walk has found out, and what its answers come to.                 *)

\* The members of the k-th tied group of list that cap may go to.
Through(list, cap, k) == Possibles(list, Sorted(list)[k], cap)

\* What an activation f has found out of the list it walks: it keeps what can
\* take the call, from the group it is in, and has passed over nothing in that
\* group and those before but what a bind check or a missing name spoke against.
WalkTold(f, list) ==
    /\ f.group = 0 => f.todo = {} /\ f.kept = {} /\ f.found = {}
    /\ f.group # 0 => f.todo \cup f.kept \subseteq Through(list, f.cap, f.group)
    /\ \A i \in f.kept \cup f.found :
          Admissible(list[i], f.cap) /\ ~NameMissing(list[i], f.cap)
    /\ \A j \in 1..f.group : \A i \in Through(list, f.cap, j) :
          i \in f.todo \cup f.kept \cup f.found \/ Info[list[i]].bindCheck
    /\ ~f.many => f.found = {}
    /\ f.mode = "user" => /\ Info[list[First(f)]].bindCheck
                          /\ ~NameMissing(list[First(f)], f.cap)

\* All activations have.
WalksTold == \A n \in DOMAIN stack : WalkTold(stack[n], List(stack[n]))

\* A list that was sorted for a cache has no circularity.
ListsSorted == \A k \in DOMAIN caches : ~Circular(caches[k].source)

\* c is what the candidates of list give for cap without asking user code: the
\* winner, with the default traits there are, of the first group with any.
Exact(list, cap, c, def) ==
    \E g \in DOMAIN list :
        /\ \A j \in 1..(g - 1) : Through(list, cap, j) = {}
        /\ \A i \in Through(list, cap, g) : ~Info[list[i]].bindCheck
        /\ \E i \in Through(list, cap, g) :
              /\ list[i] = c
              /\ Winners(list, Through(list, cap, g), def) = {i}

\* Justified says less: another member of the group might have the trait too.
\* That none gets it once the group is in use is what LateTraits excludes.
EntriesExact ==
    \A k \in DOMAIN caches : \A key \in DOMAIN caches[k].entries : \A cap \in Captures :
        KeyOf(cap) = key => Exact(caches[k].source, cap, caches[k].entries[key], default)

\* What an answer rests on.
AnswerInv == WalksTold /\ ListsSorted /\ (~LateTraits => EntriesExact)

\* The members of a group that remain, in the abstract dispatcher's words.
LEMMA Remaining ==
    ASSUME NEW list, NEW group, NEW cap, NEW ok
    PROVE  Uncached!Survivors(list, group, cap, ok) =
           {i \in group : /\ Admissible(list[i], cap) /\ ~NameMissing(list[i], cap)
                          /\ Info[list[i]].bindCheck => i \in ok}
BY SameInfo, SameMatch DEF Uncached!Survivors, Possibles

\* What bind checks that say ok leave of the k-th group.
Left(list, cap, ok, k) ==
    {i \in Through(list, cap, k) :
        ~NameMissing(list[i], cap) /\ (Info[list[i]].bindCheck => i \in ok)}

\* The best candidates are those of a first group that has any.
LEMMA BestOf ==
    ASSUME NEW list \in Seq(Cands), NEW cap, NEW ok, NEW kept,
           \A k \in DOMAIN list :
               (\A j \in 1..(k - 1) : Left(list, cap, ok, j) = {})
               => Left(list, cap, ok, k) \subseteq kept,
           kept # {} => \E g \in DOMAIN list :
                           /\ Left(list, cap, ok, g) = kept
                           /\ \A j \in 1..(g - 1) : Left(list, cap, ok, j) = {}
    PROVE  Uncached!Best(list, cap, ok) = Verdict(list, Winners(list, kept, default), cap)
<1> DEFINE firsts == {k \in DOMAIN list : \A j \in 1..(k - 1) : Left(list, cap, ok, j) = {}}
<1>1. UNION {Left(list, cap, ok, k) : k \in firsts} = kept
  OBVIOUS
<1>2. \A k : Uncached!Survivors(list, Sorted(list)[k], cap, ok) = Left(list, cap, ok, k)
  BY Remaining DEF Left, Through, Possibles
<1>3. Uncached!Best(list, cap, ok) =
      Verdict(list, Winners(list, UNION {Left(list, cap, ok, k) : k \in firsts}, default), cap)
  <2> DEFINE kept2 == UNION {Uncached!Survivors(list, Sorted(list)[k], cap, ok) : k \in
                {k \in DOMAIN list : \A j \in 1..(k - 1) :
                      Uncached!Survivors(list, Sorted(list)[j], cap, ok) = {}}}
  <2>1. Uncached!Best(list, cap, ok) = Verdict(list, Winners(list, kept2, default), cap)
    BY SameSort, SameVerdicts DEF Uncached!Best
  <2>2. kept2 = UNION {Left(list, cap, ok, k) : k \in firsts}
    BY <1>2
  <2> QED BY <2>1, <2>2
<1> QED BY <1>1, <1>3

\* The positions of a list and its groups.
LEMMA ThroughFacts ==
    ASSUME NEW list \in Seq(Cands), NEW cap, NEW k \in DOMAIN list
    PROVE  /\ Through(list, cap, k) \subseteq DOMAIN list
           /\ \A i \in Through(list, cap, k) : list[i] \in Cands /\ Admissible(list[i], cap)
BY SortedType DEF Through, Possibles

\* A walk that has come to an end answers with what it kept, if the bind
\* checks say yes to just that.
LEMMA DecidedBest ==
    ASSUME NEW list \in Seq(Cands), NEW f, WalkTold(f, list), f.todo = {}, ~f.many,
           f.group \in 0..Len(list),
           f.kept # {} \/ \A k \in DOMAIN list : k > f.group => Through(list, f.cap, k) = {}
    PROVE  Uncached!Best(list, f.cap, f.kept) =
           Verdict(list, Winners(list, f.kept, default), f.cap)
<1> DEFINE cap  == f.cap
           kept == f.kept
           g    == f.group
<1>1. /\ g = 0 => kept = {}
      /\ g # 0 => kept \subseteq Through(list, cap, g)
      /\ \A i \in kept : ~NameMissing(list[i], cap)
      /\ \A j \in 1..g : \A i \in Through(list, cap, j) : i \in kept \/ Info[list[i]].bindCheck
  BY DEF WalkTold
<1>2. g \in 0..Len(list) /\ Len(list) \in Nat /\ DOMAIN list = 1..Len(list)
      /\ (kept # {} \/ \A k \in DOMAIN list : k > g => Through(list, cap, k) = {})
  OBVIOUS
<1> HIDE DEF cap, kept, g
<1>3. ASSUME NEW j \in 1..(g - 1) PROVE Left(list, cap, kept, j) = {}
  <2>1. j \in DOMAIN list /\ g \in DOMAIN list /\ j < g /\ j \in 1..g
    BY <1>2
  <2>2. Sorted(list)[j] \cap Sorted(list)[g] = {}
    BY <2>1, GroupsDisjoint
  <2>3. \A i \in Through(list, cap, j) : i \notin Through(list, cap, g)
    BY <2>2 DEF Through, Possibles
  <2> QED BY <1>1, <2>1, <2>3 DEF Left
<1>4. g # 0 => Left(list, cap, kept, g) = kept
  <2> SUFFICES ASSUME g # 0 PROVE Left(list, cap, kept, g) = kept
    OBVIOUS
  <2>1. g \in 1..g
    BY <1>2
  <2> QED BY <1>1, <2>1 DEF Left
<1>5. ASSUME NEW k \in DOMAIN list, \A j \in 1..(k - 1) : Left(list, cap, kept, j) = {}
      PROVE  Left(list, cap, kept, k) \subseteq kept
  <2>1. CASE k < g
    <3>1. k \in 1..(g - 1)
      BY <1>2, <2>1
    <3> QED BY <1>3, <3>1
  <2>2. CASE k = g
    BY <1>2, <1>4, <2>2
  <2>3. CASE k > g
    <3>1. CASE kept = {}
      BY <1>2, <2>3, <3>1 DEF Left
    <3>2. CASE kept # {}
      <4>1. g # 0 /\ g \in 1..(k - 1)
        BY <1>1, <1>2, <2>3, <3>2
      <4>2. Left(list, cap, kept, g) = {}
        BY <1>5, <4>1
      <4> QED BY <1>4, <3>2, <4>1, <4>2
    <3> QED BY <3>1, <3>2
  <2> QED BY <1>2, <2>1, <2>2, <2>3
<1>6. kept # {} => \E k \in DOMAIN list :
                     /\ Left(list, cap, kept, k) = kept
                     /\ \A j \in 1..(k - 1) : Left(list, cap, kept, j) = {}
  <2> SUFFICES ASSUME kept # {}
               PROVE  \E k \in DOMAIN list :
                         /\ Left(list, cap, kept, k) = kept
                         /\ \A j \in 1..(k - 1) : Left(list, cap, kept, j) = {}
    OBVIOUS
  <2>1. g # 0 /\ g \in DOMAIN list
    BY <1>1, <1>2
  <2> QED BY <1>3, <1>4, <2>1
<1>7. Uncached!Best(list, cap, kept) = Verdict(list, Winners(list, kept, default), cap)
  BY <1>5, <1>6, BestOf
<1> QED BY <1>7 DEF cap, kept

\* A search that has come to an end has found all matches, if the bind checks
\* say yes to just those.
LEMMA CollectedAll ==
    ASSUME NEW list \in Seq(Cands), ~Circular(list), NEW f, WalkTold(f, list),
           f.todo = {}, f.kept = {}, f.found \subseteq DOMAIN list, f.group \in 0..Len(list),
           \A k \in DOMAIN list : k > f.group => Through(list, f.cap, k) = {}
    PROVE  Uncached!Survivors(list, DOMAIN list, f.cap, f.found) = f.found
<1> DEFINE cap == f.cap
<1>1. /\ \A i \in f.found : Admissible(list[i], cap) /\ ~NameMissing(list[i], cap)
      /\ \A j \in 1..f.group : \A i \in Through(list, cap, j) :
            i \in f.found \/ Info[list[i]].bindCheck
  BY DEF WalkTold
<1>2. ASSUME NEW i \in DOMAIN list, Admissible(list[i], cap)
      PROVE  i \in f.found \/ Info[list[i]].bindCheck
  <2>1. PICK k \in DOMAIN list : i \in Sorted(list)[k]
    BY GroupsCover
  <2>2. i \in Through(list, cap, k)
    BY <1>2, <2>1 DEF Through, Possibles
  <2>3. ~(k > f.group)
    BY <2>2
  <2>4. k \in 1..f.group
    BY <2>3
  <2> QED BY <1>1, <2>2, <2>4
<1>3. Uncached!Survivors(list, DOMAIN list, cap, f.found) =
      {i \in DOMAIN list : /\ Admissible(list[i], cap) /\ ~NameMissing(list[i], cap)
                           /\ Info[list[i]].bindCheck => i \in f.found}
  BY Remaining
<1> HIDE DEF cap
<1>4. {i \in DOMAIN list : /\ Admissible(list[i], cap) /\ ~NameMissing(list[i], cap)
                           /\ Info[list[i]].bindCheck => i \in f.found} = f.found
  BY <1>1, <1>2
<1> QED BY <1>3, <1>4 DEF cap

\* What is exact is the best whatever the bind checks say.
LEMMA ExactBest ==
    ASSUME NEW list \in Seq(Cands), NEW cap, NEW c, Exact(list, cap, c, default)
    PROVE  Uncached!Best(list, cap, {}) = Chosen(c)
<1>1. PICK g \in DOMAIN list :
        /\ \A j \in 1..(g - 1) : Through(list, cap, j) = {}
        /\ \A i \in Through(list, cap, g) : ~Info[list[i]].bindCheck
        /\ \E i \in Through(list, cap, g) :
              list[i] = c /\ Winners(list, Through(list, cap, g), default) = {i}
  BY DEF Exact
<1> DEFINE kept == Through(list, cap, g)
<1>2. \A i \in kept : ~NameMissing(list[i], cap)
  BY <1>1, ThroughFacts, MissingNeedsCheck
<1>3. Left(list, cap, {}, g) = kept
  BY <1>1, <1>2 DEF Left
<1>4. \A j \in 1..(g - 1) : Left(list, cap, {}, j) = {}
  BY <1>1 DEF Left
<1>5. PICK i \in kept : list[i] = c /\ Winners(list, kept, default) = {i}
  BY <1>1
<1> HIDE DEF kept
<1>6. ASSUME NEW k \in DOMAIN list, \A j \in 1..(k - 1) : Left(list, cap, {}, j) = {}
      PROVE  Left(list, cap, {}, k) \subseteq kept
  <2>1. ~(k > g)
    <3> SUFFICES ASSUME k > g PROVE FALSE
      OBVIOUS
    <3>1. g \in 1..(k - 1)
      OBVIOUS
    <3> QED BY <1>3, <1>5, <1>6, <3>1
  <2>2. CASE k < g
    <3>1. k \in 1..(g - 1)
      BY <2>2
    <3> QED BY <1>4, <3>1
  <2>3. CASE k = g
    BY <1>3, <2>3
  <2> QED BY <2>1, <2>2, <2>3
<1>7. Uncached!Best(list, cap, {}) = Verdict(list, Winners(list, kept, default), cap)
  BY <1>3, <1>4, <1>6, BestOf
<1>8. Cardinality({i}) = 1 /\ (CHOOSE j \in {i} : TRUE) = i
  BY FS_Singleton
<1>9. Verdict(list, {i}, cap) = Chosen(list[i])
  BY <1>8 DEF Verdict
<1> QED BY <1>5, <1>7, <1>9

-----------------------------------------------------------------------------
(* The walks.                                                               *)

\* A candidate that was looked at is kept, or something spoke against it.
LEMMA LookedAtTold ==
    ASSUME NEW list \in Seq(Cands), NEW t, WalkTold(t, list), t.group \in 0..Len(list),
           NEW x \in t.todo, NEW f,
           f.cap = t.cap, f.group = t.group, f.many = t.many, f.found = t.found,
           f.todo = t.todo \ {x}, f.mode = "walk",
           \/ f.kept = t.kept \cup {x} /\ ~NameMissing(list[x], t.cap)
           \/ f.kept = t.kept /\ Info[list[x]].bindCheck
    PROVE  WalkTold(f, list)
<1>1. t.group # 0 /\ t.group \in DOMAIN list /\ x \in Through(list, t.cap, t.group)
  BY DEF WalkTold
<1>2. Admissible(list[x], t.cap)
  BY <1>1, ThroughFacts
<1>3. f.todo \cup f.kept \subseteq Through(list, f.cap, f.group)
  BY <1>1 DEF WalkTold
<1>4. \A i \in f.kept \cup f.found : Admissible(list[i], f.cap) /\ ~NameMissing(list[i], f.cap)
  BY <1>2 DEF WalkTold
<1>5. ASSUME NEW j \in 1..f.group, NEW i \in Through(list, f.cap, j)
      PROVE  i \in f.todo \cup f.kept \cup f.found \/ Info[list[i]].bindCheck
  <2>1. i \in t.todo \cup t.kept \cup t.found \/ Info[list[i]].bindCheck
    BY DEF WalkTold
  <2> QED BY <2>1
<1>6. ~f.many => f.found = {}
  BY DEF WalkTold
<1> QED BY <1>1, <1>3, <1>4, <1>5, <1>6 DEF WalkTold

\* The other activations do not notice.
LEMMA SetTopTold ==
    ASSUME IndInv, WalksTold, stack # <<>>, NEW f \in Frames, SetTop(f), caches' = caches,
           f.cache = Top.cache, WalkTold(f, List(Top))
    PROVE  WalksTold'
<1>1. /\ DOMAIN stack' = DOMAIN stack /\ stack'[Len(stack)] = f
      /\ Len(stack) \in DOMAIN stack
      /\ \A n \in DOMAIN stack : n # Len(stack) => stack'[n] = stack[n]
  <2>1. stack \in Seq(Frames)
    BY TopFacts
  <2> QED BY <2>1, SetTopLemma DEF SetTop
<1>2. ASSUME NEW n \in DOMAIN stack' PROVE WalkTold(stack'[n], List(stack[n])')
  <2>1. CASE n = Len(stack)
    <3>1. List(stack[n])' = List(Top)
      BY <1>1, <2>1 DEF List
    <3> QED BY <1>1, <2>1, <3>1
  <2>2. CASE n # Len(stack)
    <3>1. stack'[n] = stack[n] /\ List(stack[n])' = List(stack[n])
      BY <1>1, <2>2 DEF List
    <3> QED BY <1>1, <3>1 DEF WalksTold
  <2> QED BY <2>1, <2>2
<1> QED BY <1>2 DEF WalksTold

\* What is known of the innermost activation.
LEMMA TopTold ==
    ASSUME IndInv, WalksTold, stack # <<>>
    PROVE  /\ WalkTold(Top, List(Top)) /\ Top \in Frames /\ List(Top) \in Seq(Cands)
           /\ Top.group \in 0..Len(List(Top)) /\ Top.cache \in DOMAIN caches
           /\ \A k : PossiblesIn(Top, k) = Through(List(Top), Top.cap, k)
<1>1. Len(stack) \in DOMAIN stack
  BY TopFacts
<1>2. WalkTold(Top, List(Top))
  BY <1>1 DEF WalksTold, Top
<1> QED BY <1>2, TopFacts DEF PossiblesIn, Through

\* The groups skipped between this one and the last let nothing through.
LEMMA NextGroupTold == IndInv /\ WalksTold /\ NextGroup => WalksTold'
<1> SUFFICES ASSUME IndInv, WalksTold, NextGroup PROVE WalksTold'
  OBVIOUS
<1>1. stack # <<>> /\ Top.mode = "walk" /\ caches' = caches /\ Top.todo = {} /\ Top.kept = {}
  BY DEF NextGroup, Walking, Silent
<1>2. PICK k \in GroupsLeft(Top) :
         /\ \A j \in GroupsLeft(Top) : k <= j
         /\ SetTop([Top EXCEPT !.group = k, !.todo = PossiblesIn(Top, k)])
  BY DEF NextGroup
<1>3. k \in DOMAIN List(Top) /\ k > Top.group
  BY <1>2 DEF GroupsLeft
<1> DEFINE list == List(Top)
           t == Top
           f == [Top EXCEPT !.group = k, !.todo = PossiblesIn(Top, k)]
<1>4. /\ WalkTold(t, list) /\ t \in Frames /\ list \in Seq(Cands) /\ t.group \in 0..Len(list)
      /\ DOMAIN list = 1..Len(list) /\ Len(list) \in Nat
  BY <1>1, TopTold
<1>5. Through(list, t.cap, k) \in SUBSET Nat
  BY <1>3, <1>4, ThroughFacts
<1>6. PossiblesIn(Top, k) = Through(list, t.cap, k)
  BY <1>1, TopTold
<1>7. /\ f \in Frames /\ f.cap = t.cap /\ f.cache = t.cache /\ f.many = t.many
      /\ f.todo = Through(list, t.cap, k) /\ f.kept = {} /\ f.found = t.found
      /\ f.group = k /\ f.mode = "walk"
  <2>1. k \in Nat
    BY <1>3, <1>4
  <2> QED BY <1>1, <1>4, <1>5, <1>6, <2>1 DEF Frames
<1>8. \A j \in DOMAIN list : j > t.group /\ j < k => Through(list, t.cap, j) = {}
  <2> SUFFICES ASSUME NEW j \in DOMAIN list, j > t.group, j < k, Through(list, t.cap, j) # {}
               PROVE  FALSE
    OBVIOUS
  <2>1. PossiblesIn(Top, j) # {}
    BY <1>1, TopTold
  <2>2. j \in GroupsLeft(Top)
    BY <2>1 DEF GroupsLeft
  <2> QED BY <1>2, <1>3, <1>4, <2>2
<1>9. SetTop(f) /\ t.todo = {} /\ t.kept = {} /\ k > t.group /\ k \in DOMAIN list
  BY <1>1, <1>2, <1>3
<1>10. f.cache = Top.cache
  BY <1>7
<1> HIDE DEF f, t
<1>11. WalkTold(f, list)
  <2> HIDE DEF list
  <2>1. k \in Nat /\ k # 0 /\ t.group \in Nat
    BY <1>4, <1>9
  <2>2. ASSUME NEW j \in 1..k, NEW i \in Through(list, t.cap, j)
        PROVE  i \in f.todo \cup f.kept \cup f.found \/ Info[list[i]].bindCheck
    <3>1. CASE j <= t.group
      <4>1. j \in 1..t.group
        BY <2>1, <3>1
      <4> QED BY <1>4, <1>7, <1>9, <4>1 DEF WalkTold
    <3>2. CASE j > t.group /\ j < k
      <4>1. j \in DOMAIN list
        BY <1>4, <1>9
      <4> QED BY <1>8, <3>2, <4>1
    <3>3. CASE j = k
      BY <1>7, <3>3
    <3> QED BY <2>1, <3>1, <3>2, <3>3
  <2>3. \A i \in f.found : Admissible(list[i], t.cap) /\ ~NameMissing(list[i], t.cap)
    BY <1>4, <1>7 DEF WalkTold
  <2>4. ~f.many => f.found = {}
    BY <1>4, <1>7 DEF WalkTold
  <2> QED BY <1>7, <2>1, <2>2, <2>3, <2>4 DEF WalkTold
<1> QED BY <1>1, <1>7, <1>9, <1>10, <1>11, SetTopTold

\* Only a candidate that needs a bind check can miss a named argument.
LEMMA EliminateTold == IndInv /\ WalksTold /\ EliminateByName => WalksTold'
<1> SUFFICES ASSUME IndInv, WalksTold, EliminateByName PROVE WalksTold'
  OBVIOUS
<1>1. /\ stack # <<>> /\ Top.mode = "walk" /\ caches' = caches /\ Top.todo # {}
      /\ NameMissing(List(Top)[First(Top)], Top.cap)
  BY DEF EliminateByName, Walking, Silent, Cand
<1>2. First(Top) \in Top.todo /\ First(Top) \in DOMAIN List(Top)
  BY <1>1, FirstInTodo
<1>3. Info[List(Top)[First(Top)]].bindCheck
  BY <1>1, <1>2, TopTold, MissingNeedsCheck
<1> DEFINE f == [Top EXCEPT !.todo = @ \ {First(Top)}, !.pure = FALSE]
<1>4. SetTop(f)
  BY DEF EliminateByName
<1>5. /\ f \in Frames /\ f.cap = Top.cap /\ f.cache = Top.cache
      /\ f.many = Top.many /\ f.todo = Top.todo \ {First(Top)} /\ f.kept = Top.kept
      /\ f.found = Top.found /\ f.group = Top.group /\ f.mode = "walk"
  BY <1>1, TopFacts DEF Frames
<1> HIDE DEF f
<1>6. WalkTold(f, List(Top))
  BY <1>1, <1>2, <1>3, <1>5, TopTold, LookedAtTold
<1> QED BY <1>1, <1>4, <1>5, <1>6, SetTopTold

\* A candidate without a bind check is kept.
LEMMA AcceptTold == IndInv /\ WalksTold /\ AcceptNominal => WalksTold'
<1> SUFFICES ASSUME IndInv, WalksTold, AcceptNominal PROVE WalksTold'
  OBVIOUS
<1>1. /\ stack # <<>> /\ Top.mode = "walk" /\ caches' = caches /\ Top.todo # {}
      /\ ~NameMissing(List(Top)[First(Top)], Top.cap)
  BY DEF AcceptNominal, Walking, Silent, Cand
<1>2. First(Top) \in Top.todo /\ First(Top) \in DOMAIN List(Top)
  BY <1>1, FirstInTodo
<1> DEFINE f == [Top EXCEPT !.todo = @ \ {First(Top)}, !.kept = @ \cup {First(Top)}]
<1>4. SetTop(f)
  BY DEF AcceptNominal
<1>5. /\ f \in Frames /\ f.cap = Top.cap /\ f.cache = Top.cache
      /\ f.many = Top.many /\ f.todo = Top.todo \ {First(Top)}
      /\ f.kept = Top.kept \cup {First(Top)}
      /\ f.found = Top.found /\ f.group = Top.group /\ f.mode = "walk"
  BY <1>1, <1>2, TopFacts DEF Frames
<1> HIDE DEF f
<1>6. WalkTold(f, List(Top))
  BY <1>1, <1>2, <1>5, TopTold, LookedAtTold
<1> QED BY <1>1, <1>4, <1>5, <1>6, SetTopTold

\* The bind check of the candidate in question begins ...
LEMMA BeginCheckTold == IndInv /\ WalksTold /\ BeginBindCheck => WalksTold'
<1> SUFFICES ASSUME IndInv, WalksTold, BeginBindCheck PROVE WalksTold'
  OBVIOUS
<1>1. /\ stack # <<>> /\ caches' = caches /\ Top.todo # {}
      /\ ~NameMissing(List(Top)[First(Top)], Top.cap)
      /\ Info[List(Top)[First(Top)]].bindCheck
  BY DEF BeginBindCheck, Walking, Silent, Cand
<1> DEFINE f == [Top EXCEPT !.mode = "user"]
<1>2. SetTop(f)
  BY DEF BeginBindCheck
<1>3. /\ f \in Frames /\ f.cap = Top.cap /\ f.cache = Top.cache
      /\ f.many = Top.many /\ f.todo = Top.todo /\ f.kept = Top.kept
      /\ f.found = Top.found /\ f.group = Top.group /\ f.mode = "user"
  BY <1>1, TopFacts DEF Frames
<1>4. First(f) = First(Top)
  <2> HIDE DEF f
  <2> QED BY <1>3 DEF First
<1> HIDE DEF f
<1>5. WalkTold(Top, List(Top))
  BY <1>1, TopTold
<1>6. WalkTold(f, List(Top))
  BY <1>1, <1>3, <1>4, <1>5 DEF WalkTold
<1> QED BY <1>1, <1>2, <1>3, <1>6, SetTopTold

\* ... and ends.
LEMMA EndCheckTold ==
    ASSUME IndInv, WalksTold, NEW ok \in BOOLEAN, EndBindCheck(ok)
    PROVE  WalksTold'
<1>1. stack # <<>> /\ Top.mode = "user" /\ caches' = caches
  BY DEF EndBindCheck, Silent
<1>2. /\ ~NameMissing(List(Top)[First(Top)], Top.cap)
      /\ Info[List(Top)[First(Top)]].bindCheck
  BY <1>1, TopTold DEF WalkTold
<1>3. First(Top) \in Top.todo /\ First(Top) \in DOMAIN List(Top)
  BY <1>1, TopFacts, FirstInTodo
<1> DEFINE f == [Top EXCEPT !.mode = "walk", !.todo = @ \ {First(Top)}, !.pure = FALSE,
                           !.kept = IF ok THEN @ \cup {First(Top)} ELSE @]
<1>4. SetTop(f)
  BY DEF EndBindCheck
<1>5. First(Top) \in Nat /\ Top \in Frames
  BY <1>1, <1>3, TopFacts
<1>6. /\ f \in Frames /\ f.cap = Top.cap /\ f.cache = Top.cache
      /\ f.many = Top.many /\ f.todo = Top.todo \ {First(Top)}
      /\ f.kept = Top.kept \/ f.kept = Top.kept \cup {First(Top)}
      /\ f.found = Top.found /\ f.group = Top.group /\ f.mode = "walk"
  BY <1>5 DEF Frames
<1> HIDE DEF f
<1>7. WalkTold(f, List(Top))
  BY <1>1, <1>2, <1>3, <1>6, TopTold, LookedAtTold
<1> QED BY <1>1, <1>4, <1>6, <1>7, SetTopTold

\* What was kept is found.
LEMMA CollectTold == IndInv /\ WalksTold /\ CollectMatches => WalksTold'
<1> SUFFICES ASSUME IndInv, WalksTold, CollectMatches PROVE WalksTold'
  OBVIOUS
<1>1. stack # <<>> /\ Top.mode = "walk" /\ caches' = caches /\ Top.many /\ Top.kept # {}
  BY DEF CollectMatches, Walking, Silent
<1> DEFINE f == [Top EXCEPT !.found = @ \cup Top.kept, !.kept = {}]
<1>2. SetTop(f)
  BY DEF CollectMatches
<1>3. /\ f \in Frames /\ f.cap = Top.cap /\ f.cache = Top.cache
      /\ f.many = Top.many /\ f.todo = Top.todo /\ f.kept = {}
      /\ f.found = Top.found \cup Top.kept
      /\ f.group = Top.group /\ f.mode = "walk"
  BY <1>1, TopFacts DEF Frames
<1> HIDE DEF f
<1>4. WalkTold(Top, List(Top))
  BY <1>1, TopTold
<1>5. WalkTold(f, List(Top))
  BY <1>1, <1>3, <1>4 DEF WalkTold
<1> QED BY <1>1, <1>2, <1>3, <1>5, SetTopTold

\* Nothing happens to a list that is being walked.
LEMMA ListKept ==
    ASSUME IndInv, CachesGrow, NEW n \in DOMAIN stack
    PROVE  /\ caches'[stack[n].cache].source = List(stack[n])
           /\ stack[n].cache \in DOMAIN caches
BY DEF IndInv, TypeOK, CachesGrow, List

\* Activations that end or stay as they are.
LEMMA ShorterTold ==
    ASSUME IndInv, WalksTold, CachesGrow,
           \A n \in DOMAIN stack' : n \in DOMAIN stack /\ stack'[n] = stack[n]
    PROVE  WalksTold'
<1> SUFFICES ASSUME NEW n \in DOMAIN stack' PROVE WalkTold(stack'[n], List(stack[n])')
  BY DEF WalksTold
<1>1. List(stack[n])' = List(stack[n])
  BY ListKept DEF List
<1> QED BY <1>1 DEF WalksTold

\* An activation begins with nothing known.
LEMMA BeginTold ==
    ASSUME IndInv, WalksTold, NEW d \in Dispatchers, NEW cap \in Captures,
           NEW many \in BOOLEAN, BeginDispatch(d, cap, many)
    PROVE  WalksTold'
<1>1. CachesGrow
  BY BeginGrows
<1>2. PICK k \in Nat : stack' = Append(stack, NewFrame(d, cap, k, many))
  <2>1. cacheOf[d] \in Nat /\ Len(caches) + 1 \in Nat
    BY DEF IndInv, TypeOK
  <2> QED BY <2>1 DEF BeginDispatch
<1> DEFINE f == NewFrame(d, cap, k, many)
<1>3. /\ f.group = 0 /\ f.todo = {} /\ f.kept = {} /\ f.found = {} /\ f.mode = "walk"
      /\ f \in Frames
  BY NewFrameType DEF NewFrame
<1> HIDE DEF f
<1>4. /\ DOMAIN stack' = 1..(Len(stack) + 1) /\ stack'[Len(stack')] = f
      /\ \A n \in DOMAIN stack' : n # Len(stack') => n \in DOMAIN stack /\ stack'[n] = stack[n]
  <2>1. stack \in Seq(Frames) /\ stack' = Append(stack, f)
    BY <1>2 DEF IndInv, TypeOK, f
  <2> QED BY <1>3, <2>1, PushLemma
<1> SUFFICES ASSUME NEW n \in DOMAIN stack' PROVE WalkTold(stack'[n], List(stack[n])')
  BY DEF WalksTold
<1>5. CASE n = Len(stack')
  <2> DEFINE list == List(stack[n])'
  <2> HIDE DEF list
  <2>1. WalkTold(f, list)
    BY <1>3 DEF WalkTold
  <2> QED BY <1>4, <1>5, <2>1 DEF list
<1>6. CASE n # Len(stack')
  <2>1. List(stack[n])' = List(stack[n])
    BY <1>1, <1>4, <1>6, ListKept DEF List
  <2> QED BY <1>4, <1>6, <2>1 DEF WalksTold
<1> QED BY <1>5, <1>6

\* Every step.
LEMMA NextTold == IndInv /\ WalksTold /\ [Next]_vars => WalksTold'
<1> SUFFICES ASSUME IndInv, WalksTold, [Next]_vars PROVE WalksTold'
  OBVIOUS
<1>1. CachesGrow
  BY NextGrows
<1>2. CASE stack' = stack
  BY <1>1, <1>2, ShorterTold
<1>3. CASE stack # <<>> /\ Pop
  <2>1. stack \in Seq(Frames) /\ Len(stack) \in Nat /\ Len(stack) # 0
    BY <1>3 DEF IndInv, TypeOK
  <2>2. stack' = [i \in 1..(Len(stack) - 1) |-> stack[i]]
    BY <1>3, <2>1 DEF Pop
  <2>3. \A n \in DOMAIN stack' : n \in DOMAIN stack /\ stack'[n] = stack[n]
    BY <2>1, <2>2
  <2> QED BY <1>1, <2>3, ShorterTold
<1>4. CASE Declare
  BY <1>2, <1>4 DEF Declare, NewDispatcher, AddDispatchee, CloneDispatcher,
     DeriveDispatcher, SetDefault
<1>5. CASE Call
  <2>1. PICK d \in Dispatchers, cap \in Captures :
           \/ DispatchFromCache(d, cap) \/ DispatchCircular(d, cap)
           \/ \E many \in BOOLEAN : BeginDispatch(d, cap, many)
    BY <1>5 DEF Call
  <2>2. CASE DispatchFromCache(d, cap) \/ DispatchCircular(d, cap)
    BY <1>2, <2>2 DEF DispatchFromCache, DispatchCircular
  <2>3. CASE \E many \in BOOLEAN : BeginDispatch(d, cap, many)
    BY <2>3, BeginTold
  <2> QED BY <2>1, <2>2, <2>3
<1>6. CASE Walk
  <2>1. CASE ReturnMatches \/ ReturnBest
    BY <1>3, <2>1 DEF ReturnMatches, ReturnBest, Walking
  <2> QED BY <2>1, <1>6, NextGroupTold, EliminateTold, AcceptTold, BeginCheckTold,
             CollectTold DEF Walk
<1>7. CASE UserEnds
  <2>1. CASE BindCheckDies
    BY <1>3, <2>1 DEF BindCheckDies
  <2> QED BY <2>1, <1>7, EndCheckTold DEF UserEnds
<1>8. CASE UNCHANGED vars
  BY <1>2, <1>8 DEF vars
<1> QED BY <1>4, <1>5, <1>6, <1>7, <1>8 DEF Next

-----------------------------------------------------------------------------
(* The caches.                                                              *)

\* Where a cache entry comes from: it was there before, or a walk of the very
\* same list has just found it without asking user code.
EntryOrigin(j, x) ==
    \/ /\ x \in DOMAIN caches[j].entries
       /\ caches'[j].entries[x] = caches[j].entries[x]
    \/ /\ j = Top.cache /\ x = KeyOf(Top.cap) /\ Top.pure /\ Walking /\ Decided(Top)
       /\ \E i \in Top.kept : /\ caches'[j].entries[x] = List(Top)[i]
                              /\ Winners(List(Top), Top.kept, default) = {i}

\* Which candidate the verdict is when there is a single winner.
LEMMA SingleWinner ==
    ASSUME IndInv, stack # <<>>,
           Cardinality(Winners(List(Top), Top.kept, default)) = 1
    PROVE  \E i \in Top.kept :
              /\ Winners(List(Top), Top.kept, default) = {i}
              /\ Verdict(List(Top), Winners(List(Top), Top.kept, default), Top.cap).cand
                 = List(Top)[i]
<1> DEFINE list == List(Top)
           kept == Top.kept
           cap  == Top.cap
           def  == default
           w    == Winners(list, kept, def)
<1>1. list \in Seq(Cands) /\ kept \subseteq DOMAIN list /\ Cardinality(w) = 1
  BY TopFacts
<1> HIDE DEF list, kept, cap, def
<1>2. IsFiniteSet(DOMAIN list)
  <2>1. DOMAIN list = 1..Len(list) /\ Len(list) \in Nat
    BY <1>1
  <2> QED BY <2>1, FS_Interval
<1>3. w \subseteq kept
  BY DEF Winners
<1>4. IsFiniteSet(w)
  BY <1>1, <1>2, <1>3, FS_Subset
<1>5. PICK i : w = {i} /\ (CHOOSE j \in w : TRUE) = i
  BY <1>1, <1>4, OneWinner
<1> HIDE DEF w
<1>6. Verdict(list, w, cap) = Chosen(list[i])
  BY <1>1, <1>5 DEF Verdict
<1>7. Verdict(list, w, cap).cand = list[i] /\ i \in kept
  BY <1>3, <1>5, <1>6 DEF Chosen
<1> QED BY <1>5, <1>7 DEF w, list, kept, cap, def

\* The entries a returning walk leaves.
LEMMA BestOrigin ==
    ASSUME IndInv, ReturnBest
    PROVE  /\ DOMAIN caches' = DOMAIN caches
           /\ \A j \in DOMAIN caches : \A x \in DOMAIN caches'[j].entries : EntryOrigin(j, x)
<1> DEFINE winners == Winners(List(Top), Top.kept, default)
           verdict == Verdict(List(Top), winners, Top.cap)
           key == KeyOf(Top.cap)
<1>1. /\ Walking /\ stack # <<>> /\ Decided(Top)
      /\ caches' = IF Cacheable(Top, winners)
                   THEN WithEntry(cacheOf[Top.disp], key, verdict.cand)
                   ELSE caches
  BY DEF ReturnBest, Walking
<1>2. CASE Cacheable(Top, winners) /\ caches' # caches
  <2>1. Top.pure /\ Cardinality(winners) = 1
    BY <1>2 DEF Cacheable
  <2>2. PICK i \in Top.kept : winners = {i} /\ verdict.cand = List(Top)[i]
    BY <1>1, <2>1, SingleWinner
  <2> HIDE DEF winners, verdict, key
  <2>3. cacheOf[Top.disp] = Top.cache
    BY <1>1, <2>1 DEF IndInv, PureWalkUndisturbed
  <2>4. /\ Top.cache \in DOMAIN caches /\ caches \in Seq(CacheRecs)
        /\ caches[Top.cache] \in CacheRecs
    BY <1>1, TopFacts DEF IndInv, TypeOK
  <2> DEFINE k == Top.cache
             c == List(Top)[i]
             old == caches[k].entries
             new == [x \in DOMAIN old \cup {key} |-> IF x = key THEN c ELSE old[x]]
             rec == [caches[k] EXCEPT !.entries = new]
  <2>5. caches' = [caches EXCEPT ![k] = rec]
    BY <1>1, <1>2, <2>2, <2>3 DEF WithEntry
  <2>6. \A x \in DOMAIN new : \/ x \in DOMAIN old /\ new[x] = old[x]
                              \/ x = key /\ new[x] = c
    OBVIOUS
  <2>7. rec.entries = new
    <3> HIDE DEF new
    <3> QED BY <2>4 DEF CacheRecs
  <2> HIDE DEF new, rec, c, k
  <2>8. DOMAIN caches' = DOMAIN caches /\ caches'[k] = rec
        /\ \A j \in DOMAIN caches : j # k => caches'[j] = caches[j]
    BY <2>4, <2>5 DEF k
  <2> SUFFICES ASSUME NEW j \in DOMAIN caches, NEW x \in DOMAIN caches'[j].entries
               PROVE  EntryOrigin(j, x)
    BY <2>8
  <2>9. CASE j # k
    BY <2>8, <2>9 DEF EntryOrigin
  <2>10. CASE j = k
    <3>1. x \in DOMAIN new /\ caches'[j].entries[x] = new[x]
      BY <2>7, <2>8, <2>10
    <3>2. CASE x \in DOMAIN old /\ new[x] = old[x]
      BY <3>1, <3>2, <2>10 DEF EntryOrigin
    <3>3. CASE x = key /\ new[x] = c
      <4>1. caches'[j].entries[x] = List(Top)[i]
        BY <3>1, <3>3 DEF c
      <4>2. Winners(List(Top), Top.kept, default) = {i}
        BY <2>2 DEF winners
      <4> QED BY <1>1, <2>1, <3>3, <4>1, <4>2, <2>10 DEF EntryOrigin, k, key
    <3> QED BY <2>6, <3>1, <3>2, <3>3
  <2> QED BY <2>9, <2>10
<1>3. CASE caches' = caches
  BY <1>3 DEF EntryOrigin
<1> QED BY <1>1, <1>2, <1>3

\* A cache that is new was made from a list without a circularity.
LEMMA NextLists == IndInv /\ ListsSorted /\ [Next]_vars => ListsSorted'
<1> SUFFICES ASSUME IndInv, ListsSorted, [Next]_vars, NEW k \in DOMAIN caches'
             PROVE  ~Circular(caches'[k].source)
  BY DEF ListsSorted
<1>1. CASE k \in DOMAIN caches
  BY <1>1, NextGrows DEF CachesGrow, ListsSorted
<1>2. CASE k \notin DOMAIN caches
  <2>1. caches' # caches
    BY <1>2
  <2>2. ~ReturnBest
    BY <1>2, BestOrigin
  <2>3. PICK d \in Dispatchers, cap \in Captures, many \in BOOLEAN : BeginDispatch(d, cap, many)
    BY <2>1, <2>2 DEF Next, Declare, NewDispatcher, AddDispatchee, CloneDispatcher,
       DeriveDispatcher, SetDefault, Call, DispatchFromCache, DispatchCircular, Walk,
       NextGroup, EliminateByName, AcceptNominal, BeginBindCheck, CollectMatches,
       ReturnMatches, Silent, UserEnds, BindCheckDies, EndBindCheck, vars
  <2> DEFINE rec == [source |-> ListOf(d), groups |-> Sorted(ListOf(d)),
                     entries |-> NoEntries]
  <2>4. caches' = Append(caches, rec) /\ ~Circular(ListOf(d))
    BY <2>1, <2>3 DEF BeginDispatch
  <2>5. rec.source = ListOf(d)
    OBVIOUS
  <2> HIDE DEF rec
  <2>6. caches'[k] = rec
    <3>1. caches \in Seq(CacheRecs)
      BY DEF IndInv, TypeOK
    <3> QED BY <1>2, <2>4, <3>1
  <2> QED BY <2>4, <2>5, <2>6
<1> QED BY <1>1, <1>2

\* Captures with one key have the same candidates, group by group.
LEMMA ThroughByKey ==
    ASSUME NEW list \in Seq(Cands), NEW k \in DOMAIN list,
           NEW a \in Captures, NEW b \in Captures, KeyOf(a) = KeyOf(b)
    PROVE  Through(list, a, k) = Through(list, b, k)
<1>1. \A i \in Sorted(list)[k] : list[i] \in Cands
  BY SortedType
<1>2. \A i \in Sorted(list)[k] : Admissible(list[i], a) = Admissible(list[i], b)
  BY <1>1, AdmissibleByKey
<1> QED BY <1>2 DEF Through, Possibles

\* What a pure walk has found is exact for every capture with the key.
LEMMA WinnerExact ==
    ASSUME IndInv, Walking, Decided(Top), Top.pure, NEW i \in Top.kept,
           Winners(List(Top), Top.kept, default) = {i},
           NEW cap \in Captures, KeyOf(cap) = KeyOf(Top.cap)
    PROVE  Exact(List(Top), cap, List(Top)[i], default)
<1>1. stack # <<>> /\ ~Top.many /\ Top.todo = {}
  BY DEF Walking, Decided
<1> DEFINE g == Top.group
           list == List(Top)
           kept == Top.kept
<1>2. /\ Top \in Frames /\ list \in Seq(Cands) /\ g \in 0..Len(list)
      /\ DOMAIN list = 1..Len(list) /\ Len(list) \in Nat
      /\ \A k : PossiblesIn(Top, k) = Through(list, Top.cap, k)
  BY <1>1, TopFacts DEF PossiblesIn, Through
<1>3. /\ g # 0 /\ kept = Through(list, Top.cap, g)
      /\ \A j \in 1..(g - 1) : Through(list, Top.cap, j) = {}
      /\ \A l \in kept : ~Info[list[l]].bindCheck
  BY <1>1, <1>2 DEF IndInv, PureWalkExact
<1>4. g \in DOMAIN list /\ \A j \in 1..(g - 1) : j \in DOMAIN list
  BY <1>2, <1>3
<1>5. Top.cap \in Captures
  BY <1>2 DEF Frames
<1>6. \A k \in DOMAIN list : Through(list, cap, k) = Through(list, Top.cap, k)
  BY <1>2, <1>5, ThroughByKey
<1>7. i \in kept /\ Winners(list, kept, default) = {i}
  OBVIOUS
<1> HIDE DEF g, list, kept
<1>8. Exact(list, cap, list[i], default)
  BY <1>3, <1>4, <1>6, <1>7 DEF Exact
<1> QED BY <1>8 DEF list

\* A trait on a candidate that is not in the list changes nothing for it.
LEMMA ExactStable ==
    ASSUME NEW list \in Seq(Cands), NEW cap, NEW c, NEW def, NEW more,
           Exact(list, cap, c, def), def \subseteq more,
           \A i \in DOMAIN list : list[i] \in more => list[i] \in def
    PROVE  Exact(list, cap, c, more)
<1>1. PICK g \in DOMAIN list :
        /\ \A j \in 1..(g - 1) : Through(list, cap, j) = {}
        /\ \A i \in Through(list, cap, g) : ~Info[list[i]].bindCheck
        /\ \E i \in Through(list, cap, g) :
              list[i] = c /\ Winners(list, Through(list, cap, g), def) = {i}
  BY DEF Exact
<1> DEFINE kept == Through(list, cap, g)
<1>2. kept \subseteq DOMAIN list
  BY ThroughFacts
<1>3. {i \in kept : list[i] \in more} = {i \in kept : list[i] \in def}
  BY <1>2
<1>4. Winners(list, kept, more) = Winners(list, kept, def)
  BY <1>3 DEF Winners
<1> QED BY <1>1, <1>4 DEF Exact

\* Every step.
LEMMA NextExact ==
    ASSUME ~LateTraits, IndInv, EntriesExact, [Next]_vars
    PROVE  EntriesExact'
<1> SUFFICES ASSUME NEW k \in DOMAIN caches', NEW key \in DOMAIN caches'[k].entries,
                    NEW cap \in Captures, KeyOf(cap) = key
             PROVE  Exact(caches[k].source, cap, caches[k].entries[key], default)'
  BY DEF EntriesExact, KeyOf
<1>0. caches \in Seq(CacheRecs)
  BY DEF IndInv, TypeOK
<1>1. CASE k \notin DOMAIN caches
  <2>1. caches' # caches
    BY <1>1
  <2>2. ~ReturnBest
    BY <1>1, BestOrigin
  <2>3. PICK d \in Dispatchers, c \in Captures, many \in BOOLEAN : BeginDispatch(d, c, many)
    BY <2>1, <2>2 DEF Next, Declare, NewDispatcher, AddDispatchee, CloneDispatcher,
       DeriveDispatcher, SetDefault, Call, DispatchFromCache, DispatchCircular, Walk,
       NextGroup, EliminateByName, AcceptNominal, BeginBindCheck, CollectMatches,
       ReturnMatches, Silent, UserEnds, BindCheckDies, EndBindCheck, vars
  <2> DEFINE rec == [source |-> ListOf(d), groups |-> Sorted(ListOf(d)),
                     entries |-> NoEntries]
  <2>4. caches' = Append(caches, rec)
    BY <2>1, <2>3 DEF BeginDispatch
  <2>5. DOMAIN rec.entries = {}
    BY DEF NoEntries
  <2> HIDE DEF rec
  <2>6. caches'[k] = rec
    BY <1>0, <1>1, <2>4
  <2> QED BY <2>5, <2>6
<1>2. CASE k \in DOMAIN caches
  <2> DEFINE list == caches[k].source
  <2>1. list \in Seq(Cands) /\ caches'[k].source = list
    <3>1. caches[k] \in CacheRecs
      BY <1>0, <1>2
    <3> QED BY <1>2, <3>1, NextGrows DEF CacheRecs, CachesGrow
  <2>2. /\ default \subseteq default'
        /\ \A i \in DOMAIN list : list[i] \in default' => list[i] \in default
    <3>1. CASE default' = default
      BY <3>1
    <3>2. CASE \E c \in Cands : SetDefault(c)
      BY <1>2, <3>2 DEF SetDefault, InUse
    <3> QED BY <3>1, <3>2 DEF Next, Declare, NewDispatcher, AddDispatchee, CloneDispatcher,
       DeriveDispatcher, Call, DispatchFromCache, DispatchCircular, BeginDispatch, Walk,
       NextGroup, EliminateByName, AcceptNominal, BeginBindCheck, CollectMatches,
       ReturnMatches, ReturnBest, Silent, UserEnds, BindCheckDies, EndBindCheck, heap, vars
  <2>3. EntryOrigin(k, key)
    <3>1. CASE ReturnBest
      BY <1>2, <3>1, BestOrigin
    <3>2. CASE caches' = caches
      BY <3>2 DEF EntryOrigin
    <3>3. CASE \E d \in Dispatchers, c \in Captures, many \in BOOLEAN : BeginDispatch(d, c, many)
      <4>1. \E rec : caches' = caches \/ caches' = Append(caches, rec)
        BY <3>3 DEF BeginDispatch
      <4>2. caches'[k] = caches[k]
        BY <1>0, <1>2, <4>1
      <4> QED BY <4>2 DEF EntryOrigin
    <3> QED BY <3>1, <3>2, <3>3 DEF Next, Declare, NewDispatcher, AddDispatchee,
       CloneDispatcher, DeriveDispatcher, SetDefault, Call, DispatchFromCache,
       DispatchCircular, Walk, NextGroup, EliminateByName, AcceptNominal, BeginBindCheck,
       CollectMatches, ReturnMatches, Silent, UserEnds, BindCheckDies, EndBindCheck, vars
  <2> DEFINE c == caches'[k].entries[key]
  <2>4. Exact(list, cap, c, default)
    <3>1. CASE key \in DOMAIN caches[k].entries /\ c = caches[k].entries[key]
      BY <1>2, <3>1 DEF EntriesExact
    <3>2. CASE /\ k = Top.cache /\ key = KeyOf(Top.cap) /\ Top.pure /\ Walking /\ Decided(Top)
               /\ \E i \in Top.kept : /\ c = List(Top)[i]
                                      /\ Winners(List(Top), Top.kept, default) = {i}
      BY <3>2, WinnerExact DEF List
    <3> QED BY <2>3, <3>1, <3>2 DEF EntryOrigin
  <2> HIDE DEF c, list
  <2>5. Exact(list, cap, c, default')
    BY <2>1, <2>2, <2>4, ExactStable
  <2> QED BY <2>1, <2>5 DEF c
<1> QED BY <1>1, <1>2

-----------------------------------------------------------------------------
(* Every step is a step of the abstract dispatcher.                         *)

\* Which outcomes count as answers.
LEMMA BestAnswers ==
    ASSUME NEW list, NEW cap, NEW many, ~many, ~Circular(list), NEW ok \in SUBSET DOMAIN list
    PROVE  Uncached!Best(list, cap, ok) \in Uncached!Answers(list, cap, many)
BY SameSort DEF Uncached!Answers

\* All matches, for some verdicts of the bind checks.
LEMMA MatchesAnswer ==
    ASSUME NEW list, NEW cap, NEW many, many, ~Circular(list), NEW ok \in SUBSET DOMAIN list
    PROVE  Uncached!AllMatches(list, cap, ok) \in Uncached!Answers(list, cap, many)
BY SameSort DEF Uncached!Answers

\* An exception, where the types admit a candidate that is bind-checked.
LEMMA DeathAnswers ==
    ASSUME NEW list, NEW cap, NEW many, ~Circular(list),
           NEW i \in DOMAIN list, Admissible(list[i], cap), Info[list[i]].bindCheck
    PROVE  Failed("died") \in Uncached!Answers(list, cap, many)
<1>1. Uncached!AsksUser(list, cap)
  BY SameMatch, SameInfo DEF Uncached!AsksUser
<1>2. Uncached!Failed("died") = Failed("died") /\ ~Uncached!Circular(list)
  BY SameVerdicts, SameSort
<1> QED BY <1>1, <1>2 DEF Uncached!Answers

\* A circularity, where there is one.
LEMMA CircleAnswers ==
    ASSUME NEW list, NEW cap, NEW many, Circular(list)
    PROVE  Failed("circular") \in Uncached!Answers(list, cap, many)
BY SameSort, SameVerdicts DEF Uncached!Answers

\* The lists the abstract dispatcher sees.
Lists == [d \in Dispatchers |-> ListOf(d)]

\* What it sees of an activation.
CallOf(list, f) == [list |-> list, cap |-> f.cap, many |-> f.many]

\* The calls in progress, one by one.
LEMMA CallsAre == CallsInProgress = [i \in DOMAIN stack |-> CallOf(List(stack[i]), stack[i])]
BY DEF CallsInProgress, CallOf

\* Activations that walk on are the calls they were.
LEMMA SameCalls ==
    ASSUME IndInv, CachesGrow, DOMAIN stack' = DOMAIN stack,
           \A n \in DOMAIN stack : /\ stack'[n].cache = stack[n].cache
                                   /\ stack'[n].cap = stack[n].cap
                                   /\ stack'[n].many = stack[n].many
    PROVE  CallsInProgress' = CallsInProgress
<1>1. ASSUME NEW n \in DOMAIN stack
      PROVE  CallOf(List(stack[n])', stack'[n]) = CallOf(List(stack[n]), stack[n])
  <2>1. List(stack[n])' = List(stack[n])
    BY ListKept DEF List
  <2> QED BY <2>1 DEF CallOf
<1>2. CallsInProgress' = [i \in DOMAIN stack' |-> CallOf(List(stack[i])', stack'[i])]
  BY DEF CallsInProgress, CallOf
<1> QED BY <1>1, <1>2, CallsAre

\* A declaration adds to one list, or nothing.
LEMMA DeclareMaps ==
    ASSUME ~MayClone, IndInv, LinkInv, Declare
    PROVE  Uncached!Next
<1>1. /\ TypeOK /\ stack \in Seq(Frames)
      /\ \A d \in Dispatchers : arrayOf[d] = d /\ ListOf(d) = arrays[d]
  BY DEF IndInv, TypeOK, LinkInv, LinksOK, NoneCloned, ListOf
<1>2. result' = Uncached!Idle /\ stack' = stack /\ caches' = caches
  BY SameVerdicts DEF Declare, NewDispatcher, AddDispatchee, CloneDispatcher,
     DeriveDispatcher, SetDefault
<1>3. CallsInProgress' = CallsInProgress
  BY <1>2, SameCalls DEF CachesGrow
<1>4. ASSUME NEW d \in Dispatchers, NewDispatcher(d) PROVE Uncached!Next
  <2>1. arrayOf' = arrayOf /\ arrays' = arrays /\ default' = default
    BY <1>1, <1>4 DEF NewDispatcher, TypeOK
  <2>2. Lists' = Lists
    BY <2>1 DEF Lists, ListOf
  <2> QED BY <1>2, <1>3, <2>1, <2>2 DEF Uncached!Next, Uncached!Forget, Lists
<1>5. ASSUME NEW d \in Dispatchers, NEW c \in Cands, AddDispatchee(d, c) PROVE Uncached!Next
  <2>1. /\ arrayOf' = arrayOf /\ default' = default
        /\ arrays' = [arrays EXCEPT ![d] = Append(@, c)]
    BY <1>1, <1>5 DEF AddDispatchee
  <2>2. Lists' = [Lists EXCEPT ![d] = Append(@, c)]
    <3>1. Lists = arrays
      BY <1>1 DEF Lists, TypeOK
    <3>2. Lists' = arrays'
      BY <1>1, <2>1 DEF Lists, TypeOK, ListOf
    <3> QED BY <2>1, <3>1, <3>2
  <2>3. Uncached!Declare
    BY <1>2, <1>3, <2>1, <2>2 DEF Uncached!Declare, Lists
  <2> QED BY <2>3 DEF Uncached!Next
<1>6. ASSUME NEW d \in Dispatchers, NEW e \in Dispatchers, DeriveDispatcher(d, e)
      PROVE  Uncached!Next
  <2>1. /\ arrayOf' = arrayOf /\ default' = default
        /\ arrays' = [arrays EXCEPT ![e] = arrays[d]]
    BY <1>1, <1>6 DEF DeriveDispatcher, TypeOK
  <2>2. Lists' = [Lists EXCEPT ![e] = Lists[d]]
    <3>1. Lists = arrays
      BY <1>1 DEF Lists, TypeOK
    <3>2. Lists' = arrays'
      BY <1>1, <2>1 DEF Lists, TypeOK, ListOf
    <3> QED BY <2>1, <3>1, <3>2
  <2>3. Uncached!Declare
    BY <1>2, <1>3, <2>1, <2>2 DEF Uncached!Declare, Lists
  <2> QED BY <2>3 DEF Uncached!Next
<1>7. ASSUME NEW c \in Cands, SetDefault(c) PROVE Uncached!Next
  <2>1. Lists' = Lists /\ default' = default \cup {c}
    BY <1>7 DEF SetDefault, Lists, ListOf
  <2>2. Uncached!MarkDefault
    BY <1>2, <1>3, <2>1 DEF Uncached!MarkDefault, Lists
  <2> QED BY <2>2 DEF Uncached!Next
<1> QED BY <1>4, <1>5, <1>6, <1>7 DEF Declare, CloneDispatcher

\* A call answered at once.
LEMMA AtOnceMaps ==
    ASSUME NEW d \in Dispatchers, NEW cap \in Captures,
           UNCHANGED <<arrayOf, arrays, caches, default, stack>>,
           result' \in Uncached!Answers(ListOf(d), cap, FALSE)
    PROVE  Uncached!Next
<1>1. Lists' = Lists /\ Lists[d] = ListOf(d)
  BY DEF Lists, ListOf
<1>2. CallsInProgress' = CallsInProgress
  BY DEF CallsInProgress, List
<1>3. Uncached!CallAnswered(d, cap)
  BY <1>1, <1>2 DEF Uncached!CallAnswered, Lists
<1> QED BY <1>3 DEF Uncached!Next

\* The cache has the answer that a walk would give.
LEMMA HitMaps ==
    ASSUME ~MayClone, IndInv, LinkInv, ListsSorted, EntriesExact,
           NEW d \in Dispatchers, NEW cap \in Captures, DispatchFromCache(d, cap)
    PROVE  Uncached!Next
<1> DEFINE k == cacheOf[d]
           c == caches[k].entries[KeyOf(cap)]
           list == ListOf(d)
<1>1. /\ k # 0 /\ d \in live /\ KeyOf(cap) \in DOMAIN caches[k].entries /\ result' = Chosen(c)
      /\ UNCHANGED <<arrayOf, arrays, caches, default, stack>>
  BY DEF DispatchFromCache, Cached
<1>2. k \in DOMAIN caches /\ list \in Seq(Cands)
  BY <1>1 DEF IndInv, TypeOK, ListOf
<1>3. caches[k].source = list
  BY <1>1 DEF LinkInv, LinksOK, CacheFresh
<1>4. ~Circular(list) /\ Exact(list, cap, c, default)
  BY <1>1, <1>2, <1>3 DEF ListsSorted, EntriesExact
<1> HIDE DEF c, list
<1>5. Uncached!Best(list, cap, {}) = Chosen(c)
  BY <1>2, <1>4, ExactBest
<1>6. result' \in Uncached!Answers(list, cap, FALSE)
  BY <1>1, <1>4, <1>5, BestAnswers
<1> QED BY <1>1, <1>6, AtOnceMaps DEF list

\* A sequence with one more element.
LEMMA OneMore ==
    ASSUME NEW S, NEW n \in Nat, NEW old \in [1..n -> S], NEW new \in [1..(n + 1) -> S],
           \A i \in 1..n : new[i] = old[i]
    PROVE  new = Append(old, new[n + 1])
<1> DEFINE c == new[n + 1]
<1>1. c \in S /\ \A i \in 1..n : old[i] \in S
  OBVIOUS
<1> HIDE DEF c
<1>3. old \in Seq(S) /\ Len(old) = n
  BY <1>1
<1>4. Append(old, c) \in Seq(S) /\ Len(Append(old, c)) = n + 1
      /\ DOMAIN Append(old, c) = 1..(n + 1)
  BY <1>1, <1>3
<1>5. ASSUME NEW i \in 1..(n + 1) PROVE Append(old, c)[i] = new[i]
  <2>1. CASE i = n + 1
    BY <1>1, <1>3, <2>1 DEF c
  <2>2. CASE i # n + 1
    <3>1. i \in 1..n
      BY <2>2
    <3>2. Append(old, c)[i] = old[i]
      BY <1>1, <1>3, <3>1
    <3> QED BY <3>1, <3>2
  <2> QED BY <2>1, <2>2
<1>6. Append(old, c) = [i \in 1..(n + 1) |-> Append(old, c)[i]]
  <2> DEFINE a == Append(old, c)
  <2> HIDE DEF a
  <2>1. a \in Seq(S) /\ Len(a) = n + 1
    BY <1>4 DEF a
  <2>2. a \in [1..(n + 1) -> S]
    BY <2>1
  <2>3. a = [i \in 1..(n + 1) |-> a[i]]
    BY <2>2
  <2> QED BY <2>3 DEF a
<1>7. new = [i \in 1..(n + 1) |-> new[i]]
  OBVIOUS
<1> QED BY <1>5, <1>6, <1>7 DEF c

\* A dispatch that begins is a call with the candidates of the moment.
LEMMA BeginMaps ==
    ASSUME ~MayClone, IndInv, LinkInv, NEW d \in Dispatchers, NEW cap \in Captures,
           NEW many \in BOOLEAN, BeginDispatch(d, cap, many)
    PROVE  Uncached!Next
<1>1. /\ d \in live /\ UNCHANGED <<arrayOf, arrays, default>> /\ result' = Uncached!Idle
  BY SameVerdicts DEF BeginDispatch
<1>2. CachesGrow /\ LinkInv'
  BY BeginGrows, BeginLinks
<1>3. stack' = Append(stack, NewFrame(d, cap, cacheOf'[d], many)) /\ cacheOf'[d] # 0
  <2>1. cacheOf \in [Dispatchers -> 0..Len(caches)] /\ Len(caches) \in Nat
    BY DEF IndInv, TypeOK
  <2> QED BY <2>1 DEF BeginDispatch
<1> DEFINE f == NewFrame(d, cap, cacheOf'[d], many)
           call == CallOf(ListOf(d), f)
<1>4. f.cache = cacheOf'[d] /\ f.cap = cap /\ f.many = many
  BY DEF NewFrame
<1>5. call = [list |-> ListOf(d), cap |-> cap, many |-> many]
  BY <1>4 DEF CallOf
<1>6. ListOf(d)' = ListOf(d) /\ Lists' = Lists /\ Lists[d] = ListOf(d)
  BY <1>1 DEF ListOf, Lists
<1>7. caches'[f.cache].source = ListOf(d)
  <2>1. caches'[cacheOf'[d]].source = ListOf(d)'
    BY <1>1, <1>2, <1>3 DEF LinkInv, LinksOK, CacheFresh, BeginDispatch
  <2> QED BY <1>4, <1>6, <2>1
<1>8. f \in Frames
  <2>1. cacheOf'[d] \in Nat
    <3>1. IndInv'
      BY BeginInd
    <3> QED BY <3>1 DEF IndInv, TypeOK
  <2> QED BY <2>1, NewFrameType
<1>9. stack \in Seq(Frames) /\ stack' = Append(stack, f)
  BY <1>3 DEF IndInv, TypeOK
<1> HIDE DEF f
<1>10. /\ DOMAIN stack' = 1..(Len(stack) + 1) /\ stack'[Len(stack) + 1] = f
       /\ \A n \in 1..Len(stack) : stack'[n] = stack[n]
       /\ DOMAIN stack = 1..Len(stack) /\ Len(stack) \in Nat
  BY <1>8, <1>9
<1>11. CallsInProgress' = Append(CallsInProgress, call)
  <2> DEFINE old == CallsInProgress
             new == CallsInProgress'
  <2>1. PICK n \in Nat : n = Len(stack)
    BY <1>10
  <2>2. PICK m \in Nat : m = n + 1
    OBVIOUS
  <2>3. /\ old = [i \in 1..n |-> CallOf(List(stack[i]), stack[i])]
        /\ new = [i \in 1..m |-> CallOf(List(stack[i])', stack'[i])]
    BY <1>10, <2>1, <2>2 DEF CallsInProgress, CallOf
  <2>4. ASSUME NEW i \in 1..n
        PROVE  CallOf(List(stack[i])', stack'[i]) = CallOf(List(stack[i]), stack[i])
    <3>1. i \in DOMAIN stack /\ stack'[i] = stack[i]
      BY <1>10, <2>1
    <3>2. List(stack[i])' = List(stack[i])
      BY <1>2, <3>1, ListKept DEF List
    <3> QED BY <3>1, <3>2
  <2>5. stack'[m] = f /\ caches'[f.cache].source = ListOf(d)
    BY <1>7, <1>10, <2>1, <2>2 DEF f
  <2>6. List(stack[m])' = ListOf(d)
    BY <2>5 DEF List
  <2>7. CallOf(List(stack[m])', stack'[m]) = call
    BY <2>5, <2>6
  <2> HIDE DEF old, new, call
  <2>8. 1..n \subseteq 1..m /\ m \in 1..m
    BY <2>2
  <2>9. PICK o, w : o = old /\ w = new
    OBVIOUS
  <2>10. /\ DOMAIN o = 1..n /\ o = [i \in 1..n |-> o[i]]
         /\ w = [i \in 1..m |-> w[i]] /\ w[m] = call
    BY <2>3, <2>7, <2>8, <2>9
  <2>11. \A i \in 1..n : w[i] = o[i]
    BY <2>3, <2>4, <2>8, <2>9
  <2> DEFINE S == {w[i] : i \in 1..m}
  <2>12. \A i \in 1..m : w[i] \in S
    OBVIOUS
  <2> HIDE DEF S
  <2>13. \A i \in 1..n : o[i] \in S
    BY <2>8, <2>11, <2>12
  <2>14. w \in [1..m -> S]
    BY <2>10, <2>12
  <2>15. o \in [1..n -> S]
    BY <2>10, <2>13
  <2>16. w = Append(o, w[m])
    BY <2>2, <2>11, <2>14, <2>15, OneMore
  <2> QED BY <2>9, <2>10, <2>16 DEF old, new, call
<1>12. Uncached!Call(d, cap, many)
  BY <1>1, <1>5, <1>6, <1>11 DEF Uncached!Call, Lists
<1> QED BY <1>12 DEF Uncached!Next

\* The innermost activation walks on.
LEMMA SilentMaps ==
    ASSUME IndInv, stack # <<>>, Silent, NEW f \in Frames, SetTop(f),
           f.cache = Top.cache, f.cap = Top.cap, f.many = Top.many
    PROVE  Uncached!Next
<1>1. /\ UNCHANGED <<arrayOf, arrays, caches, default>> /\ result' = Uncached!Idle
  BY SameVerdicts DEF Silent, heap
<1>2. stack \in Seq(Frames)
  BY TopFacts
<1>3. /\ DOMAIN stack' = DOMAIN stack /\ Len(stack) \in DOMAIN stack
      /\ stack'[Len(stack)] = f
      /\ \A n \in DOMAIN stack : n # Len(stack) => stack'[n] = stack[n]
  BY <1>2, SetTopLemma DEF SetTop
<1>4. CallsInProgress' = CallsInProgress
  BY <1>1, <1>3, SameCalls DEF CachesGrow, Top
<1>5. Lists' = Lists
  BY <1>1 DEF Lists, ListOf
<1>6. Uncached!Forget
  BY <1>1, <1>4, <1>5 DEF Uncached!Forget, Lists
<1> QED BY <1>6 DEF Uncached!Next

\* The innermost activation ends with an answer to its call.
LEMMA AnswerMaps ==
    ASSUME IndInv, CachesGrow, stack # <<>>, Pop, UNCHANGED heap,
           result' \in Uncached!Answers(List(Top), Top.cap, Top.many)
    PROVE  Uncached!Next
<1> DEFINE old == CallsInProgress
           new == CallsInProgress'
           n   == Len(stack)
           S   == {old[i] : i \in DOMAIN old}
<1>1. stack \in Seq(Frames) /\ n \in Nat /\ n # 0 /\ DOMAIN stack = 1..n
  BY DEF IndInv, TypeOK
<1>2. stack' = [i \in 1..(n - 1) |-> stack[i]]
  BY <1>1 DEF Pop
<1>3. /\ DOMAIN stack' = 1..(n - 1)
      /\ \A i \in 1..(n - 1) : i \in DOMAIN stack /\ stack'[i] = stack[i]
  BY <1>1, <1>2
<1> HIDE DEF n
<1>4. /\ DOMAIN old = 1..n /\ old = [i \in 1..n |-> old[i]]
      /\ new = [i \in 1..(n - 1) |-> new[i]]
  BY <1>1, <1>3 DEF CallsInProgress
<1>5. ASSUME NEW i \in 1..(n - 1) PROVE new[i] = old[i]
  <2>1. i \in DOMAIN stack' /\ i \in DOMAIN stack /\ stack'[i] = stack[i]
    BY <1>3
  <2>2. List(stack[i])' = List(stack[i])
    BY <2>1, ListKept DEF List
  <2>3. old[i] = CallOf(List(stack[i]), stack[i])
    BY <2>1 DEF CallsInProgress, CallOf
  <2>4. new[i] = CallOf(List(stack[i])', stack'[i])
    BY <2>1 DEF CallsInProgress, CallOf
  <2> QED BY <2>1, <2>2, <2>3, <2>4
<1>6. old[n] = CallOf(List(Top), Top)
  <2>1. n \in DOMAIN stack
    BY <1>1
  <2> QED BY <2>1 DEF CallsInProgress, CallOf, Top, n
<1>7. Lists' = Lists /\ default' = default
  BY DEF heap, Lists, ListOf
<1> HIDE DEF old, new
<1>8. old \in Seq(S) /\ Len(old) = n /\ old # <<>>
  <2>1. \A i \in 1..n : old[i] \in S
    BY <1>4
  <2> HIDE DEF S
  <2>2. n \in Nat \ {0}
    BY <1>1
  <2> HIDE DEF n
  <2>3. old \in [1..n -> S]
    BY <1>4, <2>1
  <2>4. old \in Seq(S)
    BY <2>2, <2>3
  <2>5. Len(old) = n
    BY <2>2, <2>3, <2>4
  <2> QED BY <2>2, <2>4, <2>5
<1> HIDE DEF S
<1>9. new = SubSeq(old, 1, Len(old) - 1)
  <2>1. SubSeq(old, 1, n - 1) = [i \in 1..(n - 1) |-> old[i]]
    BY <1>1, <1>8
  <2> QED BY <1>4, <1>5, <1>8, <2>1
<1>10. /\ old[Len(old)].list = List(Top) /\ old[Len(old)].cap = Top.cap
       /\ old[Len(old)].many = Top.many
  BY <1>6, <1>8 DEF CallOf
<1>11. Uncached!Answer
  BY <1>7, <1>8, <1>9, <1>10 DEF Uncached!Answer, Lists, old, new
<1> QED BY <1>11 DEF Uncached!Next

\* Looking at one more candidate, or going on to the next group, says nothing.
LEMMA WalkMaps ==
    ASSUME IndInv, WalksTold,
           \/ NextGroup \/ EliminateByName \/ AcceptNominal \/ BeginBindCheck
           \/ CollectMatches \/ \E ok \in BOOLEAN : EndBindCheck(ok)
    PROVE  Uncached!Next
<1>1. stack # <<>> /\ Silent
  BY DEF NextGroup, EliminateByName, AcceptNominal, BeginBindCheck, CollectMatches,
     EndBindCheck, Walking
<1>2. Top \in Frames
  BY <1>1, TopFacts
<1> SUFFICES \E f \in Frames : /\ SetTop(f) /\ f.cache = Top.cache /\ f.cap = Top.cap
                               /\ f.many = Top.many
  BY <1>1, SilentMaps
<1>3. CASE NextGroup
  <2>1. PICK k \in GroupsLeft(Top) :
           SetTop([Top EXCEPT !.group = k, !.todo = PossiblesIn(Top, k)])
    BY <1>3 DEF NextGroup
  <2>2. k \in DOMAIN List(Top) /\ List(Top) \in Seq(Cands)
    BY <1>1, TopTold DEF GroupsLeft
  <2>3. k \in Nat /\ PossiblesIn(Top, k) \in SUBSET Nat
    <3>1. Through(List(Top), Top.cap, k) \subseteq DOMAIN List(Top)
      BY <2>2, ThroughFacts
    <3> QED BY <1>1, <2>2, <3>1, TopTold
  <2> DEFINE f == [Top EXCEPT !.group = k, !.todo = PossiblesIn(Top, k)]
  <2>4. f \in Frames /\ f.cache = Top.cache /\ f.cap = Top.cap /\ f.many = Top.many
    BY <1>2, <2>3 DEF Frames
  <2> QED BY <2>1, <2>4
<1>4. CASE EliminateByName
  <2> DEFINE f == [Top EXCEPT !.todo = @ \ {First(Top)}, !.pure = FALSE]
  <2>1. f \in Frames /\ f.cache = Top.cache /\ f.cap = Top.cap /\ f.many = Top.many
    BY <1>2 DEF Frames
  <2> QED BY <1>4, <2>1 DEF EliminateByName
<1>5. CASE AcceptNominal
  <2> DEFINE f == [Top EXCEPT !.todo = @ \ {First(Top)}, !.kept = @ \cup {First(Top)}]
  <2>1. First(Top) \in Nat
    BY <1>1, <1>2, <1>5, FirstInTodo DEF AcceptNominal, Frames
  <2>2. f \in Frames /\ f.cache = Top.cache /\ f.cap = Top.cap /\ f.many = Top.many
    BY <1>2, <2>1 DEF Frames
  <2> QED BY <1>5, <2>2 DEF AcceptNominal
<1>6. CASE BeginBindCheck
  <2> DEFINE f == [Top EXCEPT !.mode = "user"]
  <2>1. f \in Frames /\ f.cache = Top.cache /\ f.cap = Top.cap /\ f.many = Top.many
    BY <1>2 DEF Frames
  <2> QED BY <1>6, <2>1 DEF BeginBindCheck
<1>7. CASE CollectMatches
  <2> DEFINE f == [Top EXCEPT !.found = @ \cup Top.kept, !.kept = {}]
  <2>1. f \in Frames /\ f.cache = Top.cache /\ f.cap = Top.cap /\ f.many = Top.many
    BY <1>2 DEF Frames
  <2> QED BY <1>7, <2>1 DEF CollectMatches
<1>8. ASSUME NEW ok \in BOOLEAN, EndBindCheck(ok)
      PROVE  \E f \in Frames : /\ SetTop(f) /\ f.cache = Top.cache /\ f.cap = Top.cap
                               /\ f.many = Top.many
  <2> DEFINE f == [Top EXCEPT !.mode = "walk", !.todo = @ \ {First(Top)}, !.pure = FALSE,
                             !.kept = IF ok THEN @ \cup {First(Top)} ELSE @]
  <2>1. First(Top) \in Nat
    <3>1. Top.todo # {}
      BY <1>1, <1>8, TopFacts DEF EndBindCheck
    <3> QED BY <1>1, <1>2, <3>1, FirstInTodo DEF Frames
  <2>2. f \in Frames /\ f.cache = Top.cache /\ f.cap = Top.cap /\ f.many = Top.many
    BY <1>2, <2>1 DEF Frames
  <2> QED BY <1>8, <2>2 DEF EndBindCheck
<1> QED BY <1>3, <1>4, <1>5, <1>6, <1>7, <1>8

\* When no group is left that lets anything through.
LEMMA NoneLeft ==
    ASSUME IndInv, WalksTold, stack # <<>>, GroupsLeft(Top) = {}
    PROVE  \A k \in DOMAIN List(Top) :
               k > Top.group => Through(List(Top), Top.cap, k) = {}
BY TopTold DEF GroupsLeft

\* The list that the innermost activation walks has no circularity.
LEMMA TopSorted ==
    ASSUME IndInv, ListsSorted, stack # <<>>
    PROVE  ~Circular(List(Top))
BY TopFacts DEF ListsSorted, List

\* A walk returns the best candidate: those it kept are what is left if the
\* bind checks say yes to them and no to all others.
LEMMA ReturnBestMaps ==
    ASSUME IndInv, WalksTold, ListsSorted, ReturnBest
    PROVE  Uncached!Next
<1>1. stack # <<>> /\ Pop /\ UNCHANGED heap
  BY DEF ReturnBest, Walking
<1>2. CachesGrow
  BY BestGrows
<1> DEFINE list == List(Top)
           ok   == Top.kept
<1>3. /\ Top.todo = {} /\ ~Top.many
      /\ ok # {} \/ \A k \in DOMAIN list : k > Top.group => Through(list, Top.cap, k) = {}
  BY <1>1, NoneLeft DEF ReturnBest, Decided
<1>4. result' = Verdict(list, Winners(list, ok, default), Top.cap)
  BY DEF ReturnBest
<1>5. /\ list \in Seq(Cands) /\ WalkTold(Top, list) /\ Top.group \in 0..Len(list)
      /\ ~Circular(list)
  BY <1>1, TopTold, TopSorted
<1>6. ok \in SUBSET DOMAIN list
  BY <1>1, TopFacts
<1>7. Uncached!Best(list, Top.cap, ok) = result'
  <2> HIDE DEF list
  <2> QED BY <1>3, <1>4, <1>5, DecidedBest
<1>8. result' \in Uncached!Answers(list, Top.cap, Top.many)
  <2> HIDE DEF list, ok
  <2> QED BY <1>3, <1>5, <1>6, <1>7, BestAnswers
<1> QED BY <1>1, <1>2, <1>8, AnswerMaps

\* A search returns all matches.
LEMMA ReturnMatchesMaps ==
    ASSUME IndInv, WalksTold, ListsSorted, ReturnMatches
    PROVE  Uncached!Next
<1>1. stack # <<>> /\ Pop /\ UNCHANGED heap /\ caches' = caches
  BY DEF ReturnMatches, Walking
<1>2. CachesGrow
  BY <1>1 DEF CachesGrow
<1> DEFINE list == List(Top)
           ok   == Top.found
<1>3. /\ Top.todo = {} /\ Top.kept = {} /\ Top.many
      /\ \A k \in DOMAIN list : k > Top.group => Through(list, Top.cap, k) = {}
  BY <1>1, NoneLeft DEF ReturnMatches
<1>4. result' = [kind |-> "matches", cands |-> {list[i] : i \in ok}]
  BY DEF ReturnMatches
<1>5. /\ list \in Seq(Cands) /\ WalkTold(Top, list) /\ Top.group \in 0..Len(list)
      /\ ~Circular(list)
  BY <1>1, TopTold, TopSorted
<1>6. ok \in SUBSET DOMAIN list
  BY <1>1, TopFacts
<1>7. Uncached!Survivors(list, DOMAIN list, Top.cap, ok) = ok
  <2> HIDE DEF list
  <2> QED BY <1>3, <1>5, <1>6, CollectedAll
<1>8. Uncached!AllMatches(list, Top.cap, ok) = result'
  <2> HIDE DEF list, ok
  <2> QED BY <1>4, <1>7 DEF Uncached!AllMatches
<1>9. result' \in Uncached!Answers(list, Top.cap, Top.many)
  <2> HIDE DEF list, ok
  <2> QED BY <1>3, <1>5, <1>6, <1>8, MatchesAnswer
<1> QED BY <1>1, <1>2, <1>9, AnswerMaps

\* User code may end a dispatch only where the types let it come to a check.
LEMMA DiesMaps ==
    ASSUME IndInv, WalksTold, ListsSorted, BindCheckDies
    PROVE  Uncached!Next
<1>1. /\ stack # <<>> /\ Pop /\ UNCHANGED heap /\ caches' = caches
      /\ Top.mode = "user" /\ result' = Failed("died")
  BY DEF BindCheckDies
<1>2. CachesGrow
  BY <1>1 DEF CachesGrow
<1> DEFINE list == List(Top)
           i    == First(Top)
<1>3. i \in Top.todo /\ i \in DOMAIN list
  BY <1>1, TopFacts, FirstInTodo
<1>4. /\ WalkTold(Top, list) /\ list \in Seq(Cands)
      /\ Top.group \in 0..Len(list) /\ ~Circular(list)
  BY <1>1, TopTold, TopSorted
<1>5. Info[list[i]].bindCheck /\ Top.group # 0 /\ i \in Through(list, Top.cap, Top.group)
  BY <1>1, <1>3, <1>4 DEF WalkTold
<1>6. Admissible(list[i], Top.cap)
  BY <1>5 DEF Through, Possibles
<1>7. result' \in Uncached!Answers(list, Top.cap, Top.many)
  <2> HIDE DEF list, i
  <2> QED BY <1>1, <1>3, <1>4, <1>5, <1>6, DeathAnswers
<1> QED BY <1>1, <1>2, <1>7, AnswerMaps

\* Every step of the dispatcher is one of the abstract dispatcher, or none.
LEMMA NextMaps ==
    ASSUME ~MayClone, IndInv, LinkInv, WalksTold, ListsSorted, EntriesExact, [Next]_vars
    PROVE  [Uncached!Next]_(Uncached!vars)
<1>1. CASE Declare
  BY <1>1, DeclareMaps
<1>2. CASE Call
  <2>1. PICK d \in Dispatchers, cap \in Captures :
           \/ DispatchFromCache(d, cap) \/ DispatchCircular(d, cap)
           \/ \E many \in BOOLEAN : BeginDispatch(d, cap, many)
    BY <1>2 DEF Call
  <2>2. CASE DispatchCircular(d, cap)
    <3>1. Circular(ListOf(d)) /\ result' = Failed("circular")
          /\ UNCHANGED <<arrayOf, arrays, caches, default, stack>>
      BY <2>2 DEF DispatchCircular
    <3>2. result' \in Uncached!Answers(ListOf(d), cap, FALSE)
      BY <3>1, CircleAnswers
    <3> QED BY <3>1, <3>2, AtOnceMaps
  <2> QED BY <2>1, <2>2, HitMaps, BeginMaps
<1>3. CASE Walk
  BY <1>3, WalkMaps, ReturnBestMaps, ReturnMatchesMaps DEF Walk
<1>4. CASE UserEnds
  BY <1>4, WalkMaps, DiesMaps DEF UserEnds
<1>5. CASE UNCHANGED vars
  <2>1. CallsInProgress' = CallsInProgress /\ Lists' = Lists
        /\ default' = default /\ result' = result
    BY <1>5 DEF vars, CallsInProgress, List, Lists, ListOf
  <2> QED BY <2>1 DEF Uncached!vars, Lists
<1> QED BY <1>1, <1>2, <1>3, <1>4, <1>5 DEF Next

\* The initial states.
LEMMA InitMaps == Init => Uncached!Init /\ WalksTold /\ ListsSorted /\ EntriesExact
<1> SUFFICES ASSUME Init PROVE Uncached!Init /\ WalksTold /\ ListsSorted /\ EntriesExact
  OBVIOUS
<1>1. stack = <<>> /\ caches = <<>> /\ default = {} /\ result = Idle
      /\ arrayOf = [d \in Dispatchers |-> d] /\ arrays = [d \in Dispatchers |-> <<>>]
  BY DEF Init
<1>2. \A d \in Dispatchers : ListOf(d) = <<>>
  BY <1>1 DEF ListOf
<1>3. CallsInProgress = <<>>
  BY <1>1 DEF CallsInProgress
<1>4. Lists = [d \in Dispatchers |-> <<>>]
  BY <1>2 DEF Lists
<1>5. Uncached!Init
  BY <1>1, <1>3, <1>4, SameVerdicts DEF Uncached!Init, Lists
<1> QED BY <1>1, <1>5 DEF WalksTold, ListsSorted, EntriesExact

\* What an activation has found out is true of the list it walks, whatever is
\* declared or called meanwhile; no cache has a circular list; and, unless the
\* default trait comes late, each cache entry is what the candidates give for
\* its key without asking user code.
THEOREM Answers == Spec => []AnswerInv
<1> DEFINE J == WalksTold /\ ListsSorted /\ (~LateTraits => EntriesExact)
<1>1. Init => J
  BY InitMaps
<1>2. IndInv /\ J /\ [Next]_vars => J'
  BY NextTold, NextLists, NextExact
<1>3. J <=> AnswerInv
  BY DEF AnswerInv
<1>4. Spec => []IndInv
  BY Invariance
<1> QED BY <1>1, <1>2, <1>3, <1>4, PTL DEF Spec

\* The dispatcher with its caches answers as the one without: provided that no
\* dispatcher is cloned and that default traits come before the first use of a
\* candidate, each dispatch gives what its candidates at the call determine.
THEOREM Implements ==
    ASSUME ~MayClone, ~LateTraits
    PROVE  Spec => DispatchesAsUncached
<1>1. Init => Uncached!Init
  BY InitMaps
<1>2. AnswerInv => WalksTold /\ ListsSorted /\ EntriesExact
  BY DEF AnswerInv
<1>3. IndInv /\ LinkInv /\ AnswerInv /\ [Next]_vars => [Uncached!Next]_(Uncached!vars)
  BY <1>2, NextMaps
<1> QED BY <1>1, <1>3, Invariance, Links, Answers, PTL
        DEF Spec, DispatchesAsUncached, Uncached!Spec

=============================================================================
