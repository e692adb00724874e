--------------------------- MODULE MultiDispatch ---------------------------
(***************************************************************************)
(* The multi-dispatcher at run time: dispatchers (proto code objects) own   *)
(* a list of candidates and a lazily built cache; a dispatch looks in the   *)
(* cache, otherwise walks the tied groups of the sorted candidates.  A bind *)
(* check runs user code (constraints, default thunks) in the middle of the  *)
(* walk, and that code may declare candidates or dispatch again.            *)
(*                                                                          *)
(* src/binder/multidispatch.c, the Code methods of Metamodel/BOOTSTRAP.pm.  *)
(***************************************************************************)
EXTENDS MultiMatch

CONSTANTS
    Dispatchers,  \* code objects that have a $!dispatchees list
    MaxArity,     \* MD_CACHE_MAX_ARITY
    MaxEntries,   \* MD_CACHE_MAX_ENTRIES
    MayClone,     \* a dispatcher's Code.clone is called (shares its list)
    MayDefault,   \* candidates a program applies the "is default" trait to
    LateTraits,   \* it may apply it after the candidate was used
    MaxList,      \* bound: candidates in one list
    MaxCaches,    \* bound: caches ever built
    MaxDepth      \* bound: dispatches in progress at once

ASSUME DispatchAssumption ==
    /\ MaxArity \in Nat /\ MaxEntries \in Nat \ {0}
    /\ MayDefault \subseteq Cands /\ MayClone \in BOOLEAN /\ LateTraits \in BOOLEAN
    /\ MaxList \in Nat /\ MaxCaches \in Nat /\ MaxDepth \in Nat

VARIABLES
    live,     \* dispatchers that exist
    arrayOf,  \* arrayOf[d]: the $!dispatchees array d points to
    arrays,   \* the arrays, each named after the dispatcher it was made for
    cacheOf,  \* cacheOf[d]: $!dispatcher_cache, a position in caches or 0
    caches,   \* every Rakudo_md_cache allocated: sorted list and entries
    owner,    \* owner[c]: the $!dispatcher of candidate c
    default,  \* candidates the "is default" trait was applied to
    stack,    \* find_best_candidate activations, innermost last
    result    \* what the step just taken returned: Idle, or how a dispatch ended

vars == <<live, arrayOf, arrays, cacheOf, caches, owner, default, stack, result>>
heap == <<live, arrayOf, arrays, cacheOf, owner, default>>

None == "none"

ListOf(d) == arrays[arrayOf[d]]

-----------------------------------------------------------------------------
(* Caches and activations.                                                  *)

\* Mutant: the tuple without the definedness bit.
KeyOfType(cap) ==
    [i \in DOMAIN cap.args |->
        IF cap.args[i].prim = "obj" THEN <<cap.args[i].type, TRUE>>
                                    ELSE <<cap.args[i].prim, TRUE>>]

\* find_in_cache and add_to_cache build the same tuple: type and definedness
\* of an object, the primitive kind of a native.
KeyOf(cap) ==
    [i \in DOMAIN cap.args |->
        IF cap.args[i].prim = "obj" THEN <<cap.args[i].type, cap.args[i].def>>
                                    ELSE <<cap.args[i].prim, TRUE>>]

Keys == {KeyOf(cap) : cap \in Captures}

\* A Rakudo_md_cache: the candidates it was built from, their tied groups, and
\* the entries of all its arity caches and of the zero-arity slot.
CacheRecs ==
    [ source  : Seq(Cands),
      groups  : Seq(SUBSET Nat),
      entries : UNION {[S -> Cands] : S \in SUBSET Keys} ]

NoEntries == [key \in {} |-> key]

Frames ==
    [ disp : Dispatchers, cap : Captures,
      cache : Nat,                  \* the cache whose sorted list is walked
      group : Nat,                  \* tied group reached
      todo  : SUBSET Nat,           \* possibles not yet checked further
      kept  : SUBSET Nat,           \* new_possibles
      pure  : BOOLEAN,              \* pure_type_result
      many  : BOOLEAN,              \* all matches wanted
      found : SUBSET Nat,           \* many_res
      mode  : {"walk", "user"} ]    \* "user": in a bind check

\* Steps of a walk leave dispatchers and caches alone and return nothing.
Silent == UNCHANGED <<heap, caches>> /\ result' = Idle

Top       == stack[Len(stack)]
SetTop(f) == stack' = [stack EXCEPT ![Len(stack)] = f]
Pop       == stack' = SubSeq(stack, 1, Len(stack) - 1)
List(f)   == caches[f.cache].source
PossiblesIn(f, k) == Possibles(List(f), caches[f.cache].groups[k], f.cap)

\* User code runs at the outermost level or inside the innermost bind check.
UserRuns == stack # <<>> => Top.mode = "user"
Walking  == stack # <<>> /\ Top.mode = "walk"

-----------------------------------------------------------------------------
(* Declaring: create_code_object, add_dispatchee, clone, derive_dispatcher, *)
(* instantiate_generic, and the "is default" trait.                         *)

NewDispatcher(d) ==
    /\ UserRuns /\ d \notin live
    /\ live' = live \cup {d}
    /\ arrayOf' = [arrayOf EXCEPT ![d] = d]
    /\ UNCHANGED <<arrays, cacheOf, caches, owner, default, stack>> /\ result' = Idle

\* Mutant: the cache is not discarded.
AddDispatcheeKeepingCache(d, c) ==
    /\ UserRuns /\ d \in live
    /\ Len(ListOf(d)) < MaxList
    /\ arrays' = [arrays EXCEPT ![arrayOf[d]] = Append(@, c)]
    /\ owner' = [owner EXCEPT ![c] = d]
    /\ UNCHANGED <<live, arrayOf, cacheOf, caches, default, stack>> /\ result' = Idle

AddDispatchee(d, c) ==
    /\ UserRuns /\ d \in live
    /\ Len(ListOf(d)) < MaxList
    /\ arrays' = [arrays EXCEPT ![arrayOf[d]] = Append(@, c)]
    /\ cacheOf' = [cacheOf EXCEPT ![d] = 0]
    /\ owner' = [owner EXCEPT ![c] = d]
    /\ UNCHANGED <<live, arrayOf, caches, default, stack>> /\ result' = Idle

\* repr_clone copies the slots: the list and the cache become shared.
CloneDispatcher(d, e) ==
    /\ MayClone
    /\ UserRuns /\ d \in live /\ e \notin live
    /\ live' = live \cup {e}
    /\ arrayOf' = [arrayOf EXCEPT ![e] = arrayOf[d]]
    /\ cacheOf' = [cacheOf EXCEPT ![e] = cacheOf[d]]
    /\ UNCHANGED <<arrays, caches, owner, default, stack>> /\ result' = Idle

\* Mutant: the new list starts empty but the cache is still taken over.
DeriveDispatcherEmpty(d, e) ==
    /\ UserRuns /\ d \in live /\ e \notin live
    /\ live' = live \cup {e}
    /\ arrayOf' = [arrayOf EXCEPT ![e] = e]
    /\ arrays' = [arrays EXCEPT ![e] = <<>>]
    /\ cacheOf' = [cacheOf EXCEPT ![e] = cacheOf[d]]
    /\ UNCHANGED <<caches, owner, default, stack>> /\ result' = Idle

\* A clone that gets a list of its own; the cache stays shared.
DeriveDispatcher(d, e) ==
    /\ UserRuns /\ d \in live /\ e \notin live
    /\ live' = live \cup {e}
    /\ arrayOf' = [arrayOf EXCEPT ![e] = e]
    /\ arrays' = [arrays EXCEPT ![e] = ListOf(d)]
    /\ cacheOf' = [cacheOf EXCEPT ![e] = cacheOf[d]]
    /\ UNCHANGED <<caches, owner, default, stack>> /\ result' = Idle

InUse(c) == \E k \in DOMAIN caches :
                \E i \in DOMAIN caches[k].source : caches[k].source[i] = c

SetDefault(c) ==
    /\ UserRuns /\ c \in MayDefault \ default
    /\ LateTraits \/ ~InUse(c)
    /\ default' = default \cup {c}
    /\ UNCHANGED <<live, arrayOf, arrays, cacheOf, caches, owner, stack>> /\ result' = Idle

-----------------------------------------------------------------------------
(* Rakudo_md_dispatch and Rakudo_md_get_all_matches.                        *)

\* arity_caches[n - 1].num_entries
EntriesOf(k, n) == {key \in DOMAIN caches[k].entries : Len(key) = n}

Cached(d, cap) ==
    /\ cacheOf[d] # 0 /\ Arity(cap) <= MaxArity
    /\ KeyOf(cap) \in DOMAIN caches[cacheOf[d]].entries

DispatchFromCache(d, cap) ==
    /\ UserRuns /\ d \in live
    /\ Cached(d, cap)
    /\ result' = Chosen(caches[cacheOf[d]].entries[KeyOf(cap)])
    /\ UNCHANGED <<live, arrayOf, arrays, cacheOf, caches, owner, default, stack>>

\* obtain_candidate_list, when there is no cache and the sort fails.
DispatchCircular(d, cap) ==
    /\ UserRuns /\ d \in live
    /\ cacheOf[d] = 0 /\ Circular(ListOf(d))
    /\ result' = Failed("circular")
    /\ UNCHANGED <<live, arrayOf, arrays, cacheOf, caches, owner, default, stack>>

\* Mutant: the candidate list is read before it was obtained.
NewFrameEarly(d, cap, k, many) ==
    [ disp |-> d, cap |-> cap, cache |-> cacheOf[d], group |-> 0, todo |-> {},
      kept |-> {}, pure |-> TRUE, many |-> many, found |-> {}, mode |-> "walk" ]

NewFrame(d, cap, k, many) ==
    [ disp |-> d, cap |-> cap, cache |-> k, group |-> 0, todo |-> {}, kept |-> {},
      pure |-> TRUE, many |-> many, found |-> {}, mode |-> "walk" ]

\* No cache hit, so a full dispatch; the candidates are sorted if they have
\* not been already.
BeginDispatch(d, cap, many) ==
    /\ UserRuns /\ d \in live
    /\ Len(stack) < MaxDepth
    /\ many \/ ~Cached(d, cap)
    /\ IF cacheOf[d] # 0
       THEN /\ stack' = Append(stack, NewFrame(d, cap, cacheOf[d], many))
            /\ UNCHANGED <<cacheOf, caches>>
       ELSE /\ ~Circular(ListOf(d))
            /\ Len(caches) < MaxCaches
            /\ caches' = Append(caches, [source |-> ListOf(d),
                                         groups |-> Sorted(ListOf(d)),
                                         entries |-> NoEntries])
            /\ cacheOf' = [cacheOf EXCEPT ![d] = Len(caches) + 1]
            /\ stack' = Append(stack, NewFrame(d, cap, Len(caches) + 1, many))
    /\ UNCHANGED <<live, arrayOf, arrays, owner, default>> /\ result' = Idle

-----------------------------------------------------------------------------
(* find_best_candidate.                                                     *)

\* The walk goes on to the next tied group that lets something through, as
\* long as nothing has been decided.
GroupsLeft(f) ==
    {k \in DOMAIN List(f) : k > f.group /\ PossiblesIn(f, k) # {}}

\* Mutant: the walk does not move past a group whose members were eliminated.
NextGroupStuck ==
    /\ Walking /\ Top.todo = {} /\ Top.kept = {}
    /\ \E k \in GroupsLeft(Top) :
          /\ \A j \in GroupsLeft(Top) : k <= j
          /\ SetTop([Top EXCEPT !.todo = PossiblesIn(Top, k)])
    /\ Silent

NextGroup ==
    /\ Walking /\ Top.todo = {} /\ Top.kept = {}
    /\ \E k \in GroupsLeft(Top) :
          /\ \A j \in GroupsLeft(Top) : k <= j
          /\ SetTop([Top EXCEPT !.group = k,
                                !.todo = PossiblesIn(Top, k)])
    /\ Silent

\* The next possible to look at: they are kept in declaration order.
First(f) == CHOOSE i \in f.todo : \A j \in f.todo : i <= j
Cand(f)  == List(f)[First(f)]

\* Mutant: elimination by name leaves the result cacheable.
EliminateByNamePure ==
    /\ Walking /\ Top.todo # {}
    /\ NameMissing(Cand(Top), Top.cap)
    /\ SetTop([Top EXCEPT !.todo = @ \ {First(Top)}])
    /\ Silent

EliminateByName ==
    /\ Walking /\ Top.todo # {}
    /\ NameMissing(Cand(Top), Top.cap)
    /\ SetTop([Top EXCEPT !.todo = @ \ {First(Top)}, !.pure = FALSE])
    /\ Silent

AcceptNominal ==
    /\ Walking /\ Top.todo # {}
    /\ ~NameMissing(Cand(Top), Top.cap) /\ ~Info[Cand(Top)].bindCheck
    /\ SetTop([Top EXCEPT !.todo = @ \ {First(Top)}, !.kept = @ \cup {First(Top)}])
    /\ Silent

BeginBindCheck ==
    /\ Walking /\ Top.todo # {}
    /\ ~NameMissing(Cand(Top), Top.cap) /\ Info[Cand(Top)].bindCheck
    /\ SetTop([Top EXCEPT !.mode = "user"])
    /\ Silent

\* Mutant: a bind check leaves the result cacheable.
EndBindCheckPure(ok) ==
    /\ stack # <<>> /\ Top.mode = "user"
    /\ SetTop([Top EXCEPT !.mode = "walk", !.todo = @ \ {First(Top)},
                          !.kept = IF ok THEN @ \cup {First(Top)} ELSE @])
    /\ Silent

\* Rakudo_binding_bind answered; BIND_RESULT_JUNCTION counts as success.
EndBindCheck(ok) ==
    /\ stack # <<>> /\ Top.mode = "user"
    /\ SetTop([Top EXCEPT !.mode = "walk", !.todo = @ \ {First(Top)}, !.pure = FALSE,
                          !.kept = IF ok THEN @ \cup {First(Top)} ELSE @])
    /\ Silent

\* The user code threw: the exception unwinds this dispatch.
BindCheckDies ==
    /\ stack # <<>> /\ Top.mode = "user"
    /\ Pop
    /\ result' = Failed("died")
    /\ UNCHANGED <<heap, caches>>

\* The end of a group in a search for all matches: collect and go on.
CollectMatches ==
    /\ Walking /\ Top.many /\ Top.todo = {} /\ Top.kept # {}
    /\ SetTop([Top EXCEPT !.found = @ \cup Top.kept, !.kept = {}])
    /\ Silent

ReturnMatches ==
    /\ Walking /\ Top.many /\ Top.todo = {} /\ Top.kept = {}
    /\ GroupsLeft(Top) = {}
    /\ Pop
    /\ result' = [kind |-> "matches", cands |-> {List(Top)[i] : i \in Top.found}]
    /\ UNCHANGED <<heap, caches>>

\* Mutant: a saturated cache starts over with the new entry.
WithEntryStartingOver(k, key, c) ==
    IF Len(key) > 0 /\ Cardinality(EntriesOf(k, Len(key))) >= MaxEntries
    THEN [caches EXCEPT ![k].entries = [x \in {key} |-> c]]
    ELSE [caches EXCEPT ![k].entries =
             [x \in DOMAIN @ \cup {key} |-> IF x = key THEN c ELSE @[x]]]

\* add_to_cache: the entry goes to the cache the dispatcher has now.
WithEntry(k, key, c) ==
    IF Len(key) > 0 /\ Cardinality(EntriesOf(k, Len(key))) >= MaxEntries
    THEN caches
    ELSE [caches EXCEPT ![k].entries =
             [x \in DOMAIN @ \cup {key} |-> IF x = key THEN c ELSE @[x]]]

Cacheable(f, winners) ==
    Cardinality(winners) = 1 /\ f.pure /\ Arity(f.cap) <= MaxArity

Decided(f) == f.todo = {} /\ ~f.many /\ (f.kept # {} \/ GroupsLeft(f) = {})

ReturnBest ==
    /\ Walking /\ Decided(Top)
    /\ LET winners == Winners(List(Top), Top.kept, default)
           verdict == Verdict(List(Top), winners, Top.cap)
       IN  /\ result' = verdict
           /\ caches' = IF Cacheable(Top, winners)
                        THEN WithEntry(cacheOf[Top.disp], KeyOf(Top.cap), verdict.cand)
                        ELSE caches
    /\ Pop
    /\ UNCHANGED heap

-----------------------------------------------------------------------------
Init ==
    /\ live = {}
    /\ arrayOf = [d \in Dispatchers |-> d]
    /\ arrays = [d \in Dispatchers |-> <<>>]
    /\ cacheOf = [d \in Dispatchers |-> 0]
    /\ owner = [c \in Cands |-> None]
    /\ caches = <<>> /\ default = {} /\ stack = <<>>
    /\ result = Idle

Declare ==
    \/ \E d \in Dispatchers : NewDispatcher(d)
    \/ \E d \in Dispatchers, c \in Cands : AddDispatchee(d, c)
    \/ \E d, e \in Dispatchers : CloneDispatcher(d, e)
    \/ \E d, e \in Dispatchers : DeriveDispatcher(d, e)
    \/ \E c \in Cands : SetDefault(c)

Call ==
    \E d \in Dispatchers, cap \in Captures :
        \/ DispatchFromCache(d, cap)
        \/ DispatchCircular(d, cap)
        \/ \E many \in BOOLEAN : BeginDispatch(d, cap, many)

Walk ==
    \/ NextGroup \/ EliminateByName \/ AcceptNominal \/ BeginBindCheck
    \/ CollectMatches \/ ReturnMatches \/ ReturnBest

UserEnds == BindCheckDies \/ \E ok \in BOOLEAN : EndBindCheck(ok)

Next == Declare \/ Call \/ Walk \/ UserEnds

Spec == Init /\ [][Next]_vars

\* The dispatcher is a loop in C: it runs on whenever user code does not.
FairSpec == Spec /\ WF_vars(Walk)

-----------------------------------------------------------------------------
(* Properties.                                                              *)

\* Type invariant of the heap of dispatchers, lists and caches, and of the
\* activations of find_best_candidate.
TypeOK ==
    /\ live \subseteq Dispatchers
    /\ arrayOf \in [Dispatchers -> Dispatchers]
    /\ arrays \in [Dispatchers -> Seq(Cands)]
    /\ caches \in Seq(CacheRecs)
    /\ cacheOf \in [Dispatchers -> 0..Len(caches)]
    /\ owner \in [Cands -> Dispatchers \cup {None}]
    /\ default \subseteq Cands
    /\ stack \in Seq(Frames)
    /\ \A i \in DOMAIN stack : stack[i].cache \in DOMAIN caches
    /\ result \in Outcomes

\* c is what a walk of the cache's groups gives for cap whatever user code
\* does: in the first group that lets cap through nothing needs more than its
\* type, and c is alone there or stands out by its default trait.
Justified(cache, cap, c) ==
    LET through(k) == Possibles(cache.source, cache.groups[k], cap)
    IN  \E k \in DOMAIN cache.groups :
            /\ \A j \in 1..(k - 1) : through(j) = {}
            /\ \A i \in through(k) : ~Info[cache.source[i]].bindCheck
            /\ \E i \in through(k) :
                  /\ cache.source[i] = c
                  /\ through(k) = {i} \/ c \in default

\* An entry of a multi-dispatch cache answers for every capture that has its
\* key, whatever named arguments and values the capture carries.
CacheSound ==
    \A k \in DOMAIN caches : \A key \in DOMAIN caches[k].entries :
        \A cap \in Captures :
            KeyOf(cap) = key => Justified(caches[k], cap, caches[k].entries[key])

\* No dispatcher is a clone: each has a list of its own.
NoneCloned == \A d \in live : arrayOf[d] = d

\* A dispatcher that has a cache has one sorted from its present candidates, whatever was
\* derived, added and called in which order: add_dispatchee discards it.  (Not so once one
\* is a clone: it shares the list, and a candidate added to either leaves the other's cache.)
CacheFresh ==
    NoneCloned => \A d \in live : cacheOf[d] # 0 => caches[cacheOf[d]].source = ListOf(d)

\* What a cache holds is reachable from the dispatcher's own list: the cache
\* is plain memory the garbage collector does not look into.
CacheReachable ==
    \A d \in live : cacheOf[d] # 0 =>
        /\ Len(caches[cacheOf[d]].source) <= Len(ListOf(d))
        /\ \A i \in DOMAIN caches[cacheOf[d]].source :
              caches[cacheOf[d]].source[i] = ListOf(d)[i]

\* A result about to be cached goes to the very cache whose candidates were
\* walked, which is still the dispatcher's and has no entry for the key:
\* nothing user code did in a bind check can get between.
PureWalkUndisturbed ==
    (Walking /\ Top.pure) =>
        /\ cacheOf[Top.disp] = Top.cache
        /\ Top.many \/ Arity(Top.cap) > MaxArity
           \/ KeyOf(Top.cap) \notin DOMAIN caches[Top.cache].entries

\* No cache entry is ever changed or dropped while the cache is in use.
EntriesStable ==
    [][\A k \in DOMAIN caches : \A key \in DOMAIN caches[k].entries :
          /\ key \in DOMAIN caches'[k].entries
          /\ caches'[k].entries[key] = caches[k].entries[key]]_vars

\* A dispatch that is walking candidates returns or hands over to user code.
WalkEnds ==
    \A n \in 1..MaxDepth :
        (Walking /\ Len(stack) = n) ~> (Len(stack) < n \/ ~Walking)

-----------------------------------------------------------------------------
(* The inductive invariant behind TypeOK, CacheSound and                    *)
(* PureWalkUndisturbed.                                                     *)

CachesSorted == \A k \in DOMAIN caches : caches[k].groups = Sorted(caches[k].source)

\* All activations but the innermost are suspended in a bind check.
FramesOK ==
    \A i \in DOMAIN stack :
        /\ stack[i].todo \subseteq DOMAIN List(stack[i])
        /\ stack[i].kept \subseteq DOMAIN List(stack[i])
        /\ stack[i].found \subseteq DOMAIN List(stack[i])
        /\ stack[i].group \in 0..Len(List(stack[i]))
        /\ stack[i].mode = "user" => stack[i].todo # {}
        /\ i < Len(stack) => stack[i].mode = "user"

\* As long as its result counts as purely type-based, a walk has found nothing
\* in the groups it left behind, has eliminated nothing from the one it is in,
\* and has kept only what needs no bind check.
PureWalkExact ==
    (Walking /\ Top.pure /\ ~Top.many) =>
        /\ \A j \in 1..(Top.group - 1) : PossiblesIn(Top, j) = {}
        /\ Top.group = 0 => Top.todo = {} /\ Top.kept = {}
        /\ Top.group # 0 => Top.todo \cup Top.kept = PossiblesIn(Top, Top.group)
        /\ \A i \in Top.kept : ~Info[List(Top)[i]].bindCheck

IndInv ==
    TypeOK /\ CachesSorted /\ FramesOK /\ PureWalkUndisturbed /\ PureWalkExact /\ CacheSound

-----------------------------------------------------------------------------
(* The dispatcher with its cache implements the one without: provided no    *)
(* dispatcher is cloned and default traits come before the first dispatch.  *)

CallsInProgress ==
    [i \in DOMAIN stack |-> [list |-> List(stack[i]), cap |-> stack[i].cap,
                             many |-> stack[i].many]]

Uncached == INSTANCE AbstractMulti
                WITH lists <- [d \in Dispatchers |-> ListOf(d)],
                     calls <- CallsInProgress

\* Every dispatch, cached or walked, gives what a fresh look at the candidates
\* the dispatcher had when it was called would give.
DispatchesAsUncached == Uncached!Spec

=============================================================================
