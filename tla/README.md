# Rakudo: specifications and proofs

TLA+ models of the parts of the Rakudo Perl 6 compiler and runtime whose
behaviour is hard to test: the binder, the multi-dispatcher, the containers and the
lexical pads in C, the redispatch protocol, class composition and the method
resolution order, and the lazy lists of the setting. Every
definition is translated from the source; `PROJECT.json` maps it to its lines.

## 1. The system

Rakudo compiles Perl 6 to Parrot. A program meets these parts, in this order:

| part | state it keeps | operations | speaks to |
|---|---|---|---|
| grammar and actions (`Perl6/Grammar.pm`, `Perl6/Actions.pm`) | dynamic variables of the parse | one action method per rule; `routine_def` declares subs and multis | symbol table, metaobjects |
| symbol table (`Perl6/SymbolTable.pm`) | stack of blocks, serialization slots, fix-up tasks, `CODE_OBJECTS` | create code objects, install symbols, derive protos, look names up | metaobjects, module loader |
| module loader (`Perl6/ModuleLoader.pm`) | the table of loaded modules, the settings | `load_module`, `load_setting`, `merge_globals` | symbol table |
| metaobjects (`Perl6/Metamodel/*`) | per type: parents, roles, methods, multis to incorporate, MRO, BUILDPLAN, composed flag | `add_*`, `compose`, role application, `C3MRO`, mixins, punning | each other, binder (role selection is a multi dispatch) |
| multi-dispatcher (`binder/multidispatch.c`, `Code` in `BOOTSTRAP.pm`) | per proto: dispatchee list, sorted candidates, arity caches | declare, derive, clone, dispatch, all matches | binder (bind checks), user code |
| binder (`binder/bind.c`, `container.c`) | the lexpad of the callee, the capture | bind a capture to a signature | user code (defaults, constraints, coercions), junction threader |
| dynops (`ops/perl6.ops`) | the current-dispatcher register, contexts | bind, type checks, dispatcher hand-over, `return` | binder, dispatcher, redispatch |
| containers (`binder/container.c`, `Array.pm`, `Hash.pm`, `Parcel.pm`) | per Scalar: descriptor, value, `$!whence`; the elements of arrays and hashes | assign, bind, vivify, `shift`, `delete`, list assignment | binder, lexpads |
| lexpads (`pmc/perl6lexpad.pmc`, `perl6lexinfo.pmc`) | static pads, per-call pads, `$!state_vars` of code objects | fill, look up, clone, fresh magicals | binder, symbol table |
| redispatch (`Metamodel/Dispatchers.pm`, `core/control.pm`) | candidate list, index, last capture | `callsame`, `nextsame`, `callwith`, `lastcall` | dynops, multi-dispatcher |
| lazy lists (`core/List.pm`, `ListIter.pm`, `MapIter.pm`, `GatherIter.pm`) | items, pending iterators, the reified link | `reify`, `gimme`, `shift`, `push`, `gather`/`take` | user code in blocks |
| failures, junctions | handled flag; eigenstates | `fail`, boolification, autothreading | dispatcher |
| strings, numbers, time, I/O | host values | conversions | the host |
| `lib/Test.pm` | counters, plan, todo | `plan`, `ok`, `todo`, `done` | the harness |

There are no threads in this Rakudo. What interleaves is user code that runs
inside the runtime's own algorithms: a `where` block inside a multi dispatch, a
block inside a list's reification, a BEGIN-time declaration between two
dispatches. What fails is an exception that unwinds out of such user code. What
goes stale is what was read before user code ran, or was cached on less than it
depended on. The hazards in `PROJECT.json` are of these kinds.

What makes each part correct:

* **multi-dispatcher**: a dispatch answers as a fresh look at the candidates
  would, whatever was cached and whatever ran inside bind checks; the sort
  respects narrowness and does not depend on declaration order.
* **binder**: a bind succeeds exactly for the captures the signature accepts,
  consumes every argument once, and a trial bind agrees with the final one.
* **redispatch**: each candidate is offered once, in order, and a dispatcher is
  taken by the frame it was set for.
* **metaobjects**: the resolution order has each class before what it inherits
  from where its parents' orders do not contradict each other; the caches that calls and
  type checks go by agree with what was declared, however often a class is augmented; a role arrives whole, and no class disturbs
  another's methods.
* **containers**: a container holds a value of its type whichever way the value got
  there; an element belongs to one place; what was copied does not change.
* **lexpads**: activations share exactly the containers the language says they
  share: none of `my`, state variables per code object, `$_` with the block around.
* **lazy lists**: items come out in order, each once, no matter how reification
  is split; a list is not finished while an iterator can still give.
* **symbol table, module loader**: a unit is loaded once; globals merge without
  losing a symbol.
* **Test.pm**: the numbers reported match the tests run.

## 2. Modules

| module | models | how |
|---|---|---|
| `MultiSort` | `sort_candidates`, `is_narrower` | constants and operators only: `Info` is the record extracted per candidate, `Narrower` the edges, `Sorted` the tied groups |
| `MultiMatch` | the tests of one capture against one candidate, the verdict at the end | extends `MultiSort` |
| `MultiDispatch` | the dispatchers at run time | state machine: `arrayOf`/`arrays` are the `$!dispatchees` pointers and arrays, `cacheOf`/`caches` the `$!dispatcher_cache` pointers and the `Rakudo_md_cache` structures, `stack` the activations of `find_best_candidate` |
| `AbstractMulti` | a dispatcher with no cache and no order of work | `MultiDispatch` is shown to implement it |
| `MultiSortCheck` | the dispatchee list growing one candidate at a time | states what the sort promises |
| `MultiSort_proofs` | | lemmas on the sort: the passes, the groups, the order of the list |
| `MultiSortCheck_proofs` | | the promises of the sort, proved |
| `MultiDispatch_proofs` | | invariants of `MultiDispatch`, proved: caches sound, stable, reachable, fresh; and that it implements `AbstractMulti` |
| `Binder` | `Rakudo_binding_bind`, `bind_one_param`, `assign_attributive` | state machine: a step binds one parameter; `frames` are the activations (a sub-signature's on top of its signature's), `lex`, `tvars` and `attrs` what binding changes |
| `BindCall` | a call around the bind: `bind_signature`, a multi-dispatch to one candidate, `AUTOTHREAD` | extends `Binder`: `todo` are the calls threading has left to make, `bodies` the bodies entered |
| `Binder_proofs` | | all safety properties of `BindCall` that the run checks, proved |
| `Redispatch` | deferral: `Dispatchers.pm`, the deferral functions of `control.pm`, the dispatcher register of `perl6.ops` | state machine: `stack` are the activations with the `$*DISPATCHER` of each, `disps` the dispatcher objects, `current` the register |
| `Redispatch_proofs` | | the invariant of deferral, and all properties of `Redispatch`, proved |
| `Containers` | Scalars, and the operations of arrays, hashes and parcels that hand them around | state machine: `scalars` are the containers in reach, `pad` what variables are bound to, `items` and `storage` the host structures of an array and a hash |
| `Containers_proofs` | | the invariant of the heap, and all properties of `Containers`, proved |
| `LazyList` | `List`, `ListIter`, `MapIter`, `GatherIter` | state machine: `objs` is the heap of lists and iterators, `coro` what the coroutines have left, `var` the program's variables; an operation is a step, the nested `reify` calls are recursive operators |
| `C3MRO` | the merge of `C3MRO.pm`, and C3 by its definition | operators only |
| `Classes` | declaring, composing and augmenting classes; calls and type checks | extends `C3MRO`; state machine: `class` are the metaobjects with their published caches, `code` the method objects |
| `Lexpads` | pads, code objects, BEGIN-time compilation | state machine: `codes` are the code objects, `pads` the activations |
| `Lexpads_proofs` | | the invariant of pads, and all properties of `Lexpads`, proved |
| `Induction` | | induction over the naturals, the greatest element of a finite set and functions defined by recursion, as lemmas with sets in place of predicates |
| `MCMultiDispatch`, `MCMultiSort`, `MCBindCall`, `MCRedispatch`, `MCContainers`, `MCLazyList`, `MCClasses`, `MCLexpads` | | the instances TLC checks |

An operator commented *Mutant* is a plausible bug in the definition that follows
it; no specification uses it. `PROJECT.json` says which property it breaks.

### From the C code to `MultiDispatch`

A dispatch is one `DispatchFromCache` step on a hit (`find_in_cache`). Otherwise
`BeginDispatch` pushes an activation (sorting and allocating a cache when the
dispatcher has none, `obtain_candidate_list`), and the `while (1)` loop becomes
the `Walk` actions on the innermost activation: `NextGroup` gathers the
admissible members of the next tied group, `EliminateByName`, `AcceptNominal` and
`BeginBindCheck`/`EndBindCheck` are the three branches of the loop over
`possibles`, `ReturnBest` and `ReturnMatches` the code after the loop with
`add_to_cache`. Gathering a group is one step because nothing in it calls out;
between `BeginBindCheck` and `EndBindCheck` any `Declare` or `Call` action of user
code may happen, to any dispatcher, this one included. Whether a bind check
succeeds, fails or dies is a free choice: it depends on values and user code.

A cache key (`KeyOf`) is exactly the tuple the C code builds: type and
definedness of each positional, or its native kind. Named arguments are not in
it. An entry is found only by its key, so the linear array of tuples is a
function from keys to candidates; its order has no effect.

### From the C code to `Binder` and `BindCall`

A step of `Binder` is one round of the loop over the parameters. Which of
`BindCapture`, `BindSlurpyNamed`, `BindSlurpy`, `BindPositional`, `BindDefault`,
`MissingPositional`, `BindNamed`, `MissingNamed` it is follows the flags of the
parameter and what is left of the arguments, as the chain of conditions in
`Rakudo_binding_bind` does; `EndOfParams` is the code after the loop. `Verdict`
goes through the checks of `bind_one_param` in their order (boxing, nominal type,
definedness, coercion, constraints, the store into an attribute), and `Bound` has
its effects. A sub-signature pushes an activation that binds into the same
lexpad.

Constraints, coercion methods, default closures, accessors and `Capture` methods are code of
the program, which runs at each bind: `Coerced`, `Accessor`, `AsCapture` and a parameter's
`default` are the sets of what it may answer, `rejects` the values that a constraint always
refuses, `doubts` those it refuses at times, and any of it may throw (`MayDie`). `Answers`
are the answers while one value is bound, each chosen afresh in a bindability check and in
the bind after it; `heard` is history, what was answered in the present bind, in order.

Arguments are model values with the facts the checks ask for: primitive kind,
type, definedness, what they are boxed, unboxed or coerced to, the capture they
can be taken apart as. Native values of the wrong kind are read as pointers in
the code: the verdict is then `"crash"`, as it is where the code complains about a
native through a NULL error pointer in a bindability check.

`BindCall` makes a call of every argument list of the instance, directly
(`Invoke`) or through the proto of a single candidate. The latter goes through the
dispatcher's elimination by arity, types and required name, then a bindability
check where one is needed (`DispatchTrial`) and a bind with `ALREADY_CHECKED`
(`TrialPasses`, `DispatchAccepts`). A junction verdict, or no candidate and a
junctional argument, goes to `AutoThread`, which puts one call per eigenstate in
front of the calls to make.

Left out of the binder: the texts of errors (`arity_fail`), marshalling of foreign
values (bind.c:354-361), the containers of `is copy` parameters, junction type
objects, and what user code does beside answering: calls of its own nest in the same way, and
an attribute it assigns is not one that a bind is about to.

### From the NQP and Perl 6 code to `Redispatch`

A call is `CallMethod`, `CallQualified` (`$obj.Parent::m`) or `CallSub`: it pushes an
activation, which takes what is in the register if it declares a `$*DISPATCHER`
(`Enter`). A proto's `{*}` is `Dispatch`, the candidate found replaces the proto's
activation as `perl6_enter_multi_dispatch_from_onlystar_block` reuses its frame; a
bind or a dispatch that stops at a junction goes to the threader, whose repetitions
are `Thread`. What the multi-dispatcher finds is a constant here (`Best`,
`Matching`): `MultiDispatch` models how.

Every deferral starts with `Finding`, the walk of `perl6_find_dispatcher` along the
callers with the vivification of a dispatcher nobody has asked for before. An
exhausted dispatcher calls nobody (`Nobody`); else `CallSame` or `CallWith` advances
the index and calls the next candidate with the dispatcher in the register. The
`next` field tells `nextsame` and `nextwith` from the other two: `Return` goes through
the callers marked by it. `Die` unwinds to any body below, or to the program.

Left out: `nextsame` outside of a routine, methods that are called as subs, and
submethods and private methods, whose name finds no or other methods in
`vivify_for`; failures of a bind that leave the stack as it was, except for the index,
are covered by a candidate that dies at once.

### From the C and Perl 6 code to `Containers`

A step is an assignment, a bind, a parameter, a return or an operation on an element.
`CanStore` and `Put` are the two halves of `Rakudo_cont_store`: the checks, and the
store with the vivification (`Vivify` is the closure in `$!whence`, which puts the
container into the array or hash it was made for). Binds of parameters, arrays and
elements bypass the checks, as in the code. A list assignment is one step made of the
two passes of `Parcel.STORE`: the values are picked from the sources first
(`Picked`), then stored in order up to the first store that dies; an array on the left
takes the rest in the second pass. Containers out of reach of variables and elements
are forgotten (`Become`), which keeps the instance finite and stands for the host's
collector. `copied` and `removed` are history: what a variable was to be a copy of,
and which containers were once elements.

Left out: `.VAR`, containers of user classes (`FETCH`, `STORE`), marshalling, hash
list assignment, and an array assigned a list that contains itself, whose items are
cleared before they are read (Array.pm:44-47).

### From the Perl 6 code to `LazyList`

The elements of a parcel are values, references to lists or iterators, or `Nil`.
`Reify` of an iterator leaves a `Reified` object with the parcel, whose last element is
the iterator that goes on; `Gimme` is the loop of `List.gimme`. `Fill` is the loop of
`ListIter.reify` and moves values up to the next iterable at a time; `ReifyMap` munches
from the source, runs `MapLoop`, and puts back what it did not use (`SpliceBack`). A
gather is the sequence its block has yet to take. `redo`, `next` and `last` of a block
depend on its arguments; a block redoes a call once. After each step the heap is reduced
to what is in reach and renumbered, so that states that differ in garbage are one.
`Content` says what a list holds or will hold; every property is about it.

Left out: parcels within lists and flattening, `LoL`, `splice` and the other list
methods, blocks that die in mid-batch (what was munched is lost then), blocks that
read the list they are feeding, and `map` of an infinite list asked for everything:
`MapIter.infinite` is unknown, so that it never ends.

### From the NQP code to `Classes`

A program starts from stubs (`Stubs`) and adds parents, roles, methods, multi methods and
attributes to any class, composes it, and, in an augment, adds more and composes it
again. `compose` is one step; inside, an operation that dies stops what follows and
keeps what was done (`Then`, `ForEach`), as an exception does. `ComposeRoles` applies
the roles in the reverse of their order, `ComposeMro` fixes the order once,
`incorporate_multi_candidates` finds or derives protos, and `Publish` writes the caches
of the STable. `AskMro` is any question that makes `mro` compute an order before the
class is composed. `early` are classes composed while something above them was a stub,
`behind` classes whose ancestors changed since their caches were published, `failed`
classes whose composition died: most promises leave them out, as the code promises nothing of
them. `Merged` are the orders that the merge for a class was given; `Agreeing` says that
none of them contradicts another, in the class or above it. An attribute named as a method is
has an accessor, which `compose_attributes` adds.

Left out: submethods and private methods, `BUILDPLAN`, boolification and vtable
mappings, parametric roles and role groups, puns and mixins, the role archetypes.

### From the PMC and NQP code to `Lexpads`

A container is called by its variable and the pad it was made for. `Enter` is the
allocation of a pad with `set_pointer`: `Filled` clones the static containers, or takes
state variables from `$!state_vars` of the code object that was called. `Looked` is
`get_pmc_keyed_str` with `steal_outer`: the search for `$_` from pad to pad, each of
which keeps what it found. `CompileInContext` makes the code objects of a block and of
those in it runnable while the program is still compiled, under a wrapper pad that has
the static containers themselves, those of the block among them; `Fixup` ends that. `CallWithTopic` is a block whose
`$_` is a parameter: passed, or the outer one by default.

Left out: what containers hold, `$!`, `$/` and `%_`, natives, and the tables of slots a
LexInfo remembers until its static pad changes.

## 3. Runs

| run | question | bounds |
|---|---|---|
| `multi_dispatch` | is what is cached right, fresh, stored where it belongs, never lost, and reachable, also where dispatchers share a list or a cache? | two dispatchers, either may be cloned or derived of the other; three candidates, lists of two, two caches, two nested dispatches, one entry per arity |
| `multi_uncached` | is the cache invisible, and does every walk end? | one dispatcher, three candidates of which one may become default, nesting two |
| `multi_sort` | does the sort keep its promises? | every list of up to three of eleven candidates |
| `bind_calls` | does a bind accept what the signature declares, agree with the check before it, give the body conforming values, and thread junctions once for each eigenstate? | twenty-three signatures called by name, fifteen as candidates of a proto; every list of up to two of four values, nameds around them; a constraint, two coercions, a default, an accessor and a `Capture` method that answer in two ways or more |
| `redispatch` | do candidates of a dispatcher run in order, with the right arguments, and never after the last one? | four activations, two dispatchers in reach, a chain of three methods and one of two candidates, one junction of two eigenstates |
| `containers` | does a value reach only the places it was stored in, and only if its type fits? | an Int and an untyped variable, an array of two elements, a hash of one key, four Scalars in reach |
| `lists` | does a list lose, repeat or reorder a value, or run a block early? | three variables, two gathers, three blocks, batches of two, up to two items asked for, one change |
| `classes` | do calls, type checks and roles agree with what was declared, and do classes leave each other alone? | a chain of three classes, two colliding roles, one method name, three declarations, augments |
| `classes_mro` | is the resolution order a linearization, what is left of it where orders contradict each other or there are three parents, and does a call find the right method? | every hierarchy of five classes with at most two parents, four hierarchies of seven; two methods of one name anywhere in a diamond, one in two other hierarchies |
| `lexpads` | who shares a container with whom? | five blocks (a routine, a bare block, a loop body, a thunk and a block in it), four pads, six code objects |
| `c3` | the documented claim to compute C3 | violation |
| `junction_default` | the documented claim that a junction verdict comes of a junction passed | violation; two signatures |

Why the bounds are enough. A wrong cache entry needs one dispatch to store it and
one with another capture of the same key: two captures per key are there (with
and without the named argument). A stale cache needs a second dispatcher or a
declaration between two dispatches. A disturbed walk needs one dispatch nested
in another's bind check. One entry per arity makes saturation happen with the
second key. In the sort, three candidates give every pair a third one that can
come between. In the binder the parameters interact through what is left of the
arguments and through the lexpad, so signatures of two or three parameters with up
to one positional too many, and every subset of two names, reach each branch; one
level of sub-signature exercises the stack. User code that answers in two ways makes each
check pass in the one bind and fail in the other, and a list's `Capture` method gives a
junction at times. `js` has an eigenstate of the wrong
type, so a threaded call may fail half way. In `redispatch` four activations are a chain of
three methods with a helper or another chain in between, and the chain that passes
from methods into the candidates of a proto; two dispatchers are one chain
interrupted by another.

In `containers` two variables alias, exchange and copy; two positions and one key give
an element next to another, one that is not there yet and one that was removed; four
Scalars are both variables' own and two more. In `lists` three variables are a list, a
map of it and a join or a second map that shares an iterator; batches of two are smaller
than the lists, so that each splits. A role's method, a class's own and an inherited one
are three providers of one name; three classes are a middle with something above and
below. Five classes are the smallest in which C3 and the code differ, and seven the smallest
known in which the code, with two parents each, puts a class before its own subclass: two
parents whose orders by C3 agree need orders by the code that do not, each of a diamond
of their own. Classes are numbered so that parents come first, which loses no hierarchy. In `lexpads` four pads
are a routine, two activations inside and one at BEGIN time or in recursion.

`c3` and `junction_default` are disagreements between a comment of the source and what the
code does; `PROJECT.json` quotes the lines.

*The merge* (`c3`) keeps the last candidate it accepts and looks for a candidate in one other
list only. What is left of a linearization, whatever the hierarchy: each class above once,
and the first parent's order. Each class before those it inherits from is lost with three
parents, and with two where the orders of the parents contradict each other; as the orders
are not C3's, they may do so where C3's agree. With A, B, `x is A`, `q1 is x`,
`p1 is A is B`, `p2 is q1 is B` and `D is p1 is p2`, the order of `p2` is p2 q1 B x A and that
of `D` is D p1 p2 q1 A B x, so that `D` finds A's methods and not those of its subclass x. An
ambiguous hierarchy is not noticed: the first parent's candidate is always accepted.
`OrderKept` and `NearestFound` say each of these things where it holds, and
`classes_mro` has this hierarchy.

*The junction verdict* (`junction_default`) also comes of a junction in a default value, or in
an argument that a sub-signature takes apart. The threader finds no junction to thread
and makes the same call again, for ever. `CallEnds` says that this is the only way a call
does not end, and `bind_calls` has such calls: `anyopt` has such a default, `sub` is
called with a list whose `Capture` method gives a junction.

### Other disagreements

Met while modelling; no run is spent on them.

*Multi-dispatch.* `obtain_candidate_list` "Gets the sorted candiate list (either from
cache, or by producing it)" (multidispatch.c:803), but a cloned dispatcher shares list
and cache, and `add_dispatchee` drops only the cache of the one it is called on, so the
other goes on without the new candidate: `CacheFresh` says what holds as long as nobody is a clone.
"either the one winning unambiguous candidate or throws an error" (multidispatch.c:491):
of (Int,Any), (Any,Str) and (Any,Cool) the third moves down a group, so that a call the
first and third tie for is answered silently. `is_narrower` is not asymmetric: of `($x)`
and `([$p, $q], *@r)` each is narrower (multidispatch.c:105), reported as a circularity.
`req_named` is the first name of the last required named parameter, so that a candidate
called by its other name is eliminated; `|$c` and `**@a` count as one required
positional each (multidispatch.c:185).

*Binder.* `ALREADY_CHECKED` "indicates that we have determined that all of the arguments
can be bound to positional parameters without any further type checking" (bind.h:63);
the dispatcher checked only those before `;;`, so the others are not checked by anyone.
A default of a
positional is bound with its type checked although the comment at bind.c:886-888 says it
needs none; the threader threads the first junctional argument, not the one the bind
stopped at; what a failed or trial bind stored in an attribute stays there. The type of
`Int |$c` in a multi candidate is compared with an argument and not with the capture bound
(multidispatch.c:195).

*Redispatch.* `perl6_take_dispatcher` clears the register "so that nothing else can take it
by accident" (perl6.ops:825); a candidate that takes nothing, such as the NQP methods of
the bootstrap, leaves it for the next routine. `TakenByCandidate` holds where every
candidate takes it. A dispatcher made by a routine that is not its first candidate (a
qualified call, a default candidate, the repetition of a threaded call) starts at the
second one all the same, which may be the routine itself.

*Containers.* "This also reifies the rhs values" (Parcel.pm:66) is not so for an array on
the left, which reads its rest in the second pass: `($a, @b) = 3, $a` gives `@b` the new
`$a`. `unshift` stops at a false element and leaves read-only containers (List.pm:193).
`my Int $x := $y` checks the value, not the container, which `$y = 'a'` may then change.
Of two containers handed out for one absent element, the last one stored in wins. The
descriptor of an `is copy` parameter of a generic type is not instantiated
(BOOTSTRAP.pm:318), so that later assignments are checked against the type variable.

*Lexpads.* "If it's a routine, flag that it needs fresh magicals" (SymbolTable.pm:826) is
done by the fixups only: a routine that runs at BEGIN time takes the `$_` around it, and
`TopicStolen` excepts it. A block in a thunk finds no `$_`: the search looks one pad out,
where there is none.

*Metaobjects.* A cycle of stubs is not noticed; multi candidates incorporated before one
that dies are incorporated again by the next composition (MultiMethodContainer.pm:96).

### Fairness

`WalkEnds` assumes `WF_vars(Walk)`: the dispatcher is a C loop that runs on
whenever it is not inside user code. Nothing is assumed of user code: a bind
check may take for ever, so the property lets a walk end by handing over.

`CallEnds` assumes `WF_vars(Progress)`: once a call has begun, the binder and the
threader run on. The user code they call (constraints, coercions, defaults) is an answer
that comes within the step, so a call that does not end is one the code itself keeps going.

## 4. Proofs

Every theorem holds for all values of the constants that satisfy the `ASSUME`s of its
module: any number of candidates, types, captures, blocks, variables, methods, and any
bounds. The bounds TLC needs stay in the guards, so a theorem is about every bound.

### The multi-dispatcher

`MultiDispatch_proofs`, with cloning, deriving, late default traits and user code that
dispatches again in every bind check allowed:

* `TypeCorrect`, `CacheSoundness` (`CacheSound`: what a cache answers is what the walk
  would give for every capture with that key) and `PureWalks` (`PureWalkUndisturbed`: a
  result about to be cached goes to the cache that was walked, which has no entry for it).
  They follow from one inductive invariant, `IndInv` (`Invariance`). `CacheSound` is not
  inductive alone: that the entry `ReturnBest` adds is justified needs to know what the
  walk has gone through (`PureWalkExact`: as long as `pure_type_result` is set, the groups
  behind gave nothing and the present one lost nothing), that the groups are those of the
  cache's own list (`CachesSorted`), and that the cache the dispatcher points to at the end
  is the one the walk began with. The last holds because the only steps that run while an
  activation is not innermost are those of its own bind check, after which its result is
  no longer pure (`FramesOK`). `AdmissibleByKey` is the fact about data that makes the
  cache possible: captures with the same key are admissible for the same candidates.
* `EntriesStay` (`EntriesStable`): an entry is never changed or dropped.
* `Links`: the invariant `LinkInv` of dispatchers, the arrays they share after a `clone`
  and their caches. The list a cache was made from is a *prefix* of the list of every
  dispatcher that has it; `Reachable` (`CacheReachable`) follows from that, with `clone`.
  `Fresh` (`CacheFresh`) is about programs in which nobody is a clone (`NoneCloned`): a
  clone shares the array of its original, and adding a candidate to one leaves the cache
  of the other behind.

`Implements` is the refinement of `AbstractMulti`. `AnswerInv` (`Answers`) says of
each activation what its walk has established (`WalksTold`: the groups behind it gave no
candidate, every candidate it keeps has passed the tests so far, and one that is gone was
refused), that each list is sorted into groups that are disjoint and cover it
(`ListsSorted`), and of each cache that its entries are exact (`EntriesExact`). The
invariant behind `CacheSound` is too weak for it: that each entry is *some* result of a
walk leaves open that another member of a tied group had the default trait. What excludes
that is that traits are settled before a candidate is used, so `EntriesExact` and the
refinement carry the hypothesis `~LateTraits`, and `Implements` also `~MayClone`. The run
`multi_uncached` has the same values. No run has `LateTraits`, and `multi_dispatch` no
default traits: that its properties hold with both is shown by the theorems alone. In the refinement mapping a dispatch that walks
takes its abstract step when it ends, with the verdicts of the bind checks as witnesses;
one lemma per action of `MultiDispatch` (`DeclareMaps` to `NextMaps`) maps it to that step
or a stutter.

### The sort

`MultiSort_proofs` unfolds the recursive functions of `MultiSort`, pass by pass
(`PassByPass`, from `FunctionByRecursion` of `Induction`); `MultiSortCheck_proofs` concludes
for every list of candidates, whatever their signatures and whatever `type_check` answers:

* `SortLinearizes` (`GroupsLinearize`): a pass takes candidates that were left, so no two
  groups share one (`GroupsDisjoint`); the sort stops when a pass takes nothing, which is a
  circularity, or when nothing is left (`GroupsCover`). A candidate is taken only when none
  that is left is narrower, so that those narrower than it are in groups before its own
  (`NarrowerFirst`);
* `SortOrderFree` (`OrderFree`): after each pass, the positions placed in a reordered list
  are those of the list, moved (`PlacedReordered`, by induction on the passes). Nothing a
  pass does depends on positions: it asks only which candidates are left, and `is_narrower`
  of two of them;
* `SortNarrowestFirst` (`NarrowestFirst`): a candidate of fixed positionals that is narrower
  in each type by the definition is one that `is_narrower` calls narrower
  (`PlainlyNarrower`, from what `sort_candidates` records of such a signature,
  `PlainInfo`). That `Does` is a partial order is not assumed; `IsNarrower` is neither
  asymmetric nor transitive, and the proof needs neither.

### The binder

`Binder_proofs` proves of `BindCall`, for every signature (nested ones included),
argument list and type lattice:

* `VariablesBound`: `Spec => []BodyVarsBound`. Its invariant `VarInv` says that a bind
  in progress has accounted for the parameters that its outermost activation is
  past, that arity checks are lifted only past a capture, and that a bind that
  worked out has accounted for all of them. `Advance` is the step common to all
  parameters; sub-signatures only ever add to the lexpad.
* `ThreadsOnce`: `Spec => []EveryThreadOnce`. The invariant, `ThreadInv`, is that the calls
  made and the calls to make, one list after the other, *share out* what the program's call
  stands for (`SharesOnce`): for each combination of eigenstates one call, and no other,
  stands for it. Threading replaces the first call to make by calls that share it out
  (`ThreadsShare`, for positionals and nameds), `RunBody` moves it from one list to the
  other. The hypothesis, `Flat`, is that the eigenstates of a junction are no junctions and
  differ from each other: otherwise combinations do not tell the calls apart, and the
  property, which counts by combination, says something else;
* `CheckHolds`: `Spec => []TrialAgrees`: whatever user code does, if it answers the bind as it
  answered the check. The difficulty is that the model, like the code, keeps of the check
  only its lexpad and what it heard, and the bind after it makes all steps again with the
  nominal checks off. `Goes` is the step relation of a bind that checks types, when user
  code answers in turn what a sequence `O` says: on the activations without that flag
  (`Bare`), the lexpad, the type variables and the number of answers used. It has one step
  from each place (`OneStep`, from `OneWay`: a parameter can be bound in one way only). The
  invariant, `AgreeInv`: a bindability check has come from the start to where it is, by
  every `O` that begins with what it heard; and the bind after one that worked out, as
  long as it hears the same, can get from where it is to where the check got to.
  `Reaches` says so with sets closed under `Goes`, not with sequences of steps. Each step of
  a bind (`StepGoes`) is a step of `Goes`, or has none because a check fails or user code
  throws; as the bind after the check can still get to its end, the second is excluded,
  and at the end there is nothing left to reach but the lexpad of the check (`AtEnd`);
* `ArityHolds`: `Spec => []ArityAgrees`. Parameters come in zones (`Zones`): required
  positionals, optional ones, the others. Hence where the callee's own activation is in its
  signature tells how many arguments it has taken (`Counts`), and which names: those that
  the named parameters behind it claim (`Aligned`, `Claimed`). `FirstStep` tells apart what
  a step can do to that activation: go on by a parameter, wait for a sub-signature, end, or
  refuse. `AlignedOn` is the step by a parameter, `AlignedEnds` the end, where what was
  counted is compared with `ArityFits`. The other half, that nothing is refused without a
  reason, is that a parameter without a type refuses no value (`UntypedOk`,
  `UntypedTakes`), and that one that is refused for want of an argument contradicts
  `ArityFits` (`Stuck`);
* `BodyConforms`: `Spec => []BodyArgsConform`. `Admitted` is what the property says of a
  body, said of a lexpad while the bind goes on. A value gets into the lexpad in one of two
  ways (`PassedConforms`): the binder has checked it (`CheckedConforms`), or it was told not
  to, and then the dispatcher has checked (`Told`) the argument at the place of the
  parameter, which is the one bound, because the binder takes arguments in step with the
  dispatcher's count of the parameters (`Placed`, `InItsPlace`, `DispatchedIs`) and checks
  and boxing commute (`AdmittedConforms`). It stays in the lexpad because a variable is
  declared once, sub-signatures included (`DeclaredOnce`, `Lands`);
* `AttrsHeld`: `Spec => []AttrsBound`. Up to the parameter with the attribute the bind has
  asked user code once for each parameter and entered no sub-signature, so that the answer
  for parameter i is the i-th and its argument the one in its place (`AttrTaken`, with
  `InItsPlace`); behind it no other parameter, of the signature or of one inside, assigns the
  attribute (`AttrKept`). `AttrsSoFar` says both of a bind on its way to a body; what the
  attribute held before is not in it.

Hypotheses of `ArityHolds` and `BodyConforms`. `MadeApart`: the arrays, hashes and captures the binder makes are
new objects, none of the program's values and no exception. `Orderly`: named parameters share no name, and no required one comes after a
slurpy hash; the compiler does not reject these, but the first one then takes what the second
asks for. `TypedAsMade`: a multi candidate declares no capture or `**@a` of a type that
captures or lists do not have. For `**@a` the compiler sees to it ("Typed
arrays/hashes/callables not yet implemented", Actions.pm:2010); `Int |$c` compiles, the
dispatcher compares `Int` with an argument, and the binder, told that all is checked,
binds the Capture: there the promise is not kept. The signatures of `bind_calls` satisfy all
three.

### Redispatch

`Redispatch_proofs` proves every property of the run: `ActivationsTyped`, `TakenAlways`,
`InOrderAlways`, `SameCallAlways`, `LastAlways`. The invariant, `ChainInv`, is that between
steps the register is empty and stack and dispatchers are `WellFormed`: holders of one
dispatcher are candidates it has offered, in its order (`Ordered`); they have the same
invocant, and the arguments of the one before where `callsame` entered them (`SameArgs`);
and an activation entered by `nextsame` is not at the bottom. `WellFormed` is stated of any
two sequences, not of the variables, because a step passes through several stacks: it
finds the dispatcher (`FindingWellFormed`: made on the spot if the slot is still
undecided), advances it (`Advance`), hands it over (`EnterHolding`), or cuts the stack
back and goes on there (`ResumeFacts`).

### Containers

`Containers_proofs` proves every property of the run: `ContainersTyped`,
`TypedValuesAlways`, `ElementsOwnedAlways`, `CopiesKeptAlways`, `NeverBackAlways` and
`ExchangesAlways`. The invariant, `HeapInv`, is stated of heaps, because a list assignment
goes through many within a step, each of which the next store relies on. `Settled` is what
a heap must be for the program to go on with (`BecomeKeeps`: such a step keeps the
invariant); `Evolved` what it is in the middle of a list assignment. `Owned`, the core of
it, says that a Scalar is at one place of the array and the hash at most, and at none as
long as it has a promise (`$!whence`). Scalars that nothing refers to are forgotten, so
that one that is taken anew cannot be one that something refers to; all others hold a
value (`Full`). `Stored`, the stores of a list assignment one after
another, is a recursive function, unfolded by `StoredEvolves`.

### Lexpads

`Lexpads_proofs` proves every property of the run: `IsolatedAlways`, `StateSharedAlways` and
`TopicFoundAlways`. The invariant `PadInv` has one part per kind of container:
`ActivationsHold` (a pad's `my` variables are its own, its state variables those of its code
object), `StateHolds` (a code object's state variables were made by its first activation),
`WrapsHold` (a pad of compile_in_context has static ones), `TopicsHold` (what `$_` is
bound to was made for a `$_` or by a binding). `Nested` says that a pad lies inside those
it refers to, which is what makes the search for `$_` end; `SearchChained` and `LookedKeeps`
are about the search.

### Assumptions on the constants

They are the named `ASSUME`s of the modules, and each instance satisfies them. Most say that
constants are typed. Those that say more:

* `SigAssumption`: no type cache id is the tag of a native kind, and there are finitely many
  candidates;
* `ContainersAssumption`: a type's initial value conforms to it; a parameter takes no value
  its descriptor refuses. In the code both come from the same nominal type; parameters of
  a generic type, whose descriptor keeps the type variable, are left out;
* `BinderAssumption`: required positionals come before optional ones, and those before the
  other parameters, as the parser enforces (Grammar.pm:1528-1556);
* `CallAssumption`: `Inside` lists with a signature all sub-signatures in it, and a signature is
  not inside itself; only junctions have eigenstates; a variable is declared once in a
  signature and those inside it ("Redeclaration of symbol", Actions.pm:2025) and is not
  `self`; the `*%_` of a method is a variable (Actions.pm:1548-1554); natives, and what they
  are boxed to, are instances. A method that declares a `%_` of its own as well is left out;
* `LexpadsAssumption`: a block is numbered after the one around it, variables of different
  blocks are different, and an outermost block has a `$_` of its own;
* `RedispatchAssumption`: what is in a method table takes a method's dispatcher
  (`Actions.pm:1566`), the candidates of a proto a multi's (`Actions.pm:1365`), and a code
  object is at one place of a method order: each class has its own clone of a method that
  comes from a role (`specialize_with` in `ParametricRoleHOW.pm`). Other code objects
  installed through the metaobject are left out.

### What stays with TLC

* liveness (`WalkEnds`, `CallEnds`): the prover has no `ENABLED`;
* `LazyList` and `Classes`, all their properties: their modules are recursive over data, the
  `reify` of lists through iterators of any depth, the C3 merge and the search for parents
  over the class graph, by `RECURSIVE` operators that the prover cannot be given.

`TypeOK` of `BindCall` is stated for its readers and `TypeOK` of `Containers` is proved; no run
spends a property on either.

## 5. What is not modelled, and the plan

`PROJECT.json` lists every part with its status. The plan, in order:

1. the multi-dispatcher (done);
2. the binder: binding a capture to a signature, trial binds against final ones,
   autothreading (done);
3. redispatch over the dispatcher register (done);
4. containers: assignment, elements, list assignment (done);
5. lazy lists (done for lists of values, maps and gathers);
6. C3 and class composition: local precedence, roles, multis, caches (done; roles with
   parameters, mixins and BUILDPLAN are left);
7. lexpads: state variables, closures, the lazy `$_` (done);
8. proofs: the multi-dispatcher with its refinement, the sort, the binder, containers,
   lexpads and redispatch (done); class composition is left, and first needs its folds and
   recursive operators as functions;
9. not begun: the module loader (a unit is recorded only once it is loaded, so that a
   circular use loads it twice), symbol lookup, and the counters of `Test.pm`.

Not planned: the grammar and code generator (their product is code, not
behaviour that can be stated in a state machine of useful size), text, numbers
and I/O that pass through to Parrot, Pod formatting, the build scripts.
