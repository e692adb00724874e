------------------------------ MODULE LazyList ------------------------------
(***************************************************************************)
(* Lazy lists: List and the iterators that feed it (src/core/List.pm,        *)
(* ListIter.pm, MapIter.pm, GatherIter.pm).  A list holds the items reified  *)
(* so far and an iterator for the others; an iterator is reified once, into  *)
(* a parcel that lists and iterators may share.  An operation of the program *)
(* is a step; the recursion follows the method calls inside it.              *)
(***************************************************************************)
EXTENDS Integers, Sequences, FiniteSets, SequencesExt, FiniteSetsExt

CONSTANTS
    MaxVars,    \* bound on the variables of the program bound to lists
    Shapes,     \* what the first list is made of: a sequence of values and of "gather"
    Takes,      \* Takes[g]: the values the block of gather g takes; a prefix if infinite
    Infinite,   \* the gathers known to be infinite
    Blocks,     \* Blocks[b]: arity and the control exceptions of a block that is mapped
    MaxItems,   \* bound on the items asked for by number
    MaxChanges, \* bound on the items shifted, popped and pushed
    Pushed,     \* first of the numbers that stand for pushed values
    Batch       \* what an eager reification asks a ListIter for (100000 in the code)

ASSUME LazyListAssumption ==
    /\ Infinite \subseteq DOMAIN Takes /\ MaxVars \in Nat \ {0}
    /\ \A b \in DOMAIN Blocks : Blocks[b].argc \in Nat \ {0}
    /\ MaxItems \in Nat /\ MaxChanges \in Nat /\ Pushed \in Nat /\ Batch \in Nat \ {0}

VARIABLES
    objs,       \* the lists and iterators in reach
    coro,       \* coro[g]: what the coroutine of gather g has yet to take
    calls,      \* calls[m]: the block of map m, and the arguments it was called with
    var,        \* var[x]: the list the variable number x is bound to
    changes     \* number of items shifted, popped and pushed

vars == <<objs, coro, calls, var, changes>>

\* Values are sequences of numbers, so that results of blocks can name their
\* arguments.  An element of a parcel is a value, a list or an iterator, or Nil.
Val(v) == [k |-> "val", v |-> v]
Ref(i) == [k |-> "ref", v |-> i]
NilElement == [k |-> "nil", v |-> 0]

List(items, next)  == [k |-> "list", items |-> items, next |-> next]
ListIter(rest, l)  == [k |-> "listiter", reified |-> <<>>, rest |-> rest, list |-> l]
MapIter(l, b, m)   == [k |-> "map", reified |-> <<>>, list |-> l, block |-> b, map |-> m]
GatherIter(g)      == [k |-> "gather", reified |-> <<>>, gather |-> g]
Reified(s)         == [k |-> "done", reified |-> s]      \* its other fields are freed

Star == -1      \* the argument *

\* The objects that elements refer to.
RefsOf(s) == LET refs == SelectSeq(s, LAMBDA e : e.k = "ref") IN [p \in DOMAIN refs |-> refs[p].v]

-----------------------------------------------------------------------------
(* The heap, and what is in reach of a list.                                *)

Heap == [objs |-> objs, coro |-> coro, calls |-> calls]

Add(h, o) == [h EXCEPT !.objs = Append(@, o)]
Newest(h) == Len(h.objs)

\* p6list: a List whose iterator is to reify the elements s.
NewList(h, s) ==
    LET l == Newest(h) + 1
    IN  Add(Add(h, List(<<>>, l + 1)), ListIter(s, l))

\* .infinite of what the reference i leads to; what is unknown counts as no.
RECURSIVE IsInfinite(_, _)
IsInfinite(h, i) ==
    LET o == h.objs[i]
    IN  \/ o.k = "gather" /\ o.gather \in Infinite
        \/ o.k = "list" /\ o.next # 0 /\ IsInfinite(h, o.next)
        \/ o.k = "listiter" /\ o.rest # <<>> /\ Head(o.rest).k = "ref"
                            /\ IsInfinite(h, Head(o.rest).v)

-----------------------------------------------------------------------------
(* Reification.  Each operator takes a heap and gives the heap it leaves.   *)

Take(s, n) == SubSeq(s, 1, IF n < Len(s) THEN n ELSE Len(s))
Drop(s, n) == SubSeq(s, n + 1, Len(s))

\* Mutant: a value is taken ahead.
TakesAhead(n) == IF n = Star THEN 1 ELSE n + 1

TakesFor(n) == IF n = Star THEN 1 ELSE n

\* GatherIter.reify: each value is a resumption of the coroutine.
ReifyGather(h, i, n) ==
    LET g     == h.objs[i].gather
        count == TakesFor(n)
        got   == Take(h.coro[g], count)
        end   == Len(got) < count
        vals  == [p \in DOMAIN got |-> Val(got[p])]
        h1    == [h EXCEPT !.coro[g] = Drop(@, count)]
    IN  IF end THEN [h1 EXCEPT !.objs[i] = Reified(vals)]
        ELSE LET h2 == Add(h1, GatherIter(g))
             IN  [h2 EXCEPT !.objs[i] = Reified(Append(vals, Ref(Newest(h2))))]

Control(b, args) == IF args \in DOMAIN Blocks[b].control THEN Blocks[b].control[args] ELSE "value"

\* What the block returns; it tells the arguments and the block apart.
Result(b, args) == <<Blocks[b].tag>> \o FlattenSeq(args)

\* The loop of MapIter.reify over the munched values from r.pos on: r.rpa holds the
\* results, r.args the last arguments, empty at the end of the values or of the map.
\* A control exception leaves its payload among the results.
RECURSIVE MapLoop(_, _, _, _, _)
MapLoop(h, o, munched, count, r) ==
    LET args == Take(Drop(munched, r.pos), Blocks[o.block].argc)
        what == Control(o.block, args)
        redo == what = "redo" /\ args \notin ToSet(h.calls[o.map].made)
        h1   == [h EXCEPT !.calls[o.map].made = Append(@, args)]
        r1   == [ rpa  |-> Append(r.rpa, IF what \in {"next", "last"} \/ redo THEN NilElement
                                         ELSE Val(Result(o.block, args))),
                  pos  |-> IF redo THEN r.pos ELSE r.pos + Len(args),
                  args |-> args ]
    IN  IF Len(r.rpa) >= count THEN [h |-> h, r |-> r]
        ELSE IF args = <<>> THEN [h |-> h, r |-> [r EXCEPT !.args = <<>>]]
        ELSE IF what = "last" THEN [h |-> h1, r |-> [r1 EXCEPT !.args = <<>>]]
        ELSE MapLoop(h1, o, munched, count, r1)

Values(s) == [p \in DOMAIN s |-> s[p].v]

\* Mutant: what was munched but not used is dropped.
SpliceNothing(h, l, munched, pos) == h

\* Mutant: all that was munched goes back.
SpliceAll(h, l, munched, pos) == [h EXCEPT !.objs[l].items = munched \o @]

\* What was munched but not used goes back to the list.
SpliceBack(h, l, munched, pos) == [h EXCEPT !.objs[l].items = Drop(munched, pos) \o @]

RECURSIVE Gimme(_, _, _), Reify(_, _, _), Fill(_, _, _, _, _)

\* MapIter.reify.
ReifyMap(h, i, n) ==
    LET o       == h.objs[i]
        argc    == Blocks[o.block].argc
        h1      == Gimme(h, o.list, IF n = Star THEN Star ELSE argc * n)
        asked   == IF n = Star THEN (Len(h1.objs[o.list].items) + argc - 1) \div argc ELSE n
        count   == IF asked < 1 THEN 1 ELSE asked
        h2      == Gimme(h1, o.list, argc * count)      \* List.munch
        munched == Take(h2.objs[o.list].items, argc * count)
        h3      == [h2 EXCEPT !.objs[o.list].items = Drop(@, argc * count)]
        done    == MapLoop(h3, o, Values(munched), count, [rpa |-> <<>>, pos |-> 0, args |-> <<>>])
        h4      == SpliceBack(done.h, o.list, munched, done.r.pos)
    IN  IF done.r.args = <<>> THEN [h4 EXCEPT !.objs[i] = Reified(done.r.rpa)]
        ELSE LET h5 == Add(h4, MapIter(o.list, o.block, o.map))
             IN  [h5 EXCEPT !.objs[i] = Reified(Append(done.r.rpa, Ref(Newest(h5))))]

\* List.iterator: a reified iterator of the items there are and the next iterator.
IteratorOf(h, l) ==
    LET o == h.objs[l]
    IN  Reified(o.items \o IF o.next = 0 THEN <<>> ELSE <<Ref(o.next)>>)

\* $x.iterator.reify(n).reified, for what the reference i leads to.
Reifying(h, i, n) ==
    IF h.objs[i].k = "list" THEN [h |-> h, s |-> IteratorOf(h, i).reified]
    ELSE LET h1 == Reify(h, i, n) IN [h |-> h1, s |-> h1.objs[i].reified]

\* Mutant: the last place is not looked at.
StopsBefore(rest, count) == {p \in DOMAIN rest : rest[p].k # "val" /\ p < count}

\* perl6_rpa_find_type: the iterables among the elements up to count.
Stops(rest, count) == {p \in DOMAIN rest : rest[p].k # "val" /\ p <= count}

\* The loop of ListIter.reify: moves values from $!rest to rpa, up to the next list or
\* iterator, which is replaced by the elements it reifies to.  Nil counts as one that
\* reifies to nothing.
Fill(h, i, rpa, count, eager) ==
    LET rest  == h.objs[i].rest
        stops == Stops(rest, count)
        index == IF stops # {} THEN Min(stops) - 1 ELSE count
        moved == rpa \o Take(rest, index)
        left  == Drop(rest, index)
        h1    == [h EXCEPT !.objs[i].rest = left]
        h2    == [h EXCEPT !.objs[i].rest = Tail(left)]
    IN  IF rest = <<>> \/ Len(rpa) >= count THEN [h |-> h, rpa |-> rpa]
        ELSE IF left = <<>> \/ Len(moved) >= count THEN [h |-> h1, rpa |-> moved]
        ELSE IF Head(left) = NilElement THEN Fill(h2, i, moved, count, eager)
        ELSE IF eager /\ IsInfinite(h1, Head(left).v) THEN [h |-> h1, rpa |-> moved]
        ELSE LET r == Reifying(h2, Head(left).v, IF eager THEN Star ELSE count - Len(moved))
             IN  Fill([r.h EXCEPT !.objs[i].rest = r.s \o @], i, moved, count, eager)

\* ListIter.reify.
ReifyListIter(h, i, n) ==
    LET l    == h.objs[i].list
        f    == Fill(h, i, <<>>, IF n = Star THEN Batch ELSE n, n = Star)
        rest == f.h.objs[i].rest
        more == rest # <<>>
        h1   == [f.h EXCEPT !.objs[l].items = @ \o f.rpa]       \* List.REIFY
        h2   == IF more THEN Add(h1, ListIter(rest, l)) ELSE h1
        next == IF more THEN Newest(h2) ELSE 0
    IN  [h2 EXCEPT !.objs[i] = Reified(f.rpa \o IF more THEN <<Ref(next)>> ELSE <<>>),
                   !.objs[l].next = next]

Reify(h, i, n) ==
    CASE h.objs[i].k = "done"     -> h
      [] h.objs[i].k = "listiter" -> ReifyListIter(h, i, n)
      [] h.objs[i].k = "map"      -> ReifyMap(h, i, n)
      [] h.objs[i].k = "gather"   -> ReifyGather(h, i, n)

\* List.gimme: reify until there are n items, or for * until the end or an infinite
\* iterator.
Gimme(h, l, n) ==
    LET o     == h.objs[l]
        wants == IF n = Star THEN ~IsInfinite(h, o.next) ELSE Len(o.items) < n
    IN  IF o.next # 0 /\ wants
        THEN Gimme(Reify(h, o.next, IF n = Star THEN Star ELSE n - Len(o.items)), l, n)
        ELSE h

-----------------------------------------------------------------------------
(* Operations of the program.                                               *)

\* What an object refers to.
Refs(o) ==
    CASE o.k = "list"     -> IF o.next = 0 THEN <<>> ELSE <<o.next>>
      [] o.k = "listiter" -> <<o.list>> \o RefsOf(o.rest)
      [] o.k = "map"      -> <<o.list>>
      [] o.k = "done"     -> RefsOf(o.reified)
      [] o.k = "gather"   -> <<>>

\* The objects seen, then those in reach of the objects todo.
RECURSIVE Reach(_, _, _)
Reach(h, seen, todo) ==
    IF todo = <<>> THEN seen
    ELSE IF Contains(seen, Head(todo)) THEN Reach(h, seen, Tail(todo))
    ELSE Reach(h, Append(seen, Head(todo)), Refs(h.objs[Head(todo)]) \o Tail(todo))

\* The object o when the objects have the new numbers to.
Renumbered(o, to) ==
    LET new(s) == [p \in DOMAIN s |-> IF s[p].k = "ref" THEN Ref(to[s[p].v]) ELSE s[p]]
    IN  CASE o.k = "list"     -> IF o.next = 0 THEN o ELSE [o EXCEPT !.next = to[@]]
          [] o.k = "listiter" -> [o EXCEPT !.list = to[@], !.rest = new(@)]
          [] o.k = "map"      -> [o EXCEPT !.list = to[@]]
          [] o.k = "done"     -> [o EXCEPT !.reified = new(@)]
          [] o.k = "gather"   -> o

\* A call of the program leads to the heap h and the variables x, in which only what is
\* in reach is kept.  A gather known to be infinite does not run out (bound: a step that
\* takes all the values the model has for it).
Become(h, x) ==
    \E kept \in {Reach(h, <<>>, x)} : \E to \in {[i \in ToSet(kept) |-> CHOOSE n \in DOMAIN kept : kept[n] = i]} :
        /\ \A g \in Infinite : h.coro[g] # <<>>
        /\ objs' = [n \in DOMAIN kept |-> Renumbered(h.objs[kept[n]], to)]
        /\ coro' = h.coro /\ calls' = h.calls
        /\ var' = [n \in DOMAIN x |-> to[x[n]]]

\* A new variable is bound to .list of what the elements s reify to.
BindNew(h, s) ==
    \E h1 \in {NewList(h, s)} : Become(h1, Append(var, Newest(h1) - 1)) /\ UNCHANGED changes

\* my \y = $x.map($b): the block gets its arguments from a flattening list of $x alone.
Map ==
    \E x \in DOMAIN var, b \in DOMAIN Blocks :
        /\ Len(var) < MaxVars
        /\ LET h  == [NewList(Heap, <<Ref(var[x])>>) EXCEPT !.calls = Append(@, [block |-> b, made |-> <<>>])]
               h1 == Add(h, MapIter(Newest(h) - 1, b, Len(h.calls)))
           IN  BindNew(h1, <<Ref(Newest(h1))>>)

\* my \y = ($x, $z).list
Join ==
    \E x, z \in DOMAIN var : Len(var) < MaxVars /\ BindNew(Heap, <<Ref(var[x]), Ref(var[z])>>)

Ask(x, n) == \E h \in {Gimme(Heap, var[x], n)} : Become(h, var) /\ UNCHANGED changes

\* at_pos, exists, and what reads from the front.
AskSome == \E x \in DOMAIN var, n \in 1..MaxItems : Ask(x, n)

\* elems, eager, infinite.
AskAll == \E x \in DOMAIN var : Ask(x, Star)

\* The heap h, with l as the items of the list $x.
Change(x, h, items) ==
    /\ changes < MaxChanges /\ changes' = changes + 1
    /\ Become([h EXCEPT !.objs[var[x]].items = items], var)

Shift(x) ==
    \E h \in {IF objs[var[x]].items # <<>> THEN Heap ELSE Gimme(Heap, var[x], 1)} :
        LET items == h.objs[var[x]].items IN items # <<>> /\ Change(x, h, Tail(items))

\* pop and push fail on what is still infinite when all else is reified.
Pop(x) ==
    \E h \in {Gimme(Heap, var[x], Star)} :
        LET l == h.objs[var[x]] IN l.next = 0 /\ l.items # <<>> /\ Change(x, h, Front(l.items))

Push(x) ==
    \E h \in {Gimme(Heap, var[x], Star)} :
        LET l == h.objs[var[x]] IN l.next = 0 /\ Change(x, h, Append(l.items, Val(<<Pushed + changes>>)))

\* A list of values and gathers.
Made(h, shape) ==
    LET add(r, e) == IF e \in DOMAIN Takes
                     THEN LET h1 == Add(r.h, GatherIter(e))
                              h2 == NewList(h1, <<Ref(Newest(h1))>>)
                          IN  [h |-> h2, s |-> Append(r.s, Ref(Newest(h2) - 1))]
                     ELSE [r EXCEPT !.s = Append(@, Val(<<e>>))]
        r == FoldLeft(add, [h |-> h, s |-> <<>>], shape)
    IN  NewList(r.h, r.s)

Init ==
    \E shape \in Shapes :
        LET h == Made([objs |-> <<>>, coro |-> Takes, calls |-> <<>>], shape)
        IN  /\ objs = h.objs /\ coro = h.coro /\ calls = h.calls
            /\ var = <<Newest(h) - 1>> /\ changes = 0

Next ==
    \/ Map \/ Join \/ AskSome \/ AskAll
    \/ \E x \in DOMAIN var : Shift(x) \/ Pop(x) \/ Push(x)

Spec == Init /\ [][Next]_vars

-----------------------------------------------------------------------------
(* What a list holds or will hold, whatever of it is reified.               *)

\* The calls that a map over s makes, and what they give.
RECURSIVE CallsOf(_, _)
CallsOf(b, s) ==
    LET args == Take(s, Blocks[b].argc)
    IN  IF s = <<>> THEN <<>>
        ELSE <<args>> \o IF Control(b, args) = "last" THEN <<>> ELSE CallsOf(b, Drop(s, Len(args)))

Mapped(b, s) ==
    LET kept == SelectSeq(CallsOf(b, s), LAMBDA a : Control(b, a) \notin {"next", "last"})
    IN  [p \in DOMAIN kept |-> Result(b, kept[p])]

RECURSIVE Content(_, _)
ContentOf(h, s) ==
    FlattenSeq([p \in DOMAIN s |-> CASE s[p].k = "val" -> <<s[p].v>>
                                     [] s[p].k = "nil" -> <<>>
                                     [] s[p].k = "ref" -> Content(h, s[p].v)])

Content(h, i) ==
    LET o == h.objs[i]
    IN  CASE o.k = "list"     -> ContentOf(h, o.items) \o IF o.next = 0 THEN <<>> ELSE Content(h, o.next)
          [] o.k = "done"     -> ContentOf(h, o.reified)
          [] o.k = "listiter" -> ContentOf(h, o.rest)
          [] o.k = "map"      -> Mapped(o.block, Content(h, o.list))
          [] o.k = "gather"   -> h.coro[o.gather]

\* What a map has been called with and will be; a call that was to be done again does not
\* count.
AllCalls(h, m) ==
    LET block  == h.calls[m].block
        made   == h.calls[m].made
        live   == {i \in DOMAIN h.objs : h.objs[i].k = "map" /\ h.objs[i].map = m}
        redone == {n \in DOMAIN made : Control(block, made[n]) = "redo" /\ ~Contains(Take(made, n - 1), made[n])}
        kept   == SelectSeq([n \in DOMAIN made |-> n], LAMBDA n : n \notin redone)
    IN  [p \in DOMAIN kept |-> made[kept[p]]]
        \o IF live = {} THEN <<>>
           ELSE CallsOf(block, Content(h, h.objs[CHOOSE i \in live : TRUE].list))

-----------------------------------------------------------------------------
(* What lazy lists promise.                                                 *)

\* Items are values: iterators and Nil never get among them.  A list goes on with an
\* iterator that is not reified yet and knows it, and a map has one iterator at most
\* that is still to be reified.
TypeOK ==
    /\ \A i \in DOMAIN objs :
          LET o == objs[i]
          IN  CASE o.k = "list"     -> /\ \A p \in DOMAIN o.items : o.items[p].k = "val"
                                       /\ o.next # 0 => objs[o.next].k = "listiter"
                [] o.k = "listiter" -> objs[o.list].k = "list" /\ objs[o.list].next = i
                [] o.k = "map"      -> \A j \in DOMAIN objs :
                                          (objs[j].k = "map" /\ objs[j].map = o.map) => j = i
                [] OTHER            -> TRUE
    /\ \A x \in DOMAIN var : objs[var[x]].k = "list"

\* Whether the object i, with what it still has to reify, includes the object l as it is.
Includes(i, l) == Contains(Reach(Heap, <<>>, <<i>>), l)

\* The state a step leads to.
NextHeap == [objs |-> objs', coro |-> coro', calls |-> calls']

\* The lists that are no longer what they were.
Changed == {x \in DOMAIN var : Content(NextHeap, var'[x]) # Content(Heap, var[x])}

\* However much of which list is reified, and in whatever order, no list comes to hold
\* other values: only shift, pop and push change a list, as they say, and with it only
\* lists that have yet to read that one.
ContentKept ==
    [][LET changed == Changed
       IN  changed # {} =>
          \E x \in changed :
             LET old == Content(Heap, var[x])
                 new == Content(NextHeap, var'[x])
             IN  /\ \/ Shift(x) /\ new = Tail(old)
                    \/ Pop(x) /\ new = Front(old)
                    \/ Push(x) /\ Front(new) = old
                 /\ \A y \in changed : Includes(var[y], var[x])]_vars

\* A block that is mapped is called for each value once, in order (again for redo, not at
\* all beyond last), though several lists may be fed by the same iterator.
OnceInOrder ==
    [][changes' = changes => \A m \in DOMAIN calls : AllCalls(NextHeap, m) = AllCalls(Heap, m)]_vars

Simple(b) == Blocks[b].argc = 1 /\ DOMAIN Blocks[b].control = {}

\* The values that the list l has before a gather has to run: what it would hold if the
\* gathers took nothing, up to where it would be another if they took something.
Ready(l) ==
    LET taking(s) == [Heap EXCEPT !.coro = [g \in DOMAIN Takes |-> s]]
    IN  Len(LongestCommonPrefix({Content(taking(<<>>), l), Content(taking(<<<<Star>>>>), l)}))

\* Asking for n items runs no gather further than the items need that no value there is
\* already makes, as long as the blocks in between give one for one.
Lazy ==
    [][\A x \in DOMAIN var, n \in 1..MaxItems :
          ( /\ \E g \in DOMAIN Takes : /\ coro'[g] # coro[g]
                                        /\ Len(coro[g]) - Len(coro'[g]) > n - Ready(var[x])
            /\ \A i \in DOMAIN objs : objs[i].k = "map" => Simple(objs[i].block) )
          => ~Ask(x, n)]_vars

=============================================================================
