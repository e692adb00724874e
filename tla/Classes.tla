------------------------------- MODULE Classes -------------------------------
(***************************************************************************)
(* Classes while a program declares them: parents, roles and methods are     *)
(* added, the class is composed, and it may be augmented and composed again  *)
(* (src/Perl6/Metamodel/ClassHOW.pm and the roles it does).  Composition     *)
(* fixes the method resolution order, once, and publishes the caches that    *)
(* type checks and method calls go by.                                       *)
(***************************************************************************)
EXTENDS C3MRO, Functions

CONSTANTS
    N,              \* the classes of a program are numbered from 1 to N at most; 0 is the default parent
    Methods,        \* names of methods
    Role,           \* Role[r]: the methods, attributes, multis and parents of a role
    Attrs,          \* attributes that classes declare, the public ones by the accessor's name
    Stubs,          \* the hierarchies a program starts from: the parents of its stubs
    MaxParents,     \* bound on the parents a class declares
    MaxDecls,       \* MaxDecls[h]: bound on the declarations in a program that starts from h
    Augments,       \* whether classes are declared into once they are composed
    None

ASSUME ClassesAssumption ==
    /\ \A h \in Stubs : \E n \in 1..N : h \in [1..n -> Seq(1..n)]
    /\ N \in Nat /\ MaxParents \in Nat /\ MaxDecls \in [Stubs -> Nat] /\ Augments \in BOOLEAN
    /\ \A r \in DOMAIN Role :
          /\ Role[r].methods \in Seq(Methods) /\ Role[r].multis \in Seq(Methods)
          /\ Role[r].attrs \in Seq(Attrs) /\ Role[r].parents \in Seq(1..N)

VARIABLES
    class,      \* the metaobjects of the classes
    code,       \* code[<<c, m>>]: the method m that was added to class c
    decls,      \* declarations still to come
    behind,     \* classes that were published before something above them changed
    early,      \* classes composed while something above them was not
    failed      \* classes whose composition died

vars == <<class, code, decls, behind, early, failed>>

AnyType  == 0
Declared == DOMAIN class \ {AnyType}
Roles    == DOMAIN Role
Universe == [class |-> class, code |-> code]

Ok(k)  == [k |-> k, ok |-> TRUE]
Die(k) == [k |-> k, ok |-> FALSE]

\* What comes after r, unless it died.
Then(r, next(_)) == IF r.ok THEN next(r.k) ELSE r

\* add for each element in order, up to the first that dies.
ForEach(s, k, add(_, _)) == FoldLeft(LAMBDA r, e : Then(r, LAMBDA h : add(h, e)), Ok(k), s)

-----------------------------------------------------------------------------
(* Method resolution order.                                                 *)

SelfFirst(c, above) == <<c>> \o above

\* mro: what was computed already, else it is computed as well as can be and kept.
RECURSIVE WithMro(_, _)
compute_mro(k, c) ==
    LET parents == k.class[c].parents
        k1      == FoldLeft(WithMro, k, parents)
        lists   == [n \in DOMAIN parents |-> k1.class[parents[n]].mro]
        above   == IF Len(parents) = 0 THEN <<>>
                   ELSE IF Len(parents) = 1 THEN lists[1]
                   ELSE c3_merge(Append(lists, parents))
    IN  [k1 EXCEPT !.class[c].mro = SelfFirst(c, above)]

WithMro(k, c) == IF k.class[c].mro # <<>> THEN k ELSE compute_mro(k, c)

-----------------------------------------------------------------------------
(* Adding to a class.                                                       *)

Has(k, c, m) == m \in DOMAIN k.class[c].table

With(f, x, v) == [y \in DOMAIN f \cup {x} |-> IF y = x THEN v ELSE f[y]]

\* A code object of the class c: what it came from, and its candidates if it is a proto.
add_method(k, c, m, from, multi, cands) ==
    IF Has(k, c, m) THEN Die(k)
    ELSE Ok([k EXCEPT !.class[c].table = With(@, m, <<c, m>>),
                      !.code = With(@, <<c, m>>, [from |-> from, multi |-> multi, cands |-> cands])])

add_parent(k, c, p) ==
    IF k.class[c].composed \/ p = c \/ Contains(k.class[c].parents, p) THEN Die(k)
    ELSE Ok([k EXCEPT !.class[c].parents = Append(@, p)])

add_attribute(k, c, a) ==
    IF a \in k.class[c].attrs THEN Die(k) ELSE Ok([k EXCEPT !.class[c].attrs = @ \cup {a}])

add_multi_method(k, c, m, cand) ==
    [k EXCEPT !.class[c].multis = Append(@, [name |-> m, cand |-> cand])]

-----------------------------------------------------------------------------
(* RoleToClassApplier.apply, and RoleToRoleApplier.apply for several roles.   *)

Providers(rs, m) == {n \in DOMAIN rs : Contains(Role[rs[n]].methods, m)}

Collisions(rs) == {m \in Methods : Cardinality(Providers(rs, m)) > 1}

\* The roles cannot be made into one: an attribute or a parent comes from two of them.
Clash(rs) ==
    \E n, o \in DOMAIN rs :
        /\ n < o
        /\ \/ rs[n] # rs[o] /\ ToSet(Role[rs[n]].attrs) \cap ToSet(Role[rs[o]].attrs) # {}
           \/ ToSet(Role[rs[n]].parents) \cap ToSet(Role[rs[o]].parents) # {}

\* Methods of the class stay; those of the roles come in unless they collide.
MethodsFrom(k, c, rs) ==
    LET new == {m \in Methods : Providers(rs, m) # {} /\ ~Has(k, c, m)} \ Collisions(rs)
    IN  ForEach(SetToSeq(new), k, LAMBDA h, m :
            add_method(h, c, m, rs[Min(Providers(rs, m))], FALSE, <<>>)).k

MultisFrom(k, c, r) ==
    FoldLeft(LAMBDA h, m : add_multi_method(h, c, m, r), k, Role[r].multis)

AddFrom(k, c, rs) ==
    LET k1      == FoldLeft(LAMBDA h, r : MultisFrom(h, c, r), MethodsFrom(k, c, rs), rs)
        once    == [n \in DOMAIN rs |->     \* a role done twice gives its attributes once
                      IF Contains(SubSeq(rs, 1, n - 1), rs[n]) THEN <<>> ELSE Role[rs[n]].attrs]
        parents == FlattenSeq([n \in DOMAIN rs |-> Role[rs[n]].parents])
    IN  Then(ForEach(FlattenSeq(once), k1, LAMBDA h, a : add_attribute(h, c, a)),
             LAMBDA k2 : ForEach(parents, k2, LAMBDA h, p : add_parent(h, c, p)))

\* Mutant: nobody asks whether the class resolves a collision.
apply_unresolved(k, c, rs) == IF Clash(rs) THEN Die(k) ELSE AddFrom(k, c, rs)

apply(k, c, rs) ==
    IF Clash(rs) \/ \E m \in Collisions(rs) : ~Has(k, c, m) THEN Die(k)
    ELSE AddFrom(k, c, rs)

\* The roles are taken from the list before they are applied, the last first.
ComposeRoles(k, c) ==
    LET rs == Reverse(k.class[c].todo)
        k1 == [k EXCEPT !.class[c].todo = <<>>, !.class[c].does = @ \cup ToSet(rs)]
    IN  IF rs = <<>> THEN Ok(k) ELSE apply(k1, c, rs)

-----------------------------------------------------------------------------
(* The rest of compose.                                                     *)

\* Only once: the default parent and the method resolution order.
ComposeMro(k, c) ==
    IF k.class[c].composed THEN k
    ELSE LET k1 == IF k.class[c].parents # <<>> THEN k
                   ELSE [k EXCEPT !.class[c].parents = <<AnyType>>]
         IN  [compute_mro(k1, c) EXCEPT !.class[c].composed = TRUE]

\* Mutant: the candidate goes to the proto that is found.
DeriveNothing(k, c, proto, m, cand) ==
    Ok([k EXCEPT !.code[proto].cands = Append(@, cand), !.class[c].table = With(@, m, proto)])

\* A proto from further up is derived: its candidates and the new one.
DeriveDispatcher(k, c, proto, m, cand) ==
    add_method(k, c, m, proto, TRUE, Append(k.code[proto].cands, cand))

\* One turn of incorporate_multi_candidates.
Incorporate(k, c, multi) ==
    LET m      == multi.name
        mro    == k.class[c].mro
        own    == k.class[c].table[m]
        protos == {n \in 2..Len(mro) : Has(k, mro[n], m) /\ k.code[k.class[mro[n]].table[m]].multi}
    IN  IF Has(k, c, m)
        THEN IF k.code[own].multi THEN Ok([k EXCEPT !.code[own].cands = Append(@, multi.cand)])
             ELSE Die(k)
        ELSE IF protos # {} THEN DeriveDispatcher(k, c, k.class[mro[Min(protos)]].table[m], m, multi.cand)
        ELSE add_method(k, c, m, c, TRUE, <<multi.cand>>)

\* The list is emptied at the end only.
incorporate_multi_candidates(k, c) ==
    Then(ForEach(k.class[c].multis, k, LAMBDA h, e : Incorporate(h, c, e)),
         LAMBDA h : Ok([h EXCEPT !.class[c].multis = <<>>]))

\* compose_attributes: an attribute that is named as a method is has an accessor, unless
\* the class has a method of the name.
compose_attributes(k, c) ==
    ForEach(SetToSeq({a \in k.class[c].attrs \cap Methods : ~Has(k, c, a)}), k,
            LAMBDA h, a : add_method(h, c, a, c, FALSE, <<>>))

\* Mutant: of the class's own roles only.
TypesOfOwnRoles(k, c) == ToSet(k.class[c].mro) \cup k.class[c].does

\* publish_type_cache: the types of the class and the roles of each.
Types(k, c) == ToSet(k.class[c].mro) \cup UNION {k.class[a].does : a \in ToSet(k.class[c].mro)}

Having(k, c, m) == {n \in DOMAIN k.class[c].mro : Has(k, k.class[c].mro[n], m)}

\* Mutant: the methods further up go over those below.
CachedTop(k, c) ==
    [m \in {n \in Methods : Having(k, c, n) # {}} |->
        k.class[k.class[c].mro[Max(Having(k, c, m))]].table[m]]

\* publish_method_cache: from the top down, each class's methods over those before.
Cached(k, c) ==
    [m \in {n \in Methods : Having(k, c, n) # {}} |->
        k.class[k.class[c].mro[Min(Having(k, c, m))]].table[m]]

Publish(k, c) == [k EXCEPT !.class[c].types = Types(k, c), !.class[c].cache = Cached(k, c)]

compose(k, c) ==
    Then(ComposeRoles(k, c),
         LAMBDA k1 : Then(incorporate_multi_candidates(ComposeMro(k1, c), c),
                          LAMBDA k2 : Then(compose_attributes(k2, c),
                                           LAMBDA k3 : Ok(Publish(k3, c)))))

-----------------------------------------------------------------------------
(* What the program does.                                                   *)

Parents(k, c) == ToSet(k.class[c].parents)

\* All classes above c, by the parents they have now.
RECURSIVE Above(_, _)
Above(k, c) == Parents(k, c) \cup UNION {Above(k, p) : p \in Parents(k, c)}

Published(k) == {c \in Declared : k.class[c].types # None}

\* The classes for which a change of c makes a difference.
Below(k, c) == {d \in Published(k) : c = d \/ c \in Above(k, d)}

Become(k) == class' = k.class /\ code' = k.code

\* A declaration inside class c, while it is open or in an augment.  One that dies
\* changes nothing.
Declare(c, r) ==
    /\ decls > 0 /\ decls' = decls - 1
    /\ Augments \/ ~class[c].composed
    /\ r.ok /\ Become(r.k)
    /\ behind' = behind \cup Below(r.k, c)
    /\ UNCHANGED <<early, failed>>

\* class C is P.  Bound: the hierarchies whose classes are numbered from the top down.
IsParent(c) ==
    \E p \in 1..(c - 1) :
        Len(class[c].parents) < MaxParents /\ Declare(c, add_parent(Universe, c, p))

Does(c) ==
    \E r \in Roles : Declare(c, Ok([Universe EXCEPT !.class[c].todo = Append(@, r)]))

Method(c) ==
    \E m \in Methods, multi \in BOOLEAN : Declare(c, add_method(Universe, c, m, c, multi, <<>>))

MultiMethod(c) == \E m \in Methods : Declare(c, Ok(add_multi_method(Universe, c, m, c)))

Attribute(c) == \E a \in Attrs : Declare(c, add_attribute(Universe, c, a))

\* A type check, a method call or an introspection of a class that is not composed yet.
AskMro(c) ==
    /\ class[c].mro = <<>>
    /\ Become(WithMro(Universe, c)) /\ UNCHANGED <<decls, behind, early, failed>>

\* The end of the declaration of a class, or of an augment.
Compose(c) ==
    \E r \in {compose(Universe, c)} :
        /\ Become(r.k)
        /\ behind' = (behind \cup Below(r.k, c)) \ IF r.ok THEN {c} ELSE {}
        /\ early' = IF /\ r.k.class[c].composed /\ ~class[c].composed
                       /\ \E a \in Above(r.k, c) : ~r.k.class[a].composed \/ a \in early
                    THEN early \cup {c} ELSE early
        /\ failed' = IF r.ok THEN failed ELSE failed \cup {c}
        /\ UNCHANGED decls

New(parents) ==
    [ parents |-> parents, todo |-> <<>>, multis |-> <<>>, does |-> {}, table |-> <<>>, attrs |-> {},
      mro |-> <<>>, composed |-> FALSE, types |-> None, cache |-> None ]

\* The default parent is composed already; no method of it matters here.
Init ==
    /\ \E stubs \in Stubs :
          /\ class = [c \in DOMAIN stubs \cup {AnyType} |->
                        IF c # AnyType THEN New(stubs[c])
                        ELSE [New(<<>>) EXCEPT !.mro = <<AnyType>>, !.composed = TRUE,
                                               !.types = {AnyType}, !.cache = <<>>]]
          /\ decls = MaxDecls[stubs]
    /\ code = <<>>
    /\ behind = {} /\ early = {} /\ failed = {}

Next ==
    \E c \in Declared :
        \/ IsParent(c) \/ Does(c) \/ Method(c) \/ MultiMethod(c) \/ Attribute(c)
        \/ AskMro(c) \/ Compose(c)

Spec == Init /\ [][Next]_vars

-----------------------------------------------------------------------------
(* What a class looks like from outside.                                    *)

\* A method call: the cache, then the method resolution order.
find_method(c, m) ==
    IF class[c].cache # None /\ m \in DOMAIN class[c].cache THEN class[c].cache[m]
    ELSE LET n == Having(Universe, c, m)
         IN  IF n = {} THEN None ELSE class[class[c].mro[Min(n)]].table[m]

\* A type check: the cache is definitive; without one, the method resolution order.
type_check(c, t) == t \in (IF class[c].types # None THEN class[c].types ELSE Types(Universe, c))

\* The C3 linearization of c, as its parents are declared.
RECURSIVE C3(_)
C3(c) ==
    LET parents == class[c].parents
        lists   == [n \in DOMAIN parents |-> C3(parents[n])]
    IN  <<c>> \o C3Merge(Append(lists, parents))

\* Classes that were declared in order: all above them was composed before them.
InOrder == {c \in Declared : class[c].composed /\ c \notin early}

Consistent(c) == ~Contains(C3(c), Ambiguous)

Whole(c) == {c} \cup Above(Universe, c)

\* What c3_merge is given for c: the orders of its parents, and the parents in order.
Merged(c) == LET parents == class[c].parents
             IN  Append([n \in DOMAIN parents |-> class[parents[n]].mro], parents)

Precedes(s, a, b) == \E n, o \in DOMAIN s : n < o /\ s[n] = a /\ s[o] = b

Agree(s, t) == \A n, o \in DOMAIN s : n < o => ~Precedes(t, s[o], s[n])

\* Hierarchies in which no two orders that were merged contradict each other, and no class
\* has more than two parents.
Agreeing(c) ==
    \A a \in Whole(c) :
        Len(class[a].parents) <= 2 /\ \A s, t \in ToSet(Merged(a)) : Agree(s, t)

-----------------------------------------------------------------------------
(* What classes promise.                                                    *)

\* The method resolution order of a class starts with the class and has others from above
\* it only, each once; all of them, and those of the first parent in that parent's order,
\* if the class was composed after them, whatever the merge makes of contradictions.  Where
\* the orders merged contradict each other nowhere, and nobody has more than two parents,
\* each class is before those it inherits from; otherwise this may be lost, also where C3
\* has an order that keeps it.
OrderKept ==
    \A c \in Declared : class[c].composed =>
        LET mro     == class[c].mro
            parents == class[c].parents
        IN  /\ mro[1] = c /\ IsInjective(mro) /\ ToSet(mro) \subseteq Whole(c)
            /\ c \in InOrder =>
                  /\ Whole(c) \subseteq ToSet(mro)
                  /\ LET first == class[parents[1]].mro
                     IN  SelectSeq(mro, LAMBDA a : Contains(first, a)) = first
                  /\ Agreeing(c) =>
                        \A n, o \in DOMAIN mro : n < o => mro[n] \notin Above(Universe, mro[o])

\* A call finds a method of the hierarchy; if the class was composed after those above it,
\* it finds one whenever there is one, and where the orders merged contradict each other
\* nowhere never one that a class further down overrides, whether its own or a role's.
NearestFound ==
    \A c \in Published(Universe) \ (behind \cup failed), m \in Methods :
        LET all   == {a \in Whole(c) : Has(Universe, a, m)}
            found == find_method(c, m)
        IN  /\ found # None => found[1] \in all
            /\ all # {} /\ c \in InOrder =>
                  /\ found # None
                  /\ Agreeing(c) => \A a \in all : found[1] \notin Above(Universe, a)

\* A class is of the types above it, of its roles and of theirs, and of no other, however
\* often it was augmented.
TypesKnown ==
    \A c \in InOrder \ (behind \cup failed) :
        LET all == Whole(c)
        IN  /\ \A t \in Declared \cup {AnyType} : type_check(c, t) <=> t \in all
            /\ \A r \in Roles : type_check(c, r) <=> \E a \in all : r \in class[a].does

\* A role that was composed is there: its methods unless the class has its own, its
\* attributes and its parents.
RolesKept ==
    \A c \in InOrder \ failed : \A r \in class[c].does :
        /\ \A n \in DOMAIN Role[r].methods : Has(Universe, c, Role[r].methods[n])
        /\ ToSet(Role[r].attrs) \subseteq class[c].attrs
        /\ ToSet(Role[r].parents) \subseteq ToSet(class[c].mro)

\* What a class declares or composes changes no method of another, though protos are
\* handed down the hierarchy and roles are shared; and a method that a class has is not
\* replaced by a role's or a proto's.
MethodsKept ==
    [][ /\ \A o \in DOMAIN code : code'[o].from = code[o].from
        /\ \A c \in Declared : class'[c].table # class[c].table =>
              \A d \in Declared \ {c} : \A m \in DOMAIN class[d].table :
                 /\ class'[d].table = class[d].table
                 /\ code'[class[d].table[m]] = code[class[d].table[m]] ]_vars

\* C3MRO.pm: "Computes C3 MRO."
ComputesC3 ==
    \A c \in InOrder : Consistent(c) => class[c].mro = C3(c)

=============================================================================
