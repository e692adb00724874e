----------------------------- MODULE Redispatch -----------------------------
(***************************************************************************)
(* Deferral: callsame, callwith, nextsame, nextwith and lastcall            *)
(* (src/core/control.pm) over the dispatcher objects of                     *)
(* src/Perl6/Metamodel/Dispatchers.pm.  A dispatcher is handed to the next  *)
(* candidate through a global register (src/ops/perl6.ops) that the callee  *)
(* moves to its own $*DISPATCHER when it is entered; a routine entered      *)
(* without one makes its own the first time it is asked for.                *)
(***************************************************************************)
EXTENDS Integers, Sequences, FiniteSets, Functions

CONSTANTS
    Objects,        \* invocants
    Methods,        \* Methods[o][n]: methods named n of the classes in o's MRO, nearest first
    Subs,           \* routines called as subs
    Slot,           \* Slot[r]: which $*DISPATCHER r declares: "method", "multi" or "none"
    Protos,         \* routines whose body is {*}
    Best,           \* Best[p][a]: the candidate a dispatch of p finds, or None
    Matching,       \* Matching[p][a]: all candidates that match, in dispatch order
    ProtoOf,        \* ProtoOf[r]: the proto candidate r was last added to
    Args,           \* argument lists, the invocant aside
    Eigen,          \* Eigen[a]: the argument lists a junctional a threads into
    Threading,      \* Threading[r]: those junctional arguments r does not take
    SubArgs,        \* bound: those subs are called with
    MaxDepth,       \* bound on activations
    MaxDispatchers, \* bound on dispatchers in reach at a time
    None

Routines == DOMAIN Slot

\* The routines that declare a $*DISPATCHER of a kind.
Slotted(kind) == {r \in Routines : Slot[r] = kind}

\* A method table has methods, each class its own: a role's are cloned for each class
\* (ParametricRoleHOW.specialize_with).  The candidates of a proto are multis.  Other
\* code objects, put in their place through the meta-objects, are left out.
ASSUME RedispatchAssumption ==
    /\ Slot \in [Routines -> {"method", "multi", "none"}]
    /\ Protos \subseteq Routines /\ Subs \subseteq Routines \ Slotted("method") /\ SubArgs \subseteq Args
    /\ \A o \in Objects : \A n \in DOMAIN Methods[o] :
          Methods[o][n] \in Seq(Slotted("method")) \ {<<>>} /\ IsInjective(Methods[o][n])
    /\ Best \in [Protos -> [Args -> Slotted("multi") \cup {None}]]
    /\ Matching \in [Protos -> [Args -> Seq(Slotted("multi"))]]
    /\ \A p \in Protos, arg \in Args : IsInjective(Matching[p][arg])
    /\ ProtoOf \in [Slotted("multi") -> Protos]
    /\ DOMAIN Eigen \subseteq Args /\ Eigen \in [DOMAIN Eigen -> Seq(Args)]
    /\ Threading \in [Routines -> SUBSET DOMAIN Eigen]
    /\ None \notin Routines \cup Objects
    /\ MaxDepth \in Nat /\ MaxDispatchers \in Nat

VARIABLES
    stack,      \* activations, innermost last
    disps,      \* the dispatcher objects, in the order they were made
    current     \* current_dispatcher, the register: an index into disps, or 0 for NULL

vars == <<stack, disps, current>>

\* $*DISPATCHER when it is not an index into disps.
Undeclared  == -1
Unvivified  == 0        \* still the type object

Null == 0

-----------------------------------------------------------------------------
(* Activations.                                                             *)

Phases == {"body", "dispatch", "thread"}

\* The activation of r on arg.  A proto begins with its dispatch; any other
\* routine is repeated for each eigenstate if its bind meets a junction.
Activation(r, inv, arg, slot, same, next) ==
    [ rout |-> r, inv |-> inv, arg |-> arg, slot |-> slot,
      phase |-> IF r \in Protos THEN "dispatch"
                ELSE IF arg \in Threading[r] THEN "thread" ELSE "body",
      todo  |-> IF r \notin Protos /\ arg \in Threading[r] THEN Eigen[arg] ELSE <<>>,
      same  |-> same /\ slot > 0,   \* it took its dispatcher from callsame or nextsame
      next  |-> next ]      \* nextsame or nextwith: the caller returns with it

Top    == stack[Len(stack)]
Depth  == Len(stack)
Room   == Depth < MaxDepth

\* perl6_take_dispatcher, the first thing a routine with a slot does.
TakenSlot(r, reg) ==
    IF Slot[r] = "none" THEN Undeclared ELSE IF reg = Null THEN Unvivified ELSE reg

\* Mutant: the register is not cleared.
NotCleared(r, reg) == reg

LeftByTake(r, reg) == IF Slot[r] = "none" THEN reg ELSE Null

\* r is entered over the activations st with reg in the register.
Enter(st, r, inv, arg, same, next, reg) ==
    /\ stack' = Append(st, Activation(r, inv, arg, TakenSlot(r, reg), same, next))
    /\ current' = LeftByTake(r, reg)

\* Constraints run during a dispatch, other code in bodies, or at the top.
UserCode == Room /\ (stack # <<>> => Top.phase \in {"body", "dispatch"})
InBody   == stack # <<>> /\ Top.phase = "body"

-----------------------------------------------------------------------------
(* Calls that begin afresh.                                                 *)

CallMethod ==
    /\ UserCode
    /\ \E o \in Objects, arg \in Args : \E n \in DOMAIN Methods[o] :
          Enter(stack, Methods[o][n][1], o, arg, FALSE, FALSE, current)
    /\ UNCHANGED disps

\* $obj.Parent::name, past nearer methods of the name.
CallQualified ==
    /\ UserCode
    /\ \E o \in Objects, arg \in Args : \E n \in DOMAIN Methods[o] :
          \E i \in 2..Len(Methods[o][n]) :
             Enter(stack, Methods[o][n][i], o, arg, FALSE, FALSE, current)
    /\ UNCHANGED disps

CallSub ==
    /\ UserCode
    /\ \E r \in Subs, arg \in SubArgs : Enter(stack, r, None, arg, FALSE, FALSE, current)
    /\ UNCHANGED disps

\* The {*} of a proto: the candidate found takes the place of the proto's
\* activation, its $*DISPATCHER included.  So does the threader.
Dispatch ==
    /\ stack # <<>> /\ Top.phase = "dispatch"
    /\ LET below == SubSeq(stack, 1, Depth - 1)
           cand  == Best[Top.rout][Top.arg]
       IN  \/ /\ Top.arg \in Threading[Top.rout]
              /\ stack' = Append(below, [Top EXCEPT !.slot = Undeclared, !.phase = "thread",
                                                    !.todo = Eigen[Top.arg]])
              /\ UNCHANGED current
           \/ /\ Top.arg \notin Threading[Top.rout] /\ cand # None
              /\ Enter(below, cand, Top.inv, Top.arg, Top.same, Top.next, current)
    /\ UNCHANGED disps

\* AUTOTHREAD calls the routine again for the next eigenstate.
Thread ==
    /\ stack # <<>> /\ Top.phase = "thread" /\ Top.todo # <<>> /\ Room
    /\ LET st == [stack EXCEPT ![Depth].todo = Tail(@)]
       IN  Enter(st, Top.rout, Top.inv, Head(Top.todo), FALSE, FALSE, current)
    /\ UNCHANGED disps

-----------------------------------------------------------------------------
(* Dispatcher objects.                                                      *)

Dispatcher(cands, inv, owner) ==
    [ cands |-> cands,
      idx   |-> 1,          \* candidates offered: the first is the one that runs
      inv   |-> inv,        \* None when it has no invocant
      all   |-> cands,      \* what cands began as, for the properties
      owner |-> owner ]     \* the routine it was made for

\* vivify_for: the methods of the name along the MRO, or what the proto the
\* candidate belongs to matches the arguments of the activation with.
VivifyFor(f) ==
    IF Slot[f.rout] = "method"
    THEN LET n == CHOOSE n \in DOMAIN Methods[f.inv] : f.rout \in Range(Methods[f.inv][n])
         IN  Dispatcher(Methods[f.inv][n], f.inv, f.rout)
    ELSE Dispatcher(Matching[ProtoOf[f.rout]][f.arg], f.inv, f.rout)

Exhausted(d) == d.idx >= Len(d.cands)

\* The nearest activation down the dynamic chain that declares a $*DISPATCHER.
Declaring == {k \in DOMAIN stack : stack[k].slot # Undeclared}
Nearest   == CHOOSE k \in Declaring : \A m \in Declaring : m <= k

\* perl6_find_dispatcher: the dispatcher found, and the dispatchers and activations
\* once it is vivified.
Finding ==
    LET near  == stack[Nearest]
        fresh == near.slot = Unvivified
        d     == IF fresh THEN Len(disps) + 1 ELSE near.slot
    IN  [ d     |-> d,
          disps |-> IF fresh THEN Append(disps, VivifyFor(near)) ELSE disps,
          stack |-> [stack EXCEPT ![Nearest].slot = d] ]

Asks == InBody /\ Declaring # {}

\* What is found is within the bound.
Bounded(f) == Len(f.disps) <= MaxDispatchers

\* Mutant: the arguments are those of the activation that asks.
ArgsOfCaller(f) == Top

\* perl6_args_for_dispatcher: the nearest activation that holds the dispatcher.
ArgsFor(f) ==
    LET holders == {k \in DOMAIN stack : f.stack[k].slot = f.d}
    IN  f.stack[CHOOSE k \in holders : \A m \in holders : m <= k]

\* Nothing is called when the candidates are exhausted: the answer is Nil, and
\* nextsame does not return from its caller either.
Nobody ==
    /\ Asks
    /\ LET f == Finding
       IN  /\ Bounded(f) /\ Exhausted(f.disps[f.d])
           /\ stack' = f.stack /\ disps' = f.disps
    /\ UNCHANGED current

\* Entry of the candidate after the ones offered, with the dispatcher in the register.
EnterNext(f, inv, arg, same) ==
    LET cand == f.disps[f.d].cands[f.disps[f.d].idx + 1]
    IN  \E next \in BOOLEAN : Enter(f.stack, cand, inv, arg, same, next, f.d)

\* Mutant: the index is not advanced.
OfferAgain(f, inv, arg, same) == disps' = f.disps /\ EnterNext(f, inv, arg, same)

\* call_with_args and call_with_capture.
Offer(f, inv, arg, same) ==
    disps' = [f.disps EXCEPT ![f.d].idx = @ + 1] /\ EnterNext(f, inv, arg, same)

Offers(f) == Bounded(f) /\ ~Exhausted(f.disps[f.d])

\* callsame and nextsame.
CallSame ==
    /\ Asks /\ Room
    /\ LET f == Finding IN Offers(f) /\ Offer(f, ArgsFor(f).inv, ArgsFor(f).arg, TRUE)

\* callwith and nextwith.
CallWith ==
    /\ Asks /\ Room
    /\ LET f == Finding
       IN  Offers(f) /\ \E arg \in Args : Offer(f, f.disps[f.d].inv, arg, FALSE)

\* Mutant: lastcall rewinds the dispatcher.
LastCallRewinds ==
    /\ Asks
    /\ LET f == Finding
       IN  /\ Bounded(f)
           /\ disps' = [f.disps EXCEPT ![f.d].idx = 0] /\ stack' = f.stack
    /\ UNCHANGED current

LastCall ==
    /\ Asks
    /\ LET f == Finding
       IN  /\ Bounded(f)
           /\ disps' = [f.disps EXCEPT ![f.d].cands = <<>>] /\ stack' = f.stack
    /\ UNCHANGED current

-----------------------------------------------------------------------------
(* Ends of activations.                                                     *)

\* Control is back in the innermost of the activations st.  The newest dispatchers
\* are forgotten when nobody can reach them any more.
Resume(st) ==
    LET held == {current} \cup {st[k].slot : k \in DOMAIN st} \cup {0}
    IN  /\ stack' = st
        /\ disps' = SubSeq(disps, 1, CHOOSE d \in held : \A e \in held : e <= d)
        /\ UNCHANGED current

\* A routine returns.  Callers that deferred to it by nextsame return with it.
Return ==
    /\ stack # <<>>
    /\ Top.phase = "body" \/ (Top.phase = "thread" /\ Top.todo = <<>>)
    /\ LET stays == {k \in DOMAIN stack : ~stack[k].next}
           last  == CHOOSE k \in stays : \A m \in stays : m <= k
       IN  Resume(SubSeq(stack, 1, last - 1))

\* An exception, also of a dispatch that finds no candidate, is caught in a body
\* or ends the program's call.
Die ==
    /\ stack # <<>> /\ Top.phase \in {"body", "dispatch"}
    /\ \E k \in 0..(Depth - 1) :
          /\ k # 0 => stack[k].phase = "body"
          /\ Resume(SubSeq(stack, 1, k))

Init == stack = <<>> /\ disps = <<>> /\ current = Null

Next ==
    \/ CallMethod \/ CallQualified \/ CallSub
    \/ Dispatch \/ Thread
    \/ Nobody \/ CallSame \/ CallWith \/ LastCall
    \/ Return \/ Die

Spec == Init /\ [][Next]_vars

-----------------------------------------------------------------------------
(* What deferral promises.                                                  *)

\* Activations and dispatchers are well formed; slots and the register refer to
\* dispatchers there are, and no dispatcher has offered more than it has.
TypeOK ==
    /\ Depth <= MaxDepth /\ current \in 0..Len(disps)
    /\ \A k \in DOMAIN stack :
          LET f == stack[k]
          IN  /\ f.rout \in Routines /\ f.inv \in Objects \cup {None} /\ f.arg \in Args
              /\ f.slot \in {Undeclared} \cup 0..Len(disps)
              /\ f.phase \in Phases /\ f.same \in BOOLEAN /\ f.next \in BOOLEAN
              /\ Slot[f.rout] = "none" => f.slot = Undeclared
    /\ \A d \in DOMAIN disps :
          /\ disps[d].idx \in 1..(IF disps[d].all = <<>> THEN 1 ELSE Len(disps[d].all))
          /\ disps[d].cands \in {<<>>, disps[d].all}

Holders(d) == {k \in DOMAIN stack : stack[k].slot = d}

\* The places of r in the order of d's candidates.
Places(r, d) == {n \in DOMAIN d.all : d.all[n] = r}

\* Only the routine that made a dispatcher and the candidates it was handed to
\* ever hold it: perl6_take_dispatcher clears the register "so that nothing else
\* can take it by accident" (perl6.ops:826-827).
TakenByCandidate ==
    \A d \in DOMAIN disps : \A k \in Holders(d) :
        stack[k].rout = disps[d].owner \/ Places(stack[k].rout, disps[d]) # {}

\* Candidates run ever later in the order of the dispatcher, however the deferrals
\* nest, are interrupted by exceptions and interleave with other chains.  The
\* routine that made the dispatcher is excused: it need not be the first one.
ChainInOrder ==
    \A d \in DOMAIN disps : \A j, k \in Holders(d) :
        (j < k /\ disps[d].owner \notin {stack[j].rout, stack[k].rout})
        => \A m \in Places(stack[j].rout, disps[d]), n \in Places(stack[k].rout, disps[d]) : m < n

\* callsame and nextsame pass on the arguments of the candidate that defers, also
\* when it does so through helpers or calls that follow, and a chain keeps its
\* invocant whatever arguments callwith changes.
SameCall ==
    \A d \in DOMAIN disps : \A k \in Holders(d) :
        LET below == {j \in Holders(d) : j < k}
        IN  /\ stack[k].inv = disps[d].inv
            /\ (stack[k].same /\ below # {})
               => \E j \in below : /\ \A i \in below : i <= j
                                   /\ stack[k].arg = stack[j].arg

\* A dispatcher that is exhausted, by its last candidate or by lastcall, stays so,
\* and no activation comes to hold it any more: one that has it had it before.
LastIsLast ==
    [][\A d \in DOMAIN disps \cap DOMAIN disps' : Exhausted(disps[d]) =>
          /\ Exhausted(disps'[d])
          /\ \A k \in DOMAIN stack' :
                stack'[k].slot = d => k \in DOMAIN stack /\ stack[k].slot = d]_vars

=============================================================================
