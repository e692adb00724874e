------------------------- MODULE Redispatch_proofs --------------------------
(***************************************************************************)
(* What Redispatch promises for any methods, candidates and arguments: one  *)
(* inductive invariant of activations and dispatchers, stated of any two    *)
(* sequences, as a step first vivifies a dispatcher and then calls with it.  *)
(***************************************************************************)
EXTENDS Redispatch, Induction

Activations ==
    [ rout : Routines, inv : Objects \cup {None}, arg : Args, slot : Int,
      phase : Phases, todo : Seq(Args), same : BOOLEAN, next : BOOLEAN ]

DispatcherObjects ==
    [ cands : Seq(Routines), idx : Nat, inv : Objects \cup {None}, all : Seq(Routines), owner : Routines ]

\* r is in the method table of a class of o.
MethodOf(r, o) == o \in Objects /\ \E n \in DOMAIN Methods[o] : r \in Range(Methods[o][n])

Callable(r, inv) == Slot[r] = "method" => MethodOf(r, inv)

\* r made the dispatcher, or is among the first i candidates.
Took(r, d, i) == r = d.owner \/ \E n \in DOMAIN d.all : n <= i /\ d.all[n] = r

ActivationOk(f, ds) ==
    /\ f.slot \in {Undeclared} \cup 0..Len(ds)
    /\ Slot[f.rout] = "none" => f.slot = Undeclared
    /\ Callable(f.rout, f.inv) /\ (f.phase = "dispatch" => f.rout \in Protos)
    /\ f.slot >= 1 => f.inv = ds[f.slot].inv /\ Took(f.rout, ds[f.slot], ds[f.slot].idx)

DispatcherOk(d) ==
    /\ d.cands \in {<<>>, d.all} /\ IsInjective(d.all)
    /\ d.idx \in 1..(IF d.all = <<>> THEN 1 ELSE Len(d.all))
    /\ \A n \in DOMAIN d.all : Slot[d.all[n]] # "none" /\ Callable(d.all[n], d.inv)

\* Two activations hold the same dispatcher.
Share(st, j, k) == st[k].slot >= 1 /\ st[j].slot = st[k].slot

\* q is after r among the candidates of d, unless one of them made d.
Before(r, q, d) ==
    d.owner \notin {r, q} => \A m, n \in DOMAIN d.all : d.all[m] = r /\ d.all[n] = q => m < n

Ordered(st, ds) ==
    \A j, k \in DOMAIN st :
        j < k /\ Share(st, j, k) => Before(st[j].rout, st[k].rout, ds[st[k].slot])

\* The arguments of callsame are those of the last holder before.
SameArgs(st) ==
    \A j, k \in DOMAIN st :
        (j < k /\ Share(st, j, k) /\ st[k].same /\ \A i \in DOMAIN st : j < i /\ i < k => ~Share(st, i, k))
        => st[k].arg = st[j].arg

\* The outermost activation has no caller to return with.
Stays(st) == \A k \in DOMAIN st : st[k].next => k > 1

WellFormed(st, ds) ==
    /\ st \in Seq(Activations) /\ Len(st) <= MaxDepth /\ ds \in Seq(DispatcherObjects)
    /\ \A k \in DOMAIN st : ActivationOk(st[k], ds)
    /\ \A d \in DOMAIN ds : DispatcherOk(ds[d])
    /\ Ordered(st, ds) /\ SameArgs(st) /\ Stays(st)

\* Between steps nothing is left in the register.
ChainInv == WellFormed(stack, disps) /\ current = Null

-----------------------------------------------------------------------------
(* Activations and dispatchers.                                             *)

\* The fields of a new activation.
LEMMA ActivationFields ==
    ASSUME NEW r \in Routines, NEW inv \in Objects \cup {None}, NEW arg \in Args, NEW slot \in Int,
           NEW same \in BOOLEAN, NEW next \in BOOLEAN,
           NEW f, f = Activation(r, inv, arg, slot, same, next)
    PROVE  /\ f \in Activations /\ f.rout = r /\ f.inv = inv /\ f.arg = arg /\ f.slot = slot /\ f.next = next
           /\ (f.same => same) /\ (f.phase = "dispatch" => f.rout \in Protos)
<1> DEFINE todo  == IF r \notin Protos /\ arg \in Threading[r] THEN Eigen[arg] ELSE <<>>
           phase == IF r \in Protos THEN "dispatch" ELSE IF arg \in Threading[r] THEN "thread" ELSE "body"
           taken == same /\ slot > 0
<1>1. /\ todo \in Seq(Args) /\ phase \in Phases /\ taken \in BOOLEAN
      /\ phase = "dispatch" => r \in Protos
  BY RedispatchAssumption DEF Routines, Phases
<1>2. f = [rout |-> r, inv |-> inv, arg |-> arg, slot |-> slot, phase |-> phase, todo |-> todo,
           same |-> taken, next |-> next]
  BY DEF Activation
<1> HIDE DEF todo, phase, taken
<1>3. /\ f \in Activations /\ f.rout = r /\ f.inv = inv /\ f.arg = arg /\ f.slot = slot /\ f.same = taken
      /\ f.phase = phase /\ f.next = next
  BY <1>1, <1>2 DEF Activations
<1>4. f.same => same
  BY <1>1, <1>3 DEF taken
<1> QED BY <1>1, <1>3, <1>4

\* An activation of a stack, and its slot.
LEMMA SlotType ==
    ASSUME NEW st \in Seq(Activations), NEW k \in DOMAIN st
    PROVE  st[k] \in Activations /\ st[k].slot \in Int
<1>1. st[k] \in Activations
  OBVIOUS
<1> QED BY <1>1 DEF Activations

\* The innermost activations end.
LEMMA PrefixWellFormed ==
    ASSUME NEW st, NEW ds, WellFormed(st, ds), NEW n \in 0..Len(st)
    PROVE  WellFormed(SubSeq(st, 1, n), ds)
<1> DEFINE sub == SubSeq(st, 1, n)
<1>1. st \in Seq(Activations) /\ Len(st) <= MaxDepth /\ ds \in Seq(DispatcherObjects)
  BY DEF WellFormed
<1>2. /\ sub \in Seq(Activations) /\ Len(sub) = n /\ DOMAIN sub = 1..n
      /\ \A k \in 1..n : k \in DOMAIN st /\ sub[k] = st[k]
  BY <1>1
<1> HIDE DEF sub
<1>3. Len(sub) <= MaxDepth
  BY <1>1, <1>2, RedispatchAssumption
<1>4. \A k \in DOMAIN sub : ActivationOk(sub[k], ds)
  BY <1>2 DEF WellFormed
<1>5. Ordered(sub, ds)
  <2> SUFFICES ASSUME NEW j \in DOMAIN sub, NEW k \in DOMAIN sub, j < k, Share(sub, j, k)
               PROVE  Before(sub[j].rout, sub[k].rout, ds[sub[k].slot])
    BY DEF Ordered
  <2> QED BY <1>2 DEF WellFormed, Ordered, Share
<1>6. SameArgs(sub)
  <2> SUFFICES ASSUME NEW j \in DOMAIN sub, NEW k \in DOMAIN sub, j < k, Share(sub, j, k), sub[k].same,
                      \A i \in DOMAIN sub : j < i /\ i < k => ~Share(sub, i, k)
               PROVE  sub[k].arg = sub[j].arg
    BY DEF SameArgs
  <2>1. \A i \in DOMAIN st : j < i /\ i < k => i \in DOMAIN sub
    BY <1>1, <1>2
  <2>2. \A i \in DOMAIN st : j < i /\ i < k => ~Share(st, i, k)
    BY <1>2, <2>1 DEF Share
  <2>3. j \in DOMAIN st /\ k \in DOMAIN st /\ Share(st, j, k) /\ st[k].same
    BY <1>2 DEF Share
  <2>4. st[k].arg = st[j].arg
    BY <2>2, <2>3 DEF WellFormed, SameArgs
  <2> QED BY <1>2, <2>4
<1>7. Stays(sub)
  BY <1>2 DEF WellFormed, Stays
<1> QED BY <1>1, <1>2, <1>3, <1>4, <1>5, <1>6, <1>7 DEF WellFormed, sub

\* Dispatchers that nobody holds are forgotten.
LEMMA FewerDispatchers ==
    ASSUME NEW st, NEW ds, WellFormed(st, ds), NEW n \in 0..Len(ds), \A k \in DOMAIN st : st[k].slot <= n
    PROVE  WellFormed(st, SubSeq(ds, 1, n))
<1> DEFINE sub == SubSeq(ds, 1, n)
<1>1. st \in Seq(Activations) /\ Len(st) <= MaxDepth /\ ds \in Seq(DispatcherObjects)
  BY DEF WellFormed
<1>2. /\ sub \in Seq(DispatcherObjects) /\ Len(sub) = n /\ DOMAIN sub = 1..n
      /\ \A d \in 1..n : d \in DOMAIN ds /\ sub[d] = ds[d]
  BY <1>1
<1> HIDE DEF sub
<1>3. \A k \in DOMAIN st : st[k].slot \in Int /\ (st[k].slot >= 1 => st[k].slot \in 1..n)
  BY <1>1, SlotType
<1>4. \A k \in DOMAIN st : ActivationOk(st[k], sub)
  BY <1>2, <1>3 DEF WellFormed, ActivationOk, Undeclared
<1>5. Ordered(st, sub)
  BY <1>2, <1>3 DEF WellFormed, Ordered, Share
<1>6. \A d \in DOMAIN sub : DispatcherOk(sub[d])
  BY <1>2 DEF WellFormed
<1>7. SameArgs(st) /\ Stays(st)
  BY DEF WellFormed
<1> QED BY <1>1, <1>2, <1>4, <1>5, <1>6, <1>7 DEF WellFormed, sub

\* What is left to thread does not matter.
LEMMA SameSlots ==
    ASSUME NEW st, NEW ds, WellFormed(st, ds),
           NEW up \in Seq(Activations), DOMAIN up = DOMAIN st, Len(up) = Len(st),
           \A k \in DOMAIN st :
              /\ up[k].rout = st[k].rout /\ up[k].inv = st[k].inv /\ up[k].arg = st[k].arg
              /\ up[k].slot = st[k].slot /\ up[k].same = st[k].same /\ up[k].phase = st[k].phase
              /\ up[k].next = st[k].next
    PROVE  WellFormed(up, ds)
<1>1. \A k \in DOMAIN up : ActivationOk(up[k], ds)
  BY DEF WellFormed, ActivationOk
<1>2. \A j, k \in DOMAIN st : Share(up, j, k) <=> Share(st, j, k)
  BY DEF Share
<1>3. Ordered(up, ds)
  BY <1>2 DEF WellFormed, Ordered
<1>4. SameArgs(up)
  BY <1>2 DEF WellFormed, SameArgs
<1>5. Stays(up)
  BY DEF WellFormed, Stays
<1> QED BY <1>1, <1>3, <1>4, <1>5 DEF WellFormed

\* A routine is entered without a dispatcher.
LEMMA EnterAfresh ==
    ASSUME NEW st, NEW ds, WellFormed(st, ds), Len(st) < MaxDepth,
           NEW f \in Activations, ActivationOk(f, ds), f.slot < 1, f.next => st # <<>>
    PROVE  WellFormed(Append(st, f), ds)
<1> DEFINE up == Append(st, f)
<1>1. st \in Seq(Activations) /\ Len(st) \in Nat
  BY DEF WellFormed
<1>2. /\ up \in Seq(Activations) /\ Len(up) = Len(st) + 1 /\ up[Len(up)] = f
      /\ \A k \in DOMAIN up : k = Len(up) \/ (k \in DOMAIN st /\ up[k] = st[k])
      /\ \A k \in DOMAIN st : k \in DOMAIN up /\ up[k] = st[k] /\ k < Len(up)
  BY <1>1
<1> HIDE DEF up
<1>3. Len(up) <= MaxDepth
  BY <1>1, <1>2, RedispatchAssumption
<1>4. \A k \in DOMAIN up : ActivationOk(up[k], ds)
  BY <1>2 DEF WellFormed
<1>5. \A j, k \in DOMAIN up : Share(up, j, k) => j \in DOMAIN st /\ k \in DOMAIN st /\ Share(st, j, k)
  <2> SUFFICES ASSUME NEW j \in DOMAIN up, NEW k \in DOMAIN up, Share(up, j, k)
               PROVE  j \in DOMAIN st /\ k \in DOMAIN st /\ Share(st, j, k)
    OBVIOUS
  <2>1. f.slot \in Int
    BY DEF Activations
  <2>2. ~(up[k].slot < 1) /\ ~(up[j].slot < 1)
    BY <1>2, SlotType DEF Share
  <2> QED BY <1>2, <2>1, <2>2 DEF Share
<1>6. Ordered(up, ds)
  <2> SUFFICES ASSUME NEW j \in DOMAIN up, NEW k \in DOMAIN up, j < k, Share(up, j, k)
               PROVE  Before(up[j].rout, up[k].rout, ds[up[k].slot])
    BY DEF Ordered
  <2> QED BY <1>2, <1>5 DEF WellFormed, Ordered
<1>7. SameArgs(up)
  <2> SUFFICES ASSUME NEW j \in DOMAIN up, NEW k \in DOMAIN up, j < k, Share(up, j, k), up[k].same,
                      \A i \in DOMAIN up : j < i /\ i < k => ~Share(up, i, k)
               PROVE  up[k].arg = up[j].arg
    BY DEF SameArgs
  <2>1. \A i \in DOMAIN st : j < i /\ i < k => ~Share(st, i, k)
    BY <1>2, <1>5 DEF Share
  <2> QED BY <1>2, <1>5, <2>1 DEF WellFormed, SameArgs
<1>8. Stays(up)
  <2>1. st # <<>> => Len(up) > 1
    BY <1>1, <1>2
  <2> QED BY <1>2, <2>1 DEF WellFormed, Stays
<1> QED BY <1>2, <1>3, <1>4, <1>6, <1>7, <1>8 DEF WellFormed, up

\* The next candidate is entered with the dispatcher.
LEMMA EnterHolding ==
    ASSUME NEW st, NEW ds, WellFormed(st, ds), Len(st) < MaxDepth,
           NEW f \in Activations, ActivationOk(f, ds), f.slot >= 1, st # <<>>,
           NEW p \in DOMAIN ds[f.slot].all, ds[f.slot].all[p] = f.rout,
           \A k \in DOMAIN st : st[k].slot = f.slot => Took(st[k].rout, ds[f.slot], p - 1),
           f.same => \A j \in DOMAIN st :
               (st[j].slot = f.slot /\ \A i \in DOMAIN st : j < i => st[i].slot # f.slot) => f.arg = st[j].arg
    PROVE  WellFormed(Append(st, f), ds)
<1> DEFINE up == Append(st, f)
<1>1. st \in Seq(Activations) /\ Len(st) \in Nat
  BY DEF WellFormed
<1>2. /\ up \in Seq(Activations) /\ Len(up) = Len(st) + 1 /\ up[Len(up)] = f
      /\ \A k \in DOMAIN up : k = Len(up) \/ (k \in DOMAIN st /\ up[k] = st[k])
      /\ \A k \in DOMAIN st : k \in DOMAIN up /\ up[k] = st[k] /\ k < Len(up)
      /\ \A k \in DOMAIN up : k \in Nat /\ k <= Len(up)
  BY <1>1
<1> HIDE DEF up
<1>3. Len(up) <= MaxDepth
  BY <1>1, <1>2, RedispatchAssumption
<1>4. \A k \in DOMAIN up : ActivationOk(up[k], ds)
  BY <1>2 DEF WellFormed
<1>5. Ordered(up, ds)
  <2> SUFFICES ASSUME NEW j \in DOMAIN up, NEW k \in DOMAIN up, j < k, Share(up, j, k)
               PROVE  Before(up[j].rout, up[k].rout, ds[up[k].slot])
    BY DEF Ordered
  <2>1. j \in DOMAIN st /\ up[j] = st[j]
    BY <1>2
  <2>2. CASE k = Len(up)
    <3> DEFINE d == ds[f.slot]
    <3>1. up[k] = f /\ st[j].slot = f.slot
      BY <1>2, <2>1, <2>2 DEF Share
    <3>2. f.slot \in DOMAIN ds
      <4>1. f.slot \in 1..Len(ds) /\ ds \in Seq(DispatcherObjects)
        BY DEF WellFormed, ActivationOk, Undeclared, Activations
      <4> QED BY <4>1
    <3>3. d \in DispatcherObjects /\ DispatcherOk(d)
      BY <3>2 DEF WellFormed
    <3>4. d.all \in Seq(Routines) /\ IsInjective(d.all)
      BY <3>3 DEF DispatcherObjects, DispatcherOk
    <3>5. Took(st[j].rout, d, p - 1) /\ p \in DOMAIN d.all /\ d.all[p] = f.rout
      BY <2>1, <3>1
    <3> HIDE DEF d
    <3>6. Before(st[j].rout, f.rout, d)
      BY <3>4, <3>5 DEF Before, Took, IsInjective
    <3> QED BY <2>1, <3>1, <3>6 DEF d
  <2>3. CASE k # Len(up)
    BY <1>2, <2>1, <2>3 DEF WellFormed, Ordered, Share
  <2> QED BY <2>2, <2>3
<1>6. SameArgs(up)
  <2> SUFFICES ASSUME NEW j \in DOMAIN up, NEW k \in DOMAIN up, j < k, Share(up, j, k), up[k].same,
                      \A i \in DOMAIN up : j < i /\ i < k => ~Share(up, i, k)
               PROVE  up[k].arg = up[j].arg
    BY DEF SameArgs
  <2>1. j \in DOMAIN st /\ up[j] = st[j]
    BY <1>2
  <2>2. CASE k = Len(up)
    <3>1. st[j].slot = f.slot /\ f.same
      BY <1>2, <2>1, <2>2 DEF Share
    <3>2. \A i \in DOMAIN st : j < i => st[i].slot # f.slot
      BY <1>2, <2>2 DEF Share
    <3> QED BY <1>2, <2>1, <2>2, <3>1, <3>2
  <2>3. CASE k # Len(up)
    <3>1. \A i \in DOMAIN st : j < i /\ i < k => ~Share(st, i, k)
      BY <1>2, <2>3 DEF Share
    <3> QED BY <1>2, <2>1, <2>3, <3>1 DEF WellFormed, SameArgs, Share
  <2> QED BY <2>2, <2>3
<1>7. Stays(up)
  <2>1. Len(up) > 1
    BY <1>1, <1>2
  <2> QED BY <1>2, <2>1 DEF WellFormed, Stays
<1> QED BY <1>2, <1>3, <1>4, <1>5, <1>6, <1>7 DEF WellFormed, up

-----------------------------------------------------------------------------
(* Finding a dispatcher.                                                    *)

\* A dispatcher made for an activation that declares one.
LEMMA VivifyOk ==
    ASSUME NEW f \in Activations, Slot[f.rout] # "none", Callable(f.rout, f.inv)
    PROVE  /\ VivifyFor(f) \in DispatcherObjects /\ DispatcherOk(VivifyFor(f))
           /\ VivifyFor(f).inv = f.inv /\ VivifyFor(f).owner = f.rout
<1>1. f.rout \in Routines /\ f.inv \in Objects \cup {None} /\ f.arg \in Args
  BY DEF Activations
<1>2. ASSUME NEW cands \in Seq(Routines), IsInjective(cands),
             \A n \in DOMAIN cands : Slot[cands[n]] # "none" /\ Callable(cands[n], f.inv)
      PROVE  LET d == Dispatcher(cands, f.inv, f.rout)
             IN  /\ d \in DispatcherObjects /\ DispatcherOk(d)
                 /\ d.inv = f.inv /\ d.owner = f.rout
  <2> DEFINE d == Dispatcher(cands, f.inv, f.rout)
  <2>1. d \in DispatcherObjects
    BY <1>1, <1>2 DEF Dispatcher, DispatcherObjects
  <2>2. /\ d.cands = cands /\ d.all = cands /\ d.idx = 1 /\ d.inv = f.inv /\ d.owner = f.rout
    BY DEF Dispatcher
  <2> HIDE DEF d
  <2>3. cands # <<>> => Len(cands) >= 1 /\ Len(cands) \in Nat
    BY <1>2
  <2>4. d.idx \in 1..(IF d.all = <<>> THEN 1 ELSE Len(d.all))
    BY <2>2, <2>3
  <2>5. DispatcherOk(d)
    BY <1>2, <2>2, <2>4 DEF DispatcherOk
  <2> QED BY <2>1, <2>2, <2>5 DEF d
<1>3. CASE Slot[f.rout] = "method"
  <2> DEFINE n == CHOOSE n \in DOMAIN Methods[f.inv] : f.rout \in Range(Methods[f.inv][n])
             cands == Methods[f.inv][n]
  <2>1. f.inv \in Objects /\ \E m \in DOMAIN Methods[f.inv] : f.rout \in Range(Methods[f.inv][m])
    BY <1>3 DEF Callable, MethodOf
  <2>2. n \in DOMAIN Methods[f.inv]
    BY <2>1
  <2> HIDE DEF n
  <2>3. cands \in Seq(Slotted("method")) /\ IsInjective(cands)
    BY <2>1, <2>2, RedispatchAssumption
  <2>4. \A m \in DOMAIN cands : cands[m] \in Slotted("method") /\ cands[m] \in Range(cands)
    BY <2>3 DEF Range
  <2>5. \A m \in DOMAIN cands : Slot[cands[m]] # "none" /\ Callable(cands[m], f.inv)
    BY <2>1, <2>2, <2>4 DEF Slotted, Callable, MethodOf
  <2>6. cands \in Seq(Routines)
    BY <2>3 DEF Slotted
  <2>7. VivifyFor(f) = Dispatcher(cands, f.inv, f.rout)
    BY <1>3 DEF VivifyFor, n
  <2> HIDE DEF cands
  <2> QED BY <1>2, <2>3, <2>5, <2>6, <2>7
<1>4. CASE Slot[f.rout] # "method"
  <2> DEFINE cands == Matching[ProtoOf[f.rout]][f.arg]
  <2>1. f.rout \in Slotted("multi")
    BY <1>1, <1>4, RedispatchAssumption DEF Slotted
  <2>2. ProtoOf[f.rout] \in Protos
    BY <2>1, RedispatchAssumption
  <2>3. cands \in Seq(Slotted("multi")) /\ IsInjective(cands)
    BY <1>1, <2>2, RedispatchAssumption
  <2>4. \A m \in DOMAIN cands : cands[m] \in Slotted("multi")
    BY <2>3
  <2>5. \A m \in DOMAIN cands : Slot[cands[m]] # "none" /\ Callable(cands[m], f.inv)
    BY <2>4 DEF Slotted, Callable
  <2>6. cands \in Seq(Routines)
    BY <2>3 DEF Slotted
  <2>7. VivifyFor(f) = Dispatcher(cands, f.inv, f.rout)
    BY <1>4 DEF VivifyFor
  <2> HIDE DEF cands
  <2> QED BY <1>2, <2>3, <2>5, <2>6, <2>7
<1> QED BY <1>3, <1>4

\* The search for $*DISPATCHER ends at an activation that declares one.
LEMMA NearestDeclares ==
    ASSUME ChainInv, Declaring # {}
    PROVE  Nearest \in DOMAIN stack /\ stack[Nearest].slot # Undeclared
<1>1. stack \in Seq(Activations)
  BY DEF ChainInv, WellFormed
<1>2. Declaring \subseteq 0..Len(stack) /\ Len(stack) \in Nat
  BY <1>1 DEF Declaring
<1>3. \E k \in Declaring : \A m \in Declaring : m <= k
  BY <1>2, GreatestNumber
<1>4. Nearest \in Declaring
  BY <1>3 DEF Nearest
<1> QED BY <1>4 DEF Declaring

\* What finding changes: at most the slot of the nearest activation that declares
\* one, and then to a dispatcher that is new.
LEMMA FindingFacts ==
    ASSUME ChainInv, Declaring # {}
    PROVE  LET f == Finding
           IN  /\ f.stack \in Seq(Activations) /\ DOMAIN f.stack = DOMAIN stack /\ Len(f.stack) = Len(stack)
               /\ f.disps \in Seq(DispatcherObjects) /\ DOMAIN disps \subseteq DOMAIN f.disps
               /\ f.d \in DOMAIN f.disps /\ f.stack[Nearest].slot = f.d /\ Nearest \in DOMAIN stack
               /\ \A d \in DOMAIN f.disps : DispatcherOk(f.disps[d])
               /\ \A d \in DOMAIN disps : f.disps[d] = disps[d]
               /\ \A k \in DOMAIN stack :
                     /\ f.stack[k].rout = stack[k].rout /\ f.stack[k].inv = stack[k].inv
                     /\ f.stack[k].arg = stack[k].arg /\ f.stack[k].same = stack[k].same
                     /\ f.stack[k].phase = stack[k].phase /\ f.stack[k].next = stack[k].next
                     /\ f.stack[k].slot = stack[k].slot
                        \/ ( /\ k = Nearest /\ stack[k].slot = Unvivified /\ f.d \notin DOMAIN disps
                             /\ f.disps[f.d].inv = stack[k].inv /\ f.disps[f.d].owner = stack[k].rout )
<1> DEFINE f == Finding
           near == stack[Nearest]
           v == VivifyFor(near)
<1>1. /\ stack \in Seq(Activations) /\ disps \in Seq(DispatcherObjects) /\ Len(disps) \in Nat
      /\ \A d \in DOMAIN disps : DispatcherOk(disps[d])
  BY DEF ChainInv, WellFormed
<1>2. Nearest \in DOMAIN stack /\ near.slot # Undeclared /\ near \in Activations
  BY <1>1, NearestDeclares, SlotType
<1>3. ActivationOk(near, disps)
  BY <1>2 DEF ChainInv, WellFormed
<1>4. near.slot \in 0..Len(disps) /\ Slot[near.rout] # "none" /\ Callable(near.rout, near.inv)
  BY <1>2, <1>3 DEF ActivationOk
<1>5. CASE near.slot = Unvivified
  <2> DEFINE new == Len(disps) + 1
             fs == [stack EXCEPT ![Nearest].slot = new]
  <2>1. f = [d |-> new, disps |-> Append(disps, v), stack |-> fs]
    BY <1>5 DEF Finding
  <2>2. v \in DispatcherObjects /\ DispatcherOk(v) /\ v.inv = near.inv /\ v.owner = near.rout
    BY <1>2, <1>4, VivifyOk
  <2>3. [near EXCEPT !.slot = new] \in Activations
    <3>1. new \in Int
      BY <1>1
    <3> HIDE DEF near, new
    <3> QED BY <1>2, <3>1 DEF Activations
  <2>4. fs = [stack EXCEPT ![Nearest] = [near EXCEPT !.slot = new]]
    BY <1>1, <1>2
  <2>5. fs \in Seq(Activations) /\ DOMAIN fs = DOMAIN stack /\ Len(fs) = Len(stack)
    <3> DEFINE nn == [near EXCEPT !.slot = new]
    <3> HIDE DEF nn
    <3>1. nn \in Activations /\ fs = [stack EXCEPT ![Nearest] = nn]
      BY <2>3, <2>4 DEF nn
    <3> HIDE DEF fs
    <3> QED BY <1>1, <1>2, <3>1
  <2>6. /\ fs[Nearest].slot = new /\ \A k \in DOMAIN stack : k # Nearest => fs[k] = stack[k]
        /\ fs[Nearest].rout = near.rout /\ fs[Nearest].inv = near.inv
        /\ fs[Nearest].arg = near.arg /\ fs[Nearest].same = near.same /\ fs[Nearest].phase = near.phase
        /\ fs[Nearest].next = near.next
    BY <1>1, <1>2, <2>4 DEF Activations
  <2> DEFINE ds == Append(disps, v)
  <2>7. /\ ds \in Seq(DispatcherObjects) /\ DOMAIN ds = 1..new /\ ds[new] = v
        /\ DOMAIN disps = 1..Len(disps) /\ \A d \in DOMAIN disps : ds[d] = disps[d]
    <3> HIDE DEF v
    <3> QED BY <1>1, <2>2
  <2>8. \A d \in DOMAIN ds : DispatcherOk(ds[d])
    <3>1. \A d \in 1..new : d = new \/ d \in 1..Len(disps)
      BY <1>1
    <3> HIDE DEF v, ds, new
    <3> QED BY <1>1, <2>2, <2>7, <3>1
  <2>9. new \in DOMAIN ds /\ new \notin DOMAIN disps /\ DOMAIN disps \subseteq DOMAIN ds
    <3> HIDE DEF v, ds
    <3> QED BY <1>1, <2>7
  <2>10. f.d = new /\ f.disps = ds /\ f.stack = fs
    BY <2>1
  <2> HIDE DEF fs, v, ds, new, f
  <2> QED BY <1>2, <1>5, <2>2, <2>5, <2>6, <2>7, <2>8, <2>9, <2>10 DEF f
<1>6. CASE near.slot # Unvivified
  <2> DEFINE fs == [stack EXCEPT ![Nearest].slot = near.slot]
  <2>1. f = [d |-> near.slot, disps |-> disps, stack |-> fs]
    BY <1>6 DEF Finding
  <2>2. fs = [stack EXCEPT ![Nearest] = [near EXCEPT !.slot = near.slot]]
    BY <1>1, <1>2
  <2>3. [near EXCEPT !.slot = near.slot] = near
    BY <1>2 DEF Activations
  <2>4. fs = stack
    BY <1>1, <1>2, <2>2, <2>3
  <2>5. near.slot \in DOMAIN disps
    BY <1>1, <1>4, <1>6 DEF Unvivified
  <2>6. f.d = near.slot /\ f.disps = disps /\ f.stack = stack
    BY <2>1, <2>4
  <2> HIDE DEF fs, f
  <2> QED BY <1>1, <1>2, <2>5, <2>6 DEF f
<1> QED BY <1>5, <1>6

\* Finding a dispatcher, made on the spot when the slot is still undecided, leaves
\* stack and dispatchers well formed and makes nobody share one that did not.
LEMMA FindingWellFormed ==
    ASSUME ChainInv, Declaring # {}
    PROVE  /\ WellFormed(Finding.stack, Finding.disps)
           /\ \A j, k \in DOMAIN stack : j # k /\ Share(Finding.stack, j, k) => Share(stack, j, k)
<1> DEFINE st == Finding.stack
           ds == Finding.disps
           fd == Finding.d
<1>1. /\ st \in Seq(Activations) /\ DOMAIN st = DOMAIN stack /\ Len(st) = Len(stack)
      /\ ds \in Seq(DispatcherObjects) /\ DOMAIN disps \subseteq DOMAIN ds /\ fd \in DOMAIN ds
      /\ \A d \in DOMAIN ds : DispatcherOk(ds[d])
      /\ \A d \in DOMAIN disps : ds[d] = disps[d]
      /\ \A k \in DOMAIN stack :
            /\ st[k].rout = stack[k].rout /\ st[k].inv = stack[k].inv
            /\ st[k].arg = stack[k].arg /\ st[k].same = stack[k].same /\ st[k].phase = stack[k].phase
            /\ st[k].next = stack[k].next
            /\ \/ st[k].slot = stack[k].slot
               \/ /\ k = Nearest /\ stack[k].slot = Unvivified /\ fd \notin DOMAIN disps
                  /\ ds[fd].inv = stack[k].inv /\ ds[fd].owner = stack[k].rout
      /\ st[Nearest].slot = fd /\ Nearest \in DOMAIN stack
  BY FindingFacts
<1>2. /\ stack \in Seq(Activations) /\ Len(stack) <= MaxDepth /\ disps \in Seq(DispatcherObjects)
      /\ \A k \in DOMAIN stack : ActivationOk(stack[k], disps)
      /\ Ordered(stack, disps) /\ SameArgs(stack) /\ Stays(stack)
  BY DEF ChainInv, WellFormed
<1> HIDE DEF st, ds, fd
<1>3. \A k \in DOMAIN stack : /\ stack[k].slot \in {Undeclared} \cup 0..Len(disps)
                              /\ stack[k].slot \in Int /\ st[k].slot \in Int
  BY <1>1, <1>2, SlotType DEF ActivationOk
<1>4. DOMAIN disps = 1..Len(disps) /\ DOMAIN ds = 1..Len(ds) /\ Len(disps) \in Nat /\ Len(ds) \in Nat
  BY <1>1, <1>2
<1>5. \A k \in DOMAIN stack : stack[k].slot >= 1 => stack[k].slot \in DOMAIN disps
  BY <1>3, <1>4 DEF Undeclared
<1>6. ASSUME NEW k \in DOMAIN st PROVE ActivationOk(st[k], ds)
  <2>1. ActivationOk(stack[k], disps)
    BY <1>1, <1>2
  <2>2. CASE st[k].slot = stack[k].slot
    <3>1. Len(disps) <= Len(ds)
      BY <1>1, <1>4
    <3>2. st[k].slot \in {Undeclared} \cup 0..Len(ds)
      BY <1>1, <1>3, <1>4, <2>2, <3>1
    <3> QED BY <1>1, <1>5, <2>1, <2>2, <3>2 DEF ActivationOk
  <2>3. CASE st[k].slot # stack[k].slot
    <3>1. /\ k = Nearest /\ stack[k].slot = Unvivified
          /\ ds[fd].inv = stack[k].inv /\ ds[fd].owner = stack[k].rout /\ st[k].slot = fd
      BY <1>1, <2>3
    <3>2. fd \in 0..Len(ds)
      BY <1>1, <1>4
    <3> QED BY <1>1, <2>1, <3>1, <3>2 DEF ActivationOk, Took, Undeclared, Unvivified
  <2> QED BY <2>2, <2>3
<1>7. \A j, k \in DOMAIN stack : j # k /\ Share(st, j, k) => Share(stack, j, k) /\ st[k].slot = stack[k].slot
  BY <1>1, <1>3, <1>4, <1>5 DEF Share
<1>8. \A j, k \in DOMAIN stack : Share(stack, j, k) => Share(st, j, k)
  BY <1>1, <1>3 DEF Share, Unvivified
<1>9. \A k \in DOMAIN stack : k \in Nat
  BY <1>2
<1>10. Ordered(st, ds)
  <2> SUFFICES ASSUME NEW j \in DOMAIN st, NEW k \in DOMAIN st, j < k, Share(st, j, k)
               PROVE  Before(st[j].rout, st[k].rout, ds[st[k].slot])
    BY DEF Ordered
  <2>1. j # k /\ j \in DOMAIN stack /\ k \in DOMAIN stack
    BY <1>1, <1>9
  <2>2. Share(stack, j, k) /\ st[k].slot = stack[k].slot
    BY <1>7, <2>1
  <2>3. Before(stack[j].rout, stack[k].rout, disps[stack[k].slot])
    BY <1>2, <2>1, <2>2 DEF Ordered
  <2>4. stack[k].slot \in DOMAIN disps
    BY <1>5, <2>1, <2>2 DEF Share
  <2> QED BY <1>1, <2>1, <2>2, <2>3, <2>4
<1>11. SameArgs(st)
  <2> SUFFICES ASSUME NEW j \in DOMAIN st, NEW k \in DOMAIN st, j < k, Share(st, j, k), st[k].same,
                      \A i \in DOMAIN st : j < i /\ i < k => ~Share(st, i, k)
               PROVE  st[k].arg = st[j].arg
    BY DEF SameArgs
  <2>1. j # k /\ j \in DOMAIN stack /\ k \in DOMAIN stack
    BY <1>1, <1>9
  <2>2. Share(stack, j, k) /\ stack[k].same
    BY <1>1, <1>7, <2>1
  <2>3. \A i \in DOMAIN stack : j < i /\ i < k => ~Share(stack, i, k)
    BY <1>1, <1>8, <2>1
  <2>4. stack[k].arg = stack[j].arg
    BY <1>2, <2>1, <2>2, <2>3 DEF SameArgs
  <2> QED BY <1>1, <2>1, <2>4
<1>12. WellFormed(st, ds)
  <2>1. Stays(st)
    BY <1>1, <1>2 DEF Stays
  <2> QED BY <1>1, <1>2, <1>6, <1>10, <1>11, <2>1 DEF WellFormed
<1> QED BY <1>7, <1>12 DEF st, ds

\* The activation whose arguments callsame passes on is the last that holds it.
LEMMA ArgsForHolder ==
    ASSUME ChainInv, Declaring # {}
    PROVE  LET f == Finding
           IN  \E k \in DOMAIN stack :
                 /\ f.stack[k].slot = f.d /\ ArgsFor(f) = f.stack[k]
                 /\ \A i \in DOMAIN stack : k < i => f.stack[i].slot # f.d
<1> DEFINE f == Finding
           holders == {k \in DOMAIN stack : f.stack[k].slot = f.d}
<1>1. Nearest \in holders
  BY FindingFacts
<1>2. stack \in Seq(Activations)
  BY DEF ChainInv, WellFormed
<1>3. holders \subseteq 0..Len(stack) /\ Len(stack) \in Nat
  BY <1>2
<1> DEFINE last == CHOOSE k \in holders : \A m \in holders : m <= k
<1>4. ArgsFor(f) = f.stack[last]
  BY DEF ArgsFor
<1> HIDE DEF f
<1>5. \E k \in holders : \A m \in holders : m <= k
  <2> HIDE DEF holders
  <2> QED BY <1>1, <1>3, GreatestNumber
<1>6. last \in holders /\ \A m \in holders : m <= last
  <2> HIDE DEF holders
  <2> QED BY <1>5
<1> HIDE DEF last
<1>7. \A i \in DOMAIN stack : last < i => i \notin holders
  <2>1. \A i \in DOMAIN stack : i \in Nat
    BY <1>2
  <2> QED BY <1>6, <2>1
<1> QED BY <1>4, <1>6, <1>7 DEF f

\* The dispatchers when d has offered its next candidate.
Offered(ds, d) == [ds EXCEPT ![d].idx = @ + 1]

\* The next candidate is offered: the index moves past it, and no activation that
\* took the dispatcher before is after it.
LEMMA Advance ==
    ASSUME NEW st, NEW ds, WellFormed(st, ds), NEW d \in DOMAIN ds, ~Exhausted(ds[d]),
           NEW up, up = Offered(ds, d), NEW p, p = ds[d].idx + 1
    PROVE  /\ WellFormed(st, up) /\ DOMAIN up = DOMAIN ds /\ Len(up) = Len(ds)
           /\ p \in DOMAIN ds[d].all /\ p \in DOMAIN ds[d].cands /\ ds[d].all[p] = ds[d].cands[p]
           /\ up[d].idx = p /\ up[d].all = ds[d].all /\ up[d].inv = ds[d].inv
           /\ up[d].owner = ds[d].owner
           /\ \A e \in DOMAIN ds : e # d => up[e] = ds[e]
           /\ \A k \in DOMAIN st : st[k].slot = d => Took(st[k].rout, up[d], p - 1)
<1> DEFINE o  == ds[d]
           n  == [o EXCEPT !.idx = @ + 1]
<1>1. /\ st \in Seq(Activations) /\ Len(st) <= MaxDepth /\ ds \in Seq(DispatcherObjects)
      /\ \A k \in DOMAIN st : ActivationOk(st[k], ds)
      /\ \A e \in DOMAIN ds : DispatcherOk(ds[e])
      /\ Ordered(st, ds) /\ SameArgs(st) /\ Stays(st)
  BY DEF WellFormed
<1>2. o \in DispatcherObjects /\ DispatcherOk(o) /\ ~Exhausted(o)
  BY <1>1
<1>3. up = [ds EXCEPT ![d] = n] /\ p = o.idx + 1
  BY <1>1, <1>2 DEF Offered
<1> HIDE DEF o
<1>4. n \in DispatcherObjects /\ n.idx = p /\ n.all = o.all /\ n.inv = o.inv /\ n.owner = o.owner /\ n.cands = o.cands
  <2>1. p = o.idx + 1
    BY <1>3
  <2> QED BY <1>2, <2>1 DEF DispatcherObjects
<1>5. /\ o.idx \in Nat /\ o.all \in Seq(Routines) /\ o.cands \in Seq(Routines) /\ o.cands = o.all
      /\ p \in 1..Len(o.all) /\ o.all # <<>>
  <2>1. o.idx \in Nat /\ o.idx >= 1 /\ o.all \in Seq(Routines) /\ o.cands \in {<<>>, o.all}
    BY <1>2 DEF DispatcherObjects, DispatcherOk
  <2>2. o.idx < Len(o.cands)
    BY <1>2, <2>1 DEF Exhausted
  <2>3. o.cands # <<>>
    BY <2>1, <2>2
  <2> QED BY <1>3, <2>1, <2>2, <2>3
<1>6. DispatcherOk(n)
  BY <1>2, <1>4, <1>5 DEF DispatcherOk
<1> HIDE DEF n
<1>7. /\ up \in Seq(DispatcherObjects) /\ DOMAIN up = DOMAIN ds /\ Len(up) = Len(ds) /\ up[d] = n
      /\ \A e \in DOMAIN ds : e # d => up[e] = ds[e]
  BY <1>1, <1>3, <1>4
<1>8. \A r : Took(r, o, o.idx) => Took(r, n, p - 1) /\ Took(r, n, p)
  BY <1>3, <1>4, <1>5 DEF Took
<1>9. ASSUME NEW k \in DOMAIN st
      PROVE  ActivationOk(st[k], up) /\ (st[k].slot = d => Took(st[k].rout, n, p - 1))
  <2>1. ActivationOk(st[k], ds)
    BY <1>1
  <2>2. CASE st[k].slot = d
    <3>1. d >= 1
      BY <1>1
    <3> QED BY <1>4, <1>7, <1>8, <2>1, <2>2, <3>1 DEF ActivationOk, o
  <2>3. CASE st[k].slot # d
    <3>1. st[k].slot >= 1 => st[k].slot \in DOMAIN ds
      BY <1>1, <2>1, SlotType DEF ActivationOk, Undeclared
    <3> QED BY <1>7, <2>1, <2>3, <3>1 DEF ActivationOk
  <2> QED BY <2>2, <2>3
<1>10. Ordered(st, up)
  <2> SUFFICES ASSUME NEW j \in DOMAIN st, NEW k \in DOMAIN st, j < k, Share(st, j, k)
               PROVE  Before(st[j].rout, st[k].rout, up[st[k].slot])
    BY DEF Ordered
  <2>1. Before(st[j].rout, st[k].rout, ds[st[k].slot])
    BY <1>1 DEF Ordered
  <2>2. st[k].slot \in DOMAIN ds
    <3>1. ActivationOk(st[k], ds) /\ st[k].slot >= 1
      BY <1>1 DEF Share
    <3> QED BY <1>1, <3>1, SlotType DEF ActivationOk, Undeclared
  <2> QED BY <1>4, <1>7, <2>1, <2>2 DEF Before, o
<1>11. \A e \in DOMAIN up : DispatcherOk(up[e])
  BY <1>1, <1>6, <1>7
<1>12. WellFormed(st, up)
  BY <1>1, <1>7, <1>9, <1>10, <1>11 DEF WellFormed
<1> QED BY <1>4, <1>5, <1>7, <1>9, <1>12 DEF o

-----------------------------------------------------------------------------
(* The steps.                                                               *)

\* A routine is entered with nothing in the register, over activations that are
\* well formed.
LEMMA EnterWithNull ==
    ASSUME NEW st, WellFormed(st, disps), Len(st) < MaxDepth,
           NEW r \in Routines, NEW inv \in Objects \cup {None}, NEW arg \in Args,
           NEW same \in BOOLEAN, NEW next \in BOOLEAN, next => st # <<>>, Callable(r, inv),
           Enter(st, r, inv, arg, same, next, Null), disps' = disps
    PROVE  ChainInv'
<1> DEFINE slot == TakenSlot(r, Null)
           f == Activation(r, inv, arg, slot, same, next)
<1>1. slot \in {Undeclared, Unvivified} /\ (Slot[r] = "none" => slot = Undeclared)
  BY DEF TakenSlot, Undeclared, Unvivified
<1>2. slot \in Int /\ slot < 1
  BY <1>1 DEF Undeclared, Unvivified
<1>3. stack' = Append(st, f) /\ current' = Null
  BY DEF Enter, LeftByTake
<1> HIDE DEF slot
<1>4. /\ f \in Activations /\ f.rout = r /\ f.inv = inv /\ f.slot = slot /\ f.next = next
      /\ f.phase = "dispatch" => r \in Protos
  BY <1>2, ActivationFields
<1> HIDE DEF f
<1>5. Len(disps) \in Nat
  BY DEF WellFormed
<1>6. ActivationOk(f, disps)
  BY <1>1, <1>2, <1>4, <1>5 DEF ActivationOk, Undeclared, Unvivified
<1>7. WellFormed(Append(st, f), disps)
  BY <1>2, <1>4, <1>6, EnterAfresh
<1> QED BY <1>3, <1>7 DEF ChainInv

\* A call that there is room for.
LEMMA RoomLeft == ASSUME ChainInv, Room PROVE Len(stack) < MaxDepth
BY DEF Room, Depth

\* The innermost activation, and the stack without it.
LEMMA TopFacts ==
    ASSUME ChainInv, stack # <<>>
    PROVE  /\ Depth \in DOMAIN stack /\ Depth \in Nat /\ Depth >= 1 /\ Depth <= MaxDepth /\ MaxDepth \in Nat
           /\ Top \in Activations /\ ActivationOk(Top, disps)
           /\ WellFormed(SubSeq(stack, 1, Depth - 1), disps) /\ Len(SubSeq(stack, 1, Depth - 1)) = Depth - 1
           /\ Top.next => SubSeq(stack, 1, Depth - 1) # <<>>
<1>1. stack \in Seq(Activations) /\ Len(stack) <= MaxDepth /\ WellFormed(stack, disps)
  BY DEF ChainInv, WellFormed
<1>2. Len(stack) \in Nat /\ Len(stack) >= 1
  BY <1>1
<1>3. Depth \in DOMAIN stack /\ Depth \in Nat /\ Depth >= 1 /\ Depth <= MaxDepth
  BY <1>1, <1>2 DEF Depth
<1>4. Top \in Activations /\ ActivationOk(Top, disps)
  BY <1>1, <1>3, SlotType DEF Top, Depth, WellFormed
<1>5. WellFormed(SubSeq(stack, 1, Depth - 1), disps)
  BY <1>1, <1>2, PrefixWellFormed DEF Depth
<1>6. Len(SubSeq(stack, 1, Depth - 1)) = Depth - 1
  <2> DEFINE n == Depth - 1
  <2>1. n \in 0..Len(stack)
    BY <1>2 DEF Depth
  <2> HIDE DEF n
  <2>2. Len(SubSeq(stack, 1, n)) = n
    BY <1>1, <2>1
  <2> QED BY <2>2 DEF n
<1>7. Top.next => Depth > 1
  BY <1>1, <1>3 DEF WellFormed, Stays, Top, Depth
<1>8. Top.next => SubSeq(stack, 1, Depth - 1) # <<>>
  BY <1>3, <1>6, <1>7
<1> QED BY <1>3, <1>4, <1>5, <1>6, <1>8, RedispatchAssumption

\* The methods of a table are called on the object whose table it is.
LEMMA MethodFacts ==
    ASSUME NEW o \in Objects, NEW n \in DOMAIN Methods[o], NEW i \in 1..Len(Methods[o][n])
    PROVE  Methods[o][n][i] \in Routines /\ Callable(Methods[o][n][i], o)
<1>1. Methods[o][n] \in Seq(Slotted("method"))
  BY RedispatchAssumption
<1>2. Methods[o][n][i] \in Slotted("method") /\ Methods[o][n][i] \in Range(Methods[o][n])
  BY <1>1 DEF Range
<1> QED BY <1>2 DEF Slotted, Callable, MethodOf

\* A method call.
LEMMA CallMethodStep == ChainInv /\ CallMethod => ChainInv'
<1> SUFFICES ASSUME ChainInv, CallMethod PROVE ChainInv'
  OBVIOUS
<1>1. PICK o \in Objects, arg \in Args : \E n \in DOMAIN Methods[o] :
          Enter(stack, Methods[o][n][1], o, arg, FALSE, FALSE, current)
  BY DEF CallMethod
<1>2. PICK n \in DOMAIN Methods[o] : Enter(stack, Methods[o][n][1], o, arg, FALSE, FALSE, current)
  BY <1>1
<1>3. Methods[o][n] \in Seq(Slotted("method")) /\ Methods[o][n] # <<>>
  BY RedispatchAssumption
<1>4. 1 \in 1..Len(Methods[o][n])
  BY <1>3
<1>5. WellFormed(stack, disps) /\ current = Null /\ disps' = disps /\ Len(stack) < MaxDepth
  BY RoomLeft DEF ChainInv, CallMethod, UserCode
<1> DEFINE r == Methods[o][n][1]
<1>6. r \in Routines /\ Callable(r, o)
  BY <1>4, MethodFacts
<1>7. Enter(stack, r, o, arg, FALSE, FALSE, Null)
  BY <1>2, <1>5
<1> HIDE DEF r
<1> QED BY <1>5, <1>6, <1>7, EnterWithNull

\* A call of a given class's method, $x.Class::meth.
LEMMA CallQualifiedStep == ChainInv /\ CallQualified => ChainInv'
<1> SUFFICES ASSUME ChainInv, CallQualified PROVE ChainInv'
  OBVIOUS
<1>1. PICK o \in Objects, arg \in Args : \E n \in DOMAIN Methods[o] : \E i \in 2..Len(Methods[o][n]) :
          Enter(stack, Methods[o][n][i], o, arg, FALSE, FALSE, current)
  BY DEF CallQualified
<1>2. PICK n \in DOMAIN Methods[o] : \E i \in 2..Len(Methods[o][n]) :
          Enter(stack, Methods[o][n][i], o, arg, FALSE, FALSE, current)
  BY <1>1
<1>3. PICK i \in 2..Len(Methods[o][n]) : Enter(stack, Methods[o][n][i], o, arg, FALSE, FALSE, current)
  BY <1>2
<1>4. i \in 1..Len(Methods[o][n])
  OBVIOUS
<1>5. WellFormed(stack, disps) /\ current = Null /\ disps' = disps /\ Len(stack) < MaxDepth
  BY RoomLeft DEF ChainInv, CallQualified, UserCode
<1> DEFINE r == Methods[o][n][i]
<1>6. r \in Routines /\ Callable(r, o)
  BY <1>4, MethodFacts
<1>7. Enter(stack, r, o, arg, FALSE, FALSE, Null)
  BY <1>3, <1>5
<1> HIDE DEF r
<1> QED BY <1>5, <1>6, <1>7, EnterWithNull

\* A call of a sub.
LEMMA CallSubStep == ChainInv /\ CallSub => ChainInv'
<1> SUFFICES ASSUME ChainInv, CallSub PROVE ChainInv'
  OBVIOUS
<1>1. PICK r \in Subs, arg \in SubArgs : Enter(stack, r, None, arg, FALSE, FALSE, current)
  BY DEF CallSub
<1>2. r \in Routines /\ arg \in Args /\ Callable(r, None)
  BY RedispatchAssumption DEF Slotted, Callable
<1>3. WellFormed(stack, disps) /\ current = Null /\ disps' = disps /\ Len(stack) < MaxDepth
  BY RoomLeft DEF ChainInv, CallSub, UserCode
<1> QED BY <1>1, <1>2, <1>3, EnterWithNull

\* A proto gives its place to the candidate found, or to the threader.
LEMMA DispatchStep == ChainInv /\ Dispatch => ChainInv'
<1> SUFFICES ASSUME ChainInv, Dispatch PROVE ChainInv'
  OBVIOUS
<1> DEFINE below == SubSeq(stack, 1, Depth - 1)
           cand  == Best[Top.rout][Top.arg]
           rest  == Eigen[Top.arg]
           f     == [Top EXCEPT !.slot = Undeclared, !.phase = "thread", !.todo = rest]
<1>1. /\ Top \in Activations /\ ActivationOk(Top, disps) /\ WellFormed(below, disps)
      /\ Len(below) < MaxDepth /\ (Top.next => below # <<>>)
  BY TopFacts DEF Dispatch
<1>2. /\ Top.rout \in Routines /\ Top.inv \in Objects \cup {None} /\ Top.arg \in Args
      /\ Top.same \in BOOLEAN /\ Top.next \in BOOLEAN
  BY <1>1 DEF Activations
<1>3. current = Null /\ disps' = disps
  BY DEF ChainInv, Dispatch
<1>4. ASSUME Top.arg \in Threading[Top.rout], stack' = Append(below, f), current' = current
      PROVE  ChainInv'
  <2>1. rest \in Seq(Args)
    BY <1>2, <1>4, RedispatchAssumption
  <2> HIDE DEF rest
  <2>2. /\ f \in Activations /\ f.slot = Undeclared /\ f.rout = Top.rout /\ f.inv = Top.inv /\ f.phase = "thread"
        /\ f.next = Top.next
    <3>1. Undeclared \in Int /\ "thread" \in Phases
      BY DEF Phases, Undeclared
    <3> HIDE DEF below, cand
    <3>2. f \in Activations
      BY <1>1, <2>1, <3>1 DEF Activations
    <3>3. f.slot = Undeclared /\ f.phase = "thread"
      BY <1>1 DEF Activations
    <3>4. f.rout = Top.rout /\ f.inv = Top.inv /\ f.next = Top.next
      BY <1>1 DEF Activations
    <3> QED BY <3>2, <3>3, <3>4
  <2> HIDE DEF f, below
  <2>3. ActivationOk(f, disps) /\ f.slot < 1
    BY <1>1, <2>2 DEF ActivationOk, Undeclared
  <2>4. WellFormed(Append(below, f), disps)
    BY <1>1, <2>2, <2>3, EnterAfresh
  <2> QED BY <1>3, <1>4, <2>4 DEF ChainInv
<1>5. ASSUME cand # None, Top.phase = "dispatch",
             Enter(below, cand, Top.inv, Top.arg, Top.same, Top.next, current)
      PROVE  ChainInv'
  <2>1. Top.rout \in Protos
    BY <1>1, <1>5 DEF ActivationOk
  <2>2. cand \in Slotted("multi")
    BY <1>2, <1>5, <2>1, RedispatchAssumption
  <2>3. cand \in Routines /\ Callable(cand, Top.inv)
    BY <2>2 DEF Slotted, Callable
  <2> HIDE DEF cand, below
  <2> QED BY <1>1, <1>2, <1>3, <1>5, <2>3, EnterWithNull
<1>6. \/ /\ Top.arg \in Threading[Top.rout] /\ stack' = Append(below, f) /\ current' = current
      \/ cand # None /\ Enter(below, cand, Top.inv, Top.arg, Top.same, Top.next, current)
  BY DEF Dispatch
<1>7. Top.phase = "dispatch"
  BY DEF Dispatch
<1> HIDE DEF f, cand, below, rest
<1> QED BY <1>4, <1>5, <1>6, <1>7

\* The threader calls its routine again.
LEMMA ThreadStep == ChainInv /\ Thread => ChainInv'
<1> SUFFICES ASSUME ChainInv, Thread PROVE ChainInv'
  OBVIOUS
<1> DEFINE n  == Depth
           st == [stack EXCEPT ![n].todo = Tail(@)]
           g  == [Top EXCEPT !.todo = Tail(@)]
<1>1. /\ Top \in Activations /\ ActivationOk(Top, disps) /\ n \in DOMAIN stack
      /\ Top.todo # <<>> /\ Len(stack) < MaxDepth /\ WellFormed(stack, disps) /\ stack \in Seq(Activations)
  BY TopFacts, RoomLeft DEF Thread, ChainInv, WellFormed
<1>2. /\ Top.rout \in Routines /\ Top.inv \in Objects \cup {None} /\ Top.todo \in Seq(Args)
  BY <1>1 DEF Activations
<1>3. Tail(Top.todo) \in Seq(Args) /\ Head(Top.todo) \in Args
  BY <1>1, <1>2
<1>4. /\ g \in Activations /\ g.rout = Top.rout /\ g.inv = Top.inv /\ g.arg = Top.arg /\ g.slot = Top.slot
      /\ g.same = Top.same /\ g.phase = Top.phase /\ g.next = Top.next
  BY <1>1, <1>3 DEF Activations
<1>5. st = [stack EXCEPT ![n] = g]
  BY <1>1 DEF Top, Depth
<1>6. Enter(st, Top.rout, Top.inv, Head(Top.todo), FALSE, FALSE, Null) /\ disps' = disps
  BY DEF Thread, ChainInv
<1>7. Callable(Top.rout, Top.inv)
  BY <1>1 DEF ActivationOk
<1> HIDE DEF g, st
<1>8. /\ st \in Seq(Activations) /\ DOMAIN st = DOMAIN stack /\ Len(st) = Len(stack)
      /\ \A k \in DOMAIN stack :
            /\ st[k].rout = stack[k].rout /\ st[k].inv = stack[k].inv /\ st[k].arg = stack[k].arg
            /\ st[k].slot = stack[k].slot /\ st[k].same = stack[k].same /\ st[k].phase = stack[k].phase
            /\ st[k].next = stack[k].next
  BY <1>1, <1>4, <1>5 DEF Top, Depth
<1>9. WellFormed(st, disps)
  BY <1>1, <1>8, SameSlots
<1> QED BY <1>1, <1>2, <1>3, <1>6, <1>7, <1>8, <1>9, EnterWithNull

\* There is nobody to defer to.
LEMMA NobodyStep == ChainInv /\ Nobody => ChainInv'
<1> SUFFICES ASSUME ChainInv, Nobody PROVE ChainInv'
  OBVIOUS
<1>1. WellFormed(Finding.stack, Finding.disps)
  BY FindingWellFormed DEF Nobody, Asks
<1>2. stack' = Finding.stack /\ disps' = Finding.disps /\ current' = current
  BY DEF Nobody
<1> QED BY <1>1, <1>2 DEF ChainInv

\* The next candidate is entered, on the invocant of the dispatcher.
LEMMA OfferStep ==
    ASSUME ChainInv, Declaring # {}, Room, ~Exhausted(Finding.disps[Finding.d]),
           NEW inv, inv = Finding.disps[Finding.d].inv, NEW arg \in Args, NEW same \in BOOLEAN,
           same => arg = ArgsFor(Finding).arg,
           Offer(Finding, inv, arg, same)
    PROVE  ChainInv'
<1> DEFINE st == Finding.stack
           ds == Finding.disps
           fd == Finding.d
           up == Offered(ds, fd)
           p  == ds[fd].idx + 1
           cand == ds[fd].cands[p]
<1>1. /\ st \in Seq(Activations) /\ DOMAIN st = DOMAIN stack /\ Len(st) = Len(stack)
      /\ ds \in Seq(DispatcherObjects) /\ fd \in DOMAIN ds
  BY FindingFacts
<1>2. WellFormed(st, ds) /\ Len(st) < MaxDepth /\ st # <<>>
  BY <1>1, FindingWellFormed, FindingFacts, RoomLeft
<1>3. PICK next \in BOOLEAN : Enter(st, cand, inv, arg, same, next, fd)
  BY DEF Offer, EnterNext
<1>4. disps' = up
  BY DEF Offer, Offered
<1>5. PICK l \in DOMAIN st : /\ st[l].slot = fd /\ ArgsFor(Finding) = st[l]
                             /\ \A i \in DOMAIN st : l < i => st[i].slot # fd
  BY <1>1, ArgsForHolder
<1>6. same => arg = st[l].arg
  BY <1>5
<1>7. ~Exhausted(ds[fd]) /\ inv = ds[fd].inv
  OBVIOUS
<1> HIDE DEF st, ds, fd
<1>8. /\ WellFormed(st, up) /\ DOMAIN up = DOMAIN ds /\ Len(up) = Len(ds)
      /\ p \in DOMAIN ds[fd].all /\ ds[fd].all[p] = cand
      /\ up[fd].idx = p /\ up[fd].all = ds[fd].all /\ up[fd].inv = inv
      /\ \A k \in DOMAIN st : st[k].slot = fd => Took(st[k].rout, up[fd], p - 1)
  <2> HIDE DEF cand
  <2>1. /\ WellFormed(st, up) /\ DOMAIN up = DOMAIN ds /\ Len(up) = Len(ds)
        /\ p \in DOMAIN ds[fd].all /\ ds[fd].all[p] = ds[fd].cands[p]
        /\ up[fd].idx = p /\ up[fd].all = ds[fd].all /\ up[fd].inv = ds[fd].inv
        /\ \A k \in DOMAIN st : st[k].slot = fd => Took(st[k].rout, up[fd], p - 1)
    BY <1>1, <1>2, <1>7, Advance
  <2> HIDE DEF up, p
  <2> QED BY <1>7, <2>1 DEF cand
<1>9. fd \in 1..Len(ds) /\ Len(ds) \in Nat /\ fd # Null /\ fd >= 1 /\ fd \in Int /\ fd # Undeclared
  BY <1>1 DEF Null, Undeclared
<1> HIDE DEF up, p, cand
<1>10. up \in Seq(DispatcherObjects) /\ up[fd] \in DispatcherObjects /\ DispatcherOk(up[fd])
  BY <1>1, <1>8 DEF WellFormed
<1>11. /\ cand \in Routines /\ inv \in Objects \cup {None} /\ Slot[cand] # "none" /\ Callable(cand, inv)
       /\ up[fd].all \in Seq(Routines) /\ p \in 1..Len(up[fd].all)
  <2>1. up[fd].all \in Seq(Routines) /\ up[fd].inv \in Objects \cup {None}
    BY <1>10 DEF DispatcherObjects
  <2>2. Slot[cand] # "none" /\ Callable(cand, inv)
    BY <1>8, <1>10 DEF DispatcherOk
  <2>3. p \in 1..Len(up[fd].all)
    BY <1>8, <2>1
  <2>4. cand \in Routines
    BY <1>8, <2>1
  <2> QED BY <1>8, <2>1, <2>2, <2>3, <2>4
<1> DEFINE f == Activation(cand, inv, arg, fd, same, next)
<1>12. stack' = Append(st, f) /\ current' = Null
  BY <1>3, <1>9, <1>11 DEF Enter, TakenSlot, LeftByTake
<1>13. /\ f \in Activations /\ f.rout = cand /\ f.inv = inv /\ f.arg = arg /\ f.slot = fd
       /\ (f.same => same) /\ (f.phase = "dispatch" => f.rout \in Protos)
  <2>1. f = Activation(cand, inv, arg, fd, same, next)
    OBVIOUS
  <2>2. /\ cand \in Routines /\ inv \in Objects \cup {None} /\ fd \in Int /\ arg \in Args
        /\ same \in BOOLEAN /\ next \in BOOLEAN
    BY <1>9, <1>11
  <2> HIDE DEF f
  <2>3. f \in Activations /\ f.rout = cand /\ f.inv = inv
    BY <2>1, <2>2, ActivationFields
  <2>4. f.arg = arg /\ f.slot = fd
    BY <2>1, <2>2, ActivationFields
  <2>5. f.phase = "dispatch" => f.rout \in Protos
    BY <2>1, <2>2, ActivationFields
  <2>6. f.same => same
    BY <2>1, <2>2, ActivationFields
  <2> QED BY <2>3, <2>4, <2>5, <2>6
<1> HIDE DEF f
<1>14. Took(cand, up[fd], up[fd].idx)
  BY <1>8, <1>11 DEF Took
<1>15. ActivationOk(f, up)
  <2>1. f.slot \in {Undeclared} \cup 0..Len(up)
    BY <1>8, <1>9, <1>13
  <2> QED BY <1>8, <1>11, <1>13, <1>14, <2>1 DEF ActivationOk
<1>16. f.same => \A j \in DOMAIN st :
          (st[j].slot = f.slot /\ \A i \in DOMAIN st : j < i => st[i].slot # f.slot) => f.arg = st[j].arg
  <2> SUFFICES ASSUME f.same, NEW j \in DOMAIN st, st[j].slot = f.slot,
                      \A i \in DOMAIN st : j < i => st[i].slot # f.slot
               PROVE  f.arg = st[j].arg
    OBVIOUS
  <2>1. ~(j < l) /\ ~(l < j)
    BY <1>5, <1>13
  <2>2. j = l
    BY <1>1, <2>1
  <2> QED BY <1>6, <1>13, <2>2
<1>17. WellFormed(Append(st, f), up)
  BY <1>2, <1>8, <1>9, <1>13, <1>15, <1>16, EnterHolding
<1> QED BY <1>4, <1>12, <1>17 DEF ChainInv

\* callsame and nextsame.
LEMMA CallSameStep == ChainInv /\ CallSame => ChainInv'
<1> SUFFICES ASSUME ChainInv, CallSame PROVE ChainInv'
  OBVIOUS
<1>1. /\ Declaring # {} /\ Room /\ ~Exhausted(Finding.disps[Finding.d])
      /\ Offer(Finding, ArgsFor(Finding).inv, ArgsFor(Finding).arg, TRUE)
  BY DEF CallSame, Asks, Offers
<1>2. PICK l \in DOMAIN stack : Finding.stack[l].slot = Finding.d /\ ArgsFor(Finding) = Finding.stack[l]
  BY <1>1, ArgsForHolder
<1>3. WellFormed(Finding.stack, Finding.disps)
  BY <1>1, FindingWellFormed
<1>4. /\ Finding.stack \in Seq(Activations) /\ DOMAIN Finding.stack = DOMAIN stack
      /\ Finding.d \in DOMAIN Finding.disps /\ Finding.disps \in Seq(DispatcherObjects)
  BY <1>1, FindingFacts
<1>5. ActivationOk(Finding.stack[l], Finding.disps) /\ Finding.d >= 1
  BY <1>2, <1>3, <1>4 DEF WellFormed
<1>6. ArgsFor(Finding).inv = Finding.disps[Finding.d].inv
  BY <1>2, <1>5 DEF ActivationOk
<1>7. ArgsFor(Finding).arg \in Args
  <2>1. Finding.stack[l] \in Activations
    BY <1>2, <1>4, SlotType
  <2> QED BY <1>2, <2>1 DEF Activations
<1> QED BY <1>1, <1>6, <1>7, OfferStep

\* callwith and nextwith.
LEMMA CallWithStep == ChainInv /\ CallWith => ChainInv'
<1> SUFFICES ASSUME ChainInv, CallWith PROVE ChainInv'
  OBVIOUS
<1>1. Declaring # {} /\ Room /\ ~Exhausted(Finding.disps[Finding.d])
  BY DEF CallWith, Asks, Offers
<1>2. PICK arg \in Args : Offer(Finding, Finding.disps[Finding.d].inv, arg, FALSE)
  BY DEF CallWith
<1> QED BY <1>1, <1>2, OfferStep

\* No candidate is left, whether or not there were more.
LEMMA LastCallStep == ChainInv /\ LastCall => ChainInv'
<1> SUFFICES ASSUME ChainInv, LastCall PROVE ChainInv'
  OBVIOUS
<1> DEFINE st == Finding.stack
           ds == Finding.disps
           fd == Finding.d
           o  == ds[fd]
           n  == [o EXCEPT !.cands = <<>>]
           up == [ds EXCEPT ![fd].cands = <<>>]
<1>1. WellFormed(st, ds) /\ fd \in DOMAIN ds
  BY FindingWellFormed, FindingFacts DEF LastCall, Asks
<1>2. stack' = st /\ disps' = up /\ current' = current
  BY DEF LastCall
<1> HIDE DEF st, ds, fd
<1>3. /\ st \in Seq(Activations) /\ Len(st) <= MaxDepth /\ ds \in Seq(DispatcherObjects)
      /\ \A k \in DOMAIN st : ActivationOk(st[k], ds)
      /\ \A e \in DOMAIN ds : DispatcherOk(ds[e])
      /\ Ordered(st, ds) /\ SameArgs(st) /\ Stays(st)
  BY <1>1 DEF WellFormed
<1>4. o \in DispatcherObjects /\ DispatcherOk(o)
  BY <1>1, <1>3
<1>5. up = [ds EXCEPT ![fd] = n]
  BY <1>1, <1>3
<1> HIDE DEF o, up
<1>6. /\ n \in DispatcherObjects /\ n.idx = o.idx /\ n.all = o.all /\ n.inv = o.inv /\ n.owner = o.owner
      /\ n.cands = <<>>
  <2>1. <<>> \in Seq(Routines)
    OBVIOUS
  <2>2. n \in DispatcherObjects
    BY <1>4, <2>1 DEF DispatcherObjects
  <2>3. n.cands = <<>>
    BY <1>4 DEF DispatcherObjects
  <2>4. n.idx = o.idx /\ n.all = o.all /\ n.inv = o.inv /\ n.owner = o.owner
    BY <1>4 DEF DispatcherObjects
  <2> QED BY <2>2, <2>3, <2>4
<1>7. DispatcherOk(n)
  BY <1>4, <1>6 DEF DispatcherOk
<1> HIDE DEF n
<1>8. /\ up \in Seq(DispatcherObjects) /\ DOMAIN up = DOMAIN ds /\ Len(up) = Len(ds) /\ up[fd] = n
      /\ \A e \in DOMAIN ds : e # fd => up[e] = ds[e]
  BY <1>1, <1>3, <1>5, <1>6
<1>9. \A e \in DOMAIN ds : /\ up[e].idx = ds[e].idx /\ up[e].all = ds[e].all /\ up[e].inv = ds[e].inv
                           /\ up[e].owner = ds[e].owner
  BY <1>6, <1>8 DEF o
<1>10. \A k \in DOMAIN st : st[k].slot >= 1 => st[k].slot \in DOMAIN ds
  BY <1>3, SlotType DEF ActivationOk, Undeclared
<1>11. \A k \in DOMAIN st : ActivationOk(st[k], up)
  BY <1>3, <1>8, <1>9, <1>10 DEF ActivationOk, Took
<1>12. Ordered(st, up)
  BY <1>3, <1>9, <1>10 DEF Ordered, Before, Share
<1>13. \A e \in DOMAIN up : DispatcherOk(up[e])
  BY <1>3, <1>7, <1>8
<1>14. WellFormed(st, up)
  BY <1>3, <1>8, <1>11, <1>12, <1>13 DEF WellFormed
<1> QED BY <1>2, <1>14 DEF ChainInv

\* Activations end, and the dispatchers nobody holds with them.
LEMMA ResumeFacts ==
    ASSUME ChainInv, NEW n \in 0..Len(stack), Resume(SubSeq(stack, 1, n))
    PROVE  /\ stack' = SubSeq(stack, 1, n) /\ current' = Null
           /\ WellFormed(stack', disps)
           /\ \E last \in 0..Len(disps) :
                 /\ disps' = SubSeq(disps, 1, last)
                 /\ \A k \in DOMAIN stack' : stack'[k].slot <= last
<1> DEFINE st   == SubSeq(stack, 1, n)
           held == {current} \cup {st[k].slot : k \in DOMAIN st} \cup {0}
           last == CHOOSE d \in held : \A e \in held : e <= d
<1>1. stack' = st /\ disps' = SubSeq(disps, 1, last) /\ current' = current
  BY DEF Resume
<1>2. WellFormed(st, disps) /\ current = Null
  BY PrefixWellFormed DEF ChainInv
<1> HIDE DEF st
<1>3. Len(disps) \in Nat /\ \A k \in DOMAIN st : st[k].slot \in {Undeclared} \cup 0..Len(disps)
  BY <1>2 DEF WellFormed, ActivationOk
<1> DEFINE reached == held \ {Undeclared}
<1>4. held \subseteq {Undeclared} \cup 0..Len(disps) /\ 0 \in held
  BY <1>2, <1>3 DEF Null
<1> HIDE DEF held
<1>5. reached \subseteq 0..Len(disps) /\ 0 \in reached
  BY <1>4 DEF Undeclared
<1>6. PICK d \in reached : \A e \in reached : e <= d
  <2> HIDE DEF reached
  <2> QED BY <1>3, <1>5, GreatestNumber
<1>7. d \in held /\ \A e \in held : e <= d
  BY <1>4, <1>5, <1>6 DEF Undeclared
<1>8. last \in held /\ \A e \in held : e <= last
  BY <1>7
<1> HIDE DEF last
<1>9. last \in 0..Len(disps)
  BY <1>4, <1>8 DEF Undeclared
<1>10. \A k \in DOMAIN st : st[k].slot <= last
  BY <1>8 DEF held
<1> QED BY <1>1, <1>2, <1>9, <1>10 DEF st

\* What is left of the stack when the activations above are gone goes on.
LEMMA ResumeStep ==
    ASSUME ChainInv, NEW n \in 0..Len(stack), Resume(SubSeq(stack, 1, n))
    PROVE  ChainInv'
<1>1. current' = Null /\ WellFormed(stack', disps)
  BY ResumeFacts
<1>2. PICK last \in 0..Len(disps) : /\ disps' = SubSeq(disps, 1, last)
                                    /\ \A k \in DOMAIN stack' : stack'[k].slot <= last
  BY ResumeFacts
<1>3. WellFormed(stack', SubSeq(disps, 1, last))
  BY <1>1, <1>2, FewerDispatchers
<1> QED BY <1>1, <1>2, <1>3 DEF ChainInv

\* An exception caught some activations further out.
LEMMA DieStep == ChainInv /\ Die => ChainInv'
<1> SUFFICES ASSUME ChainInv, Die PROVE ChainInv'
  OBVIOUS
<1>1. PICK k \in 0..(Depth - 1) : Resume(SubSeq(stack, 1, k))
  BY DEF Die
<1>2. k \in 0..Len(stack)
  BY TopFacts DEF Die, Depth
<1> QED BY <1>1, <1>2, ResumeStep

\* Where a return ends: the outermost activation always stays for its caller.
LEMMA ReturnsWithin ==
    ASSUME ChainInv, Return
    PROVE  \E n \in 0..Len(stack) : Resume(SubSeq(stack, 1, n))
<1> DEFINE stays == {k \in DOMAIN stack : ~stack[k].next}
           last  == CHOOSE k \in stays : \A m \in stays : m <= k
<1>1. stack \in Seq(Activations) /\ stack # <<>> /\ Stays(stack)
  BY DEF Return, ChainInv, WellFormed
<1>2. stays \subseteq 0..Len(stack) /\ Len(stack) \in Nat /\ 1 \in stays
  BY <1>1 DEF Stays
<1>3. \E k \in stays : \A m \in stays : m <= k
  <2> HIDE DEF stays
  <2> QED BY <1>2, GreatestNumber
<1>4. last \in stays
  <2> HIDE DEF stays
  <2> QED BY <1>3
<1>5. last - 1 \in 0..Len(stack)
  BY <1>1, <1>4
<1>6. Resume(SubSeq(stack, 1, last - 1))
  BY DEF Return
<1> HIDE DEF last
<1> QED BY <1>5, <1>6

\* A return.
LEMMA ReturnStep == ChainInv /\ Return => ChainInv'
BY ReturnsWithin, ResumeStep

\* Every step keeps the invariant.
LEMMA ChainStep == ChainInv /\ [Next]_vars => ChainInv'
<1> SUFFICES ASSUME ChainInv, [Next]_vars PROVE ChainInv'
  OBVIOUS
<1>1. CASE UNCHANGED vars
  BY <1>1 DEF vars, ChainInv
<1>2. CASE Next
  BY <1>2, CallMethodStep, CallQualifiedStep, CallSubStep, DispatchStep, ThreadStep, NobodyStep,
     CallSameStep, CallWithStep, LastCallStep, ReturnStep, DieStep DEF Next
<1> QED BY <1>1, <1>2

\* The invariant holds at the start.
LEMMA ChainInit == Init => ChainInv
<1> SUFFICES ASSUME Init PROVE ChainInv
  OBVIOUS
<1>1. stack = <<>> /\ disps = <<>> /\ current = Null
  BY DEF Init
<1>2. /\ stack \in Seq(Activations) /\ disps \in Seq(DispatcherObjects)
      /\ DOMAIN stack = {} /\ DOMAIN disps = {} /\ Len(stack) = 0
  BY <1>1
<1> QED BY <1>1, <1>2, RedispatchAssumption DEF ChainInv, WellFormed, Ordered, SameArgs, Stays

\* Whatever the methods, candidates and arguments, and however deferrals nest and are
\* interrupted, activations and dispatchers stay as ChainInv says.
THEOREM ChainInvariance == Spec => []ChainInv
<1>1. Init => ChainInv
  BY ChainInit
<1>2. ChainInv /\ [Next]_vars => ChainInv'
  BY ChainStep
<1> QED BY <1>1, <1>2, PTL DEF Spec

-----------------------------------------------------------------------------
(* What follows of deferral.                                                *)

\* An activation that holds a dispatcher.
LEMMA HolderFacts ==
    ASSUME ChainInv, NEW d \in DOMAIN disps, NEW k \in Holders(d)
    PROVE  /\ k \in DOMAIN stack /\ stack[k].slot = d /\ d >= 1 /\ k \in Nat
           /\ ActivationOk(stack[k], disps) /\ DispatcherOk(disps[d])
BY DEF ChainInv, WellFormed, Holders

\* Slots and the register refer to dispatchers there are, and no dispatcher has
\* offered more than it has.
THEOREM ActivationsTyped == Spec => []TypeOK
<1>1. ChainInv => TypeOK
  <2> SUFFICES ASSUME ChainInv PROVE TypeOK
    OBVIOUS
  <2>1. /\ stack \in Seq(Activations) /\ Depth <= MaxDepth /\ disps \in Seq(DispatcherObjects)
        /\ \A k \in DOMAIN stack : ActivationOk(stack[k], disps)
        /\ \A d \in DOMAIN disps : DispatcherOk(disps[d])
    BY DEF ChainInv, WellFormed, Depth
  <2>2. current \in 0..Len(disps)
    BY <2>1 DEF ChainInv, Null
  <2>3. ASSUME NEW k \in DOMAIN stack
        PROVE  /\ stack[k].rout \in Routines /\ stack[k].inv \in Objects \cup {None} /\ stack[k].arg \in Args
               /\ stack[k].slot \in {Undeclared} \cup 0..Len(disps)
               /\ stack[k].phase \in Phases /\ stack[k].same \in BOOLEAN /\ stack[k].next \in BOOLEAN
               /\ Slot[stack[k].rout] = "none" => stack[k].slot = Undeclared
    <3>1. stack[k] \in Activations /\ ActivationOk(stack[k], disps)
      BY <2>1
    <3>2. /\ stack[k].rout \in Routines /\ stack[k].inv \in Objects \cup {None} /\ stack[k].arg \in Args
          /\ stack[k].phase \in Phases /\ stack[k].same \in BOOLEAN /\ stack[k].next \in BOOLEAN
      BY <3>1 DEF Activations
    <3> QED BY <3>1, <3>2 DEF ActivationOk
  <2>4. \A d \in DOMAIN disps : /\ disps[d].idx \in 1..(IF disps[d].all = <<>> THEN 1 ELSE Len(disps[d].all))
                                /\ disps[d].cands \in {<<>>, disps[d].all}
    BY <2>1 DEF DispatcherOk
  <2> QED BY <2>1, <2>2, <2>3, <2>4, Zenon DEF TypeOK
<1> QED BY <1>1, ChainInvariance, PTL

\* The register never lets a dispatcher stray: a holder made it, or it was handed
\* to it.
THEOREM TakenAlways == Spec => []TakenByCandidate
<1>1. ChainInv => TakenByCandidate
  <2> SUFFICES ASSUME ChainInv, NEW d \in DOMAIN disps, NEW k \in Holders(d)
               PROVE  stack[k].rout = disps[d].owner \/ Places(stack[k].rout, disps[d]) # {}
    BY DEF TakenByCandidate
  <2> QED BY HolderFacts DEF ActivationOk, Took, Places
<1> QED BY <1>1, ChainInvariance, PTL

\* Candidates run ever later in the order of their dispatcher.
THEOREM InOrderAlways == Spec => []ChainInOrder
<1>1. ChainInv => ChainInOrder
  <2> SUFFICES ASSUME ChainInv, NEW d \in DOMAIN disps, NEW j \in Holders(d), NEW k \in Holders(d),
                      j < k, disps[d].owner \notin {stack[j].rout, stack[k].rout},
                      NEW m \in Places(stack[j].rout, disps[d]), NEW n \in Places(stack[k].rout, disps[d])
               PROVE  m < n
    BY DEF ChainInOrder
  <2>1. j \in DOMAIN stack /\ k \in DOMAIN stack /\ Share(stack, j, k) /\ stack[k].slot = d
    BY HolderFacts DEF Share
  <2>2. Before(stack[j].rout, stack[k].rout, disps[d])
    BY <2>1 DEF ChainInv, WellFormed, Ordered
  <2> QED BY <2>2 DEF Before, Places
<1> QED BY <1>1, ChainInvariance, PTL

\* A chain keeps its invocant, and callsame the arguments of the candidate that defers.
THEOREM SameCallAlways == Spec => []SameCall
<1>1. ChainInv => SameCall
  <2> SUFFICES ASSUME ChainInv, NEW d \in DOMAIN disps, NEW k \in Holders(d)
               PROVE  LET below == {j \in Holders(d) : j < k}
                      IN  /\ stack[k].inv = disps[d].inv
                          /\ (stack[k].same /\ below # {})
                             => \E j \in below : /\ \A i \in below : i <= j
                                                 /\ stack[k].arg = stack[j].arg
    BY DEF SameCall
  <2> DEFINE below == {j \in Holders(d) : j < k}
  <2>1. stack[k].inv = disps[d].inv
    BY HolderFacts DEF ActivationOk
  <2>2. ASSUME stack[k].same, below # {}
        PROVE  \E j \in below : (\A i \in below : i <= j) /\ stack[k].arg = stack[j].arg
    <3>1. stack \in Seq(Activations)
      BY DEF ChainInv, WellFormed
    <3>2. below \subseteq 0..Len(stack) /\ Len(stack) \in Nat
      BY <3>1 DEF Holders
    <3>3. PICK j \in below : \A i \in below : i <= j
      <4> HIDE DEF below
      <4> QED BY <2>2, <3>2, GreatestNumber
    <3>4. j \in DOMAIN stack /\ j < k /\ k \in DOMAIN stack /\ Share(stack, j, k)
      BY HolderFacts DEF Share
    <3>5. \A i \in DOMAIN stack : j < i /\ i < k => ~Share(stack, i, k)
      <4> SUFFICES ASSUME NEW i \in DOMAIN stack, j < i, i < k, Share(stack, i, k)
                   PROVE  FALSE
        OBVIOUS
      <4>1. i \in below
        BY HolderFacts DEF Share, Holders
      <4> HIDE DEF below
      <4>2. i <= j /\ i \in Int /\ j \in Int
        BY <3>2, <3>3, <4>1
      <4> QED BY <4>2
    <3>6. stack[k].arg = stack[j].arg
      BY <2>2, <3>4, <3>5 DEF ChainInv, WellFormed, SameArgs
    <3> HIDE DEF below
    <3> QED BY <3>3, <3>6
  <2> QED BY <2>1, <2>2
<1> QED BY <1>1, ChainInvariance, PTL

-----------------------------------------------------------------------------
(* Exhausted dispatchers.                                                   *)

\* What LastIsLast says of a step.
StaysLast ==
    \A d \in DOMAIN disps \cap DOMAIN disps' : Exhausted(disps[d]) =>
          /\ Exhausted(disps'[d])
          /\ \A k \in DOMAIN stack' :
                stack'[k].slot = d => k \in DOMAIN stack /\ stack[k].slot = d

\* Nobody takes a dispatcher: the dispatchers stay and no slot changes but that of
\* a new activation, which has none.
LEMMA AfreshKeepsLast ==
    ASSUME ChainInv, NEW st \in Seq(Activations), DOMAIN st \subseteq DOMAIN stack,
           \A k \in DOMAIN st : st[k].slot = stack[k].slot,
           NEW f, stack' = Append(st, f), f.slot \in {Undeclared, Unvivified}, disps' = disps
    PROVE  StaysLast
<1>1. disps \in Seq(DispatcherObjects)
  BY DEF ChainInv, WellFormed
<1>2. \A k \in DOMAIN stack' : stack'[k] = f \/ (k \in DOMAIN st /\ stack'[k] = st[k])
  OBVIOUS
<1>3. \A d \in DOMAIN disps : f.slot # d
  BY <1>1 DEF Undeclared, Unvivified
<1> QED BY <1>2, <1>3 DEF StaysLast

\* What is entered has its slot from the register, if it takes from there.
LEMMA EnterTop ==
    ASSUME NEW st, NEW r, NEW inv, NEW arg, NEW same, NEW next, NEW reg,
           Enter(st, r, inv, arg, same, next, reg)
    PROVE  \E f : stack' = Append(st, f) /\ f.slot = TakenSlot(r, reg)
<1> DEFINE f == Activation(r, inv, arg, TakenSlot(r, reg), same, next)
<1>1. stack' = Append(st, f)
  BY DEF Enter
<1>2. f.slot = TakenSlot(r, reg)
  BY DEF Activation
<1> HIDE DEF f
<1> QED BY <1>1, <1>2

\* Entering a routine with the register empty hands out no dispatcher.
LEMMA EnterKeepsLast ==
    ASSUME ChainInv, NEW st \in Seq(Activations), DOMAIN st \subseteq DOMAIN stack,
           \A k \in DOMAIN st : st[k].slot = stack[k].slot,
           NEW r, NEW inv, NEW arg, NEW same, NEW next,
           Enter(st, r, inv, arg, same, next, Null), disps' = disps
    PROVE  StaysLast
<1>1. PICK f : stack' = Append(st, f) /\ f.slot = TakenSlot(r, Null)
  BY EnterTop
<1>2. f.slot \in {Undeclared, Unvivified}
  BY <1>1 DEF TakenSlot
<1> QED BY <1>1, <1>2, AfreshKeepsLast

\* A call on top of the stack begins afresh.
LEMMA CallsKeepLast == ChainInv /\ (CallMethod \/ CallQualified \/ CallSub) => StaysLast
<1> SUFFICES ASSUME ChainInv, CallMethod \/ CallQualified \/ CallSub PROVE StaysLast
  OBVIOUS
<1>1. \E r, inv, arg : Enter(stack, r, inv, arg, FALSE, FALSE, Null)
  BY DEF CallMethod, CallQualified, CallSub, ChainInv
<1>2. stack \in Seq(Activations) /\ disps' = disps
  BY DEF CallMethod, CallQualified, CallSub, ChainInv, WellFormed
<1> QED BY <1>1, <1>2, EnterKeepsLast

\* A proto that dispatches.
LEMMA DispatchKeepsLast == ChainInv /\ Dispatch => StaysLast
<1> SUFFICES ASSUME ChainInv, Dispatch PROVE StaysLast
  OBVIOUS
<1> DEFINE below == SubSeq(stack, 1, Depth - 1)
           f     == [Top EXCEPT !.slot = Undeclared, !.phase = "thread", !.todo = Eigen[Top.arg]]
<1>1. stack \in Seq(Activations) /\ Depth \in DOMAIN stack /\ Depth \in Nat /\ Depth = Len(stack)
  BY TopFacts DEF Dispatch, ChainInv, WellFormed, Depth
<1>2. /\ below \in Seq(Activations) /\ DOMAIN below \subseteq DOMAIN stack
      /\ \A k \in DOMAIN below : below[k].slot = stack[k].slot
  BY <1>1
<1>3. disps' = disps /\ current = Null
  BY DEF Dispatch, ChainInv
<1>4. \/ stack' = Append(below, f)
      \/ \E r : Enter(below, r, Top.inv, Top.arg, Top.same, Top.next, Null)
  BY <1>3 DEF Dispatch
<1>5. f.slot = Undeclared
  <2>1. Top \in Activations
    BY TopFacts DEF Dispatch
  <2> QED BY <2>1 DEF Activations
<1> HIDE DEF f, below
<1>6. CASE stack' = Append(below, f)
  BY <1>2, <1>3, <1>5, <1>6, AfreshKeepsLast
<1>7. CASE \E r : Enter(below, r, Top.inv, Top.arg, Top.same, Top.next, Null)
  BY <1>2, <1>3, <1>7, EnterKeepsLast
<1> QED BY <1>4, <1>6, <1>7

\* The threader calls the routine for the next eigenstate.
LEMMA ThreadKeepsLast == ChainInv /\ Thread => StaysLast
<1> SUFFICES ASSUME ChainInv, Thread PROVE StaysLast
  OBVIOUS
<1> DEFINE n  == Depth
           st == [stack EXCEPT ![n].todo = Tail(@)]
           g  == [Top EXCEPT !.todo = Tail(@)]
<1>1. /\ Top \in Activations /\ n \in DOMAIN stack /\ stack \in Seq(Activations) /\ Top.todo # <<>>
  BY TopFacts DEF Thread, ChainInv, WellFormed
<1>2. Tail(Top.todo) \in Seq(Args)
  <2>1. Top.todo \in Seq(Args)
    BY <1>1 DEF Activations
  <2> QED BY <1>1, <2>1
<1>3. g \in Activations /\ g.slot = Top.slot
  BY <1>1, <1>2 DEF Activations
<1>4. st = [stack EXCEPT ![n] = g]
  BY <1>1 DEF Top, Depth
<1>5. \E r, inv, arg : Enter(st, r, inv, arg, FALSE, FALSE, Null)
  BY DEF Thread, ChainInv
<1>6. disps' = disps
  BY DEF Thread
<1> HIDE DEF st, g
<1>7. /\ st \in Seq(Activations) /\ DOMAIN st = DOMAIN stack
      /\ \A k \in DOMAIN st : st[k].slot = stack[k].slot
  BY <1>1, <1>3, <1>4 DEF Top, Depth
<1> QED BY <1>5, <1>6, <1>7, EnterKeepsLast

\* Finding leaves the dispatchers there were, and their holders.
LEMMA FindingKeeps ==
    ASSUME ChainInv, Declaring # {}, NEW d \in DOMAIN disps
    PROVE  /\ Finding.disps[d] = disps[d] /\ d \in DOMAIN Finding.disps
           /\ DOMAIN Finding.stack = DOMAIN stack
           /\ \A k \in DOMAIN stack : Finding.stack[k].slot = d => stack[k].slot = d
<1>1. /\ DOMAIN Finding.stack = DOMAIN stack /\ Finding.stack[Nearest].slot = Finding.d
      /\ DOMAIN disps \subseteq DOMAIN Finding.disps /\ Finding.disps[d] = disps[d]
      /\ \A k \in DOMAIN stack : Finding.stack[k].slot = stack[k].slot
                                 \/ (k = Nearest /\ Finding.d \notin DOMAIN disps)
  BY FindingFacts
<1> QED BY <1>1

\* A deferral with no candidate left: the answer is Nil.
LEMMA NobodyKeepsLast == ChainInv /\ Nobody => StaysLast
<1> SUFFICES ASSUME ChainInv, Nobody PROVE StaysLast
  OBVIOUS
<1>1. Declaring # {} /\ stack' = Finding.stack /\ disps' = Finding.disps
  BY DEF Nobody, Asks
<1> QED BY <1>1, FindingKeeps DEF StaysLast

\* A dispatcher that is not exhausted offers its next candidate.
LEMMA OfferKeepsLast ==
    ASSUME ChainInv, Declaring # {}, ~Exhausted(Finding.disps[Finding.d]),
           NEW inv, NEW arg, NEW same, Offer(Finding, inv, arg, same)
    PROVE  StaysLast
<1> SUFFICES ASSUME NEW d \in DOMAIN disps, Exhausted(disps[d])
             PROVE  /\ Exhausted(disps'[d])
                    /\ \A k \in DOMAIN stack' :
                          stack'[k].slot = d => k \in DOMAIN stack /\ stack[k].slot = d
  BY DEF StaysLast
<1> DEFINE st == Finding.stack
           ds == Finding.disps
           fd == Finding.d
<1>1. /\ ds[d] = disps[d] /\ d \in DOMAIN ds /\ DOMAIN st = DOMAIN stack
      /\ \A k \in DOMAIN stack : st[k].slot = d => stack[k].slot = d
  BY FindingKeeps
<1>2. st \in Seq(Activations) /\ fd \in DOMAIN ds /\ ds \in Seq(DispatcherObjects)
  BY FindingFacts
<1>3. disps' = [ds EXCEPT ![fd].idx = @ + 1]
  BY DEF Offer
<1>4. PICK r, next : Enter(st, r, inv, arg, same, next, fd)
  BY DEF Offer, EnterNext
<1>5. PICK f : stack' = Append(st, f) /\ f.slot = TakenSlot(r, fd)
  BY <1>4, EnterTop
<1>6. ~Exhausted(ds[fd])
  OBVIOUS
<1> HIDE DEF st, ds, fd
<1>7. d # fd
  BY <1>1, <1>6
<1>8. disps'[d] = disps[d]
  BY <1>1, <1>3, <1>7
<1>9. f.slot # d
  <2>1. d >= 1 /\ d \in Nat
    BY <1>1, <1>2
  <2> QED BY <1>5, <1>7, <2>1 DEF TakenSlot, Undeclared, Unvivified
<1>10. \A k \in DOMAIN stack' : stack'[k] = f \/ (k \in DOMAIN st /\ stack'[k] = st[k])
  BY <1>2, <1>5
<1> QED BY <1>1, <1>8, <1>9, <1>10

\* The four deferrals.
LEMMA DeferringKeepsLast == ChainInv /\ (CallSame \/ CallWith) => StaysLast
<1> SUFFICES ASSUME ChainInv, CallSame \/ CallWith PROVE StaysLast
  OBVIOUS
<1>1. Declaring # {} /\ ~Exhausted(Finding.disps[Finding.d])
  BY DEF CallSame, CallWith, Asks, Offers
<1>2. \E inv, arg, same : Offer(Finding, inv, arg, same)
  BY DEF CallSame, CallWith
<1> QED BY <1>1, <1>2, OfferKeepsLast

\* lastcall.
LEMMA LastCallKeepsLast == ChainInv /\ LastCall => StaysLast
<1> SUFFICES ASSUME ChainInv, LastCall, NEW d \in DOMAIN disps, Exhausted(disps[d])
             PROVE  /\ Exhausted(disps'[d])
                    /\ \A k \in DOMAIN stack' :
                          stack'[k].slot = d => k \in DOMAIN stack /\ stack[k].slot = d
  BY DEF StaysLast
<1> DEFINE ds == Finding.disps
           fd == Finding.d
           up == [ds EXCEPT ![fd].cands = <<>>]
<1>1. Declaring # {} /\ stack' = Finding.stack /\ disps' = up
  BY DEF LastCall, Asks
<1>2. /\ ds[d] = disps[d] /\ d \in DOMAIN ds /\ DOMAIN stack' = DOMAIN stack
      /\ \A k \in DOMAIN stack : stack'[k].slot = d => stack[k].slot = d
  BY <1>1, FindingKeeps
<1>3. ds \in Seq(DispatcherObjects)
  BY <1>1, FindingFacts
<1> HIDE DEF ds, fd
<1>4. Exhausted(up[d])
  <2>1. CASE d = fd
    <3>1. ds[d] \in DispatcherObjects
      BY <1>2, <1>3
    <3>2. ds[d].idx \in Nat /\ up[d].idx = ds[d].idx /\ up[d].cands = <<>>
      BY <1>2, <2>1, <3>1 DEF DispatcherObjects
    <3> QED BY <3>2 DEF Exhausted
  <2>2. CASE d # fd
    BY <1>2, <2>2
  <2> QED BY <2>1, <2>2
<1> QED BY <1>1, <1>2, <1>4

\* Going on after activations are gone.
LEMMA ResumeKeepsLast ==
    ASSUME ChainInv, NEW n \in 0..Len(stack), Resume(SubSeq(stack, 1, n))
    PROVE  StaysLast
<1> SUFFICES ASSUME NEW d \in DOMAIN disps, d \in DOMAIN disps'
             PROVE  disps'[d] = disps[d] /\ \A k \in DOMAIN stack' : k \in DOMAIN stack /\ stack'[k] = stack[k]
  BY DEF StaysLast
<1>1. stack \in Seq(Activations) /\ disps \in Seq(DispatcherObjects)
  BY DEF ChainInv, WellFormed
<1>2. PICK m \in 0..Len(disps) : disps' = SubSeq(disps, 1, m)
  BY ResumeFacts
<1>3. stack' = SubSeq(stack, 1, n)
  BY ResumeFacts
<1>4. disps'[d] = disps[d]
  <2>1. d \in 1..m
    BY <1>1, <1>2
  <2> QED BY <1>1, <1>2, <2>1
<1>5. \A k \in DOMAIN stack' : k \in DOMAIN stack /\ stack'[k] = stack[k]
  BY <1>1, <1>3
<1> QED BY <1>4, <1>5

\* Return and exception.
LEMMA EndsKeepLast == ChainInv /\ (Return \/ Die) => StaysLast
<1> SUFFICES ASSUME ChainInv, Return \/ Die PROVE StaysLast
  OBVIOUS
<1>1. \E n \in 0..Len(stack) : Resume(SubSeq(stack, 1, n))
  <2>1. CASE Return
    BY <2>1, ReturnsWithin
  <2>2. CASE Die
    <3>1. PICK k \in 0..(Depth - 1) : Resume(SubSeq(stack, 1, k))
      BY <2>2 DEF Die
    <3>2. k \in 0..Len(stack)
      BY <2>2, TopFacts DEF Die, Depth
    <3> QED BY <3>1, <3>2
  <2> QED BY <2>1, <2>2
<1> QED BY <1>1, ResumeKeepsLast

\* Every step keeps exhausted dispatchers out of reach.
LEMMA LastStep == ChainInv /\ [Next]_vars => [StaysLast]_vars
<1> SUFFICES ASSUME ChainInv, Next PROVE StaysLast
  OBVIOUS
<1> QED BY CallsKeepLast, DispatchKeepsLast, ThreadKeepsLast, NobodyKeepsLast, DeferringKeepsLast,
           LastCallKeepsLast, EndsKeepLast DEF Next

\* A dispatcher that is exhausted, by its last candidate or by lastcall, stays so,
\* and nobody comes to hold it any more.
THEOREM LastAlways == Spec => LastIsLast
<1>1. ChainInv /\ [Next]_vars =>
        [\A d \in DOMAIN disps \cap DOMAIN disps' : Exhausted(disps[d]) =>
          /\ Exhausted(disps'[d])
          /\ \A k \in DOMAIN stack' :
                stack'[k].slot = d => k \in DOMAIN stack /\ stack[k].slot = d]_vars
  BY LastStep DEF StaysLast
<1> QED BY ChainInvariance, <1>1, PTL DEF Spec, LastIsLast
=============================================================================
