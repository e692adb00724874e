------------------------------- MODULE Lexpads -------------------------------
(***************************************************************************)
(* The lexical pads of blocks (src/pmc/perl6lexpad.pmc).  A pad is filled    *)
(* from the static values of its block when the block is entered; its state  *)
(* variables come from the code object that was called; and $_ comes to be   *)
(* when it is first looked at.  What is in the containers does not matter     *)
(* here, only who shares them: a container is called by its variable and the *)
(* pad it was made for, 0 for the one in the static lexpad.  Pads and code    *)
(* objects are numbered as they are made.                                    *)
(***************************************************************************)
EXTENDS Integers, Sequences, FiniteSets

CONSTANTS
    N,          \* the blocks of the program are 1..N
    Outer,      \* Outer[b]: the block around b, or 0
    Mine,       \* Mine[b]: the `my` variables of b
    State,      \* State[b]: its state variables
    Topic,      \* Topic[b]: how b comes to its $_
    MaxPads,    \* bound on the activations
    MaxCodes,   \* bound on the code objects
    None

Blocks == 1..N

\* A routine has a $_ of its own; the body of a loop takes it as a parameter that
\* defaults to the outer one; any other block uses the outer one; a thunk has none.
Topics == {"fresh", "param", "lazy", "none"}

Own(b) == Mine[b] \cup State[b]

\* What containers are made for: variables, and values that $_ is bound to.
Names == {"$_", ":="} \cup UNION {Own(b) : b \in Blocks}

ASSUME LexpadsAssumption ==
    /\ N \in Nat /\ MaxPads \in Nat /\ MaxCodes \in Nat
    /\ Outer \in [Blocks -> 0..N] /\ Topic \in [Blocks -> Topics]
    /\ \A b \in Blocks : Outer[b] < b /\ (Outer[b] = 0 => Topic[b] = "fresh")
    /\ DOMAIN Mine = Blocks /\ DOMAIN State = Blocks
    /\ \A b \in Blocks : Mine[b] \cap State[b] = {} /\ Own(b) \cap {"$_", ":="} = {}
    /\ \A b, c \in Blocks : b # c => Own(b) \cap Own(c) = {}
    /\ None \notin Names \X Nat

VARIABLES
    codes,      \* code objects: the block, $!state_vars, whether $!do was compiled early
    pads,       \* pads: the block, the code object that was called, the pad around, the registers
    running     \* whether the compilation is over

vars == <<codes, pads, running>>

Container(n, p) == <<n, p>>
Static(n)       == Container(n, 0)

\* A pad of compile_in_context stands for all blocks around the one compiled.
Wraps(p) == pads[p].code = 0

\* set_fresh_magicals, which is among the fixups: early code does without.
Fresh(p) == Topic[pads[p].block] = "fresh" /\ ~pads[p].early

Around[b \in 0..N] == IF b = 0 THEN {} ELSE {b} \cup Around[Outer[b]]

-----------------------------------------------------------------------------
(* Filling a pad.                                                           *)

\* Mutant: the flag is not looked at.
ClonedNever(n, p) == Static(n)

\* A static value with the clone flag.
Cloned(n, p) == Container(n, p)

\* set_pointer, for pad p of code object c: what the registers get.
Filled(c, p) ==
    [n \in Own(codes[c].block) |->
        IF n \in State[codes[c].block] /\ codes[c].state[n] # None THEN codes[c].state[n]
        ELSE Cloned(n, p)]

-----------------------------------------------------------------------------
(* $_                                                                       *)

HasTopic(p) == "$_" \in DOMAIN pads[p].regs

\* Where the $_ of pad p is, or will be: get_pmc_keyed_str asks one pad after another,
\* outwards.  0: nowhere, a thunk's pad has none to give.
Source[p \in 0..Len(pads)] ==
    IF p = 0 THEN 0
    ELSE IF ~HasTopic(p) THEN 0
    ELSE IF pads[p].regs["$_"] # None \/ Fresh(p) THEN p
    ELSE Source[pads[p].outer]

Outwards[p \in 0..Len(pads)] == IF p = 0 THEN {} ELSE {p} \cup Outwards[pads[p].outer]

\* Mutant: every block gets a container of its own.
FoundAtOnce(p) == IF pads[p].regs["$_"] # None THEN pads[p].regs["$_"] ELSE Container("$_", p)

\* What a look at the $_ of pad p finds.
Found(p) ==
    LET s == Source[p]
    IN  IF s = 0 THEN None
        ELSE IF pads[s].regs["$_"] # None THEN pads[s].regs["$_"]
        ELSE Container("$_", s)

\* The pads that were asked keep it.
Looked(p) ==
    [q \in DOMAIN pads |->
        IF Source[p] # 0 /\ q \in Outwards[p] /\ q >= Source[p]
        THEN [pads[q] EXCEPT !.regs["$_"] = Found(p)] ELSE pads[q]]

-----------------------------------------------------------------------------
(* What the program does.                                                   *)

\* A look at $_.
LookAt(p) ==
    /\ HasTopic(p) /\ pads[p].regs["$_"] = None
    /\ pads' = Looked(p)
    /\ UNCHANGED <<codes, running>>

\* The registers of a new pad p for code object c, with the $_ that it is given.
Pad(c, o, p, topic) ==
    [ block |-> codes[c].block, early |-> codes[c].early, code |-> c, outer |-> o,
      regs |-> IF Topic[codes[c].block] = "none" THEN Filled(c, p)
               ELSE [n \in Own(codes[c].block) \cup {"$_"} |->
                        IF n = "$_" THEN topic ELSE Filled(c, p)[n]] ]

Callable(c) == running \/ codes[c].early

\* Pad o can be around code object c.  Which one is, the host captured.
Surrounds(o, c) ==
    IF o = 0 THEN Outer[codes[c].block] = 0 /\ running
    ELSE pads[o].block = Outer[codes[c].block] /\ pads[o].early = codes[c].early

\* Code object c is called with pad o around.
Enter(c, o, before, topic) ==
    LET new == Pad(c, o, Len(pads) + 1, topic)
    IN  /\ Len(pads) < MaxPads
        /\ pads' = Append(before, new)
        /\ codes' = [codes EXCEPT ![c].state = [n \in DOMAIN @ |-> new.regs[n]]]
        /\ UNCHANGED running

Call(c, o) ==
    /\ Callable(c) /\ Surrounds(o, c)
    /\ Topic[codes[c].block] # "param" /\ Enter(c, o, pads, None)

\* The parameter is a container that the caller passes, or, by default, the outer $_.
CallWithTopic(c, o) ==
    /\ Callable(c) /\ Surrounds(o, c) /\ Topic[codes[c].block] = "param"
    /\ \/ Enter(c, o, pads, Container("$_", Len(pads) + 1))
       \/ HasTopic(o) /\ Found(o) # None /\ Enter(c, o, Looked(o), Found(o))

\* Mutant: the state variables are cloned along.
CloneKeepingState(c) ==
    /\ Callable(c) /\ Len(codes) < MaxCodes
    /\ codes' = Append(codes, codes[c]) /\ UNCHANGED <<pads, running>>

\* Block.clone.
Clone(c) ==
    /\ Callable(c) /\ Len(codes) < MaxCodes
    /\ codes' = Append(codes, [codes[c] EXCEPT !.state = [n \in DOMAIN @ |-> None]])
    /\ UNCHANGED <<pads, running>>

\* Block b, which code wants to run while the program is compiled, is compiled with what
\* is inside it.  What is around it is a pad that has the static containers themselves, b's
\* own among them, and for $_ the type Mu.
CompileInContext(b) ==
    /\ ~running /\ Len(pads) < MaxPads /\ Outer[b] # 0
    /\ pads' = Append(pads,
                 [ block |-> Outer[b], early |-> TRUE, code |-> 0, outer |-> 0,
                   regs |-> [n \in {"$_"} \cup UNION {Own(a) : a \in Around[b]} |-> Static(n)] ])
    /\ codes' = [c \in DOMAIN codes |->
                    IF c \in Blocks /\ b \in Around[c] THEN [codes[c] EXCEPT !.early = TRUE] ELSE codes[c]]
    /\ UNCHANGED running

\* The fixups: the code objects of the program get what was compiled in the end.
Fixup ==
    /\ ~running /\ running' = TRUE
    /\ codes' = [c \in DOMAIN codes |-> IF c \in Blocks THEN [codes[c] EXCEPT !.early = FALSE] ELSE codes[c]]
    /\ UNCHANGED pads

\* $_ := ...  Bound: once for each pad.
Rebind(p) ==
    /\ HasTopic(p) /\ pads[p].regs["$_"] # Container(":=", p)
    /\ pads' = [pads EXCEPT ![p].regs["$_"] = Container(":=", p)]
    /\ UNCHANGED <<codes, running>>

Init ==
    /\ codes = [b \in Blocks |-> [block |-> b, early |-> FALSE, state |-> [n \in State[b] |-> None]]]
    /\ pads = <<>> /\ running = FALSE

Next ==
    \/ \E c \in DOMAIN codes : Clone(c) \/ \E o \in 0..Len(pads) : Call(c, o) \/ CallWithTopic(c, o)
    \/ \E b \in Blocks : CompileInContext(b)
    \/ Fixup
    \/ \E p \in DOMAIN pads : LookAt(p) \/ Rebind(p)

Spec == Init /\ [][Next]_vars

-----------------------------------------------------------------------------
(* What pads promise.                                                       *)

Activations == {p \in DOMAIN pads : ~Wraps(p)}

Containers(p) == {pads[p].regs[n] : n \in DOMAIN pads[p].regs}

\* Pads lie in pads of the blocks around them, a register is empty only as long as $_
\* was not looked at, and $!state_vars has what the pads have.
TypeOK ==
    /\ \A p \in DOMAIN pads : pads[p].outer \in 0..(p - 1)
    /\ \A p \in Activations :
          /\ codes[pads[p].code].block = pads[p].block
          /\ LET o == pads[p].outer IN IF o = 0 THEN Outer[pads[p].block] = 0 ELSE pads[o].block = Outer[pads[p].block]
          /\ \A n \in Own(pads[p].block) : pads[p].regs[n] # None
          /\ \A n \in State[pads[p].block] : pads[p].regs[n] = codes[pads[p].code].state[n]

\* Two activations never share the container of a `my` variable, be it recursion, two
\* closures of a block or a block that also ran at BEGIN time; nor is it the one in the
\* static lexpad, so that nothing they assign becomes the initial value of the next.
Isolated ==
    \A p \in Activations : \A n \in Mine[pads[p].block] :
        pads[p].regs[n] # Static(n) /\ \A q \in DOMAIN pads \ {p} : pads[p].regs[n] \notin Containers(q)

\* Two activations of a block share its state variables if and only if the same code
\* object was called: a clone starts afresh, and recursion and later calls do not.
StateShared ==
    \A p, q \in Activations : pads[p].block = pads[q].block =>
        \A n \in State[pads[p].block] :
            pads[p].regs[n] = pads[q].regs[n] <=> pads[p].code = pads[q].code

TopicFound ==
    \A p \in DOMAIN pads : HasTopic(p) =>
       LET old == pads[p].regs["$_"]
           new == pads'[p].regs["$_"]
           o   == pads[p].outer
       IN  new # old =>
              \/ old = None /\ Fresh(p) /\ new = Container("$_", p)
              \/ old = None /\ ~Fresh(p) /\ HasTopic(o) /\ new = pads'[o].regs["$_"]
              \/ Rebind(p)

\* The $_ of a block is found once: a routine's is its own, unless the routine was compiled
\* for BEGIN, and any other is that of the pad around it, the same container even if that
\* pad comes to it only now.  It stays what it is until the block itself binds it.
TopicStolen == [][TopicFound]_vars

=============================================================================
