--------------------------- MODULE AbstractMulti ---------------------------
(***************************************************************************)
(* What a multi-dispatcher promises, without a cache and without an order   *)
(* of work: a call, answered some time later, gets the outcome its          *)
(* candidates at the time of the call determine, for some verdicts of the   *)
(* bind checks that the types let it come to.                               *)
(***************************************************************************)
EXTENDS MultiMatch

CONSTANTS Dispatchers

VARIABLES
    lists,    \* the candidates of each dispatcher
    default,  \* candidates with the default trait
    calls,    \* calls not yet answered, innermost last
    result    \* what the step just taken answered

vars == <<lists, default, calls, result>>

\* The members of a group that remain when the bind checks say ok.
Survivors(list, group, cap, ok) ==
    {i \in Possibles(list, group, cap) :
        ~NameMissing(list[i], cap) /\ (Info[list[i]].bindCheck => i \in ok)}

\* The first group with survivors decides.
Best(list, cap, ok) ==
    LET groups  == Sorted(list)
        left(k) == Survivors(list, groups[k], cap, ok)
        kept    == UNION {left(k) : k \in {k \in DOMAIN list :
                                             \A j \in 1..(k - 1) : left(j) = {}}}
    IN  Verdict(list, Winners(list, kept, default), cap)

AllMatches(list, cap, ok) ==
    [kind |-> "matches",
     cands |-> {list[i] : i \in Survivors(list, DOMAIN list, cap, ok)}]

\* Whether user code may have to be asked at all.
AsksUser(list, cap) ==
    \E i \in DOMAIN list : Admissible(list[i], cap) /\ Info[list[i]].bindCheck

Answers(list, cap, many) ==
    IF Circular(list) THEN {Failed("circular")}
    ELSE {IF many THEN AllMatches(list, cap, ok) ELSE Best(list, cap, ok) :
              ok \in SUBSET DOMAIN list}
         \cup {Failed("died") : x \in {y \in {0} : AsksUser(list, cap)}}

-----------------------------------------------------------------------------
Init ==
    /\ lists = [d \in Dispatchers |-> <<>>]
    /\ default = {} /\ calls = <<>> /\ result = Idle

\* A dispatcher comes to have one more candidate, or those of another one.
Declare ==
    /\ \E d \in Dispatchers :
          \/ \E c \in Cands : lists' = [lists EXCEPT ![d] = Append(@, c)]
          \/ \E e \in Dispatchers : lists' = [lists EXCEPT ![d] = lists[e]]
    /\ result' = Idle
    /\ UNCHANGED <<default, calls>>

MarkDefault ==
    /\ \E c \in Cands : default' = default \cup {c}
    /\ result' = Idle
    /\ UNCHANGED <<lists, calls>>

Call(d, cap, many) ==
    /\ calls' = Append(calls, [list |-> lists[d], cap |-> cap, many |-> many])
    /\ result' = Idle
    /\ UNCHANGED <<lists, default>>

Answer ==
    /\ calls # <<>>
    /\ calls' = SubSeq(calls, 1, Len(calls) - 1)
    /\ UNCHANGED <<lists, default>>
    /\ LET c == calls[Len(calls)] IN result' \in Answers(c.list, c.cap, c.many)

\* Called and answered at once.
CallAnswered(d, cap) ==
    /\ UNCHANGED <<lists, default, calls>>
    /\ result' \in Answers(lists[d], cap, FALSE)

\* Work on a call in progress.
Forget == result' = Idle /\ UNCHANGED <<lists, default, calls>>

Next ==
    \/ Forget \/ Declare \/ MarkDefault \/ Answer
    \/ \E d \in Dispatchers, cap \in Captures :
          CallAnswered(d, cap) \/ \E many \in BOOLEAN : Call(d, cap, many)

Spec == Init /\ [][Next]_vars

=============================================================================
