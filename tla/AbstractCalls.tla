---------------------------- MODULE AbstractCalls ----------------------------
(***************************************************************************)
(* What the Sancus entry and exit stubs promise to the code they connect:  *)
(* protected modules and unprotected code call each other as if the call   *)
(* were an ordinary subroutine call.  A call is either accepted by exactly *)
(* the domain it was made to or stops the machine; returns are last-in     *)
(* first-out; and whenever compiled code runs, the activation that runs is *)
(* the innermost one, never another activation of the same domain.         *)
(***************************************************************************)
EXTENDS Integers, Sequences

CONSTANTS Domain,    \* protection domains: the modules and unprotected code
          Main,      \* the domain whose code runs first
          Nobody     \* the value of "who" while a stub runs

VARIABLES calls,     \* the domains of the live activations, innermost last
          who,       \* the activation whose code runs, <<domain, depth>>
          request    \* the domain being called, or Nobody
vars == <<calls, who, request>>

Innermost == <<calls[Len(calls)], Len(calls)>>

Init == /\ calls = <<Main>>
        /\ who = <<Main, 1>>
        /\ request = Nobody

\* The running activation calls into another domain.
Call(t) ==
    /\ who # Nobody
    /\ t # who[1]
    /\ request' = t
    /\ who' = Nobody
    /\ UNCHANGED calls

\* The called domain starts a new innermost activation.
Accept ==
    /\ request # Nobody
    /\ calls' = Append(calls, request)
    /\ request' = Nobody
    /\ UNCHANGED who

\* The running activation finishes its code.
Finish ==
    /\ who # Nobody
    /\ Len(calls) > 1
    /\ who' = Nobody
    /\ UNCHANGED <<calls, request>>

\* The innermost activation is given up.
Return ==
    /\ who = Nobody /\ request = Nobody
    /\ Len(calls) > 1
    /\ calls' = SubSeq(calls, 1, Len(calls) - 1)
    /\ UNCHANGED <<who, request>>

\* The code of the innermost activation runs.
Resume ==
    /\ who = Nobody /\ request = Nobody
    /\ who' = Innermost
    /\ UNCHANGED <<calls, request>>

Next == (\E t \in Domain : Call(t)) \/ Accept \/ Finish \/ Return \/ Resume

Spec == Init /\ [][Next]_vars
=============================================================================
