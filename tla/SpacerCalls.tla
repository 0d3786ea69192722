----------------------------- MODULE SpacerCalls -----------------------------
(***************************************************************************)
(* What a spacer client promises its caller, whatever the connection, the  *)
(* service and the timers do: calls are made one at a time; each answer of *)
(* the service is used for at most one call, in the order of the calls     *)
(* they answer, and never for a call made before the answered one; and     *)
(* until a first call has timed out an answer is used for exactly the call *)
(* it answers.                                                             *)
(***************************************************************************)
EXTENDS Naturals

VARIABLES
    calls,      \* the number of calls made so far
    pending,    \* the call that is waiting for its answer, or 0
    lapsed,     \* has any call timed out?
    answers,    \* <<c, d>>: call c returned the answer to call d
    closed      \* the client has been closed

vars == <<calls, pending, lapsed, answers, closed>>

Init ==
    /\ calls = 0
    /\ pending = 0
    /\ lapsed = FALSE
    /\ answers = {}
    /\ closed = FALSE

\* A call whose request cannot be sent fails without ever being pending.
Begin ==
    /\ ~closed
    /\ pending = 0
    /\ calls' = calls + 1
    /\ pending' \in {0, calls'}
    /\ UNCHANGED <<lapsed, answers, closed>>

Answer(d) ==
    /\ pending # 0
    /\ d \in 1..pending
    /\ \A a \in answers : a[2] < d
    /\ ~lapsed => d = pending
    /\ answers' = answers \union {<<pending, d>>}
    /\ pending' = 0
    /\ UNCHANGED <<calls, lapsed, closed>>

Fail ==
    /\ pending # 0
    /\ pending' = 0
    /\ UNCHANGED <<calls, lapsed, answers, closed>>

TimeOut ==
    /\ pending # 0
    /\ pending' = 0
    /\ lapsed' = TRUE
    /\ UNCHANGED <<calls, answers, closed>>

Close ==
    /\ pending = 0
    /\ closed' = TRUE
    /\ UNCHANGED <<calls, pending, lapsed, answers>>

Next ==
    \/ Begin
    \/ \E d \in 1..calls : Answer(d)
    \/ Fail
    \/ TimeOut
    \/ Close

Spec == Init /\ [][Next]_vars
=============================================================================
