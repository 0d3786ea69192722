---------------------------- MODULE AllOrNothing ----------------------------
(***************************************************************************)
(* What the handlers of a spacer service promise: a request is answered    *)
(* with either an error, and then nothing of it stays open in the service, *)
(* or with one open descriptor for each field that was asked for, and      *)
(* nothing else; once the response has been sent nothing stays open.       *)
(***************************************************************************)
EXTENDS Wire

CONSTANT Calls

VARIABLES
    asked,      \* the request of each call
    answer,     \* "none" yet, "error" or "ok"
    handed      \* <<call, field>>: open on behalf of calls that were answered

vars == <<asked, answer, handed>>

NoRequest == [kind |-> "none", spaces |-> {}]

Init ==
    /\ asked = [c \in Calls |-> NoRequest]
    /\ answer = [c \in Calls |-> "none"]
    /\ handed = {}

Ask(c) ==
    /\ asked[c] = NoRequest
    /\ \E kind \in {"rooms", "subspace"}, spaces \in SUBSET Fields :
           asked' = [asked EXCEPT ![c] = [kind |-> kind, spaces |-> spaces]]
    /\ \/ UNCHANGED answer
       \/ answer' = [answer EXCEPT ![c] = "error"]
    /\ UNCHANGED handed

Refuse(c) ==
    /\ asked[c] # NoRequest
    /\ answer[c] = "none"
    /\ answer' = [answer EXCEPT ![c] = "error"]
    /\ UNCHANGED <<asked, handed>>

Grant(c) ==
    /\ asked[c] # NoRequest
    /\ answer[c] = "none"
    /\ answer' = [answer EXCEPT ![c] = "ok"]
    /\ handed' = handed \union ({c} \X OpenFields(asked[c]))
    /\ UNCHANGED asked

\* The response has been sent, or cannot be.
Release(c) ==
    /\ answer[c] # "none"
    /\ handed' = handed \ ({c} \X Fields)
    /\ UNCHANGED <<asked, answer>>

\* The process of the service dies.
Die ==
    /\ handed' = {}
    /\ UNCHANGED <<asked, answer>>

Next ==
    \/ \E c \in Calls : Ask(c) \/ Refuse(c) \/ Grant(c) \/ Release(c)
    \/ Die

Spec == Init /\ [][Next]_vars
=============================================================================
