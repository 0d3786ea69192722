--------------------------- MODULE SpacerRPCProofs ---------------------------
(***************************************************************************)
(* Proofs about SpacerRPC, for any menu of requests, any number of calls   *)
(* and time-outs, and any size of the receive buffer.                      *)
(***************************************************************************)
EXTENDS SpacerRPC, SequenceTheorems, TLAPS

-----------------------------------------------------------------------------
(* The inductive invariant.                                                *)

\* The calls that the messages of a queue belong to, and a queue that is in
\* the order of its calls.
CallsOf(q) == {q[i].call : i \in DOMAIN q}
Ordered(q) == \A i, j \in DOMAIN q : i < j => q[i].call < q[j].call

\* A request is queued, or being served, or its answer is queued.
JobCalls == IF spc \in {"serving", "replying"} THEN {job.call} ELSE {}
OnTheWay == CallsOf(reqs) \union JobCalls \union CallsOf(resps)

Before(S, T) == \A c \in S, d \in T : c < d

\* What is on its way is in the order of the calls, and was called for.
InOrder ==
    /\ Ordered(reqs)
    /\ Ordered(resps)
    /\ Before(CallsOf(resps), JobCalls)
    /\ Before(CallsOf(resps), CallsOf(reqs))
    /\ Before(JobCalls, CallsOf(reqs))
    /\ OnTheWay \subseteq 1..calls
    /\ spc = "replying" => reply.call = job.call
    /\ spc = "gone" => reqs = <<>>

\* What was returned answers an earlier call than anything on its way.
Used ==
    \A r \in returned :
        /\ r.call \in 1..calls
        /\ r.from \in 1..calls
        /\ cpc = "waiting" => r.call < calls
        /\ Before({r.from}, OnTheWay)

\* Until a call times out only the pending call has anything on its way.
InStep ==
    late = {} => \A c \in OnTheWay : c = calls /\ cpc = "waiting"

IInv == TypeOK /\ InOrder /\ Used /\ AnswersInOrder /\ InStep /\ OwnAnswer

-----------------------------------------------------------------------------
(* Lemmas about messages and queues.                                       *)

\* What a read leaves in a queue is the rest of it.
LEMMA AfterProperties ==
    ASSUME NEW S, NEW q \in Seq(S), NEW k \in 1..Len(q)
    PROVE  /\ After(q, k) \in Seq(S)
           /\ Len(After(q, k)) = Len(q) - k
           /\ \A i \in 1..(Len(q) - k) : After(q, k)[i] = q[i + k]
<1>1. /\ k + 1 \in 1..(Len(q) + 1)
      /\ Len(q) \in Nat
  OBVIOUS
<1>2. \A i \in (k + 1)..Len(q) : q[i] \in S
  BY ElementOfSeq
<1>3. SubSeq(q, k + 1, Len(q)) \in Seq(S)
  BY <1>1, <1>2, SubSeqProperties
<1>4. QED
  BY <1>1, <1>3, SubSeqProperties DEF After

\* A queue that is not empty has a first element.
LEMMA HeadInSeq ==
    ASSUME NEW S, NEW q \in Seq(S), q # <<>>
    PROVE  1 \in 1..Len(q) /\ 1 \in DOMAIN q /\ q[1] \in S
  BY EmptySeq, ElementOfSeq, LenProperties

\* Requests ask for valid types, and answers have fields of the response.
LEMMA RequestProperties ==
    ASSUME NEW req \in Menu
    PROVE  /\ req.kind \in Kinds
           /\ OpenFields(req) \subseteq Fields
  BY MenuAssumption DEF Requests, Kinds, OpenFields, Fields, RoomFields,
     SubspaceFields, ValidSpaces

LEMMA ReceivedProperties ==
    ASSUME NEW open \in SUBSET Fields
    PROVE  Received(open) \subseteq Fields
  BY DEF Received

LEMMA MessageTypes ==
    ASSUME NEW c \in Nat, NEW known
    PROVE  /\ \A req \in Menu : RequestMsg(c, req, known)
                 \in Query
           /\ \A kind \in Kinds, open \in SUBSET Fields :
                 ResponseMsg(c, kind, open, known) \in Answer
  BY DEF RequestMsg, ResponseMsg, Query, Answer, InBand

-----------------------------------------------------------------------------
(* Types.                                                                  *)

LEMMA InitTypeOK == Init => TypeOK
<1> SUFFICES ASSUME Init PROVE TypeOK
  OBVIOUS
<1>1. /\ asked \in Seq(Menu) /\ Len(asked) = 0
      /\ reqs \in Seq(Query)
      /\ resps \in Seq(Answer)
  BY EmptySeq DEF Init
<1>2. gob \in GobState
  BY DEF Init, GobState
<1>3. QED
  BY <1>1, <1>2 DEF Init, TypeOK, ServicePCs

LEMMA NextTypeOK == TypeOK /\ [Next]_vars => TypeOK'
<1> SUFFICES ASSUME TypeOK, [Next]_vars PROVE TypeOK'
  OBVIOUS
<1>1. ASSUME NEW req \in Menu, ClientCall(req) PROVE TypeOK'
  <2>1. RequestMsg(calls', req, gob.reqSent)
          \in Query
    <3>1. calls' \in Nat
      BY <1>1 DEF ClientCall, TypeOK, ServicePCs, GobState
    <3>2. QED
      BY <3>1, MessageTypes
  <2>2. asked' \in Seq(Menu) /\ Len(asked') = calls'
    BY <1>1 DEF ClientCall, TypeOK, ServicePCs, GobState
  <2>3. reqs' \in Seq(Query)
    <3>0. reqs \in Seq(Query)
      BY DEF TypeOK
    <3>1. reqs' = reqs \/ reqs' = Append(reqs, RequestMsg(calls', req, gob.reqSent))
      BY <1>1 DEF ClientCall, TypeOK, ServicePCs, GobState
    <3>2. QED
      BY <2>1, <3>0, <3>1, AppendProperties
  <2>4. gob' \in GobState
    BY <1>1, RequestProperties DEF ClientCall, TypeOK, ServicePCs, GobState
  <2>5. calls' \in Nat /\ calls' > 0 /\ 1..calls \subseteq 1..calls'
    BY <1>1 DEF ClientCall, TypeOK, ServicePCs, GobState
  <2>6. cpc' \in {"idle", "waiting", "closed"}
    BY <1>1 DEF ClientCall, TypeOK, ServicePCs, GobState
  <2>7. QED
    BY <1>1, <2>2, <2>3, <2>4, <2>5, <2>6 DEF ClientCall, serviceVars, TypeOK, ServicePCs, GobState
<1>2. CASE ClientTimeout
  BY <1>2 DEF ClientTimeout, serviceVars, TypeOK, ServicePCs, GobState
<1>3. CASE ClientDisconnected
  BY <1>3 DEF ClientDisconnected, serviceVars, TypeOK, ServicePCs, GobState
<1>4. CASE ClientReceive
  <2>1. PICK k \in 1..Len(resps) :
          /\ resps' = After(resps, k)
          /\ gob' = [gob EXCEPT !.respKnown =
                       IF Decodable(@, resps[1].kind, resps[1])
                       THEN @ \union {resps[1].kind} ELSE @]
          /\ \/ /\ orphans' = orphans \union
                            Tokens(resps[k].call, Received(resps[k].fds))
                /\ UNCHANGED <<returned, halfway>>
             \/ /\ returned' = returned \union
                     {[call |-> calls, from |-> resps[1].call,
                       fds |-> Received(resps[k].fds),
                       inband |-> resps[1].inband]}
                /\ UNCHANGED <<orphans, halfway>>
             \/ /\ halfway' = halfway \union {calls}
                /\ orphans' = orphans \union
                     Tokens(resps[k].call,
                            Received(resps[k].fds) \ {"conn", "pidfd"})
                /\ UNCHANGED returned
    BY <1>4 DEF ClientReceive, TypeOK, ServicePCs, GobState
  <2>2. resps[1] \in Answer /\ resps[k] \in Answer
    BY DEF TypeOK, ServicePCs, GobState
  <2>3. Received(resps[k].fds) \subseteq Fields
    BY <2>2, ReceivedProperties DEF Answer, TypeOK, ServicePCs, GobState
  <2>4. resps' \in Seq(Answer)
    BY <2>1, AfterProperties DEF TypeOK, ServicePCs, GobState
  <2>5. gob' \in GobState
    BY <2>1, <2>2 DEF Answer, TypeOK, ServicePCs, GobState
  <2>6. returned' \subseteq [call : Nat, from : Nat, fds : SUBSET Fields,
                            inband : SUBSET Fields]
    BY <2>1, <2>2, <2>3 DEF Answer, TypeOK, ServicePCs, GobState
  <2>7. orphans' \subseteq Nat \X Fields
    <3>1. resps[k].call \in Nat
      BY <2>2 DEF Answer, TypeOK, ServicePCs, GobState
    <3>2. \A F \in SUBSET Fields : Tokens(resps[k].call, F) \subseteq Nat \X Fields
      BY <3>1 DEF Tokens, TypeOK, ServicePCs, GobState
    <3>3. QED
      BY <2>1, <2>3, <3>2 DEF TypeOK, ServicePCs, GobState
  <2>8. halfway' \subseteq 1..calls
    BY <1>4, <2>1 DEF ClientReceive, TypeOK, ServicePCs, GobState
  <2>9. QED
    BY <1>4, <2>4, <2>5, <2>6, <2>7, <2>8 DEF ClientReceive, serviceVars, TypeOK, ServicePCs, GobState
<1>5. CASE ClientClose
  BY <1>5 DEF ClientClose, serviceVars, TypeOK, ServicePCs, GobState
<1>6. CASE CancelContext
  BY <1>6 DEF CancelContext, clientVars, serviceVars, TypeOK, ServicePCs, GobState
<1>7. CASE ServePoll
  BY <1>7 DEF ServePoll, clientVars, TypeOK, ServicePCs, GobState
<1>8. CASE ServeDeadline
  BY <1>8 DEF ServeDeadline, clientVars, TypeOK, ServicePCs, GobState
<1>9. CASE ServeDisconnected
  BY <1>9 DEF ServeDisconnected, clientVars, TypeOK, ServicePCs, GobState
<1>10. CASE ServeReceive
  <2>1. reqs[1] \in Query
    BY <1>10, HeadInSeq DEF ServeReceive, TypeOK, ServicePCs, GobState
  <2>2. reqs[1].req.kind \in Kinds
    BY <2>1, RequestProperties DEF Query
  <2>3. IF spc' = "serving" THEN job' \in [call : Nat, req : Menu]
                            ELSE job' = None /\ spc' = "returned"
    BY <1>10, <2>1 DEF ServeReceive, Query, TypeOK
  <2>4. gob' \in GobState
    <3>1. \/ gob' = gob
          \/ gob' = [gob EXCEPT !.reqKnown = @ \union {reqs[1].req.kind}]
      BY <1>10 DEF ServeReceive
    <3>2. gob \in GobState
      BY DEF TypeOK
    <3>3. QED
      BY <2>2, <3>1, <3>2 DEF GobState
  <2>5. QED
    BY <1>10, <2>3, <2>4 DEF ServeReceive, clientVars, TypeOK, ServicePCs, GobState
<1>11. CASE ServeHandle
  <2>1. job \in [call : Nat, req : Menu]
    BY <1>11 DEF ServeHandle, TypeOK, ServicePCs, GobState
  <2>2. reply' \in Answer
    <3>1. /\ job.call \in Nat
          /\ job.req \in Menu
          /\ "error" \in Kinds
      BY <2>1 DEF Kinds, TypeOK, ServicePCs, GobState
    <3>2. \/ reply' = ResponseMsg(job.call, "error", {}, gob.respSent)
          \/ reply' = ResponseMsg(job.call, job.req.kind,
                                   OpenFields(job.req), gob.respSent)
      BY <1>11 DEF ServeHandle, TypeOK, ServicePCs, GobState
    <3>3. QED
      <4>1. OpenFields(job.req) \in SUBSET Fields /\ job.req.kind \in Kinds
        BY <3>1, RequestProperties DEF TypeOK, ServicePCs, GobState
      <4>2. {} \in SUBSET Fields
        BY DEF TypeOK, ServicePCs, GobState
      <4>3. QED
        BY <3>1, <3>2, <4>1, <4>2, MessageTypes
  <2>3. Tokens(job.call, reply'.fds) \subseteq Nat \X Fields
    BY <2>1, <2>2 DEF Tokens, Answer, TypeOK, ServicePCs, GobState
  <2>4. QED
    BY <1>11, <2>1, <2>2, <2>3 DEF ServeHandle, clientVars, TypeOK, ServicePCs, GobState
<1>12. CASE ServeSend
  <2>1. reply \in Answer
    BY <1>12 DEF ServeSend, TypeOK, ServicePCs, GobState
  <2>2. resps' \in Seq(Answer)
    <3>0. resps \in Seq(Answer)
      BY DEF TypeOK
    <3>1. resps' = resps \/ resps' = Append(resps, reply)
      BY <1>12 DEF ServeSend, TypeOK, ServicePCs, GobState
    <3>2. QED
      BY <2>1, <3>0, <3>1, AppendProperties
  <2>3. gob' \in GobState
    BY <1>12, <2>1 DEF ServeSend, Answer, TypeOK, ServicePCs, GobState
  <2>4. QED
    BY <1>12, <2>2, <2>3 DEF ServeSend, clientVars, TypeOK, ServicePCs, GobState
<1>13. CASE ServeRelease
  BY <1>13 DEF ServeRelease, clientVars, TypeOK, ServicePCs, GobState
<1>14. CASE ServeClose
  BY <1>14 DEF ServeClose, clientVars, TypeOK, ServicePCs, GobState
<1>15. CASE ServiceKilled
  BY <1>15 DEF ServiceKilled, clientVars, TypeOK, ServicePCs, GobState
<1>16. CASE UNCHANGED vars
  BY <1>16 DEF vars, clientVars, serviceVars, TypeOK, ServicePCs, GobState
<1>17. QED
  BY <1>1, <1>2, <1>3, <1>4, <1>5, <1>6, <1>7, <1>8, <1>9, <1>10, <1>11,
     <1>12, <1>13, <1>14, <1>15, <1>16 DEF Next, ClientNext, Serve

-----------------------------------------------------------------------------
(* Queues and the order of calls.                                          *)

LEMMA EmptyQueue == CallsOf(<<>>) = {} /\ Ordered(<<>>)
  BY DEF CallsOf, Ordered

LEMMA AppendToQueue ==
    ASSUME NEW S, NEW q \in Seq(S), NEW e \in S
    PROVE  /\ CallsOf(Append(q, e)) = CallsOf(q) \union {e.call}
           /\ Ordered(q) /\ Before(CallsOf(q), {e.call}) => Ordered(Append(q, e))
<1> DEFINE a == Append(q, e)
<1>1. /\ Len(q) \in Nat
      /\ DOMAIN q = 1..Len(q)
      /\ DOMAIN a = 1..(Len(q) + 1)
      /\ \A i \in 1..Len(q) : a[i] = q[i]
      /\ a[Len(q) + 1] = e
  BY AppendProperties, LenProperties
<1> HIDE DEF a
<1>2. CallsOf(a) = CallsOf(q) \union {e.call}
  BY <1>1 DEF CallsOf
<1>3. ASSUME Ordered(q), Before(CallsOf(q), {e.call}) PROVE Ordered(a)
  <2> SUFFICES ASSUME NEW i \in DOMAIN a, NEW j \in DOMAIN a, i < j
               PROVE  a[i].call < a[j].call
    BY DEF Ordered
  <2>1. CASE j = Len(q) + 1
    <3>1. i \in DOMAIN q
      BY <1>1, <2>1
    <3>2. QED
      BY <1>1, <1>3, <2>1, <3>1 DEF CallsOf, Before
  <2>2. CASE j # Len(q) + 1
    <3>1. i \in DOMAIN q /\ j \in DOMAIN q
      BY <1>1, <2>2
    <3>2. QED
      BY <1>1, <1>3, <3>1 DEF Ordered
  <2>3. QED
    BY <2>1, <2>2
<1>4. QED
  BY <1>2, <1>3 DEF a

LEMMA ReadFromQueue ==
    ASSUME NEW S, NEW q \in Seq(S), NEW k \in 1..Len(q), Ordered(q)
    PROVE  /\ CallsOf(After(q, k)) \subseteq CallsOf(q)
           /\ Ordered(After(q, k))
           /\ q[1].call \in CallsOf(q)
           /\ Before({q[1].call}, CallsOf(After(q, k)))
<1> DEFINE a == After(q, k)
<1>1. /\ Len(q) \in Nat
      /\ DOMAIN q = 1..Len(q)
      /\ DOMAIN a = 1..(Len(q) - k)
      /\ \A i \in DOMAIN a : a[i] = q[i + k] /\ i + k \in DOMAIN q /\ 1 < i + k
  <2>1. a \in Seq(S) /\ Len(a) = Len(q) - k
    BY AfterProperties
  <2>2. DOMAIN a = 1..(Len(q) - k) /\ DOMAIN q = 1..Len(q) /\ Len(q) \in Nat
    BY <2>1, LenProperties
  <2>3. \A i \in 1..(Len(q) - k) : a[i] = q[i + k]
    BY AfterProperties
  <2>4. QED
    BY <2>2, <2>3
<1> HIDE DEF a
<1>2. CallsOf(a) \subseteq CallsOf(q)
  BY <1>1 DEF CallsOf
<1>3. Ordered(a)
  <2> SUFFICES ASSUME NEW i \in DOMAIN a, NEW j \in DOMAIN a, i < j
               PROVE  a[i].call < a[j].call
    BY DEF Ordered
  <2>1. i + k \in DOMAIN q /\ j + k \in DOMAIN q /\ i + k < j + k
    BY <1>1
  <2>2. QED
    BY <1>1, <2>1 DEF Ordered
<1>4. 1 \in DOMAIN q
  BY <1>1
<1>5. Before({q[1].call}, CallsOf(a))
  BY <1>1, <1>4 DEF Before, CallsOf, Ordered
<1>6. QED
  BY <1>2, <1>3, <1>4, <1>5 DEF a, CallsOf

-----------------------------------------------------------------------------
(* The invariant.                                                          *)

\* What IInv says beyond the types.
Order == InOrder /\ Used /\ AnswersInOrder /\ InStep /\ OwnAnswer

LEMMA InitIInv == Init => IInv
<1> SUFFICES ASSUME Init PROVE IInv
  OBVIOUS
<1>1. TypeOK
  BY InitTypeOK
<1>2. OnTheWay = {} /\ JobCalls = {} /\ Ordered(reqs) /\ Ordered(resps)
  BY EmptyQueue DEF Init, OnTheWay, JobCalls
<1>3. QED
  BY <1>1, <1>2 DEF Init, IInv, InOrder, Used, AnswersInOrder, InStep,
     OwnAnswer, Before, OnTheWay

\* A step that adds nothing to what is on its way, and moves nothing there.
LEMMA Shrinking ==
    ASSUME IInv,
           UNCHANGED <<calls, returned, late>>,
           Ordered(reqs)', Ordered(resps)',
           CallsOf(reqs)' \subseteq CallsOf(reqs),
           CallsOf(resps)' \subseteq CallsOf(resps),
           JobCalls' \subseteq JobCalls,
           spc' = "replying" => reply'.call = job'.call,
           spc' = "gone" => reqs' = <<>>,
           cpc' = cpc \/ (cpc' # "waiting" /\ (late = {} => OnTheWay' = {}))
    PROVE  Order'
<1>1. OnTheWay' \subseteq OnTheWay
  BY DEF OnTheWay
<1>2. InOrder'
  BY <1>1 DEF IInv, InOrder, Before
<1>3. Used'
  BY <1>1 DEF IInv, Used, Before
<1>4. AnswersInOrder' /\ OwnAnswer'
  BY DEF IInv, AnswersInOrder, OwnAnswer
<1>5. InStep'
  BY <1>1 DEF IInv, InStep
<1>6. QED
  BY <1>2, <1>3, <1>4, <1>5 DEF Order

LEMMA CallOrder ==
    ASSUME IInv, NEW req \in Menu, ClientCall(req)
    PROVE  Order'
<1> USE DEF ClientCall, serviceVars
<1>1. /\ calls \in Nat /\ calls' = calls + 1
      /\ reqs \in Seq(Query)
      /\ cpc = "idle"
  BY DEF IInv, TypeOK
<1>2. late = {} => OnTheWay = {}
  BY <1>1 DEF IInv, InStep
<1>3. UNCHANGED <<JobCalls, resps, late, returned, spc, reply, job>>
  BY DEF JobCalls
<1>4. CASE UNCHANGED <<cpc, reqs>>
  <2>1. UNCHANGED OnTheWay
    BY <1>3, <1>4 DEF OnTheWay
  <2>2. InOrder'
    BY <1>1, <1>3, <1>4, <2>1 DEF IInv, InOrder
  <2>3. Used'
    BY <1>1, <1>3, <1>4, <2>1 DEF IInv, Used
  <2>4. AnswersInOrder' /\ OwnAnswer'
    BY <1>3 DEF IInv, AnswersInOrder, OwnAnswer
  <2>5. InStep'
    BY <1>2, <1>3, <2>1 DEF InStep
  <2>6. QED
    BY <2>2, <2>3, <2>4, <2>5 DEF Order
<1>5. CASE /\ spc # "gone"
           /\ reqs' = Append(reqs, RequestMsg(calls', req, gob.reqSent))
           /\ cpc' = "waiting"
  <2> DEFINE msg == RequestMsg(calls', req, gob.reqSent)
  <2>1. msg \in Query /\ msg.call = calls'
    <3>1. calls' \in Nat
      BY <1>1
    <3>2. msg \in Query
      BY <3>1, MessageTypes
    <3>3. QED
      BY <3>2 DEF RequestMsg
  <2> HIDE DEF msg
  <2>2. \A c \in OnTheWay : c \in 1..calls /\ c < calls'
    BY <1>1 DEF IInv, InOrder
  <2>3. CallsOf(reqs)' = CallsOf(reqs) \union {calls'}
    <3> HIDE DEF ClientCall, serviceVars
    <3>1. CallsOf(Append(reqs, msg)) = CallsOf(reqs) \union {msg.call}
      BY <1>1, <2>1, AppendToQueue
    <3>2. QED
      BY <1>5, <2>1, <3>1 DEF msg
  <2>4. OnTheWay' = OnTheWay \union {calls'}
    BY <1>3, <2>3 DEF OnTheWay
  <2>5. Ordered(reqs)'
    <3>1. Before(CallsOf(reqs), {msg.call}) /\ Ordered(reqs)
      BY <2>1, <2>2 DEF Before, OnTheWay, IInv, InOrder
    <3>2. Ordered(Append(reqs, msg))
      BY <1>1, <2>1, <3>1, AppendToQueue
    <3>3. QED
      BY <1>5, <3>2 DEF msg
  <2>6. InOrder'
    <3>1. Before(CallsOf(resps)', JobCalls') /\ Ordered(resps)'
      BY <1>3 DEF IInv, InOrder
    <3>2. Before(CallsOf(resps)', CallsOf(reqs)')
      BY <1>3, <2>2, <2>3 DEF IInv, InOrder, Before, OnTheWay
    <3>3. Before(JobCalls', CallsOf(reqs)')
      BY <1>3, <2>2, <2>3 DEF IInv, InOrder, Before, OnTheWay
    <3>4. OnTheWay' \subseteq 1..calls'
      BY <1>1, <2>2, <2>4
    <3>5. QED
      BY <1>3, <1>5, <2>5, <3>1, <3>2, <3>3, <3>4 DEF IInv, InOrder
  <2>7. Used'
    <3> SUFFICES ASSUME NEW r \in returned
                 PROVE  /\ r.call \in 1..calls'
                        /\ r.from \in 1..calls'
                        /\ r.call < calls'
                        /\ Before({r.from}, OnTheWay')
      BY <1>3, <1>5 DEF Used
    <3>1. r.call \in 1..calls /\ r.from \in 1..calls /\ Before({r.from}, OnTheWay)
      BY DEF IInv, Used
    <3>2. QED
      BY <1>1, <2>4, <3>1 DEF Before
  <2>8. AnswersInOrder' /\ OwnAnswer'
    BY <1>3 DEF IInv, AnswersInOrder, OwnAnswer
  <2>9. InStep'
    BY <1>2, <1>3, <1>5, <2>4 DEF InStep
  <2>10. QED
    BY <2>6, <2>7, <2>8, <2>9 DEF Order
<1>6. QED
  BY <1>4, <1>5

LEMMA ReceiveOrder ==
    ASSUME IInv, ClientReceive
    PROVE  Order'
<1>1. PICK k \in 1..Len(resps) :
        /\ resps' = After(resps, k)
        /\ \/ UNCHANGED returned
           \/ returned' = returned \union
                 {[call |-> calls, from |-> resps[1].call,
                   fds |-> Received(resps[k].fds), inband |-> resps[1].inband]}
  BY DEF ClientReceive
<1>2. /\ cpc = "waiting" /\ cpc' = "idle"
      /\ UNCHANGED <<calls, late, reqs, spc, job, reply, JobCalls>>
  BY DEF ClientReceive, serviceVars, JobCalls
<1>3. /\ calls \in Nat
      /\ resps \in Seq(Answer)
      /\ Ordered(resps)
  BY DEF IInv, TypeOK, InOrder
<1> DEFINE d == resps[1].call
<1>4. /\ CallsOf(resps)' \subseteq CallsOf(resps)
      /\ Ordered(resps)'
      /\ d \in CallsOf(resps)
      /\ Before({d}, CallsOf(resps)')
  BY <1>1, <1>3, ReadFromQueue
<1> HIDE DEF d
<1>5. d \in OnTheWay /\ d \in 1..calls
  BY <1>4 DEF OnTheWay, IInv, InOrder
<1>6. OnTheWay' \subseteq OnTheWay /\ Before({d}, OnTheWay')
  BY <1>2, <1>4 DEF OnTheWay, IInv, InOrder, Before
<1>7. InOrder'
  BY <1>2, <1>4, <1>6 DEF IInv, InOrder, Before
<1>8. late = {} => OnTheWay' = {} /\ d = calls
  <2> SUFFICES ASSUME late = {} PROVE OnTheWay' = {} /\ d = calls
    OBVIOUS
  <2>1. \A c \in OnTheWay : c = calls
    BY DEF IInv, InStep
  <2>2. QED
    BY <1>3, <1>5, <1>6, <2>1 DEF Before
<1>9. InStep'
  BY <1>2, <1>8 DEF InStep
<1>10. \A r \in returned' :
         \/ r \in returned
         \/ r.call = calls /\ r.from = d
  BY <1>1 DEF d
<1>11. \A r \in returned :
         /\ r.call \in 1..calls /\ r.call < calls
         /\ r.from \in 1..calls /\ r.from < d
         /\ Before({r.from}, OnTheWay')
  BY <1>2, <1>5, <1>6 DEF IInv, Used, Before
<1>12. Used'
  <2> SUFFICES ASSUME NEW r \in returned'
               PROVE  /\ r.call \in 1..calls
                      /\ r.from \in 1..calls
                      /\ Before({r.from}, OnTheWay')
    BY <1>2 DEF Used
  <2>1. CASE r \in returned
    BY <1>11, <2>1
  <2>2. CASE r.call = calls /\ r.from = d
    BY <1>3, <1>5, <1>6, <2>2
  <2>3. QED
    BY <1>10, <2>1, <2>2
<1>13. AnswersInOrder'
  <2>1. ASSUME NEW r \in returned'
        PROVE  r.from <= r.call
    <3>1. CASE r \in returned
      BY <3>1 DEF IInv, AnswersInOrder
    <3>2. CASE r.call = calls /\ r.from = d
      BY <1>3, <1>5, <3>2
    <3>3. QED
      BY <1>10, <3>1, <3>2
  <2>2. ASSUME NEW r \in returned', NEW s \in returned', r.call < s.call
        PROVE  r.from < s.from
    <3>1. r \in returned
      <4>1. s.call \in 1..calls
        <5>1. calls \in 1..calls
          BY <1>3, <1>5
        <5>2. CASE s \in returned
          BY <1>11, <5>2
        <5>3. CASE s.call = calls /\ s.from = d
          BY <5>1, <5>3
        <5>4. QED
          BY <1>10, <5>2, <5>3
      <4>2. ~(r.call = calls)
        BY <1>3, <2>2, <4>1
      <4>3. QED
        BY <1>10, <4>2
    <3>2. CASE s \in returned
      BY <2>2, <3>1, <3>2 DEF IInv, AnswersInOrder
    <3>3. CASE s.call = calls /\ s.from = d
      BY <1>11, <3>1, <3>3
    <3>4. QED
      BY <1>10, <3>2, <3>3
  <2>3. QED
    BY <2>1, <2>2 DEF AnswersInOrder
<1>14. OwnAnswer'
  BY <1>2, <1>8, <1>10 DEF IInv, OwnAnswer
<1>15. QED
  BY <1>7, <1>9, <1>12, <1>13, <1>14 DEF Order

LEMMA ServeReceiveOrder ==
    ASSUME IInv, ServeReceive
    PROVE  Order'
<1>1. /\ reqs \in Seq(Query) /\ reqs # <<>> /\ reqs' = <<>>
      /\ spc = "reading"
      /\ UNCHANGED <<calls, cpc, late, returned, resps, reply>>
  BY DEF ServeReceive, clientVars, IInv, TypeOK
<1>2. \/ spc' = "serving" /\ job'.call = reqs[1].call
      \/ spc' = "returned"
  BY DEF ServeReceive
<1> DEFINE d == reqs[1].call
<1>3. d \in CallsOf(reqs) /\ JobCalls = {}
  BY <1>1, HeadInSeq DEF CallsOf, JobCalls
<1>4. CallsOf(reqs)' = {} /\ Ordered(reqs)'
  BY <1>1, EmptyQueue
<1>5. JobCalls' \subseteq {d}
  BY <1>2 DEF JobCalls
<1> HIDE DEF d
<1>6. UNCHANGED <<CallsOf(resps), Ordered(resps)>>
  BY <1>1
<1>7. OnTheWay' \subseteq OnTheWay
  BY <1>3, <1>4, <1>5, <1>6 DEF OnTheWay
<1>8. InOrder'
  <2>1. /\ Before(CallsOf(resps)', JobCalls')
        /\ Before(CallsOf(resps)', CallsOf(reqs)')
        /\ Before(JobCalls', CallsOf(reqs)')
    BY <1>3, <1>4, <1>5, <1>6 DEF IInv, InOrder, Before
  <2>2. QED
    BY <1>1, <1>2, <1>4, <1>6, <1>7, <2>1 DEF IInv, InOrder
<1>9. Used' /\ AnswersInOrder' /\ OwnAnswer' /\ InStep'
  BY <1>1, <1>7 DEF IInv, Used, AnswersInOrder, OwnAnswer, InStep, Before
<1>10. QED
  BY <1>8, <1>9 DEF Order

LEMMA ServeSendOrder ==
    ASSUME IInv, ServeSend
    PROVE  Order'
<1>1. /\ resps \in Seq(Answer)
      /\ reply \in Answer
      /\ reply.call = job.call
      /\ JobCalls = {job.call}
      /\ UNCHANGED <<calls, cpc, late, returned, reqs>>
  BY DEF ServeSend, clientVars, IInv, TypeOK, InOrder, JobCalls
<1>2. JobCalls' = {} /\ spc' \in {"releasing", "failing"}
  BY DEF ServeSend, JobCalls
<1>3. CASE UNCHANGED resps
  <2>1. UNCHANGED <<CallsOf(reqs), CallsOf(resps), Ordered(reqs), Ordered(resps)>>
    BY <1>1, <1>3
  <2>2. Ordered(reqs)' /\ Ordered(resps)'
    BY <2>1 DEF IInv, InOrder
  <2>3. QED
    BY <1>1, <1>2, <2>1, <2>2, Shrinking
<1>4. CASE resps' = Append(resps, reply)
  <2>1. CallsOf(resps)' = CallsOf(resps) \union JobCalls
    <3>1. CallsOf(Append(resps, reply)) = CallsOf(resps) \union {reply.call}
      <4>1. resps \in Seq(Answer) /\ reply \in Answer
        BY <1>1
      <4>2. QED
        BY <4>1, AppendToQueue
    <3>2. CallsOf(resps)' = CallsOf(Append(resps, reply))
      BY <1>4
    <3>3. {reply.call} = JobCalls
      BY <1>1
    <3>4. QED
      BY <3>1, <3>2, <3>3
  <2>2. Ordered(resps)'
    <3>1. resps \in Seq(Answer) /\ reply \in Answer
      BY <1>1
    <3>2. Ordered(resps) /\ Before(CallsOf(resps), {reply.call})
      BY <1>1 DEF IInv, InOrder
    <3>3. Ordered(Append(resps, reply))
      BY <3>1, <3>2, AppendToQueue
    <3>4. QED
      BY <1>4, <3>3
  <2>3. UNCHANGED <<CallsOf(reqs), Ordered(reqs), OnTheWay>>
    BY <1>1, <1>2, <2>1 DEF OnTheWay
  <2>4. InOrder'
    <3>1. /\ Before(CallsOf(resps)', JobCalls')
          /\ Before(CallsOf(resps)', CallsOf(reqs)')
          /\ Before(JobCalls', CallsOf(reqs)')
      BY <1>2, <2>1, <2>3 DEF IInv, InOrder, Before
    <3>2. QED
      BY <1>1, <1>2, <2>2, <2>3, <3>1 DEF IInv, InOrder
  <2>5. Used' /\ AnswersInOrder' /\ OwnAnswer' /\ InStep'
    BY <1>1, <2>3 DEF IInv, Used, AnswersInOrder, OwnAnswer, InStep
  <2>6. QED
    BY <2>4, <2>5 DEF Order
<1>5. QED
  BY <1>3, <1>4 DEF ServeSend

\* Each step preserves the invariant.
LEMMA NextIInv == IInv /\ [Next]_vars => IInv'
<1> SUFFICES ASSUME IInv, [Next]_vars PROVE IInv'
  OBVIOUS
<1> USE DEF clientVars, serviceVars
<1>1. TypeOK'
  BY NextTypeOK DEF IInv
<1>2. SUFFICES Order'
  BY <1>1 DEF Order, IInv
<1>3. Ordered(reqs) /\ Ordered(resps) /\ (spc = "gone" => reqs = <<>>)
  BY DEF IInv, InOrder
<1>4. ASSUME UNCHANGED <<calls, cpc, late, returned, reqs, resps>>,
             JobCalls' \subseteq JobCalls,
             spc' = "replying" => reply'.call = job'.call,
             spc' # "gone"
      PROVE  Order'
  BY <1>3, <1>4, Shrinking
<1>5. ASSUME NEW req \in Menu, ClientCall(req) PROVE Order'
  BY <1>5, CallOrder
<1>6. CASE ClientTimeout
  <2>1. /\ UNCHANGED <<calls, returned, reqs, resps, spc, job, reply>>
        /\ UNCHANGED <<JobCalls, OnTheWay>>
        /\ late' # {} /\ cpc' = "idle"
    BY <1>6 DEF ClientTimeout, JobCalls, OnTheWay
  <2>2. InOrder'
    BY <2>1 DEF IInv, InOrder
  <2>3. Used' /\ AnswersInOrder' /\ OwnAnswer' /\ InStep'
    BY <2>1 DEF IInv, Used, AnswersInOrder, OwnAnswer, InStep
  <2>4. QED
    BY <2>2, <2>3 DEF Order
<1>7. CASE ClientDisconnected
  <2>1. OnTheWay' = {}
    BY <1>3, <1>7, EmptyQueue DEF ClientDisconnected, OnTheWay, JobCalls
  <2>2. JobCalls' \subseteq JobCalls
    BY <1>7 DEF ClientDisconnected, JobCalls
  <2>3. QED
    BY <1>3, <1>7, <2>1, <2>2, Shrinking DEF ClientDisconnected
<1>8. CASE ClientReceive
  BY <1>8, ReceiveOrder
<1>9. CASE ClientClose
  <2>1. JobCalls' \subseteq JobCalls /\ CallsOf(resps)' = {} /\ Ordered(resps)'
    BY <1>9, EmptyQueue DEF ClientClose, JobCalls
  <2>2. UNCHANGED <<CallsOf(reqs), Ordered(reqs), calls, late, returned, reqs,
                    spc, job, reply>>
    BY <1>9 DEF ClientClose
  <2>3. late = {} => OnTheWay = {}
    BY <1>9 DEF ClientClose, IInv, InStep
  <2>4. late = {} => OnTheWay' = {}
    BY <2>1, <2>2, <2>3 DEF OnTheWay
  <2>5. spc = "replying" => reply.call = job.call
    BY DEF IInv, InOrder
  <2>6. QED
    BY <1>3, <1>9, <2>1, <2>2, <2>4, <2>5, Shrinking DEF ClientClose
<1>10. CASE CancelContext
  <2>1. UNCHANGED <<JobCalls, OnTheWay>>
    BY <1>10 DEF CancelContext, JobCalls, OnTheWay
  <2>2. QED
    BY <1>10, <2>1 DEF CancelContext, IInv, Order, InOrder, Used,
       AnswersInOrder, InStep, OwnAnswer
<1>11. CASE ServePoll
  BY <1>4, <1>11 DEF ServePoll, JobCalls
<1>12. CASE ServeDeadline
  BY <1>4, <1>12 DEF ServeDeadline, JobCalls
<1>13. CASE ServeDisconnected
  BY <1>4, <1>13 DEF ServeDisconnected, JobCalls
<1>14. CASE ServeReceive
  BY <1>14, ServeReceiveOrder
<1>15. CASE ServeHandle
  <2>1. reply'.call = job'.call
    BY <1>15 DEF ServeHandle, ResponseMsg
  <2>2. QED
    BY <1>4, <1>15, <2>1 DEF ServeHandle, JobCalls
<1>16. CASE ServeSend
  BY <1>16, ServeSendOrder
<1>17. CASE ServeRelease
  BY <1>4, <1>17 DEF ServeRelease, JobCalls
<1>18. ASSUME UNCHANGED <<calls, cpc, late, returned, resps>>,
              spc' = "gone", reqs' = <<>>
       PROVE  Order'
  <2>1. JobCalls' = {} /\ CallsOf(reqs)' = {} /\ Ordered(reqs)'
    BY <1>18, EmptyQueue DEF JobCalls
  <2>2. QED
    BY <1>3, <1>18, <2>1, Shrinking
<1>19. CASE ServeClose
  BY <1>18, <1>19 DEF ServeClose
<1>20. CASE ServiceKilled
  BY <1>18, <1>20 DEF ServiceKilled
<1>21. CASE UNCHANGED vars
  <2>1. UNCHANGED <<JobCalls, OnTheWay>>
    BY <1>21 DEF vars, JobCalls, OnTheWay
  <2>2. QED
    BY <1>21, <2>1 DEF vars, IInv, Order, InOrder, Used, AnswersInOrder,
       InStep, OwnAnswer
<1>22. QED
  BY <1>5, <1>6, <1>7, <1>8, <1>9, <1>10, <1>11, <1>12, <1>13, <1>14, <1>15,
     <1>16, <1>17, <1>19, <1>20, <1>21 DEF Next, ClientNext, Serve

-----------------------------------------------------------------------------
(* The theorems.                                                           *)

\* The invariant holds: it states what is on its way between client and
\* service at any time, and is what the theorems below follow from.
THEOREM Invariance == Spec => []IInv
<1>1. Init => IInv
  BY InitIInv
<1>2. IInv /\ [Next]_vars => IInv'
  BY NextIInv
<1>3. QED
  BY <1>1, <1>2, PTL DEF Spec

\* Every variable keeps its type.
THEOREM TypeCorrect == Spec => []TypeOK
<1>1. IInv => TypeOK
  BY DEF IInv
<1>2. QED
  BY <1>1, Invariance, PTL

\* However many calls time out, and wherever the service is cancelled or
\* killed, responses are used in order and none of them twice.
THEOREM AnswersAreInOrder == Spec => []AnswersInOrder
<1>1. IInv => AnswersInOrder
  BY DEF IInv
<1>2. QED
  BY <1>1, Invariance, PTL

\* Until a call times out each successful call returns its own answer.
THEOREM AnswersAreOwn == Spec => []OwnAnswer
<1>1. IInv => OwnAnswer
  BY DEF IInv
<1>2. QED
  BY <1>1, Invariance, PTL

-----------------------------------------------------------------------------
(* The client implements its promise.                                      *)

LEMMA PromiseInit == Init => Promise!Init
  BY DEF Init, Promise!Init

\* A step that touches none of the variables the promise is about.
LEMMA PromiseStutter ==
    ASSUME UNCHANGED <<calls, cpc, late, returned>>
    PROVE  UNCHANGED Promise!vars
  BY DEF Promise!vars

LEMMA PromiseAnswer ==
    ASSUME IInv, ClientReceive
    PROVE  [Promise!Next]_Promise!vars
<1> DEFINE ans == {<<r.call, r.from>> : r \in returned}
           d == resps[1].call
<1>1. /\ cpc = "waiting" /\ cpc' = "idle"
      /\ UNCHANGED <<calls, late>>
      /\ calls \in Nat /\ calls # 0
  BY DEF ClientReceive, IInv, TypeOK
<1>2. CASE UNCHANGED returned
  <2>1. Promise!Fail
    BY <1>1, <1>2 DEF Promise!Fail
  <2>2. QED
    BY <2>1 DEF Promise!Next
<1>3. CASE \E fds, inband : returned' = returned \union
             {[call |-> calls, from |-> d, fds |-> fds, inband |-> inband]}
  <2>1. resps \in Seq(Answer) /\ resps # <<>>
    BY DEF ClientReceive, IInv, TypeOK
  <2>2. d \in CallsOf(resps)
    BY <2>1, HeadInSeq DEF CallsOf
  <2>3. d \in OnTheWay
    BY <2>2 DEF OnTheWay
  <2>4. d \in 1..calls
    BY <2>3 DEF IInv, InOrder
  <2>5. late = {} => d = calls
    BY <2>3 DEF IInv, InStep
  <2>6. \A r \in returned : r.from < d
    BY <2>3 DEF IInv, Used, Before
  <2> HIDE DEF d
  <2>7. \A a \in ans : a[2] < d
    BY <2>6
  <2>8. ans' = ans \union {<<calls, d>>}
    <3>1. PICK fds, inband : returned' = returned \union
             {[call |-> calls, from |-> d, fds |-> fds, inband |-> inband]}
      BY <1>3
    <3> DEFINE new == [call |-> calls, from |-> d, fds |-> fds, inband |-> inband]
    <3>2. returned' = returned \union {new} /\ new.call = calls /\ new.from = d
      BY <3>1
    <3> HIDE DEF new
    <3>3. QED
      BY <3>2 DEF ans
  <2> HIDE DEF ans
  <2>9. Promise!Answer(d)
    <3>1. (cpc = "closed")' = (cpc = "closed") /\ (late # {})' = (late # {})
      BY <1>1
    <3>2. (IF cpc = "waiting" THEN calls ELSE 0) = calls
      BY <1>1
    <3>3. (IF cpc = "waiting" THEN calls ELSE 0)' = 0
      BY <1>1
    <3>4. (~(late # {}) => d = calls) /\ calls' = calls
      BY <1>1, <2>5
    <3>5. {<<r.call, r.from>> : r \in returned}' = ans'
      BY DEF ans
    <3>6. {<<r.call, r.from>> : r \in returned} = ans
      BY DEF ans
    <3>7. QED
      BY <1>1, <2>4, <2>7, <2>8, <3>1, <3>2, <3>3, <3>4, <3>5, <3>6
         DEF Promise!Answer
  <2>10. \E e \in 1..calls : Promise!Answer(e)
    BY <2>4, <2>9 DEF Promise!Answer
  <2>11. QED
    BY <2>10 DEF Promise!Next
<1>4. QED
  BY <1>2, <1>3 DEF ClientReceive

LEMMA PromiseNext == IInv /\ [Next]_vars => [Promise!Next]_Promise!vars
<1> SUFFICES ASSUME IInv, [Next]_vars PROVE [Promise!Next]_Promise!vars
  OBVIOUS
<1> USE DEF clientVars, serviceVars
<1>1. calls \in Nat /\ (cpc = "waiting" => calls # 0)
  BY DEF IInv, TypeOK
<1>2. ASSUME UNCHANGED <<calls, cpc, late, returned>>
      PROVE  [Promise!Next]_Promise!vars
  BY <1>2, PromiseStutter
<1>3. ASSUME NEW req \in Menu, ClientCall(req) PROVE Promise!Begin
  BY <1>1, <1>3 DEF ClientCall, Promise!Begin
<1>4. CASE ClientTimeout
  <2>1. Promise!TimeOut
    BY <1>1, <1>4 DEF ClientTimeout, Promise!TimeOut
  <2>2. QED
    BY <2>1 DEF Promise!Next
<1>5. CASE ClientDisconnected
  <2>1. Promise!Fail
    BY <1>1, <1>5 DEF ClientDisconnected, Promise!Fail
  <2>2. QED
    BY <2>1 DEF Promise!Next
<1>6. CASE ClientReceive
  BY <1>6, PromiseAnswer
<1>7. CASE ClientClose
  <2>1. Promise!Close
    BY <1>1, <1>7 DEF ClientClose, Promise!Close
  <2>2. QED
    BY <2>1 DEF Promise!Next
<1>8. CASE CancelContext
  BY <1>2, <1>8 DEF CancelContext
<1>9. CASE Serve
  <2>1. UNCHANGED <<calls, cpc, late, returned>>
    BY <1>9 DEF Serve, ServePoll, ServeDeadline, ServeDisconnected,
       ServeReceive, ServeHandle, ServeSend, ServeRelease, ServeClose
  <2>2. QED
    BY <1>2, <2>1
<1>10. CASE ServiceKilled
  BY <1>2, <1>10 DEF ServiceKilled
<1>11. CASE UNCHANGED vars
  BY <1>2, <1>11 DEF vars
<1>12. QED
  BY <1>3, <1>4, <1>5, <1>6, <1>7, <1>8, <1>9, <1>10, <1>11
     DEF Next, ClientNext, Promise!Next

\* do and Serve together keep the promise of SpacerCalls: an answer is used
\* at most once, in order, and until a time-out for its own call only.
THEOREM PromiseKept == Spec => KeepsPromise
<1>1. Init => Promise!Init
  BY PromiseInit
<1>2. IInv /\ [Next]_vars => [Promise!Next]_Promise!vars
  BY PromiseNext
<1>3. QED
  BY <1>1, <1>2, Invariance, PTL DEF Spec, KeepsPromise, Promise!Spec
=============================================================================
