--------------------------- MODULE SpacerWireProofs ---------------------------
(***************************************************************************)
(* More proofs about SpacerRPC: what the messages contain, what becomes of *)
(* the descriptors, and that the gob streams stay in step until a call     *)
(* times out.                                                              *)
(***************************************************************************)
EXTENDS SpacerRPCProofs, FiniteSetTheorems

-----------------------------------------------------------------------------
(* The strengthened invariant.                                             *)

\* What the service has open is what the response being sent has, and what is
\* queued for a client that has closed its end is dropped.
Releases ==
    /\ svcFds = IF spc \in {"replying", "releasing", "failing"}
                THEN Tokens(reply.call, reply.fds) ELSE {}
    /\ cpc = "closed" => resps = <<>>
    /\ spc = "failing" => cpc = "closed"

\* An answer is an error, or has all that its call asked for.
TrueTo(answer) ==
    /\ answer.inband = answer.fds
    /\ \/ answer.kind = "error" /\ answer.fds = {}
       \/ /\ answer.kind = asked[answer.call].kind
          /\ answer.fds = OpenFields(asked[answer.call])

Faithful ==
    /\ \A i \in DOMAIN reqs : reqs[i].req = asked[reqs[i].call]
    /\ spc \in {"serving", "replying"} => job.req = asked[job.call]
    /\ spc = "replying" => TrueTo(reply)
    /\ \A i \in DOMAIN resps : TrueTo(resps[i])

\* Until a call times out, whatever is sent can be decoded: a type that the
\* reader does not know yet is defined in the message on its way.
ReqKinds == {reqs[i].req.kind : i \in DOMAIN reqs}
RespKinds == {resps[i].kind : i \in DOMAIN resps}

RequestsInStep == late = {} /\ spc # "gone" =>
    /\ \A i \in DOMAIN reqs : Decodable(gob.reqKnown, reqs[i].req.kind, reqs[i])
    /\ gob.reqSent \subseteq gob.reqKnown \union ReqKinds

ResponsesInStep ==
    /\ spc = "replying" => reply.defs \/ reply.kind \in gob.respSent
    /\ late = {} /\ cpc # "closed" =>
          /\ \A i \in DOMAIN resps : Decodable(gob.respKnown, resps[i].kind, resps[i])
          /\ gob.respSent \subseteq gob.respKnown \union RespKinds

JInv == /\ IInv /\ Releases /\ Faithful /\ RequestsInStep /\ ResponsesInStep
        /\ ServesUntilDisconnect /\ NoLeak

-----------------------------------------------------------------------------
(* Lemmas.                                                                 *)

\* Until a call times out there is at most one message on its way.
LEMMA OneAtATime ==
    ASSUME IInv, late = {}
    PROVE  /\ cpc # "waiting" => reqs = <<>> /\ resps = <<>>
           /\ cpc # "waiting" => spc \notin {"serving", "replying"}
           /\ reqs # <<>> => Len(reqs) = 1
           /\ resps # <<>> => Len(resps) = 1
           /\ \A i \in DOMAIN resps : resps[i].call = calls
           /\ spc \in {"serving", "replying"} => reqs = <<>> /\ resps = <<>>
<1>1. \A c \in OnTheWay : c = calls /\ cpc = "waiting"
  BY DEF IInv, InStep
<1>2. /\ reqs \in Seq(Query) /\ resps \in Seq(Answer)
      /\ DOMAIN reqs = 1..Len(reqs) /\ DOMAIN resps = 1..Len(resps)
      /\ Len(reqs) \in Nat /\ Len(resps) \in Nat
  BY LenProperties DEF IInv, TypeOK
<1>3. /\ \A i \in DOMAIN reqs : reqs[i].call \in OnTheWay
      /\ \A i \in DOMAIN resps : resps[i].call \in OnTheWay
      /\ spc \in {"serving", "replying"} => job.call \in OnTheWay
  BY DEF OnTheWay, CallsOf, JobCalls
<1>. calls \in Nat /\ ~(calls < calls) /\ Ordered(reqs) /\ Ordered(resps)
  BY DEF IInv, InOrder, TypeOK
<1>4. \A i, j \in DOMAIN reqs : ~(i < j)
  BY <1>1, <1>3 DEF Ordered
<1>5. \A i, j \in DOMAIN resps : ~(i < j)
  BY <1>1, <1>3 DEF Ordered
<1>6. (reqs # <<>> => Len(reqs) = 1) /\ (resps # <<>> => Len(resps) = 1)
  <2>1. reqs # <<>> => Len(reqs) # 0
    BY <1>2, EmptySeq
  <2>2. resps # <<>> => Len(resps) # 0
    BY <1>2, EmptySeq
  <2>3. Len(reqs) > 1 => 1 \in DOMAIN reqs /\ 2 \in DOMAIN reqs /\ 1 < 2
    BY <1>2
  <2>4. Len(resps) > 1 => 1 \in DOMAIN resps /\ 2 \in DOMAIN resps /\ 1 < 2
    BY <1>2
  <2>5. QED
    BY <1>2, <1>4, <1>5, <2>1, <2>2, <2>3, <2>4
<1>7. (reqs # <<>> => 1 \in DOMAIN reqs) /\ (resps # <<>> => 1 \in DOMAIN resps)
  BY <1>2, <1>6
<1>8. /\ cpc # "waiting" => reqs = <<>> /\ resps = <<>>
      /\ cpc # "waiting" => spc \notin {"serving", "replying"}
  BY <1>1, <1>3, <1>7
<1>9. ASSUME spc \in {"serving", "replying"} PROVE reqs = <<>> /\ resps = <<>>
  <2>1. job.call \in JobCalls /\ job.call = calls /\ calls \in Nat
    BY <1>1, <1>3, <1>9 DEF JobCalls, IInv, TypeOK
  <2>2. \A i \in DOMAIN reqs : job.call < reqs[i].call /\ reqs[i].call = calls
    BY <1>1, <1>3, <2>1 DEF IInv, InOrder, Before, CallsOf
  <2>3. \A i \in DOMAIN resps : resps[i].call < job.call /\ resps[i].call = calls
    BY <1>1, <1>3, <2>1 DEF IInv, InOrder, Before, CallsOf
  <2>4. QED
    BY <1>7, <2>1, <2>2, <2>3
<1>10. QED
  BY <1>1, <1>3, <1>6, <1>8, <1>9

\* Appending to a queue, and what is left of one.
LEMMA AppendElements ==
    ASSUME NEW S, NEW q \in Seq(S), NEW e \in S
    PROVE  \A i \in DOMAIN Append(q, e) :
              (i \in DOMAIN q /\ Append(q, e)[i] = q[i]) \/ Append(q, e)[i] = e
<1>1. DOMAIN Append(q, e) = 1..(Len(q) + 1) /\ DOMAIN q = 1..Len(q) /\ Len(q) \in Nat
  BY AppendProperties, LenProperties
<1>2. /\ \A i \in 1..Len(q) : Append(q, e)[i] = q[i]
      /\ Append(q, e)[Len(q) + 1] = e
  BY AppendProperties
<1>3. QED
  BY <1>1, <1>2

LEMMA AfterElements ==
    ASSUME NEW S, NEW q \in Seq(S), NEW k \in 1..Len(q)
    PROVE  \A i \in DOMAIN After(q, k) : \E j \in DOMAIN q : After(q, k)[i] = q[j]
<1>1. /\ After(q, k) \in Seq(S) /\ Len(After(q, k)) = Len(q) - k
      /\ \A i \in 1..(Len(q) - k) : After(q, k)[i] = q[i + k]
  BY AfterProperties
<1>2. DOMAIN After(q, k) = 1..(Len(q) - k) /\ DOMAIN q = 1..Len(q) /\ Len(q) \in Nat
  BY <1>1, LenProperties
<1>3. \A i \in 1..(Len(q) - k) : i + k \in DOMAIN q
  BY <1>2
<1>4. QED
  BY <1>1, <1>2, <1>3

\* A queue of one element has nothing left after a read.
LEMMA AfterOne ==
    ASSUME NEW S, NEW q \in Seq(S), Len(q) = 1, NEW k \in 1..Len(q)
    PROVE  k = 1 /\ After(q, k) = <<>>
<1>1. k = 1
  OBVIOUS
<1>2. After(q, k) \in Seq(S) /\ Len(After(q, k)) = Len(q) - k
  BY AfterProperties
<1>3. Len(After(q, k)) = 0
  BY <1>1, <1>2
<1>4. QED
  BY <1>1, <1>2, <1>3, EmptySeq

\* A further call does not change what the earlier ones have asked for.
LEMMA AskedBefore ==
    ASSUME TypeOK, NEW req \in Menu, ClientCall(req)
    PROVE  /\ \A c \in 1..calls : asked'[c] = asked[c]
           /\ asked'[calls'] = req
<1>1. asked \in Seq(Menu) /\ Len(asked) = calls /\ asked' = Append(asked, req)
      /\ calls' = calls + 1
  BY DEF TypeOK, ClientCall
<1>2. /\ \A c \in 1..Len(asked) : Append(asked, req)[c] = asked[c]
      /\ Append(asked, req)[Len(asked) + 1] = req
  BY <1>1, AppendProperties
<1>3. QED
  BY <1>1, <1>2

-----------------------------------------------------------------------------
(* The descriptors of the service.                                         *)

LEMMA InitReleases == Init => Releases
  BY DEF Init, Releases

LEMMA NextReleases == TypeOK /\ Releases /\ [Next]_vars => Releases'
<1> SUFFICES ASSUME TypeOK, Releases, [Next]_vars PROVE Releases'
  OBVIOUS
<1> USE DEF Releases, serviceVars, clientVars
<1>1. ASSUME NEW req \in Menu, ClientCall(req) PROVE Releases'
  BY <1>1 DEF ClientCall
<1>2. CASE ClientTimeout \/ ClientDisconnected \/ ClientClose \/ CancelContext
  BY <1>2 DEF ClientTimeout, ClientDisconnected, ClientClose, CancelContext
<1>3. CASE ClientReceive
  BY <1>3 DEF ClientReceive
<1>4. CASE ServePoll \/ ServeDeadline \/ ServeDisconnected \/ ServeClose
  BY <1>4 DEF ServePoll, ServeDeadline, ServeDisconnected, ServeClose
<1>5. CASE ServeReceive
  BY <1>5 DEF ServeReceive
<1>6. CASE ServeHandle
  BY <1>6 DEF ServeHandle, ResponseMsg
<1>7. CASE ServeSend
  BY <1>7 DEF ServeSend
<1>8. CASE ServeRelease
  BY <1>8 DEF ServeRelease
<1>9. CASE ServiceKilled
  BY <1>9 DEF ServiceKilled
<1>10. CASE UNCHANGED vars
  BY <1>10 DEF vars
<1>11. QED
  BY <1>1, <1>2, <1>3, <1>4, <1>5, <1>6, <1>7, <1>8, <1>9, <1>10 DEF Next, ClientNext, Serve

-----------------------------------------------------------------------------
(* The contents of messages.                                               *)

LEMMA InitFaithful == Init => Faithful
  BY DEF Init, Faithful

LEMMA NextFaithful == IInv /\ Faithful /\ [Next]_vars => Faithful'
<1> SUFFICES ASSUME IInv, Faithful, [Next]_vars PROVE Faithful'
  OBVIOUS
<1> USE DEF serviceVars, clientVars
<1>1. /\ reqs \in Seq(Query) /\ resps \in Seq(Answer)
      /\ TypeOK
  BY DEF IInv, TypeOK
<1>2. /\ \A i \in DOMAIN reqs : reqs[i].call \in 1..calls
      /\ \A i \in DOMAIN resps : resps[i].call \in 1..calls
      /\ spc \in {"serving", "replying"} => job.call \in 1..calls
      /\ spc = "replying" => reply.call \in 1..calls
  BY DEF IInv, InOrder, OnTheWay, CallsOf, JobCalls
<1>3. ASSUME NEW req \in Menu, ClientCall(req) PROVE Faithful'
  <2> DEFINE msg == RequestMsg(calls', req, gob.reqSent)
  <2>1. \A c \in 1..calls : asked'[c] = asked[c]
    BY <1>1, <1>3, AskedBefore
  <2>2. asked'[calls'] = req
    BY <1>1, <1>3, AskedBefore
  <2>3. calls' \in Nat /\ UNCHANGED <<resps, spc, job, reply>>
    BY <1>1, <1>3 DEF ClientCall, TypeOK
  <2>4. msg \in Query /\ msg.req = req /\ msg.call = calls'
    BY <2>3, MessageTypes DEF RequestMsg
  <2> HIDE DEF msg
  <2>5. reqs' = reqs \/ reqs' = Append(reqs, msg)
    BY <1>3 DEF ClientCall, msg
  <2>6. \A i \in DOMAIN reqs' : (i \in DOMAIN reqs /\ reqs'[i] = reqs[i]) \/ reqs'[i] = msg
    BY <1>1, <2>4, <2>5, AppendElements
  <2>7. \A i \in DOMAIN reqs' : reqs'[i].req = asked'[reqs'[i].call]
    BY <1>2, <2>1, <2>2, <2>4, <2>6 DEF Faithful
  <2>8. spc = "replying" => TrueTo(reply)'
    <3>1. spc = "replying" => TrueTo(reply) /\ reply.call \in 1..calls
      BY <1>2 DEF Faithful
    <3>2. QED
      BY <2>1, <2>3, <3>1 DEF TrueTo
  <2>9. \A i \in DOMAIN resps : TrueTo(resps[i])'
    <3>1. \A i \in DOMAIN resps : TrueTo(resps[i]) /\ resps[i].call \in 1..calls
      BY <1>2 DEF Faithful
    <3>2. QED
      BY <2>1, <2>3, <3>1 DEF TrueTo
  <2>10. QED
    BY <1>2, <2>1, <2>3, <2>7, <2>8, <2>9 DEF Faithful
<1>4. CASE ClientReceive
  <2>1. PICK k \in 1..Len(resps) : resps' = After(resps, k)
    BY <1>4 DEF ClientReceive
  <2>2. \A i \in DOMAIN resps' : \E j \in DOMAIN resps : resps'[i] = resps[j]
    BY <1>1, <2>1, AfterElements
  <2>3. QED
    BY <1>4, <2>2 DEF ClientReceive, Faithful, TrueTo
<1>5. CASE ClientTimeout \/ ClientDisconnected \/ CancelContext
  BY <1>5 DEF ClientTimeout, ClientDisconnected, CancelContext, Faithful, TrueTo
<1>6. CASE ClientClose
  BY <1>6 DEF ClientClose, Faithful, TrueTo
<1>7. CASE ServePoll \/ ServeDeadline \/ ServeDisconnected \/ ServeClose
  BY <1>7 DEF ServePoll, ServeDeadline, ServeDisconnected, ServeClose, Faithful, TrueTo
<1>8. CASE ServeReceive
  <2>1. 1 \in DOMAIN reqs
    BY <1>1, <1>8, HeadInSeq DEF ServeReceive
  <2>2. QED
    BY <1>8, <2>1 DEF ServeReceive, Faithful, TrueTo
<1>9. CASE ServeHandle
  <2>1. job.req = asked[job.call] /\ UNCHANGED <<asked, reqs, resps, job>>
    BY <1>9 DEF ServeHandle, Faithful
  <2>2. TrueTo(reply)'
    BY <1>9, <2>1 DEF ServeHandle, TrueTo, ResponseMsg, InBand
  <2>3. QED
    BY <1>9, <2>1, <2>2 DEF ServeHandle, Faithful, TrueTo
<1>10. CASE ServeSend
  <2>1. reply \in Answer /\ TrueTo(reply) /\ TrueTo(reply)'
    BY <1>1, <1>10 DEF ServeSend, TypeOK, Faithful, TrueTo
  <2>2. resps' = resps \/ resps' = Append(resps, reply)
    BY <1>10 DEF ServeSend
  <2>3. \A i \in DOMAIN resps' : \/ i \in DOMAIN resps /\ resps'[i] = resps[i]
                                 \/ resps'[i] = reply
    BY <1>1, <2>1, <2>2, AppendElements
  <2>4. QED
    BY <1>10, <2>1, <2>3 DEF ServeSend, Faithful, TrueTo
<1>11. CASE ServeRelease
  BY <1>11 DEF ServeRelease, Faithful, TrueTo
<1>12. CASE ServiceKilled
  BY <1>12 DEF ServiceKilled, Faithful, TrueTo
<1>13. CASE UNCHANGED vars
  BY <1>13 DEF vars, Faithful, TrueTo
<1>14. QED
  BY <1>3, <1>4, <1>5, <1>6, <1>7, <1>8, <1>9, <1>10, <1>11, <1>12, <1>13
     DEF Next, ClientNext, Serve

-----------------------------------------------------------------------------
(* The gob streams.                                                        *)

Streams == RequestsInStep /\ ResponsesInStep /\ ServesUntilDisconnect

LEMMA InitStreams == Init => Streams
  BY DEF Init, Streams, RequestsInStep, ResponsesInStep, ServesUntilDisconnect

LEMMA CallStreams ==
    ASSUME IInv, Streams, NEW req \in Menu, ClientCall(req)
    PROVE  Streams'
<1> DEFINE msg == RequestMsg(calls', req, gob.reqSent)
<1>1. /\ UNCHANGED <<late, resps, spc, job, reply, ctxDone>>
      /\ gob \in GobState /\ gob' = [gob EXCEPT !.reqSent = @ \union {req.kind}]
      /\ cpc = "idle" /\ cpc' # "closed"
      /\ spc # "gone" => reqs' = Append(reqs, msg)
  BY DEF ClientCall, serviceVars, IInv, TypeOK
<1>2. /\ gob'.reqSent = gob.reqSent \union {req.kind} /\ gob'.reqKnown = gob.reqKnown
      /\ gob'.respSent = gob.respSent /\ gob'.respKnown = gob.respKnown
  BY <1>1 DEF GobState
<1>3. ResponsesInStep'
  BY <1>1, <1>2 DEF Streams, ResponsesInStep, RespKinds, Decodable
<1>4. ServesUntilDisconnect'
  BY <1>1 DEF Streams, ServesUntilDisconnect
<1>5. ASSUME late = {}, spc # "gone"
      PROVE  /\ \A i \in DOMAIN reqs' : Decodable(gob'.reqKnown, reqs'[i].req.kind, reqs'[i])
             /\ gob'.reqSent \subseteq gob'.reqKnown \union ReqKinds'
  <2>1. reqs = <<>>
    BY <1>1, <1>5, OneAtATime
  <2>2. gob.reqSent \subseteq gob.reqKnown
    BY <1>5, <2>1 DEF Streams, RequestsInStep, ReqKinds
  <2>3. msg.req = req /\ msg.defs = (req.kind \notin gob.reqSent)
    BY DEF RequestMsg
  <2>4. DOMAIN reqs' = {1} /\ reqs'[1] = msg
    BY <1>1, <1>5, <2>1
  <2> HIDE DEF msg
  <2>5. QED
    BY <1>2, <2>2, <2>3, <2>4 DEF ReqKinds, Decodable
<1>6. RequestsInStep'
  BY <1>1, <1>5 DEF RequestsInStep
<1>7. QED
  BY <1>3, <1>4, <1>6 DEF Streams

LEMMA ReceiveStreams ==
    ASSUME IInv, Streams, ClientReceive
    PROVE  Streams'
<1>1. PICK k \in 1..Len(resps) :
        /\ resps' = After(resps, k)
        /\ gob' = [gob EXCEPT !.respKnown =
                     IF Decodable(@, resps[1].kind, resps[1])
                     THEN @ \union {resps[1].kind} ELSE @]
  BY DEF ClientReceive
<1>2. /\ UNCHANGED <<late, reqs, spc, reply, ctxDone>>
      /\ gob \in GobState /\ resps \in Seq(Answer) /\ resps # <<>>
      /\ cpc = "waiting" /\ cpc' = "idle"
  BY DEF ClientReceive, serviceVars, IInv, TypeOK
<1>3. /\ gob'.reqSent = gob.reqSent /\ gob'.reqKnown = gob.reqKnown
      /\ gob'.respSent = gob.respSent
      /\ gob'.respKnown = IF Decodable(gob.respKnown, resps[1].kind, resps[1])
                          THEN gob.respKnown \union {resps[1].kind} ELSE gob.respKnown
  BY <1>1, <1>2 DEF GobState
<1>4. RequestsInStep' /\ ServesUntilDisconnect'
  BY <1>2, <1>3 DEF Streams, RequestsInStep, ReqKinds, ServesUntilDisconnect, Decodable
<1>5. ASSUME late = {}
      PROVE  resps' = <<>> /\ gob'.respSent \subseteq gob'.respKnown
  <2>1. Len(resps) = 1 /\ DOMAIN resps = 1..Len(resps)
    BY <1>2, <1>5, OneAtATime, LenProperties
  <2>2. resps' = <<>>
    BY <1>1, <1>2, <2>1, AfterOne
  <2>3. DOMAIN resps = {1}
    BY <2>1
  <2>4. /\ Decodable(gob.respKnown, resps[1].kind, resps[1])
        /\ gob.respSent \subseteq gob.respKnown \union {resps[1].kind}
    BY <1>2, <1>5, <2>3 DEF Streams, ResponsesInStep, RespKinds
  <2>5. QED
    BY <1>3, <2>2, <2>4
<1>6. ResponsesInStep'
  BY <1>2, <1>3, <1>5 DEF Streams, ResponsesInStep, RespKinds
<1>7. QED
  BY <1>4, <1>6 DEF Streams

LEMMA ServeReceiveStreams ==
    ASSUME IInv, Streams, ServeReceive
    PROVE  Streams'
<1>1. /\ UNCHANGED <<late, cpc, resps, reply, ctxDone>>
      /\ gob \in GobState /\ reqs \in Seq(Query) /\ reqs # <<>> /\ reqs' = <<>>
      /\ spc = "reading" /\ spc' \in {"serving", "returned"}
  BY DEF ServeReceive, clientVars, IInv, TypeOK
<1>2. /\ gob'.reqSent = gob.reqSent /\ gob'.respSent = gob.respSent
      /\ gob'.respKnown = gob.respKnown
  BY <1>1 DEF ServeReceive, GobState
<1>3. ResponsesInStep'
  BY <1>1, <1>2 DEF Streams, ResponsesInStep, RespKinds, Decodable
<1>4. ASSUME late = {}
      PROVE  spc' = "serving" /\ gob'.reqSent \subseteq gob'.reqKnown
  <2>1. Len(reqs) = 1 /\ DOMAIN reqs = 1..Len(reqs)
    BY <1>1, <1>4, OneAtATime, LenProperties
  <2>2. DOMAIN reqs = {1}
    BY <2>1
  <2>3. /\ Decodable(gob.reqKnown, reqs[1].req.kind, reqs[1])
        /\ gob.reqSent \subseteq gob.reqKnown \union {reqs[1].req.kind}
    BY <1>1, <1>4, <2>2 DEF Streams, RequestsInStep, ReqKinds
  <2>4. spc' = "serving" /\ gob'.reqKnown = gob.reqKnown \union {reqs[1].req.kind}
    BY <1>1, <2>3 DEF ServeReceive, GobState
  <2>5. QED
    BY <1>2, <2>3, <2>4
<1>5. RequestsInStep' /\ ServesUntilDisconnect'
  BY <1>1, <1>4 DEF RequestsInStep, ServesUntilDisconnect
<1>6. QED
  BY <1>3, <1>5 DEF Streams

LEMMA ServeSendStreams ==
    ASSUME IInv, Streams, ServeSend
    PROVE  Streams'
<1>1. /\ UNCHANGED <<late, cpc, reqs, reply, ctxDone>>
      /\ gob \in GobState /\ reply \in Answer
      /\ spc = "replying" /\ spc' \in {"releasing", "failing"}
      /\ cpc # "closed" => resps' = Append(resps, reply)
      /\ gob' = [gob EXCEPT !.respSent = @ \union {reply.kind}]
  BY DEF ServeSend, clientVars, IInv, TypeOK
<1>2. /\ gob'.reqSent = gob.reqSent /\ gob'.reqKnown = gob.reqKnown
      /\ gob'.respSent = gob.respSent \union {reply.kind}
      /\ gob'.respKnown = gob.respKnown
  BY <1>1 DEF GobState
<1>3. RequestsInStep' /\ ServesUntilDisconnect'
  BY <1>1, <1>2 DEF Streams, RequestsInStep, ReqKinds, ServesUntilDisconnect, Decodable
<1>4. ASSUME late = {}, cpc # "closed"
      PROVE  /\ \A i \in DOMAIN resps' : Decodable(gob'.respKnown, resps'[i].kind, resps'[i])
             /\ gob'.respSent \subseteq gob'.respKnown \union RespKinds'
  <2>1. resps = <<>>
    BY <1>1, <1>4, OneAtATime
  <2>2. gob.respSent \subseteq gob.respKnown /\ (reply.defs \/ reply.kind \in gob.respSent)
    BY <1>1, <1>4, <2>1 DEF Streams, ResponsesInStep, RespKinds
  <2>3. DOMAIN resps' = {1} /\ resps'[1] = reply
    BY <1>1, <1>4, <2>1
  <2>4. QED
    BY <1>2, <2>2, <2>3 DEF RespKinds, Decodable
<1>5. ResponsesInStep'
  BY <1>1, <1>4 DEF ResponsesInStep
<1>6. QED
  BY <1>3, <1>5 DEF Streams

LEMMA NextStreams == IInv /\ Releases /\ Streams /\ [Next]_vars => Streams'
<1> SUFFICES ASSUME IInv, Releases, Streams, [Next]_vars PROVE Streams'
  OBVIOUS
<1> USE DEF Streams, RequestsInStep, ResponsesInStep, ServesUntilDisconnect, ReqKinds, RespKinds,
            Decodable, serviceVars, clientVars
<1>1. CASE ClientTimeout
  BY <1>1 DEF ClientTimeout
<1>2. CASE ClientDisconnected \/ CancelContext
  BY <1>2 DEF ClientDisconnected, CancelContext
<1>3. CASE ClientClose
  BY <1>3 DEF ClientClose
<1>4. CASE ServePoll \/ ServeDeadline \/ ServeDisconnected
  BY <1>4 DEF ServePoll, ServeDeadline, ServeDisconnected
<1>5. CASE ServeClose \/ ServiceKilled
  BY <1>5 DEF ServeClose, ServiceKilled
<1>6. CASE ServeHandle
  <2>1. /\ UNCHANGED <<late, cpc, reqs, resps, ctxDone, gob>>
        /\ spc = "serving" /\ spc' = "replying"
        /\ reply'.defs = (reply'.kind \notin gob.respSent)
    BY <1>6 DEF ServeHandle, ResponseMsg
  <2>2. QED
    BY <2>1
<1>7. CASE ServeRelease
  BY <1>7 DEF ServeRelease, Releases
<1>8. CASE UNCHANGED vars
  BY <1>8 DEF vars
<1>9. QED
  BY <1>1, <1>2, <1>3, <1>4, <1>5, <1>6, <1>7, <1>8, CallStreams, ReceiveStreams,
     ServeReceiveStreams, ServeSendStreams DEF Next, ClientNext, Serve

-----------------------------------------------------------------------------
(* Descriptors that the client leaks.                                      *)

LEMMA NextNoLeak ==
    ASSUME IInv, Faithful, Streams, NoLeak, [Next]_vars
    PROVE  NoLeak'
<1>1. CASE ClientReceive
  <2> SUFFICES ASSUME late = {} PROVE \A t \in orphans' : t[1] \in halfway'
    BY <1>1 DEF ClientReceive, NoLeak
  <2>1. PICK k \in 1..Len(resps) :
          \/ /\ ~Usable(resps[1])
             /\ orphans' = orphans \union Tokens(resps[k].call, Received(resps[k].fds))
             /\ UNCHANGED halfway
          \/ UNCHANGED <<orphans, halfway>>
          \/ /\ halfway' = halfway \union {calls}
             /\ orphans' = orphans \union
                  Tokens(resps[k].call, Received(resps[k].fds) \ {"conn", "pidfd"})
    BY <1>1 DEF ClientReceive
  <2>2. /\ resps \in Seq(Answer) /\ resps # <<>> /\ cpc = "waiting"
    BY <1>1 DEF ClientReceive, IInv, TypeOK
  <2>3. Len(resps) = 1 /\ DOMAIN resps = 1..Len(resps)
    BY <2>2, OneAtATime, LenProperties
  <2>4. k = 1 /\ 1 \in DOMAIN resps
    BY <2>3
  <2>5. resps[1].call = calls
    BY <2>4, OneAtATime
  <2>6. ~Usable(resps[1]) => resps[1].fds = {}
    <3>1. Decodable(gob.respKnown, resps[1].kind, resps[1])
      BY <2>2, <2>4 DEF Streams, ResponsesInStep
    <3>2. TrueTo(resps[1])
      BY <2>4 DEF Faithful
    <3>3. QED
      BY <2>5, <3>1, <3>2 DEF Usable, TrueTo
  <2>7. Received({}) = {}
    BY DEF Received
  <2>8. CASE ~Usable(resps[1]) /\ orphans' = orphans \union Tokens(calls, {})
               /\ UNCHANGED halfway
    <3>1. orphans' = orphans
      BY <2>8 DEF Tokens
    <3>2. QED
      BY <2>8, <3>1 DEF NoLeak
  <2>9. CASE UNCHANGED <<orphans, halfway>>
    BY <2>9 DEF NoLeak
  <2>10. ASSUME NEW S, halfway' = halfway \union {calls}, orphans' = orphans \union Tokens(calls, S)
         PROVE  \A t \in orphans' : t[1] \in halfway'
    BY <2>10 DEF NoLeak, Tokens
  <2>11. QED
    BY <2>1, <2>4, <2>5, <2>6, <2>7, <2>8, <2>9, <2>10
<1>2. CASE UNCHANGED <<orphans, halfway>> /\ (late' = {} => late = {})
  BY <1>2 DEF NoLeak
<1>3. ASSUME NEW req \in Menu, ClientCall(req) PROVE NoLeak'
  BY <1>2, <1>3 DEF ClientCall
<1>4. CASE ClientTimeout \/ ClientDisconnected \/ ClientClose \/ CancelContext
  <2>1. UNCHANGED <<orphans, halfway>> /\ late \subseteq late'
    BY <1>4 DEF ClientTimeout, ClientDisconnected, ClientClose, CancelContext, clientVars
  <2>2. QED
    BY <1>2, <2>1
<1>5. CASE Serve \/ ServiceKilled \/ UNCHANGED vars
  <2>1. UNCHANGED <<orphans, halfway, late>>
    BY <1>5 DEF Serve, ServePoll, ServeDeadline, ServeDisconnected, ServeReceive, ServeHandle,
       ServeSend, ServeRelease, ServeClose, ServiceKilled, vars, clientVars
  <2>2. QED
    BY <1>2, <2>1
<1>6. QED
  BY <1>1, <1>3, <1>4, <1>5 DEF Next, ClientNext

\* What the messages and the service hold, and what is known of it.
THEOREM WireInvariance == Spec => []JInv
<1> DEFINE More == Releases /\ Faithful /\ Streams /\ NoLeak
<1>1. Init => More
  <2>1. Init => NoLeak
    BY DEF Init, NoLeak
  <2>2. QED
    BY <2>1, InitReleases, InitFaithful, InitStreams
<1>2. IInv /\ More /\ [Next]_vars => More'
  <2> SUFFICES ASSUME IInv, More, [Next]_vars PROVE More'
    OBVIOUS
  <2>1. Releases'
    BY NextReleases DEF IInv
  <2>2. Faithful' /\ Streams' /\ NoLeak'
    BY NextFaithful, NextStreams, NextNoLeak
  <2>3. QED
    BY <2>1, <2>2
<1>3. IInv /\ More => JInv
  BY DEF JInv, Streams
<1> HIDE DEF More
<1>4. QED
  BY <1>1, <1>2, <1>3, Invariance, PTL DEF Spec

\* Until a call times out, Serve does not return of its own accord: there is
\* no request it cannot decode, and no response it cannot send.
THEOREM ServesOn == Spec => []ServesUntilDisconnect
<1>1. JInv => ServesUntilDisconnect
  BY DEF JInv
<1>2. QED
  BY <1>1, WireInvariance, PTL

\* Until a call times out, what a client receives in vain carries nothing.
THEOREM NothingLeaks == Spec => []NoLeak
<1>1. JInv => NoLeak
  BY DEF JInv
<1>2. QED
  BY <1>1, WireInvariance, PTL

\* When both ends have been closed nothing is left of any response, whenever
\* and wherever the service was interrupted, and however many calls timed out.
THEOREM NothingOutlives == Spec => []NothingOutlivesConnection
<1>1. JInv => NothingOutlivesConnection
  BY DEF JInv, Releases, NothingOutlivesConnection
<1>2. QED
  BY <1>1, WireInvariance, PTL

-----------------------------------------------------------------------------
(* No call is lost.                                                        *)

LEMMA CallNotLost ==
    ASSUME IInv, NEW req \in Menu, ClientCall(req)
    PROVE  NoCallLost'
<1> SUFFICES ASSUME late = {}, spc # "gone"
             PROVE  reqs' # <<>> /\ reqs'[1].call = calls'
  BY DEF NoCallLost, ClientCall, serviceVars
<1> DEFINE msg == RequestMsg(calls', req, gob.reqSent)
<1>1. cpc # "waiting" /\ reqs' = Append(reqs, msg)
  BY DEF ClientCall
<1>2. reqs = <<>>
  BY <1>1, OneAtATime
<1>3. msg.call = calls'
  BY DEF RequestMsg
<1> HIDE DEF msg
<1>4. reqs' # <<>> /\ reqs'[1] = msg
  BY <1>1, <1>2
<1>5. QED
  BY <1>3, <1>4

LEMMA RequestNotLost ==
    ASSUME IInv, ServeReceive
    PROVE  NoCallLost'
<1> SUFFICES ASSUME cpc = "waiting", late = {}, spc' # "returned"
             PROVE  spc' \in {"serving", "replying"} /\ job'.call = calls'
  BY DEF NoCallLost, ServeReceive, clientVars
<1>1. /\ spc = "reading" /\ reqs # <<>> /\ UNCHANGED calls
      /\ spc' = "serving" /\ job' = [call |-> reqs[1].call, req |-> reqs[1].req]
  BY DEF ServeReceive, clientVars
<1>2. reqs[1].call = calls
  <2>1. reqs[1].call \in OnTheWay
    <3>1. /\ Len(reqs) = 1 /\ DOMAIN reqs = 1..Len(reqs)
      BY <1>1, OneAtATime, LenProperties DEF IInv, TypeOK
    <3>2. 1 \in DOMAIN reqs
      BY <3>1
    <3>3. QED
      BY <3>2 DEF OnTheWay, CallsOf
  <2>2. QED
    BY <2>1 DEF IInv, InStep
<1>3. QED
  BY <1>1, <1>2

LEMMA AnswerNotLost ==
    ASSUME IInv, NoCallLost, ServeSend
    PROVE  NoCallLost'
<1> SUFFICES ASSUME cpc = "waiting", late = {}
             PROVE  resps' # <<>> /\ resps'[1].call = calls'
  BY DEF NoCallLost, ServeSend, clientVars
<1>1. spc = "replying" /\ UNCHANGED calls /\ resps' = Append(resps, reply)
  BY DEF ServeSend, clientVars
<1>2. reqs = <<>> /\ resps = <<>>
  BY <1>1, OneAtATime
<1>3. job.call = calls
  BY <1>1, <1>2 DEF NoCallLost
<1>4. reply.call = job.call
  BY <1>1 DEF IInv, InOrder
<1>5. resps' # <<>> /\ resps'[1] = reply
  BY <1>1, <1>2
<1>6. QED
  BY <1>1, <1>3, <1>4, <1>5

LEMMA NextNoCallLost ==
    ASSUME IInv, NoCallLost, [Next]_vars
    PROVE  NoCallLost'
<1>1. CASE ClientTimeout \/ ClientDisconnected \/ ClientReceive \/ ClientClose
  <2>1. cpc' # "waiting"
    BY <1>1 DEF ClientTimeout, ClientDisconnected, ClientReceive, ClientClose
  <2>2. QED
    BY <2>1 DEF NoCallLost
<1>2. CASE ServePoll \/ ServeDeadline
  <2>1. /\ UNCHANGED <<clientVars, reqs, resps, job>>
        /\ spc \notin {"serving", "replying", "returned", "gone"}
    BY <1>2 DEF ServePoll, ServeDeadline
  <2>2. QED
    BY <2>1 DEF NoCallLost, clientVars
<1>3. CASE ServeDisconnected \/ ServeClose \/ ServiceKilled
  <2>1. spc' \in {"returned", "gone"}
    BY <1>3 DEF ServeDisconnected, ServeClose, ServiceKilled
  <2>2. QED
    BY <2>1 DEF NoCallLost
<1>4. CASE ServeHandle
  <2>1. /\ UNCHANGED <<clientVars, reqs, resps, job>>
        /\ spc = "serving" /\ spc' = "replying"
    BY <1>4 DEF ServeHandle
  <2>2. QED
    BY <2>1 DEF NoCallLost, clientVars
<1>5. CASE ServeRelease
  <2>1. /\ UNCHANGED <<clientVars, reqs, resps, job>>
        /\ spc \in {"releasing", "failing"}
        /\ spc = "failing" => spc' = "returned"
    BY <1>5 DEF ServeRelease
  <2>2. QED
    BY <2>1 DEF NoCallLost, clientVars
<1>6. CASE CancelContext \/ UNCHANGED vars
  <2>1. UNCHANGED <<clientVars, reqs, resps, spc, job>>
    BY <1>6 DEF CancelContext, vars, serviceVars
  <2>2. QED
    BY <2>1 DEF NoCallLost, clientVars
<1>7. QED
  BY <1>1, <1>2, <1>3, <1>4, <1>5, <1>6, CallNotLost, RequestNotLost, AnswerNotLost
     DEF Next, ClientNext, Serve

\* Until a call times out, the call that a client waits for is in one of three
\* hands, in the request queue, with the service or in the response queue: do
\* and Serve lose no call between them, whichever way a handler goes. (That it
\* is passed on in the end is CallsEnd, which needs fairness.)
THEOREM CallsAreInHand == Spec => []NoCallLost
<1>1. Init => NoCallLost
  BY DEF Init, NoCallLost
<1>2. QED
  BY <1>1, NextNoCallLost, Invariance, PTL DEF Spec

-----------------------------------------------------------------------------
(* Answers whose descriptors fit into the receive buffer.                  *)

Fits == \A req \in Menu : Cardinality(OpenFields(req)) <= FdCapacity

LEMMA ReceivedAll ==
    ASSUME NEW open \in SUBSET Fields, Cardinality(open) <= FdCapacity
    PROVE  Received(open) = open
<1>1. IsFiniteSet(open)
  <2>1. ASSUME NEW a, NEW b PROVE IsFiniteSet({a, b})
    <3>1. IsFiniteSet({a}) /\ IsFiniteSet({b})
      BY FS_Singleton
    <3>2. IsFiniteSet({a} \union {b})
      BY <3>1, FS_Union
    <3>3. {a, b} = {a} \union {b}
      OBVIOUS
    <3>4. QED
      BY <3>2, <3>3
  <2>2. ASSUME NEW a, NEW b, NEW c, NEW d PROVE IsFiniteSet({a, b, c, d})
    <3>1. IsFiniteSet({a, b} \union {c, d})
      BY <2>1, FS_Union
    <3>2. {a, b, c, d} = {a, b} \union {c, d}
      OBVIOUS
    <3>3. QED
      BY <3>1, <3>2
  <2>3. Fields = {"cgroup", "ipc"} \union {"mnt", "net", "time", "uts"}
                   \union {"conn", "pidfd", "user", "pid"}
    BY DEF Fields, RoomFields, SubspaceFields
  <2>4. IsFiniteSet(Fields)
    <3>1. IsFiniteSet({"cgroup", "ipc"} \union {"mnt", "net", "time", "uts"})
      BY <2>1, <2>2, FS_Union
    <3>2. QED
      BY <2>2, <2>3, <3>1, FS_Union
  <2>5. QED
    BY <2>4, FS_Subset
<1>2. FdCapacity \in Int
  <2>1. WordSize \in Nat /\ WordSize > 0 /\ MaxFds \in Nat
    BY WordSizeAssumption, MaxFdsAssumption
  <2>2. \A n \in Nat : CmsgAlign(n) \in Int
    BY <2>1 DEF CmsgAlign
  <2>3. SizeofCmsghdr \in Nat /\ 4 * MaxFds \in Nat
    BY <2>1 DEF SizeofCmsghdr
  <2>4. QED
    BY <2>2, <2>3 DEF FdCapacity, CmsgSpace
<1>3. ASSUME NEW f \in open
      PROVE  Cardinality({g \in open : Rank(g) <= Rank(f)}) <= FdCapacity
  <2> DEFINE S == {g \in open : Rank(g) <= Rank(f)}
  <2>1. S \subseteq open
    OBVIOUS
  <2> HIDE DEF S
  <2>2. /\ Cardinality(S) <= Cardinality(open)
        /\ Cardinality(S) \in Nat /\ Cardinality(open) \in Nat
    BY <1>1, <2>1, FS_Subset, FS_CardinalityType
  <2>3. Cardinality(S) <= FdCapacity
    BY <1>2, <2>2
  <2>4. QED
    BY <2>3 DEF S
<1>4. QED
  BY <1>3 DEF Received

\* Nothing of an answer is lost on the way.
LEMMA AnswersFit ==
    ASSUME Fits, IInv, Faithful, NEW i \in DOMAIN resps
    PROVE  Received(resps[i].fds) = resps[i].fds
<1>1. TrueTo(resps[i]) /\ resps[i].call \in 1..calls
  BY DEF Faithful, IInv, InOrder, OnTheWay, CallsOf
<1>2. asked[resps[i].call] \in Menu
  BY <1>1, ElementOfSeq DEF IInv, TypeOK
<1>3. Received({}) = {}
  BY DEF Received
<1>4. CASE resps[i].fds = OpenFields(asked[resps[i].call])
  BY <1>2, <1>4, RequestProperties, ReceivedAll DEF Fits
<1>5. QED
  BY <1>1, <1>3, <1>4 DEF TrueTo

Results == AsRequested /\ NoForeignFds

LEMMA ReceiveResults ==
    ASSUME Fits, IInv, Faithful, Results, ClientReceive
    PROVE  Results'
<1>1. PICK k \in 1..Len(resps) :
        /\ ReadTakes(resps, k)
        /\ \/ UNCHANGED returned
           \/ /\ Usable(resps[1])
              /\ returned' = returned \union
                   {[call |-> calls, from |-> resps[1].call,
                     fds |-> Received(resps[k].fds), inband |-> resps[1].inband]}
  BY DEF ClientReceive
<1>2. /\ resps \in Seq(Answer) /\ resps # <<>> /\ cpc = "waiting"
      /\ UNCHANGED <<asked, late>> /\ calls \in Nat /\ calls > 0
      /\ asked \in Seq(Menu) /\ Len(asked) = calls
      /\ DOMAIN resps = 1..Len(resps) /\ Len(resps) \in Nat
  BY LenProperties DEF ClientReceive, IInv, TypeOK
<1>3. 1 \in DOMAIN resps /\ k \in DOMAIN resps
  BY <1>2
<1>4. TrueTo(resps[1]) /\ Received(resps[k].fds) = resps[k].fds
  BY <1>3, AnswersFit DEF Faithful
<1>5. CASE UNCHANGED returned
  BY <1>2, <1>5 DEF Results, AsRequested, NoForeignFds
<1>6. ASSUME Usable(resps[1]),
             returned' = returned \union
                   {[call |-> calls, from |-> resps[1].call,
                     fds |-> resps[k].fds, inband |-> resps[1].inband]}
      PROVE  Results'
  <2>1. resps[1].inband \subseteq resps[k].fds
    <3>1. k # 1 => resps[1].fds = {}
      BY <1>1, <1>2 DEF ReadTakes
    <3>2. QED
      BY <1>4, <3>1 DEF TrueTo
  <2>2. NoForeignFds'
    BY <1>6, <2>1 DEF Results, NoForeignFds
  <2>3. ASSUME late = {} PROVE resps[k].fds = OpenFields(asked[calls])
    <3>1. Len(resps) = 1 /\ resps[1].call = calls
      BY <1>2, <1>3, <2>3, OneAtATime
    <3>2. k = 1
      BY <3>1
    <3>3. asked[calls] \in Menu
      BY <1>2, ElementOfSeq
    <3>4. asked[calls].kind # "error"
      BY <3>3, MenuAssumption DEF Requests
    <3>5. QED
      BY <1>4, <1>6, <3>1, <3>2, <3>4 DEF TrueTo, Usable
  <2>4. AsRequested'
    BY <1>2, <1>6, <2>3 DEF Results, AsRequested
  <2>5. QED
    BY <2>2, <2>4 DEF Results
<1>7. QED
  BY <1>1, <1>4, <1>5, <1>6

LEMMA NextResults ==
    ASSUME Fits, IInv, Faithful, Results, [Next]_vars
    PROVE  Results'
<1>1. CASE UNCHANGED <<returned, asked>> /\ late \subseteq late'
  BY <1>1 DEF Results, AsRequested, NoForeignFds
<1>2. ASSUME NEW req \in Menu, ClientCall(req) PROVE Results'
  <2>1. \A c \in 1..calls : asked'[c] = asked[c]
    BY <1>2, AskedBefore DEF IInv
  <2>2. \A r \in returned : r.call \in 1..calls
    BY DEF IInv, Used
  <2>3. QED
    BY <1>2, <2>1, <2>2 DEF ClientCall, Results, AsRequested, NoForeignFds
<1>3. CASE ClientTimeout \/ ClientDisconnected \/ ClientClose \/ CancelContext
  <2>1. UNCHANGED <<returned, asked>> /\ late \subseteq late'
    BY <1>3 DEF ClientTimeout, ClientDisconnected, ClientClose, CancelContext, clientVars
  <2>2. QED
    BY <1>1, <2>1
<1>4. CASE Serve \/ ServiceKilled \/ UNCHANGED vars
  <2>1. UNCHANGED <<returned, asked, late>>
    BY <1>4 DEF Serve, ServePoll, ServeDeadline, ServeDisconnected, ServeReceive, ServeHandle,
       ServeSend, ServeRelease, ServeClose, ServiceKilled, vars, clientVars
  <2>2. QED
    BY <1>1, <2>1
<1>5. QED
  BY <1>2, <1>3, <1>4, ReceiveResults DEF Next, ClientNext

\* What calls return when all answers fit into the receive buffer.
THEOREM ResultsInvariance ==
    ASSUME Fits
    PROVE  Spec => []Results
<1>1. Init => Results
  BY DEF Init, Results, AsRequested, NoForeignFds
<1>2. IInv /\ JInv /\ Results /\ [Next]_vars => Results'
  BY NextResults DEF JInv
<1>3. QED
  BY <1>1, <1>2, Invariance, WireInvariance, PTL DEF Spec

\* A call that asks for no more than fits into the receive buffer returns,
\* until a call times out, an open descriptor for everything it has asked for.
THEOREM AnswersAreComplete ==
    ASSUME Fits
    PROVE  Spec => []AsRequested
<1>1. Results => AsRequested
  BY DEF Results
<1>2. QED
  BY <1>1, ResultsInvariance, PTL

\* If answers fit into the receive buffer, no call ever returns a number of
\* the service's, however many calls have timed out.
THEOREM NumbersAreOwn ==
    ASSUME Fits
    PROVE  Spec => []NoForeignFds
<1>1. Results => NoForeignFds
  BY DEF Results
<1>2. QED
  BY <1>1, ResultsInvariance, PTL
=============================================================================
