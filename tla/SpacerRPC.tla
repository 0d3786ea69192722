------------------------------ MODULE SpacerRPC ------------------------------
(***************************************************************************)
(* One spacer client (Client.do and its callers) and the service it is     *)
(* connected to (service.Serve), over a stream unix domain socket.  The    *)
(* client makes one call at a time and may give up waiting; the service    *)
(* polls its context between reads.  A stream has no message boundaries: a *)
(* read returns everything queued up to and including the first message    *)
(* that carries file descriptors, and gobmsg.Decoder decodes the first of  *)
(* these messages only and forgets the others.                             *)
(*                                                                         *)
(* A file descriptor is a token <<call, field>>: the one that the service  *)
(* opened for that field of its answer to that call.                       *)
(***************************************************************************)
EXTENDS Wire

CONSTANTS
    Menu,           \* the requests the caller chooses from
    MaxCalls,       \* bound: calls made
    MaxTimeouts,    \* bound: calls the client gives up on after 5 seconds
    Cancellable,    \* may the context be cancelled (a service started by New)?
    Killable        \* may the service die (a process started by Subspace)?

ASSUME MenuAssumption == Menu \subseteq Requests
ASSUME BoundsAssumption == MaxCalls \in Nat /\ MaxTimeouts \in Nat
ASSUME KindAssumption == Cancellable \in BOOLEAN /\ Killable \in BOOLEAN

VARIABLES
    calls,      \* the number of calls made; also names the latest call
    cpc,        \* the client: "idle", "waiting" for an answer, or "closed"
    asked,      \* what each call asked for
    late,       \* the calls the client gave up on
    returned,   \* what the successful calls returned
    orphans,    \* fds the client received that nobody will ever close
    halfway,    \* Subspace calls that failed after having got their answer
    reqs,       \* requests in the service's receive queue
    resps,      \* responses in the client's receive queue
    spc,        \* the service: see ServicePCs
    job,        \* the request being served
    reply,      \* the response being sent
    svcFds,     \* open fds of the service that belong to a response
    ctxDone,    \* the context passed to Serve is done
    gob         \* the types whose definitions the two streams have carried

clientVars  == <<calls, cpc, asked, late, returned, orphans, halfway>>
serviceVars == <<spc, job, reply, svcFds>>
vars == <<clientVars, reqs, resps, serviceVars, ctxDone, gob>>

ServicePCs == {"polling", "reading", "serving", "replying", "releasing",
               "failing", "returned", "gone"}
Kinds == {"rooms", "subspace", "error"}

\* No call, no request and no response.
None == [call |-> 0]

-----------------------------------------------------------------------------
(* Messages.  "defs" says that the message starts with the gob definition  *)
(* of its type, which an encoder sends once and a decoder needs.           *)

RequestMsg(c, req, known) ==
    [call |-> c, req |-> req, defs |-> req.kind \notin known]

ResponseMsg(c, kind, open, known) ==
    [call |-> c, kind |-> kind, fds |-> open, inband |-> InBand(open),
     defs |-> kind \notin known]

Tokens(c, fields) == {c} \X fields

\* One read takes the first k messages off the queue of responses.
ReadTakes(q, k) ==
    /\ \A i \in 1..(k - 1) : q[i].fds = {}
    /\ k = Len(q) \/ q[k].fds # {}

\* Mutant: the last message read stays in the queue.
AfterOffByOne(q, k) == SubSeq(q, k, Len(q))

After(q, k) == SubSeq(q, k + 1, Len(q))

\* Mutant: a fresh decoder for each message.
DecodableAlone(known, kind, msg) == msg.defs

Decodable(known, kind, msg) == msg.defs \/ kind \in known

Init ==
    /\ calls = 0
    /\ cpc = "idle"
    /\ asked = <<>>
    /\ late = {}
    /\ returned = {}
    /\ orphans = {}
    /\ halfway = {}
    /\ reqs = <<>>
    /\ resps = <<>>
    /\ spc = "polling"
    /\ job = None
    /\ reply = None
    /\ svcFds = {}
    /\ ctxDone = FALSE
    /\ gob = [reqSent |-> {}, reqKnown |-> {}, respSent |-> {}, respKnown |-> {}]

-----------------------------------------------------------------------------
(* The client.                                                             *)

\* do: encode and send a request. Sending fails when the service is gone.
ClientCall(req) ==
    /\ cpc = "idle"
    /\ calls < MaxCalls
    /\ calls' = calls + 1
    /\ asked' = Append(asked, req)
    /\ gob' = [gob EXCEPT !.reqSent = @ \union {req.kind}]
    /\ \/ /\ spc = "gone"
          /\ UNCHANGED <<cpc, reqs>>
       \/ /\ spc # "gone"
          /\ reqs' = Append(reqs, RequestMsg(calls', req, gob.reqSent))
          /\ cpc' = "waiting"
    /\ UNCHANGED <<late, returned, orphans, halfway, resps, serviceVars, ctxDone>>

\* do: the read deadline passes. A deadline that passes just when a response
\* arrives is one that passed before it arrived.
ClientTimeout ==
    /\ cpc = "waiting"
    /\ resps = <<>>
    /\ spc # "gone"
    /\ Cardinality(late) < MaxTimeouts
    /\ late' = late \union {calls}
    /\ cpc' = "idle"
    /\ UNCHANGED <<calls, asked, returned, orphans, halfway, reqs, resps,
                   serviceVars, ctxDone, gob>>

\* do: the read fails because the service is gone.
ClientDisconnected ==
    /\ cpc = "waiting"
    /\ resps = <<>>
    /\ spc = "gone"
    /\ cpc' = "idle"
    /\ UNCHANGED <<calls, asked, late, returned, orphans, halfway, reqs, resps,
                   serviceVars, ctxDone, gob>>

\* Mutant: every caller asks do[R] for a SubspaceResponse.
UsableSubspace(msg) ==
    /\ Decodable(gob.respKnown, msg.kind, msg)
    /\ msg.kind = "subspace"

\* A response is used only if it can be decoded, is no ErrorResponse and has
\* the type do[R] asks for. The fds read along with any other response are
\* left open.
Usable(msg) ==
    /\ Decodable(gob.respKnown, msg.kind, msg)
    /\ msg.kind = asked[calls].kind

\* do: read, decode the first message read, and distribute the fds. Rooms
\* schedules the closing of all fds at once. Subspace does so only after
\* having made a connection of the "conn" fd and having looked up the PID,
\* either of which may fail: "conn" and "pidfd" are disposed of nevertheless.
ClientReceive ==
    /\ cpc = "waiting"
    /\ resps # <<>>
    /\ cpc' = "idle"
    /\ \E k \in 1..Len(resps) : LET first == resps[1]
                                  last  == resps[k]
                                  open  == Received(last.fds) IN
           /\ ReadTakes(resps, k)
           /\ resps' = After(resps, k)
           /\ gob' = [gob EXCEPT !.respKnown =
                        IF Decodable(@, first.kind, first)
                        THEN @ \union {first.kind} ELSE @]
           /\ \/ /\ ~Usable(first)
                 /\ orphans' = orphans \union Tokens(last.call, open)
                 /\ UNCHANGED <<returned, halfway>>
              \/ /\ Usable(first)
                 /\ returned' = returned \union
                      {[call |-> calls, from |-> first.call,
                        fds |-> open, inband |-> first.inband]}
                 /\ UNCHANGED <<orphans, halfway>>
              \/ /\ Usable(first)
                 /\ first.kind = "subspace"
                 /\ halfway' = halfway \union {calls}
                 /\ orphans' = orphans \union
                                 Tokens(last.call, open \ {"conn", "pidfd"})
                 /\ UNCHANGED returned
    /\ UNCHANGED <<calls, asked, late, reqs, serviceVars, ctxDone>>

\* Close: whatever is still queued for the client is dropped with its fds.
ClientClose ==
    /\ cpc = "idle"
    /\ cpc' = "closed"
    /\ resps' = <<>>
    /\ UNCHANGED <<calls, asked, late, returned, orphans, halfway, reqs,
                   serviceVars, ctxDone, gob>>

\* The creator of the in-process service cancels the context it gave to New.
CancelContext ==
    /\ Cancellable
    /\ ctxDone' = TRUE
    /\ UNCHANGED <<clientVars, reqs, resps, serviceVars, gob>>

-----------------------------------------------------------------------------
(* The service.                                                            *)

\* The top of the loop: return if the context is done.
ServePoll ==
    /\ spc = "polling"
    /\ spc' = IF ctxDone THEN "returned" ELSE "reading"
    /\ UNCHANGED <<clientVars, reqs, resps, job, reply, svcFds, ctxDone, gob>>

\* Mutant: after its deadline has passed the read is tried again at once.
ServeDeadlineRereads ==
    /\ spc = "reading"
    /\ reqs = <<>>
    /\ cpc # "closed"
    /\ UNCHANGED vars

\* The read deadline of 2 seconds passes without a request.
ServeDeadline ==
    /\ spc = "reading"
    /\ reqs = <<>>
    /\ cpc # "closed"
    /\ spc' = "polling"
    /\ UNCHANGED <<clientVars, reqs, resps, job, reply, svcFds, ctxDone, gob>>

\* Mutant: the end of the stream is taken for a passed deadline.
ServeDisconnectedContinues ==
    /\ spc = "reading"
    /\ reqs = <<>>
    /\ cpc = "closed"
    /\ spc' = "polling"
    /\ UNCHANGED <<clientVars, reqs, resps, job, reply, svcFds, ctxDone, gob>>

\* Nothing to read, and the client has closed its end: the end of the stream, or
\* a reset connection when it had not read everything. Serve returns after any
\* error of the receive but the deadline.
ServeDisconnected ==
    /\ spc = "reading"
    /\ reqs = <<>>
    /\ cpc = "closed"
    /\ spc' = "returned"
    /\ UNCHANGED <<clientVars, reqs, resps, job, reply, svcFds, ctxDone, gob>>

\* Mutant: a request is served, but stays in the queue.
ServeReceivePeeks ==
    /\ spc = "reading"
    /\ reqs # <<>>
    /\ gob' = [gob EXCEPT !.reqKnown = @ \union {reqs[1].req.kind}]
    /\ job' = [call |-> reqs[1].call, req |-> reqs[1].req]
    /\ spc' = "serving"
    /\ UNCHANGED <<clientVars, reqs, resps, reply, svcFds, ctxDone>>

\* Read everything queued (requests carry no fds) and decode the first
\* request; return if that fails. A client of this package sends no request
\* other than the two Serve dispatches.
ServeReceive ==
    /\ spc = "reading"
    /\ reqs # <<>>
    /\ reqs' = <<>>
    /\ LET first == reqs[1]
           kind  == first.req.kind
       IN  \/ /\ Decodable(gob.reqKnown, kind, first)
              /\ gob' = [gob EXCEPT !.reqKnown = @ \union {kind}]
              /\ job' = [call |-> first.call, req |-> first.req]
              /\ spc' = "serving"
           \/ /\ ~Decodable(gob.reqKnown, kind, first)
              /\ spc' = "returned"
              /\ UNCHANGED <<gob, job>>
    /\ UNCHANGED <<clientVars, resps, reply, svcFds, ctxDone>>

\* Subspace and Room refuse an empty mask and may fail for many reasons, in
\* which case they have closed what they had opened.
Refused(req) == req.spaces = {}

\* Mutant: a handler that fails returns no response at all.
ServeHandleSilently ==
    /\ spc = "serving"
    /\ \/ UNCHANGED <<reply, svcFds>>
       \/ /\ ~Refused(job.req)
          /\ reply' = ResponseMsg(job.call, job.req.kind, OpenFields(job.req),
                                  gob.respSent)
          /\ svcFds' = svcFds \union Tokens(job.call, reply'.fds)
    /\ spc' = "replying"
    /\ UNCHANGED <<clientVars, reqs, resps, job, ctxDone, gob>>

\* Mutant: nothing is sent when a handler fails.
ServeHandleDrops ==
    /\ spc = "serving"
    /\ \/ /\ spc' = "polling"
          /\ job' = None
          /\ UNCHANGED <<reply, svcFds>>
       \/ /\ ~Refused(job.req)
          /\ reply' = ResponseMsg(job.call, job.req.kind, OpenFields(job.req),
                                  gob.respSent)
          /\ svcFds' = svcFds \union Tokens(job.call, reply'.fds)
          /\ spc' = "replying"
          /\ UNCHANGED job
    /\ UNCHANGED <<clientVars, reqs, resps, ctxDone, gob>>

ServeHandle ==
    /\ spc = "serving"
    /\ \/ reply' = ResponseMsg(job.call, "error", {}, gob.respSent)
       \/ /\ ~Refused(job.req)
          /\ reply' = ResponseMsg(job.call, job.req.kind, OpenFields(job.req),
                                  gob.respSent)
    /\ svcFds' = svcFds \union Tokens(job.call, reply'.fds)
    /\ spc' = "replying"
    /\ UNCHANGED <<clientVars, reqs, resps, job, ctxDone, gob>>

\* Mutant: a response overtakes the ones not yet read.
ServeSendUrgently ==
    /\ spc = "replying"
    /\ gob' = [gob EXCEPT !.respSent = @ \union {reply.kind}]
    /\ \/ /\ cpc # "closed"
          /\ resps' = <<reply>> \o resps
          /\ spc' = "releasing"
       \/ /\ cpc = "closed"
          /\ spc' = "failing"
          /\ UNCHANGED resps
    /\ job' = None
    /\ UNCHANGED <<clientVars, reqs, reply, svcFds, ctxDone>>

\* Encode the response and send it with its fds, which from now on are in
\* transit as well as open in the service. Sending fails after the client has
\* closed its end.
ServeSend ==
    /\ spc = "replying"
    /\ gob' = [gob EXCEPT !.respSent = @ \union {reply.kind}]
    /\ \/ /\ cpc # "closed"
          /\ resps' = Append(resps, reply)
          /\ spc' = "releasing"
       \/ /\ cpc = "closed"
          /\ spc' = "failing"
          /\ UNCHANGED resps
    /\ job' = None
    /\ UNCHANGED <<clientVars, reqs, reply, svcFds, ctxDone>>

\* Mutant: the fds of a response that could not be sent stay open.
ServeReleaseSent ==
    /\ spc \in {"releasing", "failing"}
    /\ svcFds' = IF spc = "failing" THEN svcFds
                 ELSE svcFds \ Tokens(reply.call, reply.fds)
    /\ reply' = None
    /\ spc' = IF spc = "failing" THEN "returned" ELSE "polling"
    /\ UNCHANGED <<clientVars, reqs, resps, job, ctxDone, gob>>

\* Close the service's own copies, sent or not; return if not sent.
ServeRelease ==
    /\ spc \in {"releasing", "failing"}
    /\ svcFds' = svcFds \ Tokens(reply.call, reply.fds)
    /\ reply' = None
    /\ spc' = IF spc = "failing" THEN "returned" ELSE "polling"
    /\ UNCHANGED <<clientVars, reqs, resps, job, ctxDone, gob>>

\* Mutant: the connection stays open after Serve has returned.
ServeCloseForgotten ==
    /\ spc = "returned"
    /\ UNCHANGED vars

\* After Serve has returned its caller closes the connection, or the process
\* that called it exits.
ServeClose ==
    /\ spc = "returned"
    /\ spc' = "gone"
    /\ reqs' = <<>>
    /\ UNCHANGED <<clientVars, resps, job, reply, svcFds, ctxDone, gob>>

\* A service process dies: the kernel closes everything it had open.
ServiceKilled ==
    /\ Killable
    /\ spc # "gone"
    /\ spc' = "gone"
    /\ reqs' = <<>>
    /\ job' = None
    /\ reply' = None
    /\ svcFds' = {}
    /\ UNCHANGED <<clientVars, resps, ctxDone, gob>>

-----------------------------------------------------------------------------
ClientNext ==
    \/ \E req \in Menu : ClientCall(req)
    \/ ClientTimeout
    \/ ClientDisconnected
    \/ ClientReceive
    \/ ClientClose
    \/ CancelContext

Serve ==
    \/ ServePoll
    \/ ServeDeadline
    \/ ServeDisconnected
    \/ ServeReceive
    \/ ServeHandle
    \/ ServeSend
    \/ ServeRelease
    \/ ServeClose

Next == ClientNext \/ Serve \/ ServiceKilled

Spec == Init /\ [][Next]_vars

\* The goroutine that runs Serve is always scheduled again, its handlers
\* return, and the read deadline it sets does expire. The goroutine of a
\* waiting caller runs on as soon as there is something for it to read.
FairSpec ==
    /\ Spec
    /\ WF_vars(Serve)
    /\ WF_vars(ClientReceive \/ ClientDisconnected)

-----------------------------------------------------------------------------
(* Types.                                                                  *)

Query == [call : Nat, req : Menu, defs : BOOLEAN]
Answer == [call : Nat, kind : Kinds, fds : SUBSET Fields,
           inband : SUBSET Fields, defs : BOOLEAN]

GobState == [reqSent : SUBSET Kinds, reqKnown : SUBSET Kinds,
             respSent : SUBSET Kinds, respKnown : SUBSET Kinds]

\* The values each variable takes.
TypeOK ==
    /\ calls \in Nat
    /\ cpc \in {"idle", "waiting", "closed"}
    /\ asked \in Seq(Menu)
    /\ Len(asked) = calls
    /\ late \subseteq 1..calls
    /\ returned \subseteq [call : Nat, from : Nat, fds : SUBSET Fields,
                           inband : SUBSET Fields]
    /\ orphans \subseteq Nat \X Fields
    /\ halfway \subseteq 1..calls
    /\ reqs \in Seq(Query)
    /\ resps \in Seq(Answer)
    /\ spc \in ServicePCs
    /\ IF spc \in {"serving", "replying"}
       THEN job \in [call : Nat, req : Menu] ELSE job = None
    /\ IF spc \in {"replying", "releasing", "failing"}
       THEN reply \in Answer ELSE reply = None
    /\ svcFds \subseteq Nat \X Fields
    /\ ctxDone \in BOOLEAN
    /\ gob \in GobState
    /\ cpc = "waiting" => calls > 0

-----------------------------------------------------------------------------
(* Safety.                                                                 *)

\* Until a call has timed out, a call that succeeds returns the answer to its
\* own request: request and response streams of do and Serve stay in step.
OwnAnswer == late = {} => \A r \in returned : r.from = r.call

\* Whatever has timed out, each response is returned by at most one call, in
\* the order of the requests, and never before its request was made: Serve
\* works sequentially and both streams are first-in, first-out.
AnswersInOrder ==
    /\ \A r \in returned : r.from <= r.call
    /\ \A r, s \in returned : r.call < s.call => r.from < s.from

\* Until a call has timed out, a call that succeeds returns an open fd for
\* every namespace requested, and for no other: do, EncodeFds and DecodeFds
\* agree on the fields and the receive buffer holds all fds.
AsRequested ==
    late = {} => \A r \in returned : r.fds = OpenFields(asked[r.call])

\* Every positive number in a response that a call returns is an fd the call
\* received, never one of the sender's.
NoForeignFds == \A r \in returned : r.inband \subseteq r.fds

\* Until a call has timed out, the only fds that a client receives and leaks
\* are those of a Subspace call that failed after it had got its answer.
NoLeak == late = {} => \A t \in orphans : t[1] \in halfway

\* Until a call has timed out, Serve returns only because its context is
\* done or its client is gone.
ServesUntilDisconnect ==
    spc = "returned" /\ late = {} => ctxDone \/ cpc = "closed"

\* Nothing the service opened for a response outlives the connection, unless
\* the client had received it.
NothingOutlivesConnection ==
    spc = "gone" /\ cpc = "closed" => svcFds = {} /\ resps = <<>>

\* Until a call has timed out, the request of a waiting client is queued or
\* being served, or its answer is the next one to be read, unless Serve has
\* returned: whichever way a handler or a message goes, no call is lost.
NoCallLost ==
    cpc = "waiting" /\ late = {} /\ spc \notin {"returned", "gone"} =>
        \/ reqs # <<>> /\ reqs[1].call = calls
        \/ spc \in {"serving", "replying"} /\ job.call = calls
        \/ resps # <<>> /\ resps[1].call = calls

-----------------------------------------------------------------------------
(* Liveness.                                                               *)

\* Closing the client terminates its service (Close's comment).
CloseEndsService == cpc = "closed" ~> spc = "gone"

\* Cancelling the context terminates the service even when nobody calls it,
\* since Serve's reads end by their deadline (New's comment).
CancelEndsService == ctxDone ~> spc = "gone"

\* A call ends even if its deadline never fires, unless an earlier one timed
\* out: an answer or the end of the connection reaches it.
CallsEnd == [](cpc = "waiting" /\ late = {} => <>(cpc # "waiting"))

-----------------------------------------------------------------------------
(* The abstract specification this one implements.                         *)

Promise == INSTANCE SpacerCalls WITH
    pending <- IF cpc = "waiting" THEN calls ELSE 0,
    lapsed  <- late # {},
    answers <- {<<r.call, r.from>> : r \in returned},
    closed  <- cpc = "closed"

\* do and Serve together keep the promise made to the callers.
KeepsPromise == Promise!Spec
=============================================================================
