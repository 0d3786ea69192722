----------------------------- MODULE Spacemaker -----------------------------
(***************************************************************************)
(* Spacemaker.Subspace and Spacemaker.Room step by step, on the Serve      *)
(* goroutines of one process, with the child processes they start, the     *)
(* descriptors these inherit, and the client's end of the connection.  Any *)
(* step may fail.  A child process serves its connection until the stream  *)
(* ends, which takes that nobody has the other end open any more; it may   *)
(* also die on its own, be reaped by the goroutine that waits for it, and  *)
(* its PID may be given to another process.                                *)
(*                                                                         *)
(* A descriptor is <<call, slot>>, its slot being the variable or the      *)
(* field of the response that holds it.                                    *)
(***************************************************************************)
EXTENDS Wire

CONSTANTS
    Calls,      \* the calls made to the services of this process
    Menu,       \* the requests the calls choose from
    Busy        \* bound: calls served at the same time (clients made by New)

Masks == [kind : {"rooms", "subspace"}, spaces : SUBSET Fields]

ASSUME CallsAssumption == IsFiniteSet(Calls)
ASSUME MenuAssumption == Menu \subseteq Masks
ASSUME BusyAssumption == Busy \in Nat

VARIABLES
    pc,         \* where the handler of each call is: see PCs
    asked,      \* the request of each call
    answer,     \* its response: "none" yet, "error" or "ok"
    todo,       \* Room: the types still to be tried
    spoilt,     \* Room: is there an error message?
    open,       \* the descriptors open in the process
    strange,    \* those that refer to something else than what was asked for
    child,      \* the child process of each call: see ChildStates
    inherited,  \* the descriptors each child got in addition to its socket
    client      \* the client's end: "none", "open" (or on its way), "closed"

handler == <<pc, asked, answer, todo, spoilt, open>>
vars == <<handler, strange, child, inherited, client>>

PCs == {"idle", "socketpair", "wrapDupond", "wrapDupont", "dupontFile", "start",
        "dupondFile", "dup", "user", "pid", "pidfd", "rooms", "newNamespace",
        "answered", "sent", "done", "panicked"}
ChildStates == {"none", "running", "zombie", "reaped", "reused"}

\* Raw ends of the socket pair, the two Conns made of them and the *os.File
\* of each; newNamespace's reference to the namespace of its caller.
Locals == {"fdpair0", "fdpair1", "dupond", "dupont", "dupontf", "dupondf",
           "callerns"}
Slots == Locals \union Fields

\* What Go and pidfd_open create is close-on-exec; what unix.Socketpair,
\* unix.Dup and unix.Open return is not.
CloseOnExec == {"dupond", "dupont", "dupontf", "dupondf", "pidfd"}

\* The slots that hold the client's end of the connection.
ClientEnd == {"fdpair0", "dupond", "dupondf", "conn"}

NoRequest == [kind |-> "none", spaces |-> {}]

Init ==
    /\ pc = [c \in Calls |-> "idle"]
    /\ asked = [c \in Calls |-> NoRequest]
    /\ answer = [c \in Calls |-> "none"]
    /\ todo = [c \in Calls |-> {}]
    /\ spoilt = [c \in Calls |-> FALSE]
    /\ open = {}
    /\ strange = {}
    /\ child = [c \in Calls |-> "none"]
    /\ inherited = [c \in Calls |-> {}]
    /\ client = [c \in Calls |-> "none"]

-----------------------------------------------------------------------------
(* Steps of a handler.                                                     *)

At(c, here) == pc[c] = here

Go(c, next, opened, closed) ==
    /\ pc' = [pc EXCEPT ![c] = next]
    /\ open' = (open \ ({c} \X closed)) \union ({c} \X opened)

\* What the deferred functions of Subspace close.
Deferred == {"dupond", "dupont", "dupontf", "dupondf"}

Reply(c, a, closed) ==
    /\ Go(c, "answered", {}, closed)
    /\ answer' = [answer EXCEPT ![c] = a]

\* Return an ErrorResponse after having closed the given fields.
Fail(c, closed) == Reply(c, "error", closed \union Deferred)

\* The process dies of a panic in one of its goroutines. The clients die with it
\* if they are in the same process, the test's.
Panic ==
    /\ pc' = [c \in Calls |-> "panicked"]
    /\ open' = {}
    /\ \/ client' = [c \in Calls |-> IF client[c] = "none" THEN "none" ELSE "closed"]
       \/ UNCHANGED client

\* Mutant: types the service cannot create are not looked at.
RefusedEmptyOnly(req) == req.spaces = {}

\* "Out of space", or "no space requested".
Refused(req) ==
    \/ ~ req.spaces \subseteq ValidSpaces(req.kind)
    \/ req.spaces = {}

Serving(c) == pc[c] \notin {"idle", "done", "panicked"}

Request(c) ==
    /\ At(c, "idle")
    /\ Cardinality({d \in Calls : Serving(d)}) < Busy
    /\ \E req \in Menu :
           /\ asked' = [asked EXCEPT ![c] = req]
           /\ \/ /\ Refused(req)
                 /\ Reply(c, "error", {})
                 /\ UNCHANGED todo
              \/ /\ ~Refused(req)
                 /\ req.kind = "subspace"
                 /\ Go(c, "socketpair", {}, {})
                 /\ UNCHANGED <<answer, todo>>
              \/ /\ ~Refused(req)
                 /\ req.kind = "rooms"
                 /\ Go(c, "rooms", {}, {})
                 /\ todo' = [todo EXCEPT ![c] = req.spaces]
                 /\ UNCHANGED answer
    /\ UNCHANGED <<spoilt, strange, child, inherited, client>>

-----------------------------------------------------------------------------
(* Spacemaker.Subspace.                                                    *)

settled == <<asked, todo, spoilt, inherited>>

\* NewPair and NewUnixConn close what they have opened when they fail. They
\* return nil then, and the deferred function panics on it.
Socketpair(c) ==
    /\ At(c, "socketpair")
    /\ \/ Go(c, "wrapDupond", {"fdpair0", "fdpair1"}, {}) /\ UNCHANGED client
       \/ Panic
    /\ UNCHANGED <<settled, answer, strange, child>>

WrapDupond(c) ==
    /\ At(c, "wrapDupond")
    /\ \/ Go(c, "wrapDupont", {"dupond"}, {"fdpair0"}) /\ UNCHANGED client
       \/ Panic
    /\ UNCHANGED <<settled, answer, strange, child>>

\* Mutant: NewUnixConn does not close the descriptor it was given.
WrapDupontLeaks(c) ==
    /\ At(c, "wrapDupont")
    /\ \/ Go(c, "dupontFile", {"dupont"}, {}) /\ UNCHANGED client
       \/ Panic
    /\ UNCHANGED <<settled, answer, strange, child>>

WrapDupont(c) ==
    /\ At(c, "wrapDupont")
    /\ \/ Go(c, "dupontFile", {"dupont"}, {"fdpair1"}) /\ UNCHANGED client
       \/ Panic
    /\ UNCHANGED <<settled, answer, strange, child>>

DupontFile(c) ==
    /\ At(c, "dupontFile")
    /\ \/ Go(c, "start", {"dupontf"}, {}) /\ UNCHANGED answer
       \/ Fail(c, {})
    /\ UNCHANGED <<settled, strange, child, client>>

\* The child process gets dupontf as its descriptor 3, and whatever else is
\* open in the process at that time and not close-on-exec.
Start(c) ==
    /\ At(c, "start")
    /\ \/ /\ Go(c, "dupondFile", {}, {})
          /\ child' = [child EXCEPT ![c] = "running"]
          /\ inherited' = [inherited EXCEPT ![c] =
                             {p \in open : p[2] \notin CloseOnExec}]
          /\ UNCHANGED answer
       \/ Fail(c, {}) /\ UNCHANGED <<child, inherited>>
    /\ UNCHANGED <<asked, todo, spoilt, strange, client>>

DupondFile(c) ==
    /\ At(c, "dupondFile")
    /\ \/ Go(c, "dup", {"dupondf"}, {}) /\ UNCHANGED answer
       \/ Fail(c, {})
    /\ UNCHANGED <<settled, strange, child, client>>

Dup(c) ==
    /\ At(c, "dup")
    /\ \/ /\ Go(c, IF "user" \in asked[c].spaces THEN "user" ELSE "pid", {"conn"}, {})
          /\ UNCHANGED answer
       \/ Fail(c, {})
    /\ UNCHANGED <<settled, strange, child, client>>

\* Look up what the child's PID stands for by now. There is nothing to be
\* found when it has been reaped, and something else when the PID is in use
\* again.
Finds(c, slot) ==
    /\ child[c] # "reaped"
    /\ strange' = IF child[c] = "reused" THEN strange \union {<<c, slot>>}
                                         ELSE strange

\* /proc/<pid>/ns/user
OpenUser(c) ==
    /\ At(c, "user")
    /\ \/ /\ Finds(c, "user")
          /\ Go(c, IF "pid" \in asked[c].spaces THEN "pid" ELSE "pidfd", {"user"}, {})
          /\ UNCHANGED answer
       \/ Fail(c, {"conn"}) /\ UNCHANGED strange
    /\ UNCHANGED <<settled, child, client>>

\* /proc/<pid>/ns/pid
OpenPid(c) ==
    /\ At(c, "pid")
    /\ \/ /\ Finds(c, "pid")
          /\ Go(c, "pidfd", {"pid"}, {})
          /\ UNCHANGED answer
       \/ Fail(c, {"user", "conn"}) /\ UNCHANGED strange
    /\ UNCHANGED <<settled, child, client>>

\* Mutant: a failure does not close the duplicated connection.
PidfdOpenKeepsConn(c) ==
    /\ At(c, "pidfd")
    /\ \/ /\ Finds(c, "pidfd")
          /\ pc' = [pc EXCEPT ![c] = "answered"]
          /\ open' = (open \ ({c} \X Deferred)) \union {<<c, "pidfd">>}
          /\ answer' = [answer EXCEPT ![c] = "ok"]
       \/ Fail(c, {"pid", "user"}) /\ UNCHANGED strange
    /\ UNCHANGED <<settled, child, client>>

\* Mutant: the PID descriptor is the one got when starting the process.
PidfdOpenFromStart(c) ==
    /\ At(c, "pidfd")
    /\ \/ /\ Go(c, "answered", {"pidfd"}, Deferred)
          /\ answer' = [answer EXCEPT ![c] = "ok"]
       \/ Fail(c, {"pid", "user", "conn"})
    /\ UNCHANGED <<settled, strange, child, client>>

\* pidfd_open, and return the SubspaceResponse.
PidfdOpen(c) ==
    /\ At(c, "pidfd")
    /\ \/ /\ Finds(c, "pidfd")
          /\ Go(c, "answered", {"pidfd"}, Deferred)
          /\ answer' = [answer EXCEPT ![c] = "ok"]
       \/ Fail(c, {"pid", "user", "conn"}) /\ UNCHANGED strange
    /\ UNCHANGED <<settled, child, client>>

-----------------------------------------------------------------------------
(* Spacemaker.Room and, on a throw-away goroutine for each type,           *)
(* newNamespace.                                                           *)

TypeNow(c) == CHOOSE t \in todo[c] : \A u \in todo[c] : Rank(t) <= Rank(u)

Tried(c) == todo' = [todo EXCEPT ![c] = @ \ {TypeNow(c)}]

Spoil(c) == spoilt' = [spoilt EXCEPT ![c] = TRUE]

\* newNamespace up to the reference to the caller's namespace.
OpenCaller(c) ==
    /\ At(c, "rooms")
    /\ todo[c] # {}
    /\ \/ Go(c, "newNamespace", {"callerns"}, {}) /\ UNCHANGED <<todo, spoilt>>
       \/ Tried(c) /\ Spoil(c) /\ UNCHANGED <<pc, open>>
    /\ UNCHANGED <<asked, answer, strange, child, inherited, client>>

\* After unshare the calling thread is in the new namespace, except that a
\* new time namespace is for its children only.
EntersIt(type) == type # "time"

\* Unshare, remount if it is a mount namespace, and open ns/<type> of the
\* thread. The deferred function closes the reference to the caller's.
NewNamespace(c) ==
    /\ At(c, "newNamespace")
    /\ Tried(c)
    /\ LET t == TypeNow(c) IN
       \/ /\ Go(c, "rooms", {t}, {"callerns"})
          /\ strange' = IF EntersIt(t) THEN strange ELSE strange \union {<<c, t>>}
          /\ UNCHANGED spoilt
       \/ /\ Go(c, "rooms", {}, {"callerns"})
          /\ Spoil(c)
          /\ UNCHANGED strange
    /\ UNCHANGED <<asked, answer, child, inherited, client>>

\* Mutant: the error message of a later type replaces, and may clear, the
\* one of an earlier type.
RoomAnswerLast(c) ==
    /\ At(c, "rooms")
    /\ todo[c] = {}
    /\ \/ /\ spoilt[c]
          /\ Reply(c, "error", RoomFields)
       \/ Reply(c, "ok", {})
    /\ UNCHANGED <<asked, todo, spoilt, strange, child, inherited, client>>

\* All types have been tried: close all of them if one has failed.
RoomAnswer(c) ==
    /\ At(c, "rooms")
    /\ todo[c] = {}
    /\ \/ /\ spoilt[c]
          /\ Reply(c, "error", RoomFields)
       \/ /\ ~spoilt[c]
          /\ Reply(c, "ok", {})
    /\ UNCHANGED <<asked, todo, spoilt, strange, child, inherited, client>>

-----------------------------------------------------------------------------
(* Serve and the client.                                                   *)

\* Send the response, which may fail. From now on the client's end of a
\* subspace's connection is with the kernel or the client.
Send(c) ==
    /\ At(c, "answered")
    /\ Go(c, "sent", {}, {})
    /\ \/ /\ answer[c] = "ok"
          /\ asked[c].kind = "subspace"
          /\ client' = [client EXCEPT ![c] = "open"]
       \/ UNCHANGED client
    /\ UNCHANGED <<settled, answer, strange, child>>

\* Mutant: the service closes the descriptors only if sending has failed.
ReleaseUnsent(c) ==
    /\ At(c, "sent")
    /\ Go(c, "done", {}, IF answer[c] = "ok" /\ client[c] = "none" THEN Fields ELSE {})
    /\ UNCHANGED <<settled, answer, strange, child, client>>

\* Close all descriptors of the response; an ErrorResponse has none.
Release(c) ==
    /\ At(c, "sent")
    /\ Go(c, "done", {}, IF answer[c] = "ok" THEN Fields ELSE {})
    /\ UNCHANGED <<settled, answer, strange, child, client>>

\* Client.Close, or the end of a connection that Client.Subspace could not
\* make anything of, or that the client did not wait for.
ClientCloses(c) ==
    /\ client[c] = "open"
    /\ client' = [client EXCEPT ![c] = "closed"]
    /\ UNCHANGED <<handler, strange, child, inherited>>

-----------------------------------------------------------------------------
(* The child processes.                                                    *)

Running(c) == child[c] = "running"

\* Nobody has the client's end of the connection of c open.
Disconnected(c) ==
    /\ client[c] # "open"
    /\ \A s \in ClientEnd : <<c, s>> \notin open
    /\ \A d \in Calls : Running(d) => \A s \in ClientEnd : <<c, s>> \notin inherited[d]

Becomes(c, from, to) ==
    /\ child[c] = from
    /\ child' = [child EXCEPT ![c] = to]
    /\ UNCHANGED <<handler, strange, inherited, client>>

\* Serve reads the end of the stream, and main returns.
ChildEnds(c) == Disconnected(c) /\ Becomes(c, "running", "zombie")
ChildDies(c) == Becomes(c, "running", "zombie")
\* The goroutine that Subspace starts to wait for its child.
Reap(c) == Becomes(c, "zombie", "reaped")
ReusePID(c) == Becomes(c, "reaped", "reused")

Subspace(c) ==
    \/ Socketpair(c) \/ WrapDupond(c) \/ WrapDupont(c) \/ DupontFile(c) \/ Start(c)
    \/ DupondFile(c) \/ Dup(c) \/ OpenUser(c) \/ OpenPid(c) \/ PidfdOpen(c)
Room(c) == OpenCaller(c) \/ NewNamespace(c) \/ RoomAnswer(c)
Serve(c) == Subspace(c) \/ Room(c) \/ Send(c) \/ Release(c)

Next == \E c \in Calls :
    \/ Request(c) \/ Serve(c)
    \/ ClientCloses(c)
    \/ ChildEnds(c) \/ ChildDies(c) \/ Reap(c) \/ ReusePID(c)

Spec == Init /\ [][Next]_vars

\* Handlers go on and processes run: a child reads the end of its stream, and
\* its parent's goroutine reaps it. No client has to close anything, no
\* process has to die, no PID has to be used again.
Fairness == \A c \in Calls :
    WF_vars(Serve(c)) /\ WF_vars(ChildEnds(c)) /\ WF_vars(Reap(c))

FairSpec == Spec /\ Fairness

-----------------------------------------------------------------------------
(* Properties.                                                             *)

\* Every variable has its type.
TypeOK ==
    /\ pc \in [Calls -> PCs]
    /\ asked \in [Calls -> Masks \union {NoRequest}]
    /\ answer \in [Calls -> {"none", "error", "ok"}]
    /\ todo \in [Calls -> SUBSET RoomFields]
    /\ spoilt \in [Calls -> BOOLEAN]
    /\ open \subseteq Calls \X Slots
    /\ strange \subseteq Calls \X Fields
    /\ child \in [Calls -> ChildStates]
    /\ inherited \in [Calls -> SUBSET (Calls \X Slots)]
    /\ client \in [Calls -> {"none", "open", "closed"}]

\* A request is answered with all it asked for or with an error, and leaves
\* nothing else open in the service, whichever step of Subspace, Room or
\* newNamespace fails: the handlers implement AllOrNothing.
Promise == INSTANCE AllOrNothing WITH
    handed <- {p \in open : answer[p[1]] # "none"}
KeepsPromise == Promise!Spec

\* The child process of one call has no descriptor of another one, so that
\* it keeps neither the connection of another service open nor one of its
\* namespaces alive. (Only true of calls served one at a time.)
NoStrangers == \A c, d \in Calls : c # d => \A p \in inherited[c] : p[1] # d

\* Once a call has failed, or has been served and the client's connection is
\* closed, nobody keeps the client's end of the connection of a child that
\* still runs, which so can read the end of the stream: not the handler, not
\* the child itself and not the child of another call. (Only true of calls
\* served one at a time.)
StreamsEnd ==
    \A c \in Calls :
        Running(c) /\ client[c] # "open" /\ (answer[c] = "error" \/ ~Serving(c))
            => Disconnected(c)

\* Whatever has failed after a child process was started, the child ends: it
\* is not left behind waiting for requests on a connection nobody has.
AbandonedChildEnds ==
    \A c \in Calls : answer[c] = "error" ~> ~Running(c)

\* "Close the connection to the spacer service instance. This will cause the
\* previously connected spacer service instance to automatically terminate."
ClosedChildEnds == \A c \in Calls : client[c] = "closed" ~> ~Running(c)

\* The same when all connections have been closed and nothing is being
\* served: then no service is left.
Over == \A c \in Calls : ~Serving(c) /\ client[c] \in {"none", "closed"}
ServicesEndOnceAllClosed ==
    Over ~> (~Over \/ \A c \in Calls : ~Running(c))

\* A PID descriptor vouches for the namespaces that come with it: when it is that
\* of the child that was started, they are those of this child, too, and not of
\* another process that has got its PID between two of the look-ups.
PidfdVouches ==
    \A c \in Calls :
        answer[c] = "ok" /\ <<c, "pidfd">> \notin strange =>
            \A s \in {"user", "pid"} : <<c, s>> \notin strange

\* "Rooms returns new namespaces of the requested type(s)" and "Subspace returns
\* a new client as well as new user and/or PID child namespaces": none that the
\* thread has been in before, nor one of a process that has got the child's PID.
SpacesAreNew ==
    \A p \in open \cap strange :
        ~ (answer[p[1]] = "ok" /\ p[2] \in RoomFields \union {"user", "pid"})
=============================================================================
