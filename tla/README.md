# spacetest, specified

TLA+ specifications of [spacetest](../src), a Go package that helps unit tests
work with Linux namespaces, and of its *spacer* service, which creates namespaces
on behalf of a test in other processes. TLC checks small instances of them;
TLAPS proves most of their safety properties for all values of their constants.

## The system

| Part | State it keeps | Operations | What makes it correct |
|---|---|---|---|
| `spacetest` (`space.go`, `transient.go`) | none of its own: the namespaces of the calling OS-level thread, and how often the goroutine is locked to it | `EnterTransient`, its deferred restore function, `NewTransient`; `Type`, `Ino`, `Current` read | a thread that could not be switched back never returns to the Go runtime; a cleanup restores what its caller had |
| `spacetest.Execute` (`execute.go`) | the references to switch back to; a channel that relays panics | `goInAndOut` on the caller's thread, `goSeparate` on a throw-away one | `fn` runs in the namespaces passed and otherwise in its caller's; the caller resumes whatever happens |
| `mntns` | one idle goroutine for each namespace of `NewTransient`, deferred cleanups | `EnterTransient`, `NewTransient`, `Execute`, `MountSysfsRO` | a thread with filesystem attributes of its own is never reused; an idler lives as long as the reference to its namespace, and no longer than the test node |
| `netns` | none | forwards to `spacetest` | as above |
| `uds.Conn` | a stream socket | `NewPair`, `SendWithFds`, `ReceiveWithFds` | all descriptors sent arrive, and belong to the message they were sent with |
| `gobmsg` | the buffers and the type tables of a gob stream | `Encode`, `Decode` | the reader knows every type the writer has defined |
| `spacer/api` | none | `EncodeFds`, `DecodeFds` | fields and descriptors agree on both sides, numbers do not leave their process |
| `spacer.Client` | a connection, an encoder and a decoder, the service's PID | `New`, `Rooms`, `NewTransient`, `Subspace`, `Close` | a call returns the answer to its own request, or fails; nothing received is leaked |
| `service.Serve` | the same at the other end, the context | receive, decode, dispatch, encode, send, close | serves until its client disconnects or its context is done, and then does return |
| `service.Spacemaker` | child processes; throw-away goroutines | `Subspace`, `Room`, `newNamespace` | all of the namespaces asked for, or none and nothing left open |
| `spacer-service` | a process, possibly PID 1 of its PID namespace, and its mounts | `main` | sees its own children in `/proc`; ends with its client, and with no other one but those of the services that started it |

**Interactions.** A test calls the packages on goroutines that Ginkgo starts, and
defers what they return. `Client` and `Serve` are connected by a stream socket:
requests are gob data, responses are gob data and descriptors in a control
message. `New` runs `Serve` on a goroutine of the test process; `Subspace` makes
a service start a process that runs `Serve` on a socket of its own, the other end
of which is passed back to the client. `Room` calls `newNamespace` on goroutines
that end locked to their thread. Cleanups scheduled with `DeferCleanup` close
what the calls have returned.

**What is hard.** Goroutines of one process share OS-level threads, and every
system call that switches one may fail in the middle of nested calls. A stream
has no message boundaries, calls may time out with their answer on its way, and
the service polls its context, may be cancelled and may die. Descriptors change
owner between a service, the kernel and a client, any of which may give up
meanwhile. Services start services, which live in nested PID namespaces.
`PROJECT.json` lists the hazards at their lines, with the properties that are
about them, or why none is.

## Modules

| Module | Models |
|---|---|
| `Wire` | fields of requests and responses, the order in which descriptors are sent, how many of them a receive buffer holds |
| `SpacerCalls` | abstract: what a client promises to its callers |
| `SpacerRPC` (extends `Wire`, implements `SpacerCalls`) | `Client.do` and its callers, the two streams, `gobmsg`, `Serve` |
| `AllOrNothing` | abstract: what the handlers of a service promise |
| `Spacemaker` (extends `Wire`, implements `AllOrNothing`) | `Subspace`, `Room` and `newNamespace` step by step; child processes and what they inherit |
| `ServiceTree` | the service processes in their PID namespaces: `main`, `/proc`, who finds and who ends whom |
| `NsThreads` | threads, goroutines and nested calls of `spacetest`, `mntns` and the service's `newNamespace` |
| `FdTable` | the descriptor table of the test process, and the cleanups that close numbers in it |
| `SpacerRPCProofs`, `SpacerWireProofs` | theorems about `SpacerRPC` |
| `SpacemakerProofs`, `ServiceTreeProofs`, `NsThreadsProofs`, `FdTableProofs` | theorems about the module of that name |
| `NsContextProofs`, `NsIdlersProofs` | more theorems about `NsThreads`, which build on `NsThreadsProofs` |
| `MC_SpacerRPC`, `MC_Spacemaker`, `MC_ServiceTree`, `MC_NsThreads` | menus of requests and symmetry sets for TLC |

`SpacerRPC` and `Spacemaker` look at a call from two sides: in the former a handler is
one step, which answers with an error and nothing or with everything, and in the
latter the streams are one step (`Send`). `AllOrNothing` is what makes the former's
abstraction of the handlers right. `ServiceTree` in turn has one step for the part of `Subspace`
that looks up the child, and `Spacemaker` has one process only.

### SpacerRPC

One client and the service it is connected to. `cpc` is where the client's
goroutine is (`idle`, `waiting` in `do`, `closed`), `spc` where `Serve` is: the top
of its loop (`polling`), `reading`, `serving` a request (`job`), `replying`,
`releasing` (or `failing`, when the response could not be sent) the descriptors of
the response (`reply`), `returned`, and `gone` after the connection has been closed.
`reqs` and `resps` are the receive queues of the two sockets. A call is named by
its number, a descriptor by `<<call, field>>`, so that the properties can tell
which call a response and a descriptor belong to; the code has no such numbers.

The actions are the stretches of code between two points where the other side
can interfere: `ClientCall` (encode, send), `ClientReceive` (receive, decode,
`HaveFailed`, `DecodeFds`, type assertion, and what `Rooms` and `Subspace` do
with the result), `ClientTimeout`, `ClientDisconnected`, `ClientClose`;
`ServePoll`, `ServeReceive`, `ServeDeadline`, `ServeDisconnected`, `ServeHandle`,
`ServeSend`, `ServeRelease`, `ServeClose`. `CancelContext` and `ServiceKilled` are
what happens to a service from outside. A call that fails fails its test node, too,
but nothing keeps the next node, or code that intercepts the failure, from using
the same client again: `do` leaves the connection as it is.

Three things of the environment matter and are modelled as they are used:

* *The stream.* A read takes everything that is queued, up to and including the
  first message that carries descriptors (`ReadTakes`). `Decoder.Decode` resets its
  reader, so only the first of these messages is decoded and the rest is lost,
  while the descriptors are those of the last one.
* *gob.* An encoder sends the definition of a type with the first value of it
  (`defs`); `gob` records which definitions have been sent and which have been
  decoded. A value of an unknown type cannot be decoded.
* *Control messages.* `Wire` computes how many descriptors a buffer of
  `CmsgSpace(4*3)` bytes holds: 4 with 8 byte words, 3 with 4 byte words. The kernel
  drops the others.

Three ways out of `Serve` are left out, since they do not occur in this program: `SetReadDeadline`
fails only on a connection closed at this end, gob's encoder only on types that are
not registered (it would leave the descriptors of the response open), and parsing control
messages needs one to be sent with a request. Every other error of the receive is
`ServeDisconnected`.

`Subspace` and `Room` are abstracted to their outcome: an error with nothing left
open, or all that was asked for, which `Spacemaker` is shown to keep. A service that is started by `Subspace` may die
at any time; one started by `New` may be cancelled. A run may allow both: neither
the client nor `Serve` can tell.

`SpacerCalls` is what remains when the streams, the service and the descriptors
are taken away: calls are made one at a time, each answer is used at most once
and in order, never for a call made before the answered one, and for exactly the
call it answers until a first call has timed out. The refinement mapping
`Promise` reads its state off `cpc`, `late` and `returned`.

### Spacemaker

The handlers of all the `Serve` goroutines of one process. `pc` is where the handler of
each call is; a descriptor is `<<call, slot>>`, the slot being the variable or the
field that holds it (`fdpair0` to `dupondf` in `NewPair` and `Subspace`, `callerns` in
`newNamespace`, and the fields of the response). Each system call that may fail is an action with
a disjunct for its failure, which closes what the code closes then: the deferred
functions (`Deferred`) and the explicit `unix.Close` calls before the returns. `Socketpair`,
`WrapDupond` and `WrapDupont` are `NewPair`. When they fail, `Subspace`'s deferred function
calls `Close` on nil pointers, which ends the process, and the clients with it when that is the
test's (`Panic`).

`Start` gives the child `dupontf`, and everything in the process that is not close-on-exec
at that time (`inherited`): what `unix.Socketpair`, `unix.Dup` and `unix.Open` return. `child` says
whether the child runs, has ended, has been reaped by the goroutine that waits for
it, or its PID is already in use again; `Finds` is what `/proc/<pid>/ns` and `PidfdOpen` then refer
to, and `strange` has the descriptors that refer to something else than what was
asked for: `SpacesAreNew` says that none of these is handed out, and fails. What does hold
is `PidfdVouches`: the PID descriptor is opened last, so when it is that of the
child that was started, nobody else can have had the PID before. A child reads the end of its stream when nobody has the `ClientEnd` of
its connection open: not the process, not the client, not a child that has
inherited it (`Disconnected`).

`Room` tries the types one after the other (`todo`, `TypeNow`) and remembers whether any has
failed (`spoilt`); `newNamespace` opens a reference to the caller's namespace (`OpenCaller`), unshares,
and opens `ns/<type>` of the thread, which for `time` is still the old namespace (`EntersIt`).

`AllOrNothing` says what is left when the steps, the child and the slots are
forgotten: a request is refused with nothing handed out, or granted with exactly
the fields asked for, released in the end, or the process dies with all
it had. `Promise` maps `handed` to what is open of calls that have their answer, so that
whatever a failing handler forgets to close shows.

### ServiceTree

The test process is the root, and also stands for all services that `New` runs in it.
`Start` is `Subspace` up to the start of the child, in a new user namespace, a new PID namespace or
both, and always with mounts of its own; `LookUp` is what `Subspace` then does
with the child's PID, a number of its own PID namespace that it looks up in whatever `/proc`
shows. `main` remounts `/proc` when it is PID 1 and `/proc/1/cmdline` is not its own (`Remounts`): it
first makes its mounts private (`MakePrivate`), then mounts (`MountProc`), and goes on if either fails
(`RemountFails`). `peers` is the peer group of a process's mounts: in a new user namespace
mounts do not propagate back, in others they do until they are made
private. `Ends` is the end of a service at the end of its stream, with everybody in the
PID namespace it is PID 1 of (`Doomed`). A PID namespace is named by its PID 1.

### FdTable

`table` maps numbers to files; `Open(k)` takes the lowest unused ones, as the kernel
does. The program knows only numbers, but a descriptor here is `<<number, file>>`, so that
the properties can tell whether a number still stands for what it was. Actions
are the calls of a test: `Current`, `NewTransient`, `EnterTransient` with its restore function
(`LeaveTransient`), `Rooms` and `Subspace` of a client, `GoSeparate` with its goroutine's end
(`SeparateEnds`); Ginkgo's `NodeEnds`, `CleanupStep` and `NextNode`; and other goroutines of the process
that open and close what is theirs.

A call that fails leaves open what it has opened by then and neither its deferred functions nor a cleanup
close; `lost` records that. `NewTransient` loses the new namespace when switching back
fails (`transient.go:150`), `EnterTransient` its caller's when unsharing does, and the restore function
that one when it panics (`transient.go:84`, `:90`), a client everything that comes with a response it cannot
use (`ResponseLost`, in `do`), and `Subspace` the namespaces when it cannot make the new client. The connection
of a new client has no cleanup and is counted among `others`; the test, or the
finalizer of the socket, closes it. The references of `goInAndOut` are
kept like those of `EnterTransient`, but are closed whatever fails, and have no action of their own.

### NsThreads

Goroutines (`pc`, `locks`, `stack`) and threads (`ns`, `ownFs`). A goroutine that is not locked
has no thread (`on`): it may be run on any of the `Pool`, and the first
`LockOSThread` picks one of these or a new one. A goroutine that ends while it is
locked takes its thread along. `stack` holds the calls that have switched and not yet
restored, with the references they keep (`saved`) and, as history, the
namespaces their caller had (`before`).

Each call is one action when it switches and another one when its deferred
function runs: `EnterTransient`/`LeaveTransient`, `GoIn`/`GoOut` for `goInAndOut`,
`GoSeparate`, `SeparateSetup`, `SeparateReturn` for `goSeparate` and its goroutine,
`MntEnterTransient`/`MntLeaveTransient`, `MntNewTransient`/`IdlerSetup`,
`RoomUnshare`/`NewNamespace`. `NewTransient` switches back before it returns and is one
action. A thread is private to the goroutine that is locked to it, so that what a
call does between these points cannot be observed by others; what can be observed,
and is modelled, is every state in which it may leave its thread when one of its
system calls fails. After a failure the goroutine panics (`pc = "panic"`): the
deferred functions of `goInAndOut` and `EnterTransient` still run, and test code
may intercept the failure and go on (`Recover`). `NodeEnd` and `CleanupStep` are
Ginkgo's: the node's goroutine ends and its cleanups run in reverse order.

For the type `pid`, a thread has a PID namespace for children, which `unshare` and
`setns` change, while `/proc/thread-self/ns/pid` names the thread's own one
(`CurrentOf`). User and time namespaces are left out: no thread of a Go program
can change its user namespace, nor go back to its time namespace, and all code
here refuses or avoids it.

## What TLC checks

| Run | Instance | Shows |
|---|---|---|
| `rpc_safe` | 3 calls from a menu of 4 requests, up to 2 timeouts, context cancelled, service killed | answers go to the calls they answer (`OwnAnswer`, `AnswersInOrder`), with the descriptors asked for and no foreign numbers (`AsRequested`, `NoForeignFds`); only a `Subspace` call that fails half-way leaks (`NoLeak`); no call gets lost on its way (`NoCallLost`); `Serve` returns only when it should (`ServesUntilDisconnect`) and leaves nothing behind (`NothingOutlivesConnection`); `SpacerRPC` implements `SpacerCalls` (`KeepsPromise`); closing and cancelling end the service (`CloseEndsService`, `CancelEndsService`), and calls end (`CallsEnd`) |
| `rpc_six_rooms` | one call for all six types | *violated:* `AsRequested` |
| `subspace_safe` | 2 calls, one at a time, from a menu of 6 requests; any step may fail, children may die, PIDs are reused | `Spacemaker` implements `AllOrNothing` (`KeepsPromise`); children inherit nothing of other calls (`NoStrangers`); nobody keeps the client's end of a connection that is over (`StreamsEnd`); a PID descriptor vouches for the namespaces that come with it (`PidfdVouches`); a child ends after a failure (`AbandonedChildEnds`) and after its client has closed (`ClosedChildEnds`) |
| `subspace_inherited` | 2 calls at the same time | *violated:* `ServicesEndOnceAllClosed` |
| `spaces_new` | 1 call | *violated:* `SpacesAreNew` |
| `tree_safe` | up to 3 services, with every set of namespaces | every process finds itself in its `/proc` (`SelfVisible`) and its children (`FindsOwnChildren`); a remount changes nobody else's `/proc` (`MountsStayLocal`); services end with their client (`EndsOnceClosed`) and otherwise only with that of a service they have been started by, directly or not (`EndsOnlyBelowClosed`) |
| `tree_grandchildren` | 4 services in nested PID namespaces | *violated:* `FindsOwnChildren` |
| `threads_safe` | 2 goroutines, 3 threads, types mnt and net, calls nested 3 deep | no thread gets back to the runtime in other namespaces (`PoolPristine`, `InitialThreadPristine`); calls restore their caller's (`RestoresCaller`) and run functions where they should (`FnContext`); an idler outlives the reference to its namespace (`IdlerKeepsNamespace`) and is told to end in the end (`IdlersAreDue`); waiting goroutines do not wait for each other only (`SomebodyRuns`) |
| `threads_live` | 2 goroutines, 3 threads, 2 mount namespaces, calls nested 2 deep | `BlockedReturns`, `IdlersEnd` |
| `threads_pid_restore` | types mnt and pid | *violated:* `RestoresCaller` |
| `fds_nodes` | 5 numbers, 7 files, 2 nodes, 2 references picked up, up to 2 namespaces from a client | what a test has got stays good while its node runs (`ReferencesStayGood`); its cleanups leave nothing open but what calls that failed halfway have lost (`OnlyFailuresLeak`); and only those of picked up references are ever the first to close a descriptor of another goroutine (`OnlyPickedUpRobs`) |
| `fds_double_close` | 4 numbers, 5 files, 1 node | *violated:* `OthersKeepTheirs` |

A violated run checks what a comment of the code says and shows that the code
does otherwise; `PROJECT.json` quotes the comments.

1. `do` receives with room for 3 descriptors (in fact 4): a `Rooms` call for five or
   six types loses the last ones (`rpc_six_rooms`). `Serve` encodes the response before
   `EncodeFds` zeroes its fields, so a field whose descriptor was lost keeps the
   service's number, which the client returns and its cleanup closes.
2. After `EnterTransient(CLONE_NEWPID)`, `Execute` restores the wrong PID namespace for
   children (`threads_pid_restore`), and with a mount namespace it does not take over
   the caller's one for `fn`.
3. Two `Subspace` calls at the same time, on two clients made by `New`, start children that
   may each inherit the connection of the other: both wait for the end of a
   stream that the other one holds open (`subspace_inherited`).
4. Below a service in a nested PID namespace, started as `/proc/self/exe` like its
   parent, `main` takes the `/proc` of its parent's PID namespace for its own, and does not remount: the fourth generation
   is looked up in the wrong PID namespace (`tree_grandchildren`).
5. `Execute` with a mount namespace closes references at once that `Current` has
   scheduled to be closed at the end of the node, when their numbers may belong
   to another goroutine (`fds_double_close`). Its owner then closes it again, when it may
   have become a reference of a later node: this is the exception in `ReferencesStayGood`.
6. `Room` returns the service's own time namespace instead of the new one, since `unshare` moves only
   future children into it (`spaces_new`).

Other disagreements show in the models without a run of their own:

* A late answer: after a timeout the connection is still used, so the next call
  may return the answer to the one before, with other types of namespaces than it has asked for, or `Serve` may read two requests at
  once, drop the second one with the type definition in it, and return on a later
  request of that type. Hence `late = {}` in most properties of `SpacerRPC`; `AnswersInOrder` and
  `KeepsPromise` say what holds nevertheless.
* `Subspace` may return namespaces and a PID descriptor of another process when
  the child has been reaped and its PID is used again (`spacer.go:167`). `SpacesAreNew` is violated by this, too, with a menu of
  subspaces only; `PidfdVouches` says what a client could rely on.
* Closing a service that is PID 1 of a PID namespace ends the services below
  it, contrary to `client.go:109` and `api/subspace.go:36` (`Ends` in `ServiceTree`). What holds
  is that it ends no others (`EndsOnlyBelowClosed`).
* A failing `NewPair` (`spacer.go:77`) ends the process instead of the request: the step `Die`
  of `AllOrNothing`.
* `PIDfromPIDFd` takes the line `Pid: -1` of a process that has been reaped for a PID (`pidfromfd.go:46`);
  nothing here acts on the number.
* `Execute` with the mount namespace of a service in a PID namespace of its own always fails,
  because `/proc/thread-self` does not resolve there (`execute.go:196`). In `NsThreads` this is
  one of the failures of `SeparateSetup`.

**Bounds.** `rpc_safe`: the first call can time out, the second one can take its
answer, and the third one shows whether the streams are in step again; two
timeouts in a row make two requests or two responses queue up. One request of the
menu asks for exactly as many rooms as fit, one for a single other room, one is
refused, one is a `Subspace` with all its four descriptors. `subspace_safe`: every step of one call with
every failure, while the child, the client and the leftovers of an earlier call
go on; both kinds of subspaces alone and together, two rooms with a type that
`unshare` does not enter, a request that is refused for its types and one that is empty.
`tree_safe`: parent, child and grandchild, or siblings, or a chain; the third generation
in nested PID namespaces is the first one whose parent was started as
`/proc/self/exe`, and only its own children would be looked up wrongly, so that
`FindsOwnChildren` holds with three services and not with four.
`threads_safe`: with two goroutines one can call
`Execute` and the other run its function, be an idler, or compete for one thread; two
ordinary threads are enough for one to be tainted and one to be taken from the
pool; three nested locks are an inner failure below an outer call within a third
one; one new namespace of each type besides the original one is enough to tell
restored from not restored. Several idlers at once, and chains of more than two goroutines that wait for one
another, are left to `NsIdlersProofs`. `threads_live`
has no second type, which makes no difference to who waits for whom, but a second namespace for an idler of the next node. `fds_nodes`: one call of each kind and
another goroutine's descriptor fit into 5 numbers, and 7 files let numbers be
used again, in the second node, too; a client's two namespaces need all 5 numbers while `Subspace` runs. 

Symmetry (goroutines; threads other than the initial one; services) is used only in
runs that check no liveness. The `threads_*` runs look for deadlocks, and there are none; the others do not,
since everything closed and ended is how the story goes there.

**Fairness.** `SpacerRPC`: weak fairness of `Serve`, that is, the runtime schedules its
goroutine, its handlers return and the read deadline it sets expires; and of the
waiting client when there is something to read. There is none for the client's
calls, its timeouts, closing or cancelling. `CallsEnd` holds without relying on
the client's own deadline. `Spacemaker`: handlers go on, a child reads the end of its stream, and its
parent's goroutine reaps it; no client need close anything and no process
need die. `ServiceTree`: `main` and the handler that looks up a child go on.
`NsThreads`: every goroutine that can run is run. Test code
calls as it likes but returns in the end: strong fairness of the return of a call
at each depth, of the end of a function and of a node, because calls made
meanwhile disable these again and again. No fairness says that any system
call succeeds.

## What is proved

TLAPS checks all proofs; the constants are assumed to satisfy nothing but the
named assumptions of the modules (sizes are natural numbers, the menu consists
of requests, calls are finitely many, the initial thread is a thread, the types are among the known ones)
and what a theorem itself assumes.

`SpacerRPCProofs`: `TypeCorrect`, `AnswersAreInOrder`, `AnswersAreOwn` and `PromiseKept` (that
`SpacerRPC` implements `SpacerCalls`), for any menu and any number of calls and
timeouts. None of the properties is inductive: what a call returns depends on
what is queued. The invariant `IInv` adds that the calls found along the way from
`resps` over the service to `reqs` are in ascending order, none later than the latest
call, and none answered before; and that, as long as nothing has timed out, the
only one among them is the call the client waits for.

`SpacerWireProofs` goes on from there to the contents of the messages: `ServesOn`, `NothingLeaks`, `NothingOutlives`,
and, if the answers to all requests of the menu fit into the receive buffer (`Fits`),
`AnswersAreComplete` and `NumbersAreOwn`. `CallsAreInHand` (`NoCallLost`) says that the call a client waits for is queued, being
served or answered, whichever way a handler goes: since at most one message is on its way until a call times out (`OneAtATime`, from
`IInv`), each step of `Serve` that takes it also passes it on. Its invariant `JInv` says what the service holds open at each
step (`Releases`), that a message says what its call asked for (`Faithful`), and that, as long as
nothing has timed out, every type a stream has defined is known to its reader or
defined in the one message on its way (`RequestsInStep`, `ResponsesInStep`). `Fits` is what `rpc_six_rooms` lacks.

`SpacemakerProofs`: `TypeCorrect`, `ThePidfdVouches` (`PidfdVouches`) and `PromiseKept` (that `Spacemaker` implements `AllOrNothing`), for any
finite set of calls, any menu, and however many are served at the same time; and
`ChildrenGetNoStrangers` and `ChildrenSeeTheEnd` (`StreamsEnd`) if that is one at a time. The invariant gives, for each place a handler can be
at, exactly the descriptors open on behalf of its call (`Holds`, `Held`): a failing step closes
the right ones only if it knows which are open. `PidfdVouches` in turn rests on the order of the look-ups: until the PID descriptor is opened,
namespaces may be strange, but once a PID is in use again it stays so (`Vouched`). The same is needed to see what a child inherits: when it is started, what is open on behalf
of its own call is close-on-exec (`InheritedOK`). So `OnlyInheritanceHoldsOn` says for any number of calls served at the same
time that when a connection is over nobody but the children of *other* calls can keep it open, and those only by the raw end of the socket pair or the
duplicate in `conn`: what `subspace_inherited` shows has no other cause.

`ServiceTreeProofs`: `TypeCorrect`, `ProcessesFindThemselves`, `MountsAreLocal` and `OthersGoOn` (`EndsOnlyBelowClosed`), for any number of
services, nested however deep. The invariant says that every
process is visible in its own PID namespace (`InOwnNamespace`), that a process mounts `/proc` only
after it has made its mounts private (`PrivateMounts`), and that nobody joins the peer group of a
service before that one serves requests, and so has mounted what it is going to (`NoEarlyPeers`). For `OthersGoOn` it says that who has ended has lost its own client or that of the PID 1 of one
of its PID namespaces (`EndsOnlyWithEnclosing`), and these are among the process's ancestors (`WithinLineage`).

`FindsOwnChildren` is false for four services, and a condition on how many services there are is
not inductive. The second invariant, `PInv`, therefore says who finds its children in
any tree: whoever serves has a `/proc` of its own PID namespace, unless the PID 1 there has failed
to mount it, or that PID namespace is `Deep`: nested in one that was made by a service and not by the test
process (`ProcsOwned`). For the step in which `main` decides, `PInv` knows the name each service was started by
(`Named`) and how PID namespaces nest along the tree (`Generations`, `Nested`). `ChildrenAreFoundUnlessDeep`
says so for any number of services; the first three generations are never `Deep`
(`ThreeGenerationsAreFound`), and with at most three services there are no other ones
(`ThreeServicesFindTheirs`, which states `FindsOwnChildren`). The run `tree_grandchildren` shows that
the bound is exact.

`NsThreadsProofs`: `TypeCorrect`, `PoolStaysPristine` and `InitialThreadStaysPristine`, for any
number of goroutines, threads, namespaces and nested calls. `PoolPristine` alone is not
inductive: an unlock may only free a thread whose namespaces have been restored,
which depends on everything the goroutine's calls keep on their stack. The invariant
`IInv` says that a goroutine has at least as many locks as it has open calls;
if it has exactly as many, running the restore functions of its stack from the
top would bring its thread back to the original state (`Restorable`); if it has more,
one of its calls has given up and the thread can never be freed, only
discarded. With PID namespaces `RestoresCaller` and `FnContext` are false, but
`PoolPristine` is not, and the proof covers them too: it needs that a stack on
which a PID namespace was entered bottoms out in a saved reference to the original one.

`NsContextProofs`: `CallsRestore` (that is, `RestoresCaller`) and `FnInContext` (`FnContext`), if `pid` is not among the types;
`CallsRestoreAllButPid` and `FnInContextAllButPid` say the same for all other types
when it is, so that what `threads_pid_restore` shows is the only exception. `RestoresCaller` is about
one step, in which a call returns, and follows from what the stack says before it:
the thread differs from what the top call's caller had in the types the top call has
saved and in no others, and so do the callers' namespaces down the stack
(`Accounted`). This holds for goroutines in which nothing has failed; what others do cannot
disturb it. `FnContext` compares the thread of a separate goroutine with its caller's,
which waits meanwhile: the invariant (`InContext`) compares what the goroutine had before its own calls.

`NsIdlersProofs`: `NoDeadlock` (`SomebodyRuns`), `IdlersKeepNamespaces` (`IdlerKeepsNamespace`) and `NoIdlerIsForgotten` (`IdlersAreDue`), for any number of
goroutines, threads, idlers and test nodes. That somebody runs is not inductive: when a goroutine ends it
must be seen that another one goes on, namely the one that waits for it. `Chains` says that
the live goroutines of a test node are one sequence that starts with the node's and in which each one but the
last waits for the next; a step adds a goroutine at its end, removes
the last one, or changes nothing. The second invariant, `DInv`, says that the mount namespaces of idlers
are numbered apart (`Numbered`), that cleanups close a reference before they end its idler
(`Referenced`), and that the end of an idler is scheduled already while it is still being set up
(`Due`): its node cannot have ended by then, because it waits, which is what `Chains` is needed for.

`FdTableProofs`: `TypeCorrect`, `ReferencesAreGood` and `NodesLeaveOnlyFailures` (`OnlyFailuresLeak`), for a table of any size. The invariant says that every
open descriptor is scheduled to be closed, kept by a restore function, another goroutine's, or lost by a call that failed (`Owned`), that no two parties
own the same one (`Apart`), and that what is owned is open until a cleanup closes the wrong one (`Good`). Cleanups run in
reverse order, and the invariant also says that the ones to run before that of something handed out have other numbers (`EarlierSpared`), so that it is
still open when its own cleanup runs. Hence `OnlyPickedUpReferencesRob` (`OnlyPickedUpRobs`), and `OthersAreSafeWithoutSeparate`: as
long as `goSeparate` is not called, `OthersKeepTheirs` holds, which `fds_double_close` shows to fail with it. (A client that returns numbers of the service, as in
`rpc_six_rooms`, is not in `FdTable`.)

Only model-checked is liveness, which is out of the prover's reach: `CloseEndsService`, `CancelEndsService` and
`CallsEnd` of `SpacerRPC`, `AbandonedChildEnds` and `ClosedChildEnds` of `Spacemaker`, `EndsOnceClosed` of `ServiceTree`,
`BlockedReturns` and `IdlersEnd` of `NsThreads`. Most of them have a safety part, which is proved: no call is lost (`NoCallLost`, of `CallsEnd`),
a child can see the end of its connection (`StreamsEnd`, of `AbandonedChildEnds` and `ClosedChildEnds`), somebody can go on
(`SomebodyRuns`, of `BlockedReturns`), and the end of an idler is scheduled (`IdlersAreDue`, of `IdlersEnd`).

## Not modelled

* `Spacemaker` serves the calls of one process; services in different processes share
  only what `ServiceTree` has. The client's side of `Subspace` (which takes its end of the new
  connection) is in `SpacerRPC`, not in `Spacemaker`, where the client only has its end or closes it.
* `MountSysfsRO` mounts in a given mount namespace through `Execute`, and keeps no state of its own.
* Left out for good: building the service binary, options, logging and the texts of errors, the
  table of namespace names, and the packages that only forward (`netns`, most of `mntns`).
