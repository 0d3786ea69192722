------------------------------- MODULE FdTable -------------------------------
(***************************************************************************)
(* The descriptor table of the test process, and the cleanups that close   *)
(* descriptors by number when a test node ends: those of Current,          *)
(* NewTransient and the calls of a spacer client.  goSeparate closes       *)
(* references itself that it has got from Current, and the restore         *)
(* functions of EnterTransient close theirs.  Other goroutines of the      *)
(* process, such as Serve, open and close descriptors of their own         *)
(* meanwhile.  Any call may fail; the assertion that fails then unwinds    *)
(* it, and what it has opened by then is closed by its deferred functions  *)
(* or by nobody.                                                           *)
(*                                                                         *)
(* A descriptor is <<number, file>>.  The program knows only its number;   *)
(* the file says what the number stood for when the program got it.        *)
(***************************************************************************)
EXTENDS Naturals, Sequences, FiniteSets

CONSTANTS
    Size,       \* bound: the size of the table
    MaxFiles,   \* bound: files opened
    MaxNodes,   \* bound: test nodes, run one after the other
    Picked,     \* how many references goSeparate picks up
    MaxSpaces   \* bound: namespaces a client asks for in a call

ASSUME BoundsAssumption == Size \in Nat /\ MaxFiles \in Nat /\ MaxNodes \in Nat
ASSUME PickedAssumption == Picked \in Nat \ {0}
ASSUME MaxSpacesAssumption == MaxSpaces \in Nat

VARIABLES
    table,      \* the file behind each number, or Closed
    files,      \* the number of files opened so far; also names the latest
    cleanups,   \* what is scheduled to be closed, and for whom
    picked,     \* goSeparate's references, while its goroutine runs
    entered,    \* what restore functions hold on to, until they have run
    others,     \* what other goroutines have opened, and clients' connections
    lost,       \* history: what calls that failed have left open
    nodes,      \* the number of nodes started
    node,       \* "running", or "ending" while the cleanups run
    robbed      \* history: has a cleanup closed a descriptor in others?

vars == <<table, files, cleanups, picked, entered, others, lost, nodes, node, robbed>>

Numbers == 1..Size
Closed == 0
Fds == Numbers \X (1..MaxFiles)

Init ==
    /\ table = [n \in Numbers |-> Closed]
    /\ files = 0
    /\ cleanups = <<>>
    /\ picked = {}
    /\ entered = {}
    /\ others = {}
    /\ lost = {}
    /\ nodes = 1
    /\ node = "running"
    /\ robbed = FALSE

-----------------------------------------------------------------------------
(* open and close.                                                         *)

Unused == {n \in Numbers : table[n] = Closed}

\* The place of n among the unused numbers, from the lowest one.
Place(n) == Cardinality({m \in Unused : m <= n})

\* The kernel gives out the k lowest numbers.
Open(k) == {<<n, files + Place(n)>> : n \in {m \in Unused : Place(m) <= k}}

CanOpen(k) == files + k <= MaxFiles /\ k <= Cardinality(Unused)

With(fds) == [n \in Numbers |->
    IF \E p \in fds : p[1] = n THEN (CHOOSE p \in fds : p[1] = n)[2] ELSE table[n]]

\* close goes by the number. It does nothing to a number that is closed.
Without(t, fds) == [n \in Numbers |-> IF \E p \in fds : p[1] = n THEN Closed ELSE t[n]]

\* DeferCleanup for descriptors, which the caller gets as references or not.
Schedule(fds, handed) == cleanups' = Append(cleanups, [fds |-> fds, handed |-> handed])

-----------------------------------------------------------------------------
(* What a test node calls. A call that fails without having opened what it *)
(* would leave open changes nothing here.                                  *)

Running(k) ==
    /\ node = "running"
    /\ CanOpen(k)
    /\ files' = files + k

\* A call returns descriptors, or fails before it gets to its DeferCleanup: the
\* descriptors stay open, and nobody knows them any more.
HandOut(fds) ==
    \/ Schedule(fds, TRUE) /\ UNCHANGED lost
    \/ lost' = lost \union fds /\ UNCHANGED cleanups

Current ==
    /\ Running(1)
    /\ table' = With(Open(1))
    /\ Schedule(Open(1), TRUE)
    /\ UNCHANGED <<picked, entered, others, lost, nodes, node, robbed>>

\* Mutant: the deferred function closes the new reference.
NewTransientSwapped ==
    /\ Running(2)
    /\ \E old, new \in Open(2) :
           /\ old[1] < new[1]
           /\ table' = Without(With(Open(2)), {new})
           /\ HandOut({new})
    /\ UNCHANGED <<picked, entered, others, nodes, node, robbed>>

\* Open the caller's namespace, and then the new one; close the former when
\* returning or failing. Switching back fails before the latter is scheduled.
NewTransient ==
    /\ Running(2)
    /\ \E old, new \in Open(2) :
           /\ old[1] < new[1]
           /\ table' = Without(With(Open(2)), {old})
           /\ HandOut({new})
    /\ UNCHANGED <<picked, entered, others, nodes, node, robbed>>

\* Open the caller's namespace, for the restore function that is returned; with
\* Unshare or Mount failing there is none. The references of goInAndOut are
\* kept as well until it leaves, but it closes them whatever fails.
EnterTransient ==
    /\ Running(1)
    /\ table' = With(Open(1))
    /\ \/ entered' = entered \union Open(1) /\ UNCHANGED lost
       \/ lost' = lost \union Open(1) /\ UNCHANGED entered
    /\ UNCHANGED <<cleanups, picked, others, nodes, node, robbed>>

\* The restore function panics when it cannot switch back.
LeaveTransient == \E p \in entered :
    /\ entered' = entered \ {p}
    /\ \/ table' = Without(table, {p}) /\ UNCHANGED lost
       \/ lost' = lost \union {p} /\ UNCHANGED table
    /\ UNCHANGED <<files, cleanups, picked, others, nodes, node, robbed>>

\* A response cannot be decoded, or is not the one asked for.
ResponseLost == \E k \in 1..(MaxSpaces + 2) :
    /\ Running(k)
    /\ table' = With(Open(k))
    /\ lost' = lost \union Open(k)
    /\ UNCHANGED <<cleanups, picked, entered, others, nodes, node, robbed>>

Rooms == \E k \in 1..MaxSpaces :
    /\ Running(k)
    /\ table' = With(Open(k))
    /\ Schedule(Open(k), TRUE)
    /\ UNCHANGED <<picked, entered, others, lost, nodes, node, robbed>>

\* NewUnixConn closes the descriptor received, and has a duplicate for the new
\* client (or for the finalizer, when there is none) if it does not fail. The
\* PID descriptor is closed in any case. Without a client the namespaces are
\* lost.
Subspace == \E k \in 1..MaxSpaces :
    /\ Running(k + 3)
    /\ \E conn, pidfd, dup \in Open(k + 3) :
           LET spaces == Open(k + 3) \ {conn, pidfd, dup} IN
           /\ conn[1] < pidfd[1] /\ pidfd[1] < dup[1]
           /\ \A p \in spaces : pidfd[1] < p[1] /\ p[1] < dup[1]
           /\ \/ /\ table' = Without(With(Open(k + 3)), {conn, pidfd})
                 /\ HandOut(spaces)
                 /\ others' = others \union {dup}
              \/ /\ table' = Without(With(Open(k + 3)), {conn, pidfd, dup})
                 /\ lost' = lost \union spaces
                 /\ UNCHANGED <<cleanups, others>>
    /\ UNCHANGED <<picked, entered, nodes, node, robbed>>

\* Execute with a mount namespace: get the other namespaces of the caller from
\* Current, one after the other, and start the goroutine that runs fn. (With
\* one of them failing, those before it are like any others of Current.)
GoSeparate ==
    /\ picked = {}
    /\ Running(Picked)
    /\ table' = With(Open(Picked))
    /\ Schedule(Open(Picked), FALSE)
    /\ picked' = Open(Picked)
    /\ UNCHANGED <<entered, others, lost, nodes, node, robbed>>

\* Mutant: all references are closed, the ones passed to Execute, too.
SeparateEndsAll ==
    /\ picked # {}
    /\ table' = Without(table, UNION {cleanups[i].fds : i \in DOMAIN cleanups})
    /\ picked' = {}
    /\ UNCHANGED <<files, cleanups, entered, others, lost, nodes, node, robbed>>

\* The goroutine ends, because fn has returned or because anything failed.
SeparateEnds ==
    /\ picked # {}
    /\ table' = Without(table, picked)
    /\ picked' = {}
    /\ UNCHANGED <<files, cleanups, entered, others, lost, nodes, node, robbed>>

-----------------------------------------------------------------------------
(* Ginkgo, and the other goroutines.                                       *)

\* Mutant: Execute does not wait for the goroutine it has started.
NodeEndsEarly ==
    /\ node = "running"
    /\ node' = "ending"
    /\ UNCHANGED <<table, files, cleanups, picked, entered, others, lost, nodes, robbed>>

\* Not before a call of Execute has got the end of its goroutine's channel, and
\* the restore functions have run, which a test defers.
NodeEnds ==
    /\ node = "running"
    /\ picked = {}
    /\ entered = {}
    /\ node' = "ending"
    /\ UNCHANGED <<table, files, cleanups, picked, entered, others, lost, nodes, robbed>>

\* Last in, first out.
CleanupStep ==
    /\ node = "ending"
    /\ cleanups # <<>>
    /\ table' = Without(table, cleanups[Len(cleanups)].fds)
    /\ cleanups' = SubSeq(cleanups, 1, Len(cleanups) - 1)
    /\ robbed' = (robbed \/ \E p \in others : table[p[1]] = p[2] /\ table'[p[1]] = Closed)
    /\ UNCHANGED <<files, picked, entered, others, lost, nodes, node>>

NextNode ==
    /\ node = "ending"
    /\ cleanups = <<>>
    /\ nodes < MaxNodes
    /\ nodes' = nodes + 1
    /\ node' = "running"
    /\ UNCHANGED <<table, files, cleanups, picked, entered, others, lost, robbed>>

OtherOpens ==
    /\ CanOpen(1)
    /\ table' = With(Open(1))
    /\ files' = files + 1
    /\ others' = others \union Open(1)
    /\ UNCHANGED <<cleanups, picked, entered, lost, nodes, node, robbed>>

OtherCloses == \E p \in others :
    /\ table' = Without(table, {p})
    /\ others' = others \ {p}
    /\ UNCHANGED <<files, cleanups, picked, entered, lost, nodes, node, robbed>>

Next ==
    \/ Current \/ NewTransient \/ EnterTransient \/ LeaveTransient
    \/ ResponseLost \/ Rooms \/ Subspace
    \/ GoSeparate \/ SeparateEnds
    \/ NodeEnds \/ CleanupStep \/ NextNode
    \/ OtherOpens \/ OtherCloses

Spec == Init /\ [][Next]_vars

-----------------------------------------------------------------------------
(* Properties.                                                             *)

\* Every variable has its type, and no call goes on after its node.
TypeOK ==
    /\ table \in [Numbers -> 0..MaxFiles]
    /\ files \in 0..MaxFiles
    /\ cleanups \in Seq([fds : SUBSET Fds, handed : BOOLEAN])
    /\ picked \subseteq Fds
    /\ entered \subseteq Fds
    /\ others \subseteq Fds
    /\ lost \subseteq Fds
    /\ nodes \in Nat
    /\ node \in {"running", "ending"}
    /\ robbed \in BOOLEAN
    /\ node = "ending" => picked = {} /\ entered = {}

IsOpen(p) == table[p[1]] = p[2]

\* The references that a test got from Current, NewTransient or a client stay
\* good until the cleanups of its node run, and those that the restore functions
\* of EnterTransient switch back with until these are called: nothing closes
\* their numbers, and goSeparate closes only what it has picked up, whatever has
\* failed. (No longer so after a cleanup has closed a descriptor of another
\* goroutine, which closes it again.)
ReferencesStayGood ==
    node = "running" /\ ~robbed =>
        /\ \A i \in DOMAIN cleanups :
               cleanups[i].handed => \A p \in cleanups[i].fds : IsOpen(p)
        /\ \A p \in entered : IsOpen(p)

\* When the cleanups of a node have run, nothing is open that has been opened in
\* it or before, except what is not the tests' own and what calls that failed
\* halfway have left: successful calls leak nothing, and a number that was given
\* out more than once is closed all the same.
OnlyFailuresLeak ==
    node = "ending" /\ cleanups = <<>> =>
        \A n \in Numbers : table[n] # Closed => <<n, table[n]>> \in others \union lost

\* Only the cleanup of a reference that goSeparate has picked up, and closed
\* itself, is ever the first one to close a descriptor of another goroutine:
\* those of what was handed out close what they were scheduled for.
OnlyPickedUpRobs ==
    [][~robbed /\ robbed' => ~cleanups[Len(cleanups)].handed]_vars

\* "Current schedules a DeferCleanup of the returned file descriptor to be
\* closed at the end of the current test": of that one, not of whatever others
\* have opened since then and got its number for.
OthersKeepTheirs == \A p \in others : IsOpen(p)
=============================================================================
