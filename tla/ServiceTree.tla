----------------------------- MODULE ServiceTree -----------------------------
(***************************************************************************)
(* The processes that serve subspaces: which PID namespaces they are in,   *)
(* what their /proc shows, how main prepares its mounts, and who ends with *)
(* whom.  The test process is the root of the tree: the services made by   *)
(* New run in it.  Every other process was started by the Subspace handler *)
(* of its parent, in a mount namespace of its own and in a new user or PID *)
(* namespace or both.                                                      *)
(*                                                                         *)
(* A PID namespace is named by the process that is PID 1 in it; Test names *)
(* the one of the test process, whose PID 1 is not part of this program.   *)
(***************************************************************************)
EXTENDS Naturals, FiniteSets

CONSTANTS
    Services,   \* the processes that may be started
    Test,       \* the test process
    Spaces      \* the sets of namespaces that are asked for

ASSUME TestAssumption == Test \notin Services
ASSUME SpacesAssumption == Spaces \subseteq (SUBSET {"user", "pid"}) \ {{}}

VARIABLES
    state,      \* how far main is: see States
    parent,     \* the process that started it
    within,     \* the PID namespaces it is visible in: its own and those above
    pidns,      \* its own PID namespace
    argv0,      \* the name it was started by
    procfs,     \* the PID namespace whose processes its /proc shows
    peers,      \* the peer group its mounts belong to
    conn,       \* its connection: "none", "new", "open" for a client, "closed"
    found,      \* what its parent found under /proc/<pid>/ns
    failed      \* history: the processes that failed to remount /proc

vars == <<state, parent, within, pidns, argv0, procfs, peers, conn, found, failed>>
born == <<parent, within, pidns, argv0>>

Procs == Services \union {Test}
States == {"none", "started", "private", "serving", "ended"}

Init ==
    /\ state = [s \in Procs |-> IF s = Test THEN "serving" ELSE "none"]
    /\ parent = [s \in Procs |-> Test]
    /\ within = [s \in Procs |-> {Test}]
    /\ pidns = [s \in Procs |-> Test]
    /\ argv0 = [s \in Procs |-> "test"]
    /\ procfs = [s \in Procs |-> Test]
    /\ peers = [s \in Procs |-> Test]
    /\ conn = [s \in Procs |-> IF s = Test THEN "open" ELSE "none"]
    /\ found = [s \in Procs |-> "none"]
    /\ failed = {}

-----------------------------------------------------------------------------
(* Spacemaker.Subspace of process s starts t and then looks it up.         *)

\* Mutant: there is no default for a Spacemaker without Exe.
ExeUnset(s) == IF s = Test THEN "binary" ELSE ""

\* New configures the path of the service's binary, main does not.
Exe(s) == IF s = Test THEN "binary" ELSE "/proc/self/exe"

\* A service handles one request at a time. There may be many services in the
\* test process.
Idle(s) ==
    /\ state[s] = "serving"
    /\ s # Test => \A t \in Services : parent[t] = s => conn[t] # "new"

\* The mounts of the new mount namespace are copies, and peers of the ones
\* they were copied from unless the user namespace is a new one.
Start(s, t) == \E spaces \in Spaces :
    /\ Idle(s)
    /\ conn[s] = "open"
    /\ state[t] = "none"
    /\ state' = [state EXCEPT ![t] = "started"]
    /\ parent' = [parent EXCEPT ![t] = s]
    /\ pidns' = [pidns EXCEPT ![t] = IF "pid" \in spaces THEN t ELSE pidns[s]]
    /\ within' = [within EXCEPT ![t] =
                    IF "pid" \in spaces THEN within[s] \union {t} ELSE within[s]]
    /\ argv0' = [argv0 EXCEPT ![t] = Exe(s)]
    /\ procfs' = [procfs EXCEPT ![t] = procfs[s]]
    /\ peers' = [peers EXCEPT ![t] = IF "user" \in spaces THEN t ELSE peers[s]]
    /\ conn' = [conn EXCEPT ![t] = "new"]
    /\ UNCHANGED <<found, failed>>

\* The PID the parent knows its child by is the one in its own PID namespace.
\* In a /proc of another one it stands for another process or for none, and
\* then the handler fails and closes the connection.
LookUp(t) ==
    /\ conn[t] = "new"
    /\ LET s == parent[t] IN
           IF procfs[s] = pidns[s]
           THEN /\ found' = [found EXCEPT ![t] = "child"]
                /\ conn' = [conn EXCEPT ![t] = "open"]
           ELSE /\ found' = [found EXCEPT ![t] = "other"]
                /\ \E c \in {"open", "closed"} : conn' = [conn EXCEPT ![t] = c]
    /\ UNCHANGED <<state, born, procfs, peers, failed>>

-----------------------------------------------------------------------------
(* main.                                                                   *)

PID1(t) == pidns[t] = t

\* What /proc/1/cmdline contains.
Cmdline1(t) == IF procfs[t] = Test THEN "init" ELSE argv0[procfs[t]]

\* Mutant: what is found under /proc is not compared with the own name.
RemountsAsInit(t) == PID1(t) /\ procfs[t] = Test

\* main remounts /proc when it is PID 1 and /proc/1/cmdline is not its own.
Remounts(t) == PID1(t) /\ Cmdline1(t) # argv0[t]

Serves(t) == state' = [state EXCEPT ![t] = "serving"]

SkipRemount(t) ==
    /\ state[t] = "started"
    /\ ~Remounts(t)
    /\ Serves(t)
    /\ UNCHANGED <<born, procfs, peers, conn, found, failed>>

\* Mutant: MS_PRIVATE is forgotten.
MakePrivateNot(t) ==
    /\ state[t] = "started"
    /\ Remounts(t)
    /\ state' = [state EXCEPT ![t] = "private"]
    /\ UNCHANGED <<born, procfs, peers, conn, found, failed>>

\* mount --make-rprivate /
MakePrivate(t) ==
    /\ state[t] = "started"
    /\ Remounts(t)
    /\ state' = [state EXCEPT ![t] = "private"]
    /\ peers' = [peers EXCEPT ![t] = t]
    /\ UNCHANGED <<born, procfs, conn, found, failed>>

\* Mount a procfs on /proc. The mount appears in all peers.
MountProc(t) ==
    /\ state[t] = "private"
    /\ procfs' = [s \in Procs |-> IF s = t \/ peers[s] = peers[t] THEN pidns[t]
                                                                 ELSE procfs[s]]
    /\ Serves(t)
    /\ UNCHANGED <<born, peers, conn, found, failed>>

\* Either of the mounts fails, or /proc/1/cmdline could not be read. main logs
\* it and goes on.
RemountFails(t) ==
    /\ state[t] = "private" \/ (state[t] = "started" /\ PID1(t))
    /\ failed' = failed \union {t}
    /\ Serves(t)
    /\ UNCHANGED <<born, procfs, peers, conn, found>>

Close(t) ==
    /\ t # Test
    /\ conn[t] = "open"
    /\ conn' = [conn EXCEPT ![t] = "closed"]
    /\ UNCHANGED <<state, born, procfs, peers, found, failed>>

\* Mutant: main waits for its child processes before it returns.
EndsAfterChildren(t) ==
    /\ Idle(t)
    /\ conn[t] = "closed"
    /\ \A s \in Services : parent[s] = t => state[s] \in {"none", "ended"}
    /\ state' = [state EXCEPT ![t] = "ended"]
    /\ UNCHANGED <<born, procfs, peers, conn, found, failed>>

\* Mutant: main kills all processes it sees when it returns.
EndsAll(t) ==
    /\ Idle(t)
    /\ conn[t] = "closed"
    /\ state' = [s \in Procs |-> IF s # Test /\ state[s] # "none" /\ procfs[t] \in within[s]
                                 THEN "ended" ELSE state[s]]
    /\ conn' = [s \in Procs |-> IF conn[s] = "new" THEN "closed" ELSE conn[s]]
    /\ UNCHANGED <<born, procfs, peers, found, failed>>

\* Those who end when t does: the kernel kills a PID namespace with its PID 1.
Doomed(t) == {s \in Services : s = t \/ (PID1(t) /\ t \in within[s] /\ state[s] # "none")}

\* Serve reads the end of the stream and main returns. A request that one of
\* those who end is serving is not answered any more.
Ends(t) ==
    /\ Idle(t)
    /\ conn[t] = "closed"
    /\ state' = [s \in Procs |-> IF s \in Doomed(t) THEN "ended" ELSE state[s]]
    /\ conn' = [s \in Procs |-> IF conn[s] = "new" /\ parent[s] \in Doomed(t)
                                THEN "closed" ELSE conn[s]]
    /\ UNCHANGED <<born, procfs, peers, found, failed>>

-----------------------------------------------------------------------------
Main(t) == SkipRemount(t) \/ MakePrivate(t) \/ MountProc(t) \/ RemountFails(t) \/ Ends(t)

Next == \E t \in Services :
    \/ \E s \in Procs : Start(s, t)
    \/ LookUp(t) \/ Main(t) \/ Close(t)

Spec == Init /\ [][Next]_vars

\* Processes run: main, and the handler that looks up its child. Nobody has to
\* start or close anything.
Fairness == \A t \in Services : WF_vars(Main(t)) /\ WF_vars(LookUp(t))

FairSpec == Spec /\ Fairness

-----------------------------------------------------------------------------
(* Properties.                                                             *)

\* Every variable has its type.
TypeOK ==
    /\ state \in [Procs -> States]
    /\ parent \in [Procs -> Procs]
    /\ within \in [Procs -> SUBSET Procs]
    /\ pidns \in [Procs -> Procs]
    /\ argv0 \in [Procs -> {"test", "binary", "/proc/self/exe"}]
    /\ procfs \in [Procs -> Procs]
    /\ peers \in [Procs -> Procs]
    /\ conn \in [Procs -> {"none", "new", "open", "closed"}]
    /\ found \in [Procs -> {"none", "child", "other"}]
    /\ failed \subseteq Services

Visible(s, v) == procfs[v] \in within[s]

\* Whatever main has managed to mount, a process finds itself in its /proc:
\* newNamespace finds /proc/thread-self, and Subspace /proc/self/exe.
SelfVisible == \A s \in Procs : Visible(s, s)

\* No process changes what another one's /proc shows, the test process's
\* least of all.
MountsStayLocal ==
    [][\A s \in Procs : procfs'[s] # procfs[s] => state[s] \in {"none", "private"}]_vars

\* A service looks up its children in the /proc of its own PID namespace, so
\* that the namespaces it returns are theirs, unless the PID 1 there has failed
\* to mount one. "This is necessary in order to allow creating grandchild PID
\* namespaces." True of the first three generations of services below the test
\* process; from the fourth on, main may take the /proc of an enclosing PID
\* namespace for its own.
FindsOwnChildren ==
    \A t \in Services : found[t] = "other" => pidns[parent[t]] \in failed

\* The sets of processes that t and all its ancestors are in.
Lineages(t) ==
    {A \in SUBSET Procs : {Test, t} \subseteq A /\ \A s \in A : parent[s] \in A}

\* Closing a client ends services of its own subtree only, whatever PID
\* namespaces they share: a service that has ended, or one that has started it,
\* directly or not, has lost its client. It is never the closing of a sibling or
\* of a service further down that ends it.
EndsOnlyBelowClosed ==
    \A t \in Services : state[t] = "ended" =>
        \A A \in Lineages(t) : \E s \in A \ {Test} : conn[s] = "closed"

\* A service whose client closes, or whose client never got its connection,
\* ends, whatever else ends meanwhile.
EndsOnceClosed == \A t \in Services : conn[t] = "closed" ~> state[t] = "ended"
=============================================================================
