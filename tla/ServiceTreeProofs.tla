-------------------------- MODULE ServiceTreeProofs --------------------------
(***************************************************************************)
(* Proofs about ServiceTree, for any number of services and any kinds of   *)
(* subspaces, nested as deep as one likes, and whatever mount fails.       *)
(***************************************************************************)
EXTENDS ServiceTree, FiniteSetTheorems, TLAPS

-----------------------------------------------------------------------------
(* The inductive invariant.                                                *)

\* A process is visible in its own PID namespace.
InOwnNamespace == \A s \in Procs : pidns[s] \in within[s]

\* What mounts on /proc has made its mounts private before.
PrivateMounts == \A s \in Services : state[s] = "private" => peers[s] = s

\* Nobody gets into the peer group of a service before that one serves
\* requests, that is, before it has mounted what it is going to.
NoEarlyPeers ==
    \A s \in Procs, t \in Services :
        s # t /\ peers[s] = t => state[t] \notin {"none", "started", "private"}

\* A process that has not been started has no connection.
Unconnected == \A s \in Services : state[s] = "none" => conn[s] = "none"

\* A service ends with its own client, or with the one of the PID 1 of a PID
\* namespace it is in.
EndsOnlyWithEnclosing ==
    \A t \in Services : state[t] = "ended" =>
        \E s \in (within[t] \union {t}) \ {Test} : conn[s] = "closed"

IInv ==
    /\ TypeOK
    /\ InOwnNamespace
    /\ SelfVisible
    /\ PrivateMounts
    /\ NoEarlyPeers
    /\ Unconnected
    /\ EndsOnlyWithEnclosing

-----------------------------------------------------------------------------
(* What each step keeps.                                                   *)

LEMMA InitIInv == Init => IInv
<1> SUFFICES ASSUME Init PROVE IInv
  OBVIOUS
<1>1. TypeOK
  BY TestAssumption DEF Init, TypeOK, Procs, States
<1>2. /\ InOwnNamespace /\ SelfVisible /\ PrivateMounts /\ NoEarlyPeers
      /\ Unconnected /\ EndsOnlyWithEnclosing
  BY TestAssumption DEF Init, Procs, InOwnNamespace, SelfVisible, Visible, PrivateMounts,
     NoEarlyPeers, Unconnected, EndsOnlyWithEnclosing
<1>3. QED
  BY <1>1, <1>2 DEF IInv

\* The new process gets its place among its ancestors.
LEMMA StartKeeps ==
    ASSUME IInv, NEW s \in Procs, NEW t \in Services, Start(s, t)
    PROVE  IInv'
<1> USE DEF IInv
<1>1. PICK spaces \in Spaces :
        /\ Idle(s)
        /\ state[t] = "none"
        /\ state' = [state EXCEPT ![t] = "started"]
        /\ parent' = [parent EXCEPT ![t] = s]
        /\ pidns' = [pidns EXCEPT ![t] = IF "pid" \in spaces THEN t ELSE pidns[s]]
        /\ within' = [within EXCEPT ![t] =
                        IF "pid" \in spaces THEN within[s] \union {t} ELSE within[s]]
        /\ argv0' = [argv0 EXCEPT ![t] = Exe(s)]
        /\ procfs' = [procfs EXCEPT ![t] = procfs[s]]
        /\ peers' = [peers EXCEPT ![t] = IF "user" \in spaces THEN t ELSE peers[s]]
        /\ conn' = [conn EXCEPT ![t] = "new"]
        /\ UNCHANGED <<found, failed>>
  BY DEF Start
<1>2. t \in Procs /\ s # t /\ state[s] = "serving"
  BY <1>1 DEF Procs, Idle
<1>3. TypeOK'
  BY <1>1, <1>2 DEF TypeOK, States, Procs, Exe
<1>4. InOwnNamespace' /\ SelfVisible'
  BY <1>1, <1>2 DEF TypeOK, InOwnNamespace, SelfVisible, Visible
<1>5. PrivateMounts'
  BY <1>1, <1>2 DEF TypeOK, PrivateMounts
<1>6. NoEarlyPeers'
  <2> SUFFICES ASSUME NEW p \in Procs, NEW q \in Services, p # q, peers'[p] = q
               PROVE  state'[q] \notin {"none", "started", "private"}
    BY DEF NoEarlyPeers
  <2>1. q # t
    BY <1>1, <1>2 DEF TypeOK, NoEarlyPeers
  <2>2. state'[q] = state[q]
    BY <1>1, <2>1 DEF TypeOK, Procs
  <2>3. CASE p # t
    BY <1>1, <2>2, <2>3 DEF TypeOK, NoEarlyPeers
  <2>4. CASE p = t
    <3>1. peers[s] = q
      BY <1>1, <1>2, <2>1, <2>4 DEF TypeOK
    <3>2. QED
      BY <1>2, <2>2, <3>1 DEF NoEarlyPeers
  <2>5. QED
    BY <2>3, <2>4
<1>7. Unconnected'
  BY <1>1, <1>2 DEF TypeOK, Unconnected, Procs
<1>8. EndsOnlyWithEnclosing'
  <2> SUFFICES ASSUME NEW p \in Services, state'[p] = "ended"
               PROVE  \E q \in (within'[p] \union {p}) \ {Test} : conn'[q] = "closed"
    BY DEF EndsOnlyWithEnclosing
  <2>1. p # t /\ state[p] = "ended" /\ within'[p] = within[p]
    BY <1>1, <1>2 DEF TypeOK, Procs
  <2>2. PICK q \in (within[p] \union {p}) \ {Test} : conn[q] = "closed"
    BY <2>1 DEF EndsOnlyWithEnclosing
  <2>3. q # t /\ q \in Procs
    BY <1>1, <2>2 DEF TypeOK, Unconnected, Procs
  <2>4. QED
    BY <1>1, <2>1, <2>2, <2>3 DEF TypeOK
<1>9. QED
  BY <1>3, <1>4, <1>5, <1>6, <1>7, <1>8

\* A connection that is closed stays closed, as long as nobody is started.
LEMMA ConnectionsKeep ==
    ASSUME IInv, UNCHANGED <<born, procfs, peers>>, UNCHANGED state,
           conn' \in [Procs -> {"none", "new", "open", "closed"}],
           \A q \in Procs : conn[q] = "closed" => conn'[q] = "closed",
           \A q \in Procs : conn[q] = "none" => conn'[q] = "none"
    PROVE  InOwnNamespace' /\ SelfVisible' /\ PrivateMounts' /\ NoEarlyPeers'
           /\ Unconnected' /\ EndsOnlyWithEnclosing'
<1> USE DEF IInv, born
<1>1. InOwnNamespace' /\ SelfVisible' /\ PrivateMounts' /\ NoEarlyPeers'
  BY DEF InOwnNamespace, SelfVisible, Visible, PrivateMounts, NoEarlyPeers
<1>2. Unconnected'
  BY DEF Unconnected, Procs
<1>3. EndsOnlyWithEnclosing'
  <2> SUFFICES ASSUME NEW p \in Services, state[p] = "ended"
               PROVE  \E q \in (within[p] \union {p}) \ {Test} : conn'[q] = "closed"
    BY DEF EndsOnlyWithEnclosing
  <2>1. PICK q \in (within[p] \union {p}) \ {Test} : conn[q] = "closed"
    BY DEF EndsOnlyWithEnclosing
  <2>2. q \in Procs
    BY DEF TypeOK, Procs
  <2>3. QED
    BY <2>1, <2>2
<1>4. QED
  BY <1>1, <1>2, <1>3

LEMMA LookUpKeeps ==
    ASSUME IInv, NEW t \in Services, LookUp(t)
    PROVE  IInv'
<1> USE DEF IInv
<1>1. /\ conn[t] = "new"
      /\ \E c \in {"open", "closed"} : conn' = [conn EXCEPT ![t] = c]
      /\ \E f \in {"child", "other"} : found' = [found EXCEPT ![t] = f]
      /\ UNCHANGED <<state, born, procfs, peers, failed>>
  BY DEF LookUp
<1>2. TypeOK'
  BY <1>1 DEF TypeOK, born, Procs
<1>3. /\ \A q \in Procs : conn[q] = "closed" => conn'[q] = "closed"
      /\ \A q \in Procs : conn[q] = "none" => conn'[q] = "none"
  BY <1>1 DEF TypeOK
<1>4. conn' \in [Procs -> {"none", "new", "open", "closed"}]
  BY <1>2 DEF TypeOK
<1>5. QED
  BY <1>1, <1>2, <1>3, <1>4, ConnectionsKeep

LEMMA CloseKeeps ==
    ASSUME IInv, NEW t \in Services, Close(t)
    PROVE  IInv'
<1> USE DEF IInv
<1>1. /\ conn[t] = "open"
      /\ conn' = [conn EXCEPT ![t] = "closed"]
      /\ UNCHANGED <<state, born, procfs, peers, found, failed>>
  BY DEF Close
<1>2. TypeOK'
  BY <1>1 DEF TypeOK, born, Procs
<1>3. /\ \A q \in Procs : conn[q] = "closed" => conn'[q] = "closed"
      /\ \A q \in Procs : conn[q] = "none" => conn'[q] = "none"
  BY <1>1 DEF TypeOK
<1>4. conn' \in [Procs -> {"none", "new", "open", "closed"}]
  BY <1>2 DEF TypeOK
<1>5. QED
  BY <1>1, <1>2, <1>3, <1>4, ConnectionsKeep

\* A step of main that starts to serve and mounts nothing.
LEMMA ServesKeeps ==
    ASSUME IInv, NEW t \in Services, state[t] \in {"started", "private"}, Serves(t),
           failed' \in SUBSET Services, UNCHANGED <<born, procfs, peers, conn, found>>
    PROVE  IInv'
<1> USE DEF IInv, Serves, born
<1>1. TypeOK'
  BY DEF TypeOK, Procs, States
<1>2. InOwnNamespace' /\ SelfVisible'
  BY DEF InOwnNamespace, SelfVisible, Visible
<1>3. PrivateMounts' /\ NoEarlyPeers' /\ Unconnected'
  BY DEF TypeOK, PrivateMounts, NoEarlyPeers, Unconnected, Procs
<1>4. EndsOnlyWithEnclosing'
  BY DEF TypeOK, EndsOnlyWithEnclosing, Procs
<1>5. QED
  BY <1>1, <1>2, <1>3, <1>4

LEMMA SkipRemountKeeps ==
    ASSUME IInv, NEW t \in Services, SkipRemount(t)
    PROVE  IInv'
<1>1. failed' \in SUBSET Services
  BY DEF SkipRemount, IInv, TypeOK
<1>2. QED
  BY <1>1, ServesKeeps DEF SkipRemount

LEMMA RemountFailsKeeps ==
    ASSUME IInv, NEW t \in Services, RemountFails(t)
    PROVE  IInv'
<1>1. failed' \in SUBSET Services
  BY DEF RemountFails, IInv, TypeOK
<1>2. QED
  BY <1>1, ServesKeeps DEF RemountFails

LEMMA MakePrivateKeeps ==
    ASSUME IInv, NEW t \in Services, MakePrivate(t)
    PROVE  IInv'
<1> USE DEF IInv, MakePrivate, born
<1>1. TypeOK'
  BY DEF TypeOK, Procs, States
<1>2. InOwnNamespace' /\ SelfVisible'
  BY DEF InOwnNamespace, SelfVisible, Visible
<1>3. PrivateMounts' /\ Unconnected'
  BY DEF TypeOK, PrivateMounts, Unconnected, Procs
<1>4. NoEarlyPeers'
  BY DEF TypeOK, NoEarlyPeers, Procs
<1>5. EndsOnlyWithEnclosing'
  BY DEF TypeOK, EndsOnlyWithEnclosing, Procs
<1>6. QED
  BY <1>1, <1>2, <1>3, <1>4, <1>5

\* The mount is seen by nobody else.
LEMMA MountsAlone ==
    ASSUME IInv, NEW t \in Services, MountProc(t)
    PROVE  procfs' = [procfs EXCEPT ![t] = pidns[t]]
<1>1. peers[t] = t
  BY DEF IInv, PrivateMounts, MountProc
<1>2. \A s \in Procs : s # t => peers[s] # t
  BY DEF IInv, NoEarlyPeers, MountProc
<1>3. QED
  BY <1>1, <1>2 DEF IInv, TypeOK, MountProc

LEMMA MountProcKeeps ==
    ASSUME IInv, NEW t \in Services, MountProc(t)
    PROVE  IInv'
<1> USE DEF IInv, MountProc, Serves, born
<1>1. procfs' = [procfs EXCEPT ![t] = pidns[t]]
  BY MountsAlone
<1>2. TypeOK'
  BY <1>1 DEF TypeOK, Procs, States
<1>3. InOwnNamespace' /\ SelfVisible'
  BY <1>1 DEF TypeOK, InOwnNamespace, SelfVisible, Visible
<1>4. PrivateMounts' /\ NoEarlyPeers' /\ Unconnected'
  BY DEF TypeOK, PrivateMounts, NoEarlyPeers, Unconnected, Procs
<1>5. EndsOnlyWithEnclosing'
  BY DEF TypeOK, EndsOnlyWithEnclosing, Procs
<1>6. QED
  BY <1>2, <1>3, <1>4, <1>5

\* Who ends does so with t, whose connection is closed.
LEMMA EndsKeeps ==
    ASSUME IInv, NEW t \in Services, Ends(t)
    PROVE  IInv'
<1> USE DEF IInv, born
<1>1. /\ state[t] = "serving"
      /\ conn[t] = "closed"
      /\ state' = [s \in Procs |-> IF s \in Doomed(t) THEN "ended" ELSE state[s]]
      /\ conn' = [s \in Procs |-> IF conn[s] = "new" /\ parent[s] \in Doomed(t)
                                  THEN "closed" ELSE conn[s]]
      /\ UNCHANGED <<born, procfs, peers, found, failed>>
  BY DEF Ends, Idle
<1>2. \A s \in Doomed(t) : s \in Services /\ state[s] # "none"
                           /\ (s = t \/ t \in within[s])
  BY <1>1 DEF Doomed
<1> DEFINE gone == Doomed(t)
<1> HIDE DEF gone
<1>3. TypeOK'
  BY <1>1 DEF TypeOK, States, gone
<1>4. InOwnNamespace' /\ SelfVisible'
  BY <1>1 DEF InOwnNamespace, SelfVisible, Visible
<1>5. PrivateMounts' /\ NoEarlyPeers'
  BY <1>1 DEF TypeOK, PrivateMounts, NoEarlyPeers, Procs, gone
<1>6. Unconnected'
  BY <1>1 DEF TypeOK, Unconnected, Procs, gone
<1>7. EndsOnlyWithEnclosing'
  <2> SUFFICES ASSUME NEW p \in Services, state'[p] = "ended"
               PROVE  \E q \in (within[p] \union {p}) \ {Test} : conn'[q] = "closed"
    BY <1>1 DEF EndsOnlyWithEnclosing
  <2>1. CASE p \in Doomed(t)
    <3>1. t \in (within[p] \union {p}) \ {Test}
      BY <1>2, <2>1, TestAssumption
    <3>2. conn'[t] = "closed"
      BY <1>1 DEF Procs
    <3>3. QED
      BY <3>1, <3>2
  <2>2. CASE p \notin Doomed(t)
    <3>1. state[p] = "ended"
      BY <1>1, <2>2 DEF Procs
    <3>2. PICK q \in (within[p] \union {p}) \ {Test} : conn[q] = "closed"
      BY <3>1 DEF EndsOnlyWithEnclosing
    <3>3. q \in Procs
      BY <3>2 DEF TypeOK, Procs
    <3>4. QED
      BY <1>1, <3>2, <3>3
  <2>3. QED
    BY <2>1, <2>2
<1>8. QED
  BY <1>3, <1>4, <1>5, <1>6, <1>7

LEMMA NextIInv == IInv /\ [Next]_vars => IInv'
<1> SUFFICES ASSUME IInv, [Next]_vars PROVE IInv'
  OBVIOUS
<1>1. CASE UNCHANGED vars
  BY <1>1 DEF vars, IInv, TypeOK, InOwnNamespace, SelfVisible, Visible, PrivateMounts,
     NoEarlyPeers, Unconnected, EndsOnlyWithEnclosing
<1>2. ASSUME NEW t \in Services,
             (\E s \in Procs : Start(s, t)) \/ LookUp(t) \/ Main(t) \/ Close(t)
      PROVE  IInv'
  BY <1>2, StartKeeps, LookUpKeeps, CloseKeeps, SkipRemountKeeps, MakePrivateKeeps,
     MountProcKeeps, RemountFailsKeeps, EndsKeeps DEF Main
<1>3. QED
  BY <1>1, <1>2 DEF Next

THEOREM Invariance == Spec => []IInv
<1>1. Init => IInv
  BY InitIInv
<1>2. IInv /\ [Next]_vars => IInv'
  BY NextIInv
<1>3. QED
  BY <1>1, <1>2, PTL DEF Spec

-----------------------------------------------------------------------------
(* The theorems.                                                           *)

\* Every variable keeps its type.
THEOREM TypeCorrect == Spec => []TypeOK
<1>1. IInv => TypeOK
  BY DEF IInv
<1>2. QED
  BY <1>1, Invariance, PTL

\* However deep services are nested and whatever main fails to mount, each
\* process is to be found in the /proc it has: /proc/self/exe, by which the
\* next service is started, and /proc/thread-self exist.
THEOREM ProcessesFindThemselves == Spec => []SelfVisible
<1>1. IInv => SelfVisible
  BY DEF IInv
<1>2. QED
  BY <1>1, Invariance, PTL

\* main makes its mounts private before it mounts anything, and before anybody
\* could share them with it, so that its /proc appears nowhere else.
THEOREM MountsAreLocal == Spec => MountsStayLocal
<1> DEFINE Local ==
      \A s \in Procs : procfs'[s] # procfs[s] => state[s] \in {"none", "private"}
<1>1. IInv /\ [Next]_vars => [Local]_vars
  <2> SUFFICES ASSUME IInv, Next PROVE Local
    OBVIOUS
  <2>1. PICK t \in Services :
          (\E s \in Procs : Start(s, t)) \/ LookUp(t) \/ Main(t) \/ Close(t)
    BY DEF Next
  <2>2. t \in Procs
    BY DEF Procs
  <2>3. CASE \E s \in Procs : Start(s, t)
    BY <2>2, <2>3 DEF Start, IInv, TypeOK
  <2>4. CASE MountProc(t)
    <3>1. procfs' = [procfs EXCEPT ![t] = pidns[t]] /\ state[t] = "private"
      BY <2>4, MountsAlone DEF MountProc
    <3>2. QED
      BY <2>2, <3>1 DEF IInv, TypeOK
  <2>5. CASE LookUp(t) \/ Close(t) \/ SkipRemount(t) \/ MakePrivate(t)
             \/ RemountFails(t) \/ Ends(t)
    BY <2>5 DEF LookUp, Close, SkipRemount, MakePrivate, RemountFails, Ends
  <2>6. QED
    BY <2>1, <2>3, <2>4, <2>5 DEF Main
<1>2. QED
  BY <1>1, Invariance, PTL DEF Spec, MountsStayLocal

-----------------------------------------------------------------------------
(* Which /proc services look up their children in.                         *)

\* Only started processes start others, or are PID 1 of a PID namespace that
\* others are in.
Founded == \A s \in Procs : \A p \in within[s] \union {parent[s]} : state[p] # "none"

\* A process is visible wherever the PID 1 of its PID namespaces are.
Nested == \A s \in Procs : \A i \in within[s] : within[i] \subseteq within[s]

\* The services that the test process has started are in its PID namespace or
\* in one right below it; those further down are, but for one of their own, in
\* the PID namespaces of who has started them.
Generations ==
    /\ within[Test] = {Test} /\ parent[Test] = Test
    /\ \A s \in Services :
         /\ parent[s] = Test => within[s] \subseteq {Test, s}
         /\ within[s] \subseteq within[parent[s]] \union {s}
         /\ s \in within[s] => PID1(s)

\* By which name a service has been started depends on who has started it.
Named == \A s \in Services : state[s] # "none" => argv0[s] = Exe(parent[s])

OnlyPID1Mounts == \A s \in Services : state[s] = "private" => PID1(s)

\* The handler that looks up a child belongs to a service that still runs.
LooksUpWhileServing ==
    \A t \in Services :
        /\ conn[t] = "new" => state[parent[t]] = "serving"
        /\ state[t] = "none" => found[t] = "none"

\* Of the PID namespaces around i, but for i, one has been made by a service
\* and not by the test process. The PID 1 of such a PID namespace goes by the
\* same name as the one of i.
Deep(i) == \E p \in within[i] \ {Test, i} : parent[p] # Test

OwnProc(s) == procfs[s] = pidns[s] \/ pidns[s] \in failed \/ Deep(pidns[s])

\* Who serves has a /proc of its own PID namespace, unless the PID 1 there has
\* failed to mount one or has not noticed that it had to.
ProcsOwned ==
    \A s \in Procs :
        state[s] = "serving" \/ (state[s] # "none" /\ ~PID1(s)) => OwnProc(s)

\* FindsOwnChildren, for any number of services.
FindsUnlessDeep ==
    \A t \in Services : found[t] = "other" =>
        pidns[parent[t]] \in failed \/ Deep(pidns[parent[t]])

PInv ==
    /\ Founded
    /\ Nested
    /\ Generations
    /\ Named
    /\ OnlyPID1Mounts
    /\ LooksUpWhileServing
    /\ ProcsOwned
    /\ FindsUnlessDeep

\* Nobody is its own ancestor.
NoCycles ==
    \A t \in Services :
        /\ parent[t] # t
        /\ parent[parent[t]] # t
        /\ parent[parent[parent[t]]] # t

\* FindsOwnChildren for the first three generations of services.
FindsThreeGenerations ==
    \A t \in Services :
        found[t] = "other" /\ parent[parent[parent[t]]] = Test =>
            pidns[parent[t]] \in failed

LEMMA InitPInv == Init => PInv /\ NoCycles
<1> SUFFICES ASSUME Init PROVE PInv /\ NoCycles
  OBVIOUS
<1>1. Test \in Procs /\ Services \subseteq Procs /\ \A s \in Services : s # Test
  BY TestAssumption DEF Procs
<1>2. Founded /\ Nested /\ Generations
  BY <1>1 DEF Init, Founded, Nested, Generations, PID1
<1>3. Named /\ OnlyPID1Mounts /\ LooksUpWhileServing /\ FindsUnlessDeep /\ NoCycles
  BY <1>1 DEF Init, Named, OnlyPID1Mounts, LooksUpWhileServing, FindsUnlessDeep, NoCycles
<1>4. ProcsOwned
  BY <1>1 DEF Init, ProcsOwned, OwnProc
<1> QED
  BY <1>2, <1>3, <1>4 DEF PInv

\* The new process is next to the one that starts it.
LEMMA StartShape ==
    ASSUME IInv, NEW s \in Procs, NEW t \in Services, Start(s, t)
    PROVE  /\ s # t /\ t \in Procs /\ t # Test
           /\ state[s] = "serving" /\ state[t] = "none"
           /\ state'[t] = "started" /\ parent'[t] = s /\ argv0'[t] = Exe(s)
           /\ procfs'[t] = procfs[s] /\ conn'[t] = "new"
           /\ \/ pidns'[t] = t /\ within'[t] = within[s] \union {t}
              \/ pidns'[t] = pidns[s] /\ within'[t] = within[s]
           /\ \A p \in Procs \ {t} :
                /\ state'[p] = state[p] /\ parent'[p] = parent[p]
                /\ pidns'[p] = pidns[p] /\ within'[p] = within[p]
                /\ argv0'[p] = argv0[p] /\ procfs'[p] = procfs[p]
                /\ conn'[p] = conn[p]
           /\ UNCHANGED <<found, failed>>
<1>1. PICK spaces \in Spaces :
        /\ Idle(s)
        /\ state[t] = "none"
        /\ state' = [state EXCEPT ![t] = "started"]
        /\ parent' = [parent EXCEPT ![t] = s]
        /\ pidns' = [pidns EXCEPT ![t] = IF "pid" \in spaces THEN t ELSE pidns[s]]
        /\ within' = [within EXCEPT ![t] =
                        IF "pid" \in spaces THEN within[s] \union {t} ELSE within[s]]
        /\ argv0' = [argv0 EXCEPT ![t] = Exe(s)]
        /\ procfs' = [procfs EXCEPT ![t] = procfs[s]]
        /\ conn' = [conn EXCEPT ![t] = "new"]
        /\ UNCHANGED <<found, failed>>
  BY DEF Start
<1>2. t \in Procs /\ t # Test /\ s # t /\ state[s] = "serving"
  BY <1>1, TestAssumption DEF Procs, Idle
<1>3. \A p \in Procs \ {t} :
        /\ state'[p] = state[p] /\ parent'[p] = parent[p]
        /\ pidns'[p] = pidns[p] /\ within'[p] = within[p]
        /\ argv0'[p] = argv0[p] /\ procfs'[p] = procfs[p]
        /\ conn'[p] = conn[p]
  BY <1>1 DEF IInv, TypeOK
<1>4. /\ state'[t] = "started" /\ parent'[t] = s /\ argv0'[t] = Exe(s)
      /\ procfs'[t] = procfs[s] /\ conn'[t] = "new"
  BY <1>1, <1>2 DEF IInv, TypeOK
<1>5. \/ pidns'[t] = t /\ within'[t] = within[s] \union {t}
      \/ pidns'[t] = pidns[s] /\ within'[t] = within[s]
  BY <1>1, <1>2 DEF IInv, TypeOK
<1> QED
  BY <1>1, <1>2, <1>3, <1>4, <1>5

\* What is started is known; t is not.
LEMMA StartedOnly ==
    ASSUME IInv, PInv, NEW t \in Services, state[t] = "none", NEW p \in Procs
    PROVE  /\ t \notin within[p] /\ parent[p] # t /\ pidns[p] # t
           /\ within[p] \subseteq Procs /\ parent[p] \in Procs /\ pidns[p] \in Procs
           /\ pidns[p] \in within[p]
<1>1. pidns[p] \in within[p]
  BY DEF IInv, InOwnNamespace
<1>2. t \notin within[p] /\ parent[p] # t
  BY DEF PInv, Founded
<1> QED
  BY <1>1, <1>2 DEF IInv, TypeOK

LEMMA StartKeepsP ==
    ASSUME IInv, PInv, NEW s \in Procs, NEW t \in Services, Start(s, t)
    PROVE  PInv'
<1>1. /\ s # t /\ t \in Procs /\ t # Test
      /\ state[s] = "serving" /\ state[t] = "none"
      /\ state'[t] = "started" /\ parent'[t] = s /\ argv0'[t] = Exe(s)
      /\ procfs'[t] = procfs[s] /\ conn'[t] = "new"
      /\ \/ pidns'[t] = t /\ within'[t] = within[s] \union {t}
         \/ pidns'[t] = pidns[s] /\ within'[t] = within[s]
  BY StartShape
<1>2. \A p \in Procs \ {t} :
        /\ state'[p] = state[p] /\ parent'[p] = parent[p]
        /\ pidns'[p] = pidns[p] /\ within'[p] = within[p]
        /\ argv0'[p] = argv0[p] /\ procfs'[p] = procfs[p]
        /\ conn'[p] = conn[p]
  BY StartShape
<1>3. UNCHANGED <<found, failed>>
  BY StartShape
<1>4. \A p \in Procs :
        /\ t \notin within[p] /\ parent[p] # t /\ pidns[p] # t
        /\ within[p] \subseteq Procs /\ parent[p] \in Procs /\ pidns[p] \in Procs
        /\ pidns[p] \in within[p]
  BY <1>1, StartedOnly
<1>5. Services \subseteq Procs /\ Test \in Procs
  BY DEF Procs
<1>6. ASSUME NEW i \in Procs, i # t, Deep(i)
      PROVE  Deep(i)'
  <2>1. PICK p \in within[i] \ {Test, i} : parent[p] # Test
    BY <1>6 DEF Deep
  <2>2. p \in Procs \ {t}
    BY <1>4, <2>1
  <2>3. p \in within'[i] \ {Test, i} /\ parent'[p] # Test
    BY <1>2, <1>6, <2>1, <2>2
  <2> QED
    BY <2>3 DEF Deep
<1>7. Founded'
  <2> SUFFICES ASSUME NEW x \in Procs, NEW p \in within'[x] \union {parent'[x]}
               PROVE  state'[p] # "none"
    BY DEF Founded
  <2>1. CASE p = t
    BY <1>1, <2>1
  <2>2. CASE p # t /\ x # t
    <3>1. p \in within[x] \union {parent[x]} /\ p \in Procs
      BY <1>2, <1>4, <2>2
    <3> QED
      BY <1>2, <2>2, <3>1 DEF PInv, Founded
  <2>3. CASE p # t /\ x = t
    <3>1. p = s \/ p \in within[s]
      BY <1>1, <2>3
    <3>2. p \in Procs /\ state[p] # "none"
      BY <1>1, <1>4, <3>1 DEF PInv, Founded
    <3> QED
      BY <1>2, <2>3, <3>2
  <2> QED
    BY <2>1, <2>2, <2>3
<1>8. Nested'
  <2> SUFFICES ASSUME NEW x \in Procs, NEW i \in within'[x]
               PROVE  within'[i] \subseteq within'[x]
    BY DEF Nested
  <2>1. CASE x # t
    <3>1. i \in within[x] /\ i \in Procs \ {t}
      BY <1>2, <1>4, <2>1
    <3> QED
      BY <1>2, <2>1, <3>1 DEF PInv, Nested
  <2>2. CASE x = t /\ i # t
    <3>1. i \in within[s] /\ i \in Procs
      BY <1>1, <1>4, <2>2
    <3>2. within[i] \subseteq within[s]
      BY <3>1 DEF PInv, Nested
    <3> QED
      BY <1>1, <1>2, <2>2, <3>1, <3>2
  <2>3. CASE x = t /\ i = t
    BY <2>3
  <2> QED
    BY <2>1, <2>2, <2>3
<1>9. Generations'
  <2>1. within'[Test] = {Test} /\ parent'[Test] = Test
    BY <1>1, <1>2, <1>5 DEF PInv, Generations
  <2>2. ASSUME NEW x \in Services
        PROVE  /\ parent'[x] = Test => within'[x] \subseteq {Test, x}
               /\ within'[x] \subseteq within'[parent'[x]] \union {x}
               /\ x \in within'[x] => pidns'[x] = x
    <3>1. CASE x # t
      <4>1. parent[x] \in Procs \ {t} /\ x \in Procs \ {t}
        BY <1>4, <1>5, <3>1
      <4> QED
        BY <1>2, <4>1 DEF PInv, Generations, PID1
    <3>2. CASE x = t
      <4>1. within'[s] = within[s] /\ within[Test] = {Test} /\ t \notin within[s]
        BY <1>1, <1>2, <1>4 DEF PInv, Generations
      <4> QED
        BY <1>1, <3>2, <4>1
    <3> QED
      BY <3>1, <3>2
  <2> QED
    BY <2>1, <2>2 DEF Generations, PID1
<1>10. Named'
  <2> SUFFICES ASSUME NEW x \in Services, state'[x] # "none"
               PROVE  argv0'[x] = Exe(parent'[x])
    BY DEF Named, Exe
  <2>1. CASE x = t
    BY <1>1, <2>1
  <2>2. CASE x # t
    BY <1>2, <1>5, <2>2 DEF PInv, Named
  <2> QED
    BY <2>1, <2>2
<1>11. OnlyPID1Mounts'
  BY <1>1, <1>2, <1>5 DEF PInv, OnlyPID1Mounts, PID1
<1>12. LooksUpWhileServing'
  <2> SUFFICES ASSUME NEW x \in Services
               PROVE  /\ conn'[x] = "new" => state'[parent'[x]] = "serving"
                      /\ state'[x] = "none" => found'[x] = "none"
    BY DEF LooksUpWhileServing
  <2>1. CASE x = t
    BY <1>1, <1>2, <2>1
  <2>2. CASE x # t
    <3>1. x \in Procs \ {t} /\ parent[x] \in Procs \ {t}
      BY <1>4, <1>5, <2>2
    <3> QED
      BY <1>2, <1>3, <3>1 DEF PInv, LooksUpWhileServing
  <2> QED
    BY <2>1, <2>2
<1>13. ASSUME NEW x \in Procs, OwnProc(x), x # t
       PROVE  OwnProc(x)'
  <2>1. pidns[x] \in Procs /\ pidns[x] # t
    BY <1>4
  <2>2. Deep(pidns[x]) => Deep(pidns[x])'
    <3>1. PICK i \in Procs : i = pidns[x] /\ i # t
      BY <2>1
    <3>2. pidns'[x] = i
      BY <1>2, <1>13, <3>1
    <3>3. Deep(i) => Deep(i)'
      BY <1>6, <3>1
    <3> QED
      BY <3>1, <3>2, <3>3
  <2> QED
    BY <1>2, <1>3, <1>13, <2>2 DEF OwnProc
<1>14. ProcsOwned'
  <2> SUFFICES ASSUME NEW x \in Procs,
                      state'[x] = "serving" \/ (state'[x] # "none" /\ pidns'[x] # x)
               PROVE  OwnProc(x)'
    BY DEF ProcsOwned, PID1
  <2>1. CASE x # t
    <3>1. OwnProc(x)
      BY <1>2, <2>1 DEF PInv, ProcsOwned, PID1
    <3> QED
      BY <1>13, <2>1, <3>1
  <2>2. CASE x = t
    <3>1. pidns'[t] = pidns[s]
      BY <1>1, <2>2
    <3>2. OwnProc(s)
      BY <1>1 DEF PInv, ProcsOwned
    <3>3. OwnProc(s)'
      BY <1>1, <1>13, <3>2
    <3>4. pidns'[s] = pidns[s] /\ procfs'[s] = procfs[s]
      BY <1>1, <1>2
    <3> QED
      BY <1>1, <2>2, <3>1, <3>3, <3>4 DEF OwnProc, Deep
  <2> QED
    BY <2>1, <2>2
<1>15. FindsUnlessDeep'
  <2> SUFFICES ASSUME NEW x \in Services, found'[x] = "other"
               PROVE  pidns'[parent'[x]] \in failed' \/ Deep(pidns[parent[x]])'
    BY DEF FindsUnlessDeep
  <2>1. x # t
    BY <1>1, <1>3 DEF PInv, LooksUpWhileServing
  <2>2. PICK y \in Procs : y = parent[x] /\ y # t
    BY <1>4, <1>5
  <2>3. PICK i \in Procs : i = pidns[y] /\ i # t
    BY <1>4
  <2>4. i \in failed \/ Deep(i)
    BY <1>3, <2>2, <2>3 DEF PInv, FindsUnlessDeep
  <2>5. parent'[x] = y /\ pidns'[y] = i
    BY <1>2, <1>5, <2>1, <2>2, <2>3
  <2>6. i \in failed' \/ Deep(i)'
    BY <1>3, <1>6, <2>3, <2>4
  <2> QED
    BY <2>5, <2>6
<1> QED
  BY <1>7, <1>8, <1>9, <1>10, <1>11, <1>12, <1>14, <1>15 DEF PInv

\* Whatever is started or looked up, who has started whom stays.
LEMMA BornStay ==
    ASSUME IInv, PInv, UNCHANGED born,
           \A s \in Procs : state'[s] = "none" <=> state[s] = "none"
    PROVE  /\ Founded' /\ Nested' /\ Generations' /\ Named'
           /\ \A i : Deep(i)' <=> Deep(i)
<1>1. UNCHANGED <<parent, within, pidns, argv0>>
  BY DEF born
<1>2. Services \subseteq Procs
  BY DEF Procs
<1>3. Founded'
  <2>1. \A s \in Procs : \A p \in within[s] \union {parent[s]} : p \in Procs
    BY DEF IInv, TypeOK
  <2> QED
    BY <1>1, <2>1 DEF PInv, Founded
<1>4. Nested' /\ Generations'
  BY <1>1 DEF PInv, Nested, Generations, PID1
<1>5. Named'
  BY <1>1, <1>2 DEF PInv, Named, Exe
<1>6. \A i : Deep(i)' <=> Deep(i)
  BY <1>1 DEF Deep
<1> QED
  BY <1>3, <1>4, <1>5, <1>6

LEMMA LookUpKeepsP ==
    ASSUME IInv, PInv, NEW t \in Services, LookUp(t)
    PROVE  PInv'
<1>1. /\ conn[t] = "new"
      /\ \E c \in {"open", "closed"} : conn' = [conn EXCEPT ![t] = c]
      /\ UNCHANGED <<state, born, procfs, peers, failed>>
  BY DEF LookUp
<1>2. t \in Procs /\ Services \subseteq Procs /\ parent[t] \in Procs
  BY DEF Procs, IInv, TypeOK
<1>3. /\ Founded' /\ Nested' /\ Generations' /\ Named'
      /\ \A i : Deep(i)' <=> Deep(i)
  BY <1>1, BornStay
<1>4. UNCHANGED <<parent, within, pidns, argv0>>
  BY <1>1 DEF born
<1>5. OnlyPID1Mounts' /\ ProcsOwned'
  BY <1>1, <1>3, <1>4 DEF PInv, OnlyPID1Mounts, ProcsOwned, OwnProc, PID1
<1>6. state[parent[t]] = "serving" /\ state[t] # "none"
  BY <1>1, <1>2 DEF PInv, LooksUpWhileServing, IInv, Unconnected
<1>7. \A x \in Services :
          /\ conn'[x] = "new" => conn[x] = "new"
          /\ x # t => found'[x] = found[x]
  BY <1>1, <1>2 DEF LookUp, IInv, TypeOK
<1>8. LooksUpWhileServing'
  BY <1>1, <1>4, <1>6, <1>7 DEF PInv, LooksUpWhileServing
<1>9. OwnProc(parent[t])
  BY <1>2, <1>6 DEF PInv, ProcsOwned
<1>10. FindsUnlessDeep'
  <2> SUFFICES ASSUME NEW x \in Services, found'[x] = "other"
               PROVE  pidns[parent[x]] \in failed \/ Deep(pidns[parent[x]])
    BY <1>1, <1>3, <1>4 DEF FindsUnlessDeep
  <2>1. CASE x # t
    BY <1>7, <2>1 DEF PInv, FindsUnlessDeep
  <2>2. CASE x = t
    <3>1. procfs[parent[t]] # pidns[parent[t]]
      BY <1>2, <2>2 DEF LookUp, IInv, TypeOK
    <3> QED
      BY <1>9, <2>2, <3>1 DEF OwnProc
  <2> QED
    BY <2>1, <2>2
<1> QED
  BY <1>3, <1>5, <1>8, <1>10 DEF PInv

\* t starts to serve with a /proc as it should be, or that cannot be helped.
LEMMA ServesKeepsP ==
    ASSUME IInv, PInv, NEW t \in Services, state[t] \in {"started", "private"},
           Serves(t), failed \subseteq failed', UNCHANGED <<born, conn, found>>,
           \A s \in Procs \ {t} : procfs'[s] = procfs[s],
           procfs'[t] = pidns[t] \/ pidns[t] \in failed' \/ Deep(pidns[t])
    PROVE  PInv'
<1>1. /\ t \in Procs /\ state'[t] = "serving"
      /\ \A s \in Procs \ {t} : state'[s] = state[s]
  BY DEF Serves, Procs, IInv, TypeOK
<1>2. Services \subseteq Procs /\ \A s \in Procs : parent[s] \in Procs
  BY DEF Procs, IInv, TypeOK
<1>3. /\ Founded' /\ Nested' /\ Generations' /\ Named'
      /\ \A i : Deep(i)' <=> Deep(i)
  BY <1>1, BornStay
<1>4. UNCHANGED <<parent, within, pidns, argv0>>
  BY DEF born
<1>5. OnlyPID1Mounts'
  BY <1>1, <1>2, <1>4 DEF PInv, OnlyPID1Mounts, PID1
<1>6. LooksUpWhileServing'
  BY <1>1, <1>2, <1>4 DEF PInv, LooksUpWhileServing
<1>7. ProcsOwned'
  <2> SUFFICES ASSUME NEW s \in Procs,
                      state'[s] = "serving" \/ (state'[s] # "none" /\ ~PID1(s))
               PROVE  procfs'[s] = pidns[s] \/ pidns[s] \in failed' \/ Deep(pidns[s])
    BY <1>3, <1>4 DEF ProcsOwned, OwnProc, PID1
  <2>1. CASE s # t
    BY <1>1, <2>1 DEF PInv, ProcsOwned, OwnProc
  <2> QED
    BY <2>1
<1>8. FindsUnlessDeep'
  BY <1>3, <1>4 DEF PInv, FindsUnlessDeep
<1> QED
  BY <1>3, <1>5, <1>6, <1>7, <1>8 DEF PInv

\* main leaves /proc as it is: it is not PID 1, it shows its own PID namespace,
\* or it shows one whose PID 1 goes by the same name, and that was not started
\* by the test process.
LEMMA SkipRemountKeepsP ==
    ASSUME IInv, PInv, NEW t \in Services, SkipRemount(t)
    PROVE  PInv'
<1>1. /\ state[t] = "started" /\ ~Remounts(t) /\ Serves(t)
      /\ UNCHANGED <<born, procfs, peers, conn, found, failed>>
  BY DEF SkipRemount
<1>2. t \in Procs /\ t # Test
  BY TestAssumption DEF Procs
<1>3. CASE ~PID1(t)
  <2>1. OwnProc(t)
    BY <1>1, <1>2, <1>3 DEF PInv, ProcsOwned
  <2> QED
    BY <1>1, <2>1, ServesKeepsP DEF OwnProc
<1>4. CASE PID1(t)
  <2>1. PICK p \in Procs : p = procfs[t] /\ p \in within[t]
    BY <1>2 DEF IInv, TypeOK, SelfVisible, Visible
  <2>2. argv0[t] = Exe(parent[t]) /\ Cmdline1(t) = argv0[t]
    BY <1>1, <1>4 DEF Remounts, PInv, Named
  <2>3. p # Test /\ p \in Services /\ argv0[p] = argv0[t]
    BY <2>1, <2>2 DEF Cmdline1, Exe, Procs
  <2>4. state[p] # "none"
    BY <1>2, <2>1 DEF PInv, Founded
  <2>5. argv0[p] = Exe(parent[p])
    BY <2>3, <2>4 DEF PInv, Named
  <2>6. CASE p = t
    <3>1. procfs'[t] = pidns[t]
      BY <1>1, <1>4, <2>1, <2>6 DEF PID1
    <3> QED
      BY <1>1, <3>1, ServesKeepsP
  <2>7. CASE p # t /\ parent[p] # Test
    <3>1. Deep(pidns[t])
      BY <1>4, <2>1, <2>3, <2>7 DEF PID1, Deep
    <3> QED
      BY <1>1, <3>1, ServesKeepsP
  <2>8. CASE p # t /\ parent[p] = Test
    <3>1. parent[t] = Test
      BY <2>2, <2>3, <2>5, <2>8 DEF Exe
    <3>2. within[t] \subseteq {Test, t}
      BY <3>1 DEF PInv, Generations
    <3> QED
      BY <2>1, <2>3, <2>8, <3>2
  <2> QED
    BY <2>6, <2>7, <2>8
<1> QED
  BY <1>3, <1>4

LEMMA MountProcKeepsP ==
    ASSUME IInv, PInv, NEW t \in Services, MountProc(t)
    PROVE  PInv'
<1>1. procfs' = [procfs EXCEPT ![t] = pidns[t]]
  BY MountsAlone
<1>2. /\ procfs'[t] = pidns[t]
      /\ \A s \in Procs \ {t} : procfs'[s] = procfs[s]
  BY <1>1 DEF Procs, IInv, TypeOK
<1> QED
  BY <1>2, ServesKeepsP DEF MountProc

LEMMA RemountFailsKeepsP ==
    ASSUME IInv, PInv, NEW t \in Services, RemountFails(t)
    PROVE  PInv'
<1>1. PID1(t)
  BY DEF RemountFails, PInv, OnlyPID1Mounts
<1>2. pidns[t] \in failed' /\ failed \subseteq failed'
  BY <1>1 DEF RemountFails, PID1
<1> QED
  BY <1>2, ServesKeepsP DEF RemountFails

LEMMA MakePrivateKeepsP ==
    ASSUME IInv, PInv, NEW t \in Services, MakePrivate(t)
    PROVE  PInv'
<1>1. /\ state[t] = "started" /\ PID1(t)
      /\ state' = [state EXCEPT ![t] = "private"]
      /\ UNCHANGED <<born, procfs, conn, found, failed>>
  BY DEF MakePrivate, Remounts
<1>2. /\ t \in Procs /\ state'[t] = "private"
      /\ \A s \in Procs \ {t} : state'[s] = state[s]
  BY <1>1 DEF Procs, IInv, TypeOK
<1>3. Services \subseteq Procs /\ \A s \in Procs : parent[s] \in Procs
  BY DEF Procs, IInv, TypeOK
<1>4. /\ Founded' /\ Nested' /\ Generations' /\ Named'
      /\ \A i : Deep(i)' <=> Deep(i)
  BY <1>1, <1>2, BornStay
<1>5. UNCHANGED <<parent, within, pidns, argv0>>
  BY <1>1 DEF born
<1>6. OnlyPID1Mounts'
  BY <1>1, <1>2, <1>3, <1>5 DEF PInv, OnlyPID1Mounts, PID1
<1>7. LooksUpWhileServing'
  BY <1>1, <1>2, <1>3, <1>5 DEF PInv, LooksUpWhileServing
<1>8. ProcsOwned'
  BY <1>1, <1>2, <1>4, <1>5 DEF PInv, ProcsOwned, OwnProc, PID1
<1>9. FindsUnlessDeep'
  BY <1>1, <1>4, <1>5 DEF PInv, FindsUnlessDeep
<1> QED
  BY <1>4, <1>6, <1>7, <1>8, <1>9 DEF PInv

LEMMA CloseKeepsP ==
    ASSUME IInv, PInv, NEW t \in Services, Close(t)
    PROVE  PInv'
<1>1. /\ conn' = [conn EXCEPT ![t] = "closed"]
      /\ UNCHANGED <<state, born, procfs, peers, found, failed>>
  BY DEF Close
<1>2. \A x \in Services : conn'[x] = "new" => conn[x] = "new"
  BY <1>1 DEF Procs, IInv, TypeOK
<1>3. /\ Founded' /\ Nested' /\ Generations' /\ Named'
      /\ \A i : Deep(i)' <=> Deep(i)
  BY <1>1, BornStay
<1>4. UNCHANGED <<parent, within, pidns, argv0>>
  BY <1>1 DEF born
<1>5. OnlyPID1Mounts' /\ ProcsOwned' /\ FindsUnlessDeep'
  BY <1>1, <1>3, <1>4 DEF PInv, OnlyPID1Mounts, ProcsOwned, OwnProc, PID1, FindsUnlessDeep
<1>6. LooksUpWhileServing'
  BY <1>1, <1>2, <1>4 DEF PInv, LooksUpWhileServing
<1> QED
  BY <1>3, <1>5, <1>6 DEF PInv

\* No handler is left that looks up a child of one that has ended.
LEMMA EndsKeepsP ==
    ASSUME IInv, PInv, NEW t \in Services, Ends(t)
    PROVE  PInv'
<1> DEFINE gone == Doomed(t)
<1>1. /\ state[t] = "serving"
      /\ state' = [s \in Procs |-> IF s \in gone THEN "ended" ELSE state[s]]
      /\ conn' = [s \in Procs |-> IF conn[s] = "new" /\ parent[s] \in gone
                                  THEN "closed" ELSE conn[s]]
      /\ UNCHANGED <<born, procfs, peers, found, failed>>
  BY DEF Ends, Idle
<1>2. \A s \in gone : s \in Services /\ state[s] # "none"
  BY <1>1 DEF Doomed
<1> HIDE DEF gone
<1>3. Services \subseteq Procs /\ \A s \in Procs : parent[s] \in Procs
  BY DEF Procs, IInv, TypeOK
<1>4. \A s \in Procs :
          /\ state'[s] = "none" <=> state[s] = "none"
          /\ state'[s] \in {state[s], "ended"}
          /\ state'[s] = "serving" <=> state[s] = "serving" /\ s \notin gone
  BY <1>1, <1>2
<1>5. /\ Founded' /\ Nested' /\ Generations' /\ Named'
      /\ \A i : Deep(i)' <=> Deep(i)
  BY <1>1, <1>4, BornStay
<1>6. UNCHANGED <<parent, within, pidns, argv0>>
  BY <1>1 DEF born
<1>7. OnlyPID1Mounts'
  BY <1>3, <1>4, <1>6 DEF PInv, OnlyPID1Mounts, PID1
<1>8. LooksUpWhileServing'
  <2>1. \A x \in Services : conn'[x] = "new" => conn[x] = "new" /\ parent[x] \notin gone
    BY <1>1, <1>3
  <2> QED
    BY <1>1, <1>3, <1>4, <1>6, <2>1 DEF PInv, LooksUpWhileServing
<1>9. ProcsOwned'
  BY <1>1, <1>4, <1>5, <1>6 DEF PInv, ProcsOwned, OwnProc, PID1
<1>10. FindsUnlessDeep'
  BY <1>1, <1>5, <1>6 DEF PInv, FindsUnlessDeep
<1> QED
  BY <1>5, <1>7, <1>8, <1>9, <1>10 DEF PInv

LEMMA NextPInv == IInv /\ PInv /\ [Next]_vars => PInv'
<1> SUFFICES ASSUME IInv, PInv, [Next]_vars PROVE PInv'
  OBVIOUS
<1>1. CASE UNCHANGED vars
  <2>1. UNCHANGED <<state, born, procfs, peers, conn, found, failed>>
    BY <1>1 DEF vars, born
  <2>2. /\ Founded' /\ Nested' /\ Generations' /\ Named'
        /\ \A i : Deep(i)' <=> Deep(i)
    BY <2>1, BornStay
  <2> QED
    BY <2>1, <2>2 DEF PInv, born, OnlyPID1Mounts, LooksUpWhileServing, ProcsOwned,
       OwnProc, PID1, FindsUnlessDeep
<1>2. ASSUME NEW t \in Services,
             (\E s \in Procs : Start(s, t)) \/ LookUp(t) \/ Main(t) \/ Close(t)
      PROVE  PInv'
  BY <1>2, StartKeepsP, LookUpKeepsP, CloseKeepsP, SkipRemountKeepsP, MakePrivateKeepsP,
     MountProcKeepsP, RemountFailsKeepsP, EndsKeepsP DEF Main
<1> QED
  BY <1>1, <1>2 DEF Next

LEMMA NextNoCycles == IInv /\ PInv /\ NoCycles /\ [Next]_vars => NoCycles'
<1> SUFFICES ASSUME IInv, PInv, NoCycles, [Next]_vars PROVE NoCycles'
  OBVIOUS
<1>1. CASE parent' = parent
  BY <1>1 DEF NoCycles
<1>2. ASSUME NEW s \in Procs, NEW u \in Services, Start(s, u)
      PROVE  NoCycles'
  <2>1. /\ s # u /\ state[u] = "none" /\ parent'[u] = s
        /\ \A p \in Procs \ {u} : parent'[p] = parent[p]
    BY <1>2, StartShape
  <2>2. \A p \in Procs : parent[p] \in Procs \ {u}
    BY <2>1, StartedOnly
  <2>3. \A p \in Procs \ {u} : parent'[p] \in Procs \ {u}
    BY <2>1, <2>2
  <2> SUFFICES ASSUME NEW t \in Services
               PROVE  /\ parent'[t] # t
                      /\ parent'[parent'[t]] # t
                      /\ parent'[parent'[parent'[t]]] # t
    BY DEF NoCycles
  <2>4. CASE t = u
    BY <1>2, <2>1, <2>3, <2>4
  <2>5. CASE t # u
    <3>1. t \in Procs \ {u}
      BY <2>5 DEF Procs
    <3>2. /\ parent'[t] = parent[t]
          /\ parent'[parent'[t]] = parent[parent[t]]
          /\ parent'[parent'[parent'[t]]] = parent[parent[parent[t]]]
      BY <2>1, <2>2, <3>1
    <3> QED
      BY <3>2 DEF NoCycles
  <2> QED
    BY <2>4, <2>5
<1>3. parent' = parent \/ \E s \in Procs, u \in Services : Start(s, u)
  BY DEF Next, LookUp, Close, Main, SkipRemount, MakePrivate, MountProc, RemountFails,
     Ends, born, vars
<1> QED
  BY <1>1, <1>2, <1>3

THEOREM PInvariance == Spec => [](PInv /\ NoCycles)
BY InitPInv, Invariance, NextPInv, NextNoCycles, PTL DEF Spec

\* For any number of services, and however deep they are nested: who looks up
\* its child in another PID namespace's /proc is in one whose PID 1 has failed
\* to mount its own, or that is nested in the PID namespace of a service that
\* itself was started by a service; then main cannot tell its own
\* /proc/1/cmdline from that one's.
THEOREM ChildrenAreFoundUnlessDeep == Spec => []FindsUnlessDeep
<1>1. PInv => FindsUnlessDeep
  BY DEF PInv
<1> QED
  BY <1>1, PInvariance, PTL

\* The PID namespaces around a service of the first or the second generation
\* are its own and those of who was started by the test process.
LEMMA NotDeep ==
    ASSUME IInv, PInv, NEW s \in Procs, parent[parent[s]] = Test
    PROVE  ~Deep(pidns[s])
<1> SUFFICES ASSUME NEW p \in within[pidns[s]] \ {Test, pidns[s]}, parent[p] # Test
             PROVE  FALSE
  BY DEF Deep
<1>1. pidns[s] \in within[s] /\ within[s] \subseteq Procs /\ parent[s] \in Procs
  BY DEF IInv, TypeOK, InOwnNamespace
<1>2. p \in within[s] /\ p \in Procs
  BY <1>1 DEF PInv, Nested
<1>3. s # Test
  BY <1>2 DEF PInv, Generations
<1>4. s \in Services /\ p \in Services
  BY <1>2, <1>3 DEF Procs
<1>5. p # s
  BY <1>2, <1>4 DEF PInv, Generations, PID1
<1>6. p \in within[parent[s]]
  BY <1>2, <1>4, <1>5 DEF PInv, Generations
<1>7. parent[s] # Test
  BY <1>6 DEF PInv, Generations
<1>8. parent[s] \in Services
  BY <1>1, <1>7 DEF Procs
<1>9. p = parent[s]
  BY <1>6, <1>8 DEF PInv, Generations
<1> QED
  BY <1>9

\* For any number of services, the handlers that start the first three
\* generations look up their children where those are, unless a mount has
\* failed: what main's remounting of /proc is for.
THEOREM ThreeGenerationsAreFound == Spec => []FindsThreeGenerations
<1>1. ASSUME IInv, PInv
      PROVE  FindsThreeGenerations
  <2> SUFFICES ASSUME NEW t \in Services, found[t] = "other",
                      parent[parent[parent[t]]] = Test
               PROVE  pidns[parent[t]] \in failed
    BY DEF FindsThreeGenerations
  <2>1. parent[t] \in Procs
    BY <1>1 DEF IInv, TypeOK, Procs
  <2>2. ~Deep(pidns[parent[t]])
    BY <1>1, <2>1, NotDeep
  <2> QED
    BY <1>1, <2>2 DEF PInv, FindsUnlessDeep
<1> QED
  BY <1>1, Invariance, PInvariance, PTL

LEMMA FourServices ==
    ASSUME IsFiniteSet(Services), Cardinality(Services) <= 3,
           NEW a \in Services, NEW b \in Services, NEW c \in Services, NEW d \in Services,
           a # b, a # c, a # d, b # c, b # d, c # d
    PROVE  FALSE
<1> DEFINE one == {} \union {a}
           two == one \union {b}
           three == two \union {c}
           four == three \union {d}
<1>1. four \subseteq Services
  OBVIOUS
<1>2. a \notin {} /\ b \notin one /\ c \notin two /\ d \notin three
  OBVIOUS
<1>3. IsFiniteSet({}) /\ Cardinality({}) = 0
  BY FS_EmptySet
<1>4. IsFiniteSet(one) /\ Cardinality(one) = 1
  <2>1. Cardinality(one) = Cardinality({}) + 1 /\ IsFiniteSet(one)
    BY <1>2, <1>3, FS_AddElement
  <2> QED
    BY <1>3, <2>1
<1> HIDE DEF one
<1>5. IsFiniteSet(two) /\ Cardinality(two) = 2
  <2>1. Cardinality(two) = Cardinality(one) + 1 /\ IsFiniteSet(two)
    BY <1>2, <1>4, FS_AddElement
  <2> QED
    BY <1>4, <2>1
<1> HIDE DEF two
<1>6. IsFiniteSet(three) /\ Cardinality(three) = 3
  <2>1. Cardinality(three) = Cardinality(two) + 1 /\ IsFiniteSet(three)
    BY <1>2, <1>5, FS_AddElement
  <2> QED
    BY <1>5, <2>1
<1> HIDE DEF three
<1>7. IsFiniteSet(four) /\ Cardinality(four) = 4
  <2>1. Cardinality(four) = Cardinality(three) + 1 /\ IsFiniteSet(four)
    BY <1>2, <1>6, FS_AddElement
  <2> QED
    BY <1>6, <2>1
<1> HIDE DEF four
<1>8. Cardinality(four) <= Cardinality(Services) /\ Cardinality(Services) \in Nat
  BY <1>1, FS_Subset, FS_CardinalityType
<1> QED
  BY <1>7, <1>8

\* As long as there are not more than three services, each handler looks up its
\* child where that is, unless a mount has failed. With four this does not hold
\* any more.
THEOREM ThreeServicesFindTheirs ==
    ASSUME IsFiniteSet(Services), Cardinality(Services) <= 3
    PROVE  Spec => []FindsOwnChildren
<1>1. ASSUME IInv, PInv, NoCycles, FindsThreeGenerations
      PROVE  FindsOwnChildren
  <2> SUFFICES ASSUME NEW t \in Services, found[t] = "other",
                      parent[parent[parent[t]]] # Test
               PROVE  FALSE
    BY <1>1 DEF FindsOwnChildren, FindsThreeGenerations
  <2> DEFINE x == parent[t]
             y == parent[x]
             z == parent[y]
  <2>1. parent[Test] = Test
    BY <1>1 DEF PInv, Generations
  <2>2. x \in Services /\ y \in Services /\ z \in Services
    BY <1>1, <2>1 DEF IInv, TypeOK, Procs
  <2>3. t # x /\ t # y /\ t # z /\ x # y /\ x # z /\ y # z
    BY <1>1, <2>2 DEF NoCycles
  <2> HIDE DEF x, y, z
  <2> QED
    BY <2>2, <2>3, FourServices
<1> QED
  BY <1>1, Invariance, PInvariance, ThreeGenerationsAreFound, PTL

-----------------------------------------------------------------------------
(* Who ends with whom.                                                     *)

\* The PID 1 of the PID namespaces of a process are among its ancestors.
WithinLineage == \A p \in Procs : \A A \in Lineages(p) : within[p] \subseteq A

LEMMA NextWithinLineage == IInv /\ PInv /\ WithinLineage /\ [Next]_vars => WithinLineage'
<1> SUFFICES ASSUME IInv, PInv, WithinLineage, [Next]_vars PROVE WithinLineage'
  OBVIOUS
<1>1. CASE UNCHANGED <<parent, within>>
  BY <1>1 DEF WithinLineage, Lineages
<1>2. ASSUME NEW s \in Procs, NEW t \in Services, Start(s, t)
      PROVE  WithinLineage'
  <2>1. /\ s # t /\ t # Test /\ parent'[t] = s /\ within'[t] \subseteq within[s] \union {t}
        /\ \A q \in Procs \ {t} : parent'[q] = parent[q] /\ within'[q] = within[q]
        /\ state[t] = "none"
    BY <1>2, StartShape
  <2>2. \A q \in Procs : parent[q] # t
    BY <2>1, StartedOnly
  <2> SUFFICES ASSUME NEW p \in Procs, NEW A \in Lineages(p)'
               PROVE  within'[p] \subseteq A
    BY DEF WithinLineage
  <2>3. A \subseteq Procs /\ {Test, p} \subseteq A /\ \A q \in A : parent'[q] \in A
    BY DEF Lineages
  <2> DEFINE B == A \ {t}
  <2>4. \A q \in B : parent[q] \in B
    BY <2>1, <2>2, <2>3
  <2>5. \A q \in B : B \in Lineages(q)
    BY <2>1, <2>3, <2>4 DEF Lineages
  <2>6. CASE p = t
    <3>1. s \in B
      BY <2>1, <2>3, <2>6
    <3>2. within[s] \subseteq B
      BY <2>3, <2>5, <3>1 DEF WithinLineage
    <3> QED
      BY <2>1, <2>3, <2>6, <3>2
  <2>7. CASE p # t
    <3>1. within[p] \subseteq B
      BY <2>3, <2>5, <2>7 DEF WithinLineage
    <3> QED
      BY <2>1, <2>7, <3>1
  <2> QED
    BY <2>6, <2>7
<1>3. UNCHANGED <<parent, within>> \/ \E s \in Procs, t \in Services : Start(s, t)
  BY DEF Next, LookUp, Close, Main, SkipRemount, MakePrivate, MountProc, RemountFails,
     Ends, born, vars
<1> QED
  BY <1>1, <1>2, <1>3

\* Whatever user and PID namespaces services are in, and whoever has started
\* whom: closing clients in any order ends nothing but the services of these
\* clients and what has been started below them.
THEOREM OthersGoOn == Spec => []EndsOnlyBelowClosed
<1>1. Init => WithinLineage
  BY DEF Init, WithinLineage, Lineages
<1>2. WithinLineage /\ EndsOnlyWithEnclosing => EndsOnlyBelowClosed
  <2> SUFFICES ASSUME WithinLineage, EndsOnlyWithEnclosing, NEW t \in Services,
                      state[t] = "ended", NEW A \in Lineages(t)
               PROVE  \E s \in A \ {Test} : conn[s] = "closed"
    BY DEF EndsOnlyBelowClosed
  <2>1. within[t] \union {t} \subseteq A
    BY DEF WithinLineage, Lineages, Procs
  <2> QED
    BY <2>1 DEF EndsOnlyWithEnclosing
<1>3. IInv => EndsOnlyWithEnclosing
  BY DEF IInv
<1> QED
  BY <1>1, <1>2, <1>3, Invariance, PInvariance, NextWithinLineage, PTL DEF Spec
=============================================================================
