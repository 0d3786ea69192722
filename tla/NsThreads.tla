------------------------------ MODULE NsThreads ------------------------------
(***************************************************************************)
(* Goroutines that switch the namespaces of their OS-level threads:        *)
(* spacetest.EnterTransient, NewTransient and Execute (goInAndOut and      *)
(* goSeparate), mntns.EnterTransient and NewTransient, and the newNamespace *)
(* of the spacer service.  The runtime hands a thread that no goroutine is *)
(* locked to on to whichever goroutine is to run next, so what matters is  *)
(* which threads get back into that pool, whatever system call fails.      *)
(*                                                                         *)
(* A thread's namespaces are numbers for each type, 0 being the ones the   *)
(* process was started in.  For "pid" the number is that of the namespace  *)
(* for children: the thread's own PID namespace never changes.  A list of  *)
(* namespaces that names a type twice stands for one that names the last   *)
(* of them only.  The types "user" and "time" are left out: a thread of a  *)
(* Go program can neither leave its user nor its time namespace.           *)
(***************************************************************************)
EXTENDS Naturals, Sequences

CONSTANTS
    Goroutines,     \* goroutines that exist at the same time
    OSThreads,      \* OS-level threads that exist at the same time
    InitialThread,  \* the one the process was started with
    NoThread,
    NsTypes,        \* the types of namespaces
    MaxNs,          \* bound: new namespaces of each type
    MaxLocks,       \* bound: LockOSThread calls of a goroutine not yet undone
    MaxCleanups     \* bound: deferred cleanups of a test node

ASSUME ThreadsAssumption == InitialThread \in OSThreads /\ NoThread \notin OSThreads
ASSUME TypesAssumption ==
    /\ NsTypes \subseteq {"cgroup", "ipc", "mnt", "net", "pid", "uts"}
    /\ "mnt" \in NsTypes
ASSUME BoundsAssumption == {MaxNs, MaxLocks, MaxCleanups} \subseteq Nat

VARIABLES
    alive,      \* the threads that exist
    ns,         \* the namespaces each thread is attached to
    ownFs,      \* has the thread unshared its filesystem attributes?
    on,         \* the thread a goroutine is locked to
    locks,      \* LockOSThread calls of a goroutine not yet undone
    stack,      \* calls of a goroutine that have switched and not yet restored
    pc,         \* what a goroutine is up to: see PCs
    helper,     \* what it was started for, and by whom
    made,       \* the new namespaces created so far
    cleanups,   \* DeferCleanups of a test node, the last one first to run
    failed      \* history: goroutines in which something has failed

threadVars == <<alive, ns, ownFs>>
vars == <<threadVars, on, locks, stack, pc, helper, made, cleanups, failed>>

\* "off": does not exist; "run": executes test code; "panic": unwinds a failed
\* expectation; "blocked": waits for the goroutine it has started; "setup":
\* prepares the thread it is locked to; "idle": an idler that waits for its
\* done channel; "done": about to end; "cleanup": a test node that has ended
\* and whose DeferCleanups run.
PCs == {"off", "run", "panic", "blocked", "setup", "idle", "done", "cleanup"}

\* "node" runs a test node, "fn" the function passed to goSeparate, "idler"
\* keeps a mount namespace of mntns.NewTransient, "maker" is a throw-away
\* goroutine of the service's Room.
Roles == {"node", "fn", "idler", "maker"}

\* The types for EnterTransient, NewTransient and newNamespace.
Enterable == NsTypes \ {"mnt"}
Creatable == NsTypes \ {"mnt", "pid"}
Roomy == NsTypes \ {"pid"}

Pristine == [typ \in NsTypes |-> 0]

\* What a goroutine that does not exist is there for.
NoErrand(g) == [role |-> "node", boss |-> g, root |-> g, want |-> Pristine]

Switch(cur, to) ==
    [typ \in NsTypes |-> IF typ \in DOMAIN to THEN to[typ] ELSE cur[typ]]

\* The references to the current namespaces that the code opens before it
\* switches: /proc/thread-self/ns/pid is the thread's own PID namespace.
CurrentOf(cur, types) ==
    [typ \in types |-> IF typ = "pid" THEN 0 ELSE cur[typ]]

\* What a list of namespaces passed to Execute can refer to.
Lists(types) ==
    {to \in UNION {[T -> 0..MaxNs] : T \in (SUBSET types) \ {{}}} :
        \A typ \in DOMAIN to : to[typ] <= made[typ]}

Init ==
    /\ alive = {InitialThread}
    /\ ns = [t \in OSThreads |-> Pristine]
    /\ ownFs = [t \in OSThreads |-> FALSE]
    /\ on = [g \in Goroutines |-> NoThread]
    /\ locks = [g \in Goroutines |-> 0]
    /\ stack = [g \in Goroutines |-> <<>>]
    /\ pc = [g \in Goroutines |-> "off"]
    /\ helper = [g \in Goroutines |-> NoErrand(g)]
    /\ made = Pristine
    /\ cleanups = [g \in Goroutines |-> <<>>]
    /\ failed = {}

-----------------------------------------------------------------------------
(* The Go runtime.                                                         *)

\* Mutant: without the init function of package spacetest.
PoolWithInitial == {t \in alive \union {InitialThread} : \A g \in Goroutines : on[g] # t}

\* The threads any goroutine may be run on. The initial thread is not one of
\* them because init of package spacetest locks the main goroutine to it.
Pool == {t \in alive : t # InitialThread /\ \A g \in Goroutines : on[g] # t}

\* The thread that LockOSThread locks g to: its own, one of the pool, or a
\* new one, which the runtime clones from a thread nobody is locked to.
Lockable(g) ==
    IF locks[g] > 0 THEN {on[g]} ELSE Pool \union (OSThreads \ alive)

\* Goroutine g has locked thread t and leaves it in the given state.
Lock(g, t, n, own) ==
    /\ t \in Lockable(g)
    /\ alive' = alive \union {t}
    /\ on' = [on EXCEPT ![g] = t]
    /\ locks' = [locks EXCEPT ![g] = @ + 1]
    /\ ns' = [ns EXCEPT ![t] = n]
    /\ ownFs' = [ownFs EXCEPT ![t] = own]

\* UnlockOSThread undoes one LockOSThread; the last one frees the thread.
Unlock(g) ==
    /\ locks' = [locks EXCEPT ![g] = @ - 1]
    /\ on' = [on EXCEPT ![g] = IF locks[g] = 1 THEN NoThread ELSE @]

\* A goroutine that ends while locked to its thread takes it along; the next
\* thread of that name is a new one.
Discard(t) ==
    /\ alive' = alive \ {t}
    /\ ns' = [ns EXCEPT ![t] = Pristine]
    /\ ownFs' = [ownFs EXCEPT ![t] = FALSE]

End(g) ==
    /\ Discard(on[g])
    /\ on' = [on EXCEPT ![g] = NoThread]
    /\ locks' = [locks EXCEPT ![g] = 0]

Panic(g) ==
    /\ pc' = [pc EXCEPT ![g] = "panic"]
    /\ failed' = failed \union {g}

Runs(g) == pc[g] = "run"
MayCall(g) == Runs(g) /\ locks[g] < MaxLocks
Top(g) == stack[g][Len(stack[g])]
Below(g) == SubSeq(stack[g], 1, Len(stack[g]) - 1)
Returns(g, op) ==
    /\ pc[g] \in {"run", "panic"}
    /\ stack[g] # <<>>
    /\ Top(g).op = op

Pop(g) == stack' = [stack EXCEPT ![g] = Below(g)]

\* A call that has switched the types in "saved", whose references to the
\* previous namespaces it keeps; "before" is history.
Push(g, op, saved, before) ==
    stack' = [stack EXCEPT ![g] =
                Append(@, [op |-> op, saved |-> saved, before |-> before])]

\* Start goroutine h on behalf of g, which waits for it.
Spawn(g, h, role, want) ==
    /\ h # g
    /\ pc[h] = "off"
    /\ pc' = [pc EXCEPT ![g] = "blocked", ![h] = "setup"]
    /\ helper' = [helper EXCEPT ![h] =
                    [role |-> role, boss |-> g, root |-> helper[g].root,
                     want |-> want]]

NextNs(typ) == made[typ] + 1
Made(typ) == made' = [made EXCEPT ![typ] = @ + 1]
CanMake(typ) == made[typ] < MaxNs

-----------------------------------------------------------------------------
(* Test nodes and their deferred cleanups.                                 *)

\* Ginkgo runs a test node on a goroutine of its own.
StartNode(g) ==
    /\ pc[g] = "off"
    /\ pc' = [pc EXCEPT ![g] = "run"]
    /\ UNCHANGED <<threadVars, on, locks, stack, helper, made, cleanups, failed>>

\* The node's function has returned, or its panic has reached Ginkgo.
NodeEnd(g) ==
    /\ pc[g] \in {"run", "panic"}
    /\ helper[g].role = "node"
    /\ stack[g] = <<>>
    /\ IF locks[g] > 0 THEN End(g) ELSE UNCHANGED <<threadVars, on, locks>>
    /\ pc' = [pc EXCEPT ![g] = "cleanup"]
    /\ failed' = failed \ {g}
    /\ UNCHANGED <<stack, helper, made, cleanups>>

\* The cleanup scheduled last is run first: <<"fd", h>> closes the reference
\* to the mount namespace of idler h, <<"done", h>> closes its done channel.
CleanupStep(g) ==
    /\ pc[g] = "cleanup"
    /\ \/ /\ cleanups[g] = <<>>
          /\ pc' = [pc EXCEPT ![g] = "off"]
          /\ UNCHANGED cleanups
       \/ /\ cleanups[g] # <<>>
          /\ LET item == cleanups[g][Len(cleanups[g])]
                 h    == item[2]
             IN  pc' = IF /\ item[1] = "done"
                          /\ pc[h] = "idle" /\ helper[h].root = g
                       THEN [pc EXCEPT ![h] = "done"] ELSE pc
          /\ cleanups' = [cleanups EXCEPT ![g] = SubSeq(@, 1, Len(@) - 1)]
    /\ UNCHANGED <<threadVars, on, locks, stack, helper, made, failed>>

\* Test code that intercepts a failure goes on, whatever was left locked.
Recover(g) ==
    /\ pc[g] = "panic"
    /\ helper[g].role \in {"node", "fn"}
    /\ pc' = [pc EXCEPT ![g] = "run"]
    /\ UNCHANGED <<threadVars, on, locks, stack, helper, made, cleanups, failed>>

-----------------------------------------------------------------------------
(* spacetest.EnterTransient and NewTransient.                              *)

\* The kernel refuses to unshare the PID namespace for children twice.
EnterTransient(g) ==
    /\ MayCall(g)
    /\ \E typ \in Enterable, t \in Lockable(g) : LET cur == ns[t] IN
         \/ /\ CanMake(typ)
            /\ typ = "pid" => cur["pid"] = 0
            /\ Lock(g, t, [cur EXCEPT ![typ] = NextNs(typ)], ownFs[t])
            /\ Push(g, "enter", CurrentOf(cur, {typ}), cur)
            /\ Made(typ)
            /\ UNCHANGED <<pc, failed>>
         \/ /\ Lock(g, t, cur, ownFs[t])
            /\ Panic(g)
            /\ UNCHANGED <<stack, made>>
    /\ UNCHANGED <<helper, cleanups>>

\* Mutant: the error of switching back is ignored.
LeaveTransientAnyway(g) ==
    /\ Returns(g, "enter")
    /\ \E n \in {ns[on[g]], Switch(ns[on[g]], Top(g).saved)} :
         ns' = [ns EXCEPT ![on[g]] = n]
    /\ Unlock(g)
    /\ Pop(g)
    /\ UNCHANGED <<alive, ownFs, pc, helper, made, cleanups, failed>>

\* The deferred function that EnterTransient returns; it runs in a panic, too.
LeaveTransient(g) ==
    /\ Returns(g, "enter")
    /\ \/ /\ ns' = [ns EXCEPT ![on[g]] = Switch(@, Top(g).saved)]
          /\ Unlock(g)
          /\ UNCHANGED <<pc, failed>>
       \/ /\ Panic(g)
          /\ UNCHANGED <<ns, on, locks>>
    /\ Pop(g)
    /\ UNCHANGED <<alive, ownFs, helper, made, cleanups>>

\* NewTransient enters and leaves a new namespace. It may fail before or after
\* having entered it, and then leaves its thread locked.
NewTransient(g) ==
    /\ MayCall(g)
    /\ \E typ \in Creatable :
         \/ /\ CanMake(typ)
            /\ Made(typ)
            /\ UNCHANGED <<threadVars, on, locks, pc, failed>>
         \/ \E t \in Lockable(g) : LET cur == ns[t] IN
               /\ \/ /\ Lock(g, t, cur, ownFs[t])
                     /\ UNCHANGED made
                  \/ /\ CanMake(typ)
                     /\ Lock(g, t, [cur EXCEPT ![typ] = NextNs(typ)], ownFs[t])
                     /\ Made(typ)
               /\ Panic(g)
    /\ UNCHANGED <<stack, helper, cleanups>>

-----------------------------------------------------------------------------
(* Execute without a mount namespace: goInAndOut.                          *)

\* Switch one after the other. When one switch fails, those made so far are
\* undone as far as possible; the thread stays locked.
GoIn(g) ==
    /\ MayCall(g)
    /\ \E to \in Lists(NsTypes \ {"mnt"}), t \in Lockable(g) :
         LET cur == ns[t] IN
         \/ /\ Lock(g, t, Switch(cur, to), ownFs[t])
            /\ Push(g, "inout", CurrentOf(cur, DOMAIN to), cur)
            /\ UNCHANGED <<pc, failed>>
         \/ /\ \E S, R \in SUBSET DOMAIN to :
                  /\ S # DOMAIN to
                  /\ Lock(g, t,
                          Switch(Switch(cur, [typ \in S |-> to[typ]]),
                                 CurrentOf(cur, R)),
                          ownFs[t])
            /\ Panic(g)
            /\ UNCHANGED stack
    /\ UNCHANGED <<helper, made, cleanups>>

\* Mutant: the unlock is deferred by itself, and so always done.
GoOutUnlocks(g) ==
    /\ Returns(g, "inout")
    /\ \E R \in SUBSET DOMAIN Top(g).saved :
         /\ ns' = [ns EXCEPT ![on[g]] =
                      Switch(@, [typ \in R |-> Top(g).saved[typ]])]
         /\ IF Runs(g) /\ R = DOMAIN Top(g).saved
            THEN UNCHANGED <<pc, failed>> ELSE Panic(g)
    /\ Unlock(g)
    /\ Pop(g)
    /\ UNCHANGED <<alive, ownFs, helper, made, cleanups>>

\* The function has returned or panicked: switch back, and unlock only if that
\* succeeds for all types and nothing had failed before.
GoOut(g) ==
    /\ Returns(g, "inout")
    /\ \/ /\ Runs(g)
          /\ ns' = [ns EXCEPT ![on[g]] = Switch(@, Top(g).saved)]
          /\ Unlock(g)
          /\ UNCHANGED <<pc, failed>>
       \/ /\ \E R \in SUBSET DOMAIN Top(g).saved :
               /\ Runs(g) => R # DOMAIN Top(g).saved
               /\ ns' = [ns EXCEPT ![on[g]] =
                            Switch(@, [typ \in R |-> Top(g).saved[typ]])]
          /\ Panic(g)
          /\ UNCHANGED <<on, locks>>
    /\ Pop(g)
    /\ UNCHANGED <<alive, ownFs, helper, made, cleanups>>

-----------------------------------------------------------------------------
(* Execute with a mount namespace: goSeparate.                             *)

\* The caller picks up references to its own namespaces, which may fail; then
\* it starts a goroutine and waits for its channel.
GoSeparate(g) ==
    /\ MayCall(g)
    /\ \E to \in Lists(NsTypes) :
         /\ "mnt" \in DOMAIN to
         /\ \/ \E t \in Lockable(g), h \in Goroutines :
                 /\ Lock(g, t, ns[t], ownFs[t])
                 /\ Push(g, "separate", CurrentOf(ns[t], {}), ns[t])
                 /\ Spawn(g, h, "fn", to)
                 /\ UNCHANGED failed
            \/ /\ Panic(g)
               /\ UNCHANGED <<threadVars, on, locks, stack, helper>>
    /\ UNCHANGED <<made, cleanups>>

\* Mutant: the caller's namespaces are not picked up.
DestinationAsPassed(cur, caller, to) == Switch(cur, to)

\* What the separate thread is to be attached to: what was passed, and else
\* what the caller's references refer to. A switch into the PID namespace the
\* thread is in already is skipped.
Destination(cur, caller, to) ==
    LET wanted == Switch(CurrentOf(caller, NsTypes), to)
    IN  [typ \in NsTypes |-> IF typ = "pid" /\ wanted[typ] = 0
                             THEN cur[typ] ELSE wanted[typ]]

\* The separate goroutine never unlocks its thread. It may fail before any
\* switch, or between any two.
SeparateSetup(h) ==
    /\ pc[h] = "setup"
    /\ helper[h].role = "fn"
    /\ \E t \in Lockable(h) :
         LET cur  == ns[t]
             dest == Destination(cur, ns[on[helper[h].boss]], helper[h].want)
         IN  \/ /\ Lock(h, t, dest, TRUE)
                /\ pc' = [pc EXCEPT ![h] = "run"]
                /\ UNCHANGED failed
             \/ /\ \E S \in SUBSET NsTypes, own \in {ownFs[t], TRUE} :
                      /\ S # {} => own
                      /\ Lock(h, t, Switch(cur, [typ \in S |-> dest[typ]]), own)
                /\ Panic(h)
    /\ UNCHANGED <<stack, helper, made, cleanups>>

\* Mutant: the caller unlocks when it resumes and once more when it returns.
SeparateReturnTwice(h) ==
    LET b == helper[h].boss IN
    /\ pc[h] \in {"run", "panic"}
    /\ helper[h].role = "fn"
    /\ stack[h] = <<>>
    /\ Discard(on[h])
    /\ on' = [on EXCEPT ![h] = NoThread,
                        ![b] = IF locks[b] <= 2 THEN NoThread ELSE @]
    /\ locks' = [locks EXCEPT ![h] = 0, ![b] = @ - 2]
    /\ Pop(b)
    /\ pc' = [pc EXCEPT ![h] = "off", ![b] = pc[h]]
    /\ failed' = (failed \ {h}) \union (IF pc[h] = "panic" THEN {b} ELSE {})
    /\ helper' = [helper EXCEPT ![h] = NoErrand(h)]
    /\ UNCHANGED <<made, cleanups>>

\* The function has returned, or something has panicked: the separate
\* goroutine ends, and the caller resumes and unlocks, or panics likewise.
SeparateReturn(h) ==
    LET b == helper[h].boss IN
    /\ pc[h] \in {"run", "panic"}
    /\ helper[h].role = "fn"
    /\ stack[h] = <<>>
    /\ Discard(on[h])
    /\ on' = [on EXCEPT ![h] = NoThread,
                        ![b] = IF locks[b] = 1 THEN NoThread ELSE @]
    /\ locks' = [locks EXCEPT ![h] = 0, ![b] = @ - 1]
    /\ Pop(b)
    /\ pc' = [pc EXCEPT ![h] = "off", ![b] = pc[h]]
    /\ failed' = (failed \ {h}) \union (IF pc[h] = "panic" THEN {b} ELSE {})
    /\ helper' = [helper EXCEPT ![h] = NoErrand(h)]
    /\ UNCHANGED <<made, cleanups>>

-----------------------------------------------------------------------------
(* mntns.EnterTransient and mntns.NewTransient.                            *)

\* Fails before or after having entered the new mount namespace.
MntEnterTransient(g) ==
    /\ MayCall(g)
    /\ \E t \in Lockable(g) : LET cur == ns[t]
                                  new == [cur EXCEPT !["mnt"] = NextNs("mnt")]
         IN \/ /\ CanMake("mnt")
               /\ Lock(g, t, new, TRUE)
               /\ Push(g, "mnt", CurrentOf(cur, {"mnt"}), cur)
               /\ Made("mnt")
               /\ UNCHANGED <<pc, failed>>
            \/ /\ Lock(g, t, cur, ownFs[t])
               /\ Panic(g)
               /\ UNCHANGED <<stack, made>>
            \/ /\ CanMake("mnt")
               /\ Lock(g, t, new, TRUE)
               /\ Made("mnt")
               /\ Panic(g)
               /\ UNCHANGED stack
    /\ UNCHANGED <<helper, cleanups>>

\* The deferred function restores the mount namespace, but cannot restore the
\* sharing of filesystem attributes, and so never unlocks.
MntLeaveTransient(g) ==
    /\ Returns(g, "mnt")
    /\ \/ /\ ns' = [ns EXCEPT ![on[g]] = Switch(@, Top(g).saved)]
          /\ UNCHANGED <<pc, failed>>
       \/ /\ Panic(g)
          /\ UNCHANGED ns
    /\ Pop(g)
    /\ UNCHANGED <<alive, ownFs, on, locks, helper, made, cleanups>>

\* Mutant: nobody closes the done channel.
MntNewTransientUndone(g) ==
    /\ Runs(g)
    /\ Len(cleanups[helper[g].root]) < MaxCleanups
    /\ \E h \in Goroutines : Spawn(g, h, "idler", Pristine)
    /\ UNCHANGED <<threadVars, on, locks, stack, made, cleanups, failed>>

\* Schedules closing the done channel, starts the idler and waits for it.
MntNewTransient(g) ==
    /\ Runs(g)
    /\ Len(cleanups[helper[g].root]) < MaxCleanups
    /\ \E h \in Goroutines :
         /\ Spawn(g, h, "idler", Pristine)
         /\ cleanups' = [cleanups EXCEPT ![helper[g].root] = Append(@, <<"done", h>>)]
    /\ UNCHANGED <<threadVars, on, locks, stack, made, failed>>

\* Mutant: the done channel is closed before the reference.
IdlerSetupDoneFirst(h) ==
    LET b == helper[h].boss
        r == helper[h].root
    IN
    /\ pc[h] = "setup"
    /\ helper[h].role = "idler"
    /\ \E t \in Lockable(h) :
         \/ /\ CanMake("mnt")
            /\ Lock(h, t, [ns[t] EXCEPT !["mnt"] = NextNs("mnt")], TRUE)
            /\ Made("mnt")
            /\ cleanups' = [cleanups EXCEPT ![r] =
                               SubSeq(@, 1, Len(@) - 1) \o <<<<"fd", h>>, <<"done", h>>>>]
            /\ pc' = [pc EXCEPT ![h] = "idle", ![b] = "run"]
            /\ UNCHANGED failed
         \/ /\ Lock(h, t, ns[t], ownFs[t])
            /\ pc' = [pc EXCEPT ![h] = "done", ![b] = "panic"]
            /\ failed' = failed \union {b}
            /\ UNCHANGED <<made, cleanups>>
    /\ UNCHANGED <<stack, helper>>

\* The idler enters a new mount namespace, schedules closing the reference to
\* it, reports and idles; or fails, so that its caller fails, too.
IdlerSetup(h) ==
    LET b == helper[h].boss
        r == helper[h].root
    IN
    /\ pc[h] = "setup"
    /\ helper[h].role = "idler"
    /\ \E t \in Lockable(h) : LET cur == ns[t]
                                  new == [cur EXCEPT !["mnt"] = NextNs("mnt")]
         IN \/ /\ CanMake("mnt")
               /\ Lock(h, t, new, TRUE)
               /\ Made("mnt")
               /\ cleanups' = [cleanups EXCEPT ![r] = Append(@, <<"fd", h>>)]
               /\ pc' = [pc EXCEPT ![h] = "idle", ![b] = "run"]
               /\ UNCHANGED failed
            \/ /\ \/ /\ Lock(h, t, cur, ownFs[t])
                     /\ UNCHANGED made
                  \/ /\ CanMake("mnt")
                     /\ Lock(h, t, new, TRUE)
                     /\ Made("mnt")
               /\ pc' = [pc EXCEPT ![h] = "done", ![b] = "panic"]
               /\ failed' = failed \union {b}
               /\ UNCHANGED cleanups
    /\ UNCHANGED <<stack, helper>>

-----------------------------------------------------------------------------
(* The service: Room and newNamespace.                                     *)

\* Room starts a throw-away goroutine for a namespace and waits for it.
RoomUnshare(g) ==
    /\ Runs(g)
    /\ \E typ \in Roomy, h \in Goroutines :
         Spawn(g, h, "maker", [x \in {typ} |-> 0])
    /\ UNCHANGED <<threadVars, on, locks, stack, made, cleanups, failed>>

\* Mutant: a failed newNamespace reports nothing.
NewNamespaceSilent(h) ==
    /\ pc[h] = "setup"
    /\ helper[h].role = "maker"
    /\ \E t \in Lockable(h) : Lock(h, t, ns[t], ownFs[t])
    /\ pc' = [pc EXCEPT ![h] = "done"]
    /\ UNCHANGED <<stack, helper, made, cleanups, failed>>

\* newNamespace fails before having created the namespace, or creates it and
\* switches back, ignoring whether that succeeds. Its goroutine then reports
\* and ends, still locked.
NewNamespace(h) ==
    /\ pc[h] = "setup"
    /\ helper[h].role = "maker"
    /\ \E t \in Lockable(h), typ \in DOMAIN helper[h].want :
         LET cur == ns[t]
             new == [cur EXCEPT ![typ] = NextNs(typ)]
         IN \/ /\ \E own \in {ownFs[t], ownFs[t] \/ typ = "mnt"} : Lock(h, t, cur, own)
               /\ UNCHANGED made
            \/ /\ CanMake(typ)
               /\ \E n \in {cur, new} : Lock(h, t, n, ownFs[t] \/ typ = "mnt")
               /\ Made(typ)
    /\ pc' = [pc EXCEPT ![h] = "done", ![helper[h].boss] = "run"]
    /\ UNCHANGED <<stack, helper, cleanups, failed>>

\* An idler or a throw-away goroutine ends.
HelperEnd(h) ==
    /\ pc[h] = "done"
    /\ End(h)
    /\ pc' = [pc EXCEPT ![h] = "off"]
    /\ helper' = [helper EXCEPT ![h] = NoErrand(h)]
    /\ UNCHANGED <<stack, made, cleanups, failed>>

-----------------------------------------------------------------------------
HelperStep(h) ==
    \/ SeparateSetup(h)
    \/ SeparateReturn(h)
    \/ IdlerSetup(h)
    \/ NewNamespace(h)
    \/ HelperEnd(h)

CallStep(g) ==
    \/ EnterTransient(g)
    \/ NewTransient(g)
    \/ GoIn(g)
    \/ GoSeparate(g)
    \/ MntEnterTransient(g)
    \/ MntNewTransient(g)
    \/ RoomUnshare(g)

ReturnStep(g) ==
    \/ LeaveTransient(g)
    \/ GoOut(g)
    \/ MntLeaveTransient(g)

NodeStep(g) ==
    \/ StartNode(g)
    \/ NodeEnd(g)
    \/ CleanupStep(g)
    \/ Recover(g)

Next ==
    \E g \in Goroutines :
        CallStep(g) \/ ReturnStep(g) \/ NodeStep(g) \/ HelperStep(g)

Spec == Init /\ [][Next]_vars

\* The runtime runs every goroutine that is not blocked. Test code may go on
\* calling for a while, but each of its functions returns in the end: a call
\* that is n deep does not stay so for ever.
ReturnFrom(g, n) == Len(stack[g]) = n /\ ReturnStep(g)

Fairness ==
    \A g \in Goroutines :
        /\ WF_vars(SeparateSetup(g))
        /\ WF_vars(IdlerSetup(g))
        /\ WF_vars(NewNamespace(g))
        /\ WF_vars(HelperEnd(g))
        /\ WF_vars(CleanupStep(g))
        /\ SF_vars(NodeEnd(g))
        /\ SF_vars(SeparateReturn(g))
        /\ \A n \in 1..MaxLocks : SF_vars(ReturnFrom(g, n))

FairSpec == Spec /\ Fairness

-----------------------------------------------------------------------------
(* Properties.                                                             *)

Namespaces == [NsTypes -> 0..MaxNs]
Partial == UNION {[T -> 0..MaxNs] : T \in SUBSET NsTypes}
Frames == [op : {"enter", "inout", "separate", "mnt"},
           saved : Partial, before : Namespaces]
Errand == [role : Roles, boss : Goroutines, root : Goroutines, want : Partial]

\* Types; and a goroutine has a thread of its own exactly while its calls of
\* LockOSThread are not all undone.
TypeOK ==
    /\ alive \subseteq OSThreads
    /\ ns \in [OSThreads -> Namespaces]
    /\ ownFs \in [OSThreads -> BOOLEAN]
    /\ on \in [Goroutines -> OSThreads \union {NoThread}]
    /\ locks \in [Goroutines -> Nat]
    /\ stack \in [Goroutines -> Seq(Frames)]
    /\ pc \in [Goroutines -> PCs]
    /\ helper \in [Goroutines -> Errand]
    /\ made \in Namespaces
    /\ cleanups \in [Goroutines -> Seq({"fd", "done"} \X Goroutines)]
    /\ failed \subseteq Goroutines
    /\ \A g \in Goroutines : on[g] # NoThread <=> locks[g] > 0

\* A thread that the runtime may run any other goroutine on is attached to
\* the namespaces the process was started in and shares its filesystem
\* attributes, whatever calls were nested and whichever of them failed where:
\* the rule that EnterTransient, NewTransient, goInAndOut, mntns.EnterTransient
\* and newNamespace follow when they do not unlock.
PoolPristine ==
    \A t \in Pool : ns[t] = Pristine /\ ~ownFs[t]

\* No test and no helper switches the initial thread, which stands for the
\* process in /proc/self: what the init function of space.go is for.
InitialThreadPristine ==
    ns[InitialThread] = Pristine /\ ~ownFs[InitialThread]

\* A call that returns without a failure leaves its goroutine attached to the
\* namespaces it was attached to before it: the cleanups of EnterTransient,
\* goInAndOut's deferred function and goSeparate.
RestoresCallerStep ==
    \A g \in Goroutines :
        /\ Len(stack'[g]) < Len(stack[g])
        /\ g \notin failed'
        => ns'[on[g]] = Top(g).before
RestoresCaller == [][RestoresCallerStep]_vars

\* The function passed to Execute with a mount namespace runs attached to the
\* namespaces passed and otherwise to those of its caller, also after its own
\* calls of the package: what goSeparate's pick-up of namespaces is for.
FnContext ==
    \A h \in Goroutines :
        /\ helper[h].role = "fn"
        /\ pc[h] = "run"
        /\ h \notin failed
        /\ stack[h] = <<>>
        => ns[on[h]] = Switch(ns[on[helper[h].boss]], helper[h].want)

\* Until the reference to a mount namespace of mntns.NewTransient is closed,
\* its idler is alive and the only one attached to it, so that the procfs path
\* handed out together with the reference shows that namespace.
IdlerKeepsNamespace ==
    \A g, h \in Goroutines, i \in 1..MaxCleanups + 1 :
        i \in DOMAIN cleanups[g] /\ cleanups[g][i] = <<"fd", h>> =>
            /\ pc[h] = "idle"
            /\ on[h] \in alive
            /\ ns[on[h]]["mnt"] # 0
            /\ \A k \in Goroutines \ {h} :
                  pc[k] = "idle" => ns[on[k]]["mnt"] # ns[on[h]]["mnt"]

\* Of the goroutines that wait for one another, in goSeparate, NewTransient and
\* Room and however nested, one can go on: each channel that a goroutine
\* receives from has a sender.
SomebodyRuns ==
    \A g \in Goroutines : pc[g] = "blocked" =>
        \E k \in Goroutines :
            helper[k].root = helper[g].root /\ pc[k] \in {"run", "panic", "setup"}

\* No idler of mntns.NewTransient is forgotten: closing its done channel stays
\* scheduled in the test node it was created for, also when it was created by
\* the function of an Execute, or when a later call has failed.
IdlersAreDue ==
    \A h \in Goroutines : pc[h] = "idle" =>
        LET node == helper[h].root
        IN  /\ pc[node] # "off"
            /\ \E i \in DOMAIN cleanups[node] : cleanups[node][i] = <<"done", h>>

\* A goroutine that waits for one it has started (goSeparate, NewTransient,
\* Room) resumes, however that one ends.
BlockedReturns ==
    \A g \in Goroutines : pc[g] = "blocked" ~> pc[g] # "blocked"

\* Every idler and its thread end after the test node they were created for.
IdlersEnd ==
    \A g, h \in Goroutines :
        pc[g] = "cleanup" /\ pc[h] = "idle" /\ helper[h].root = g
            ~> pc[h] = "off" /\ on[h] = NoThread
=============================================================================
