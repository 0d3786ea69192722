--------------------------- MODULE NsIdlersProofs ---------------------------
(***************************************************************************)
(* For any number of goroutines, threads and test nodes: goroutines that   *)
(* wait for one another form chains that end in one that runs, and each    *)
(* idler of mntns.NewTransient keeps its mount namespace until the         *)
(* reference to it has been closed, and is told to end afterwards.         *)
(***************************************************************************)
EXTENDS NsContextProofs

-----------------------------------------------------------------------------
(* The inductive invariant.                                                *)

Runnable == {"run", "panic", "setup"}
Live(k) == pc[k] \in Runnable \union {"blocked"}
LiveNode(r) == helper[r].role = "node" /\ pc[r] \in {"run", "panic", "blocked"}

\* A goroutine that was started by another one is live only on behalf of a
\* live test node.
Rooted ==
    \A k \in Goroutines :
        /\ Live(k) => LiveNode(helper[k].root)
        /\ helper[k].role = "node" => helper[k].root = k

\* c consists of the goroutines on behalf of node r, in the order they have
\* been started: each one but the last waits for the next one.
Chain(r, c) ==
    /\ c # <<>>
    /\ c[1] = r
    /\ \A i \in 1..(Len(c) - 1) :
         /\ pc[c[i]] = "blocked"
         /\ Awaited(c[i + 1])
         /\ helper[c[i + 1]].boss = c[i]
    /\ pc[c[Len(c)]] \in Runnable
    /\ \A i \in 1..Len(c) : helper[c[i]].root = r
    /\ \A k \in Goroutines :
         Live(k) /\ helper[k].root = r => \E i \in 1..Len(c) : c[i] = k

Chained ==
    \A r \in Goroutines : LiveNode(r) => \E c \in Seq(Goroutines) : Chain(r, c)

WInv == Rooted /\ Chained

\* The mount namespaces of idlers are numbered in the order they were made.
Numbered ==
    \A h \in Goroutines : pc[h] = "idle" =>
        /\ locks[h] > 0
        /\ ns[on[h]]["mnt"] \in 1..made["mnt"]
        /\ \A k \in Goroutines \ {h} :
             pc[k] = "idle" => ns[on[k]]["mnt"] # ns[on[h]]["mnt"]

\* A reference is closed before the idler is told to end.
Referenced ==
    \A g, h \in Goroutines : \A i \in 1..Len(cleanups[g]) :
        cleanups[g][i] = <<"fd", h>> =>
            /\ pc[h] = "idle"
            /\ helper[h].root = g
            /\ \A j \in 1..Len(cleanups[g]) : cleanups[g][j] = <<"done", h>> => j < i

BecomesIdler(h) == pc[h] = "setup" /\ helper[h].role = "idler"
NodeIsUp(r) ==
    helper[r].role = "node" /\ pc[r] \in {"run", "panic", "blocked", "cleanup"}

\* The end of h is scheduled in test node r: before the idler is started.
Holds(r, h) == \E i \in 1..Len(cleanups[r]) : cleanups[r][i] = <<"done", h>>

Due ==
    \A h \in Goroutines : pc[h] = "idle" \/ BecomesIdler(h) =>
        NodeIsUp(helper[h].root) /\ Holds(helper[h].root, h)

DInv == Numbered /\ Referenced /\ Due

-----------------------------------------------------------------------------
(* What a step does to the goroutines and their errands.                   *)

\* A goroutine goes on, or a separate one has finished its setup.
Runs1(g) ==
    /\ pc[g] \in {"run", "panic"} \/ (pc[g] = "setup" /\ helper[g].role = "fn")
    /\ \/ pc' = [pc EXCEPT ![g] = "run"]
       \/ pc' = [pc EXCEPT ![g] = "panic"]
    /\ UNCHANGED <<helper, cleanups>>

Begins(g) ==
    /\ pc[g] = "off" /\ pc' = [pc EXCEPT ![g] = "run"]
    /\ UNCHANGED <<helper, cleanups>>

Finishes(g) ==
    /\ pc[g] \in {"run", "panic"} /\ helper[g].role = "node"
    /\ pc' = [pc EXCEPT ![g] = "cleanup"]
    /\ UNCHANGED <<helper, cleanups>>

Starts(g, h) ==
    /\ pc[g] = "run"
    /\ h # g /\ pc[h] = "off"
    /\ pc' = [pc EXCEPT ![g] = "blocked", ![h] = "setup"]
    /\ \E e \in Errand :
         /\ e.role # "node" /\ e.boss = g /\ e.root = helper[g].root
         /\ helper' = [helper EXCEPT ![h] = e]
         /\ cleanups' = IF e.role = "idler"
                        THEN [cleanups EXCEPT ![helper[g].root] = Append(@, <<"done", h>>)]
                        ELSE cleanups

NewMount(h) ==
    /\ \E t \in Lockable(h) :
         Lock(h, t, [ns[t] EXCEPT !["mnt"] = NextNs("mnt")], TRUE)
    /\ Made("mnt")

\* A goroutine that another one has waited for ends, or idles.
Answers(h) ==
    /\ pc[h] \in Runnable /\ Awaited(h)
    /\ \E p \in {"off", "idle", "done"}, q \in {"run", "panic"} :
         /\ pc' = [pc EXCEPT ![h] = p, ![helper[h].boss] = q]
         /\ p = "off" => /\ helper[h].role = "fn" /\ pc[h] # "setup"
                         /\ helper' = [helper EXCEPT ![h] = NoErrand(h)]
         /\ p # "off" => helper' = helper
         /\ p = "idle" => /\ BecomesIdler(h) /\ NewMount(h)
                          /\ cleanups' = [cleanups EXCEPT ![helper[h].root] =
                                            Append(@, <<"fd", h>>)]
         /\ p # "idle" => cleanups' = cleanups

Expires(h) ==
    /\ pc[h] = "done" /\ pc' = [pc EXCEPT ![h] = "off"]
    /\ helper' = [helper EXCEPT ![h] = NoErrand(h)]
    /\ cleanups' = cleanups

LEMMA SpawnStarts ==
    ASSUME IInv, NEW g \in Goroutines, NEW h \in Goroutines,
           NEW role \in {"fn", "idler", "maker"}, NEW want \in Partial,
           pc[g] = "run", Spawn(g, h, role, want),
           cleanups' = IF role = "idler"
                       THEN [cleanups EXCEPT ![helper[g].root] =
                               Append(@, <<"done", h>>)]
                       ELSE cleanups
    PROVE  Starts(g, h)
<1> DEFINE e == [role |-> role, boss |-> g, root |-> helper[g].root, want |-> want]
<1>1. helper[g].root \in Goroutines
  BY DEF IInv, Typed, Errand
<1>2. e \in Errand
  BY <1>1 DEF Errand, Roles
<1>3. e.role = role /\ e.boss = g /\ e.root = helper[g].root /\ role # "node"
  OBVIOUS
<1>4. /\ h # g /\ pc[h] = "off"
      /\ pc' = [pc EXCEPT ![g] = "blocked", ![h] = "setup"]
      /\ helper' = [helper EXCEPT ![h] = e]
  BY DEF Spawn
<1> HIDE DEF e
<1> QED
  BY <1>2, <1>3, <1>4 DEF Starts

LEMMA CallShapes ==
    ASSUME IInv, NEW g \in Goroutines, CallStep(g)
    PROVE  Runs1(g) \/ \E h \in Goroutines : Starts(g, h)
<1>0. pc = [pc EXCEPT ![g] = pc[g]]
  BY SamePc DEF IInv
<1>1. ASSUME pc[g] = "run", UNCHANGED <<helper, cleanups>>,
             pc' = pc \/ pc' = [pc EXCEPT ![g] = "panic"]
      PROVE  Runs1(g)
  BY <1>0, <1>1 DEF Runs1
<1>2. CASE EnterTransient(g)
  <2>1. pc[g] = "run" /\ UNCHANGED <<helper, cleanups>>
    BY <1>2 DEF EnterTransient, MayCall, Runs
  <2> QED
    BY <1>1, <1>2, <2>1 DEF EnterTransient, Panic
<1>3. CASE NewTransient(g)
  <2>1. pc[g] = "run" /\ UNCHANGED <<helper, cleanups>>
    BY <1>3 DEF NewTransient, MayCall, Runs
  <2> QED
    BY <1>1, <1>3, <2>1 DEF NewTransient, Panic
<1>4. CASE GoIn(g)
  <2>1. pc[g] = "run" /\ UNCHANGED <<helper, cleanups>>
    BY <1>4 DEF GoIn, MayCall, Runs
  <2>2. pc' = pc \/ pc' = [pc EXCEPT ![g] = "panic"]
    BY <1>4 DEF GoIn, Panic
  <2> QED
    BY <1>1, <2>1, <2>2
<1>5. CASE GoSeparate(g)
  <2>1. pc[g] = "run" /\ cleanups' = cleanups
    BY <1>5 DEF GoSeparate, MayCall, Runs
  <2>2. PICK to \in Lists(NsTypes) :
            \/ \E h \in Goroutines : Spawn(g, h, "fn", to)
            \/ Panic(g) /\ helper' = helper
    BY <1>5 DEF GoSeparate
  <2>3. to \in Partial
    BY ListsType
  <2>4. CASE Panic(g) /\ helper' = helper
    BY <1>1, <2>1, <2>4 DEF Panic
  <2>5. ASSUME NEW h \in Goroutines, Spawn(g, h, "fn", to)
        PROVE  Starts(g, h)
    BY <2>1, <2>3, <2>5, SpawnStarts
  <2> QED
    BY <2>2, <2>4, <2>5
<1>6. CASE MntEnterTransient(g)
  <2>1. pc[g] = "run" /\ UNCHANGED <<helper, cleanups>>
    BY <1>6 DEF MntEnterTransient, MayCall, Runs
  <2>2. pc' = pc \/ pc' = [pc EXCEPT ![g] = "panic"]
    BY <1>6 DEF MntEnterTransient, Panic
  <2> QED
    BY <1>1, <2>1, <2>2
<1>7. CASE MntNewTransient(g)
  <2>1. PICK h \in Goroutines :
            /\ Spawn(g, h, "idler", Pristine)
            /\ cleanups' = [cleanups EXCEPT ![helper[g].root] =
                              Append(@, <<"done", h>>)]
    BY <1>7 DEF MntNewTransient
  <2>2. pc[g] = "run"
    BY <1>7 DEF MntNewTransient, Runs
  <2> QED
    BY <2>1, <2>2, SpawnStarts, Constants
<1>8. CASE RoomUnshare(g)
  <2>1. PICK typ \in Roomy, h \in Goroutines :
            Spawn(g, h, "maker", [x \in {typ} |-> 0])
    BY <1>8 DEF RoomUnshare
  <2>2. pc[g] = "run" /\ cleanups' = cleanups
    BY <1>8 DEF RoomUnshare, Runs
  <2>3. [x \in {typ} |-> 0] \in Partial
    <3>1. {typ} \in SUBSET NsTypes /\ 0 \in 0..MaxNs
      BY Constants DEF Roomy
    <3>2. [x \in {typ} |-> 0] \in [{typ} -> 0..MaxNs]
      BY <3>1
    <3> QED
      BY <3>1, <3>2 DEF Partial
  <2>4. Starts(g, h)
    BY <2>1, <2>2, <2>3, SpawnStarts
  <2> QED
    BY <2>4
<1> QED
  BY <1>2, <1>3, <1>4, <1>5, <1>6, <1>7, <1>8 DEF CallStep

LEMMA ReturnShapes ==
    ASSUME IInv, NEW g \in Goroutines, ReturnStep(g)
    PROVE  Runs1(g)
<1>1. pc = [pc EXCEPT ![g] = pc[g]]
  BY SamePc DEF IInv
<1> QED
  BY <1>1 DEF ReturnStep, LeaveTransient, GoOut, MntLeaveTransient, Returns, Runs1,
     Panic

LEMMA NodeShapes ==
    ASSUME IInv, NEW g \in Goroutines, NodeStep(g)
    PROVE  Runs1(g) \/ Begins(g) \/ Finishes(g) \/ CleanupStep(g)
BY DEF NodeStep, StartNode, NodeEnd, Recover, Runs1, Begins, Finishes

LEMMA HelperShapes ==
    ASSUME IInv, NEW h \in Goroutines, HelperStep(h)
    PROVE  Runs1(h) \/ Answers(h) \/ Expires(h)
<1>1. CASE SeparateSetup(h)
  BY <1>1 DEF SeparateSetup, Runs1, Panic
<1>2. CASE SeparateReturn(h)
  BY <1>2 DEF SeparateReturn, Answers, Awaited, Runnable
<1>3. CASE IdlerSetup(h)
  BY <1>3 DEF IdlerSetup, Answers, Awaited, Runnable, BecomesIdler, NewMount
<1>4. CASE NewNamespace(h)
  BY <1>4 DEF NewNamespace, Answers, Awaited, Runnable, BecomesIdler
<1>5. CASE HelperEnd(h)
  BY <1>5 DEF HelperEnd, Expires
<1> QED
  BY <1>1, <1>2, <1>3, <1>4, <1>5 DEF HelperStep

-----------------------------------------------------------------------------
(* Chains of goroutines.                                                   *)

LEMMA ChainShape ==
    ASSUME NEW r \in Goroutines, NEW c \in Seq(Goroutines), Chain(r, c)
    PROVE  /\ Len(c) \in Nat \ {0}
           /\ \A i \in 1..Len(c) : c[i] \in Goroutines
BY EmptySeq, LenProperties, ElementOfSeq DEF Chain

\* All of a chain are live, and only the last one runs.
LEMMA EndOfChain ==
    ASSUME NEW r \in Goroutines, NEW c \in Seq(Goroutines), Chain(r, c)
    PROVE  /\ \A i \in 1..Len(c) : Live(c[i])
           /\ \A k \in Goroutines :
                pc[k] \in Runnable /\ helper[k].root = r => k = c[Len(c)]
<1>1. Len(c) \in Nat \ {0}
  BY ChainShape
<1>2. \A i \in 1..(Len(c) - 1) : pc[c[i]] = "blocked"
  BY DEF Chain
<1>3. pc[c[Len(c)]] \in Runnable
  BY DEF Chain
<1>4. \A i \in 1..Len(c) : i = Len(c) \/ i \in 1..(Len(c) - 1)
  BY <1>1
<1>5. \A i \in 1..Len(c) : Live(c[i])
  BY <1>2, <1>3, <1>4 DEF Live
<1>6. ASSUME NEW k \in Goroutines, pc[k] \in Runnable, helper[k].root = r
      PROVE  k = c[Len(c)]
  <2>1. PICK i \in 1..Len(c) : c[i] = k
    BY <1>6 DEF Chain, Live
  <2>2. i = Len(c)
    BY <1>2, <1>4, <1>6, <2>1 DEF Runnable
  <2> QED
    BY <2>1, <2>2
<1> QED
  BY <1>5, <1>6

\* The goroutines on behalf of r wait and run as they did.
KeepsTo(r) ==
    \A k \in Goroutines :
        /\ Live(k) /\ helper[k].root = r =>
             /\ helper'[k] = helper[k]
             /\ pc[k] = "blocked" => pc'[k] = "blocked"
             /\ pc[k] \in Runnable => pc'[k] \in Runnable
             /\ Awaited(k) => Awaited(k)'
        /\ Live(k)' /\ helper'[k].root = r => Live(k) /\ helper[k].root = r

LEMMA ChainStays ==
    ASSUME NEW r \in Goroutines, NEW c \in Seq(Goroutines), Chain(r, c),
           KeepsTo(r)
    PROVE  Chain(r, c)'
<1>1. /\ Len(c) \in Nat \ {0}
      /\ \A i \in 1..Len(c) : c[i] \in Goroutines
  BY ChainShape
<1>2. \A i \in 1..Len(c) : Live(c[i]) /\ helper[c[i]].root = r
  BY EndOfChain DEF Chain
<1>3. \A i \in 1..Len(c) : helper'[c[i]] = helper[c[i]]
  BY <1>1, <1>2 DEF KeepsTo
<1>4. ASSUME NEW i \in 1..(Len(c) - 1)
      PROVE  /\ pc'[c[i]] = "blocked"
             /\ Awaited(c[i + 1])'
             /\ helper'[c[i + 1]].boss = c[i]
  <2>1. i \in 1..Len(c) /\ i + 1 \in 1..Len(c)
    BY <1>1
  <2>2. pc[c[i]] = "blocked" /\ Awaited(c[i + 1]) /\ helper[c[i + 1]].boss = c[i]
    BY DEF Chain
  <2> QED
    BY <1>1, <1>2, <1>3, <2>1, <2>2 DEF KeepsTo
<1>5. pc'[c[Len(c)]] \in Runnable
  <2>1. Len(c) \in 1..Len(c) /\ pc[c[Len(c)]] \in Runnable
    BY <1>1 DEF Chain
  <2> QED
    BY <1>1, <1>2, <2>1 DEF KeepsTo
<1>6. ASSUME NEW k \in Goroutines, Live(k)', helper'[k].root = r
      PROVE  \E i \in 1..Len(c) : c[i] = k
  <2>1. Live(k) /\ helper[k].root = r
    BY <1>6 DEF KeepsTo
  <2> QED
    BY <2>1 DEF Chain
<1>7. c # <<>> /\ c[1] = r /\ \A i \in 1..Len(c) : helper'[c[i]].root = r
  BY <1>2, <1>3 DEF Chain
<1> QED
  BY <1>4, <1>5, <1>6, <1>7 DEF Chain

-----------------------------------------------------------------------------
(* Steps that neither start a goroutine nor let another one go on.         *)

StaysAsIs(k) ==
    \/ /\ ~Live(k) /\ ~Live(k)'
       /\ helper'[k] = helper[k] \/ helper'[k] = NoErrand(k)
    \/ /\ Live(k) /\ helper'[k] = helper[k]
       /\ \/ pc'[k] = pc[k]
          \/ /\ pc[k] \in Runnable /\ pc'[k] \in {"run", "panic"}
             /\ pc[k] = "setup" => helper[k].role = "fn"

LEMMA QuietKeepsWaiting ==
    ASSUME IInv, WInv, \A k \in Goroutines : StaysAsIs(k)
    PROVE  WInv'
<1>1. ASSUME NEW k \in Goroutines
      PROVE  /\ Live(k)' => Live(k) /\ helper'[k] = helper[k]
             /\ LiveNode(k)' <=> LiveNode(k)
             /\ helper[k].root \in Goroutines
  <2>1. Live(k)' => Live(k) /\ helper'[k] = helper[k]
    BY DEF StaysAsIs
  <2>2. LiveNode(k)' <=> LiveNode(k)
    BY DEF StaysAsIs, LiveNode, Live, Runnable
  <2> QED
    BY <2>1, <2>2 DEF IInv, Typed, Errand
<1>2. Rooted'
  <2>1. ASSUME NEW k \in Goroutines, Live(k)'
        PROVE  LiveNode(helper[k].root)'
    BY <1>1, <2>1 DEF WInv, Rooted
  <2>2. ASSUME NEW k \in Goroutines, helper'[k].role = "node"
        PROVE  helper'[k].root = k
    <3>1. helper[k].role = "node" => helper[k].root = k
      BY DEF WInv, Rooted
    <3>2. NoErrand(k).root = k
      BY DEF NoErrand
    <3>3. helper'[k] = helper[k] \/ helper'[k] = NoErrand(k)
      BY DEF StaysAsIs
    <3> QED
      BY <2>2, <3>1, <3>2, <3>3
  <2>3. \A k \in Goroutines : Live(k)' => helper'[k] = helper[k]
    BY <1>1
  <2> QED
    BY <2>1, <2>2, <2>3 DEF Rooted
<1>3. ASSUME NEW r \in Goroutines, LiveNode(r)'
      PROVE  \E c \in Seq(Goroutines) : Chain(r, c)'
  <2>1. PICK c \in Seq(Goroutines) : Chain(r, c)
    BY <1>1, <1>3 DEF WInv, Chained
  <2>2. ASSUME NEW k \in Goroutines, Live(k)
        PROVE  /\ pc[k] = "blocked" => pc'[k] = "blocked"
               /\ pc[k] \in Runnable => pc'[k] \in Runnable
               /\ helper'[k] = helper[k]
               /\ Awaited(k) => Awaited(k)'
    BY <2>2 DEF StaysAsIs, Live, Runnable, Awaited
  <2>3. KeepsTo(r)
    BY <1>1, <2>2 DEF KeepsTo
  <2> QED
    BY <2>1, <2>3, ChainStays
<1> QED
  BY <1>2, <1>3 DEF WInv, Chained

LEMMA RunsKeepsWaiting ==
    ASSUME IInv, WInv, NEW g \in Goroutines, Runs1(g)
    PROVE  WInv'
<1>1. ASSUME NEW k \in Goroutines
      PROVE  StaysAsIs(k)
  <2>1. helper'[k] = helper[k]
    BY DEF Runs1
  <2>2. CASE k = g
    <3>1. pc'[g] \in {"run", "panic"}
      BY DEF Runs1, IInv, Typed
    <3> QED
      BY <2>1, <2>2, <3>1 DEF Runs1, StaysAsIs, Live, Runnable
  <2>3. CASE k # g
    <3>1. pc'[k] = pc[k]
      BY <2>3 DEF Runs1, IInv, Typed
    <3> QED
      BY <2>1, <3>1 DEF StaysAsIs, Live
  <2> QED
    BY <2>2, <2>3
<1> QED
  BY <1>1, QuietKeepsWaiting

LEMMA CleanupKeepsWaiting ==
    ASSUME IInv, WInv, NEW g \in Goroutines, CleanupStep(g)
    PROVE  WInv'
<1>1. helper' = helper
  BY DEF CleanupStep
<1>2. \/ pc' = pc
      \/ pc[g] = "cleanup" /\ pc' = [pc EXCEPT ![g] = "off"]
      \/ \E h : pc[h] = "idle" /\ pc' = [pc EXCEPT ![h] = "done"]
  BY DEF CleanupStep
<1>3. ASSUME NEW k \in Goroutines
      PROVE  StaysAsIs(k)
  <2>1. \/ pc'[k] = pc[k]
        \/ pc[k] = "cleanup" /\ pc'[k] = "off"
        \/ pc[k] = "idle" /\ pc'[k] = "done"
    BY <1>2 DEF IInv, Typed
  <2> QED
    BY <1>1, <2>1 DEF StaysAsIs, Live, Runnable
<1> QED
  BY <1>3, QuietKeepsWaiting

LEMMA ExpiresKeepsWaiting ==
    ASSUME IInv, WInv, NEW h \in Goroutines, Expires(h)
    PROVE  WInv'
<1>1. ASSUME NEW k \in Goroutines
      PROVE  StaysAsIs(k)
  <2>1. CASE k = h
    <3>1. pc[h] = "done" /\ pc'[h] = "off" /\ helper'[h] = NoErrand(h)
      BY DEF Expires, IInv, Typed
    <3> QED
      BY <2>1, <3>1 DEF StaysAsIs, Live, Runnable
  <2>2. CASE k # h
    <3>1. pc'[k] = pc[k] /\ helper'[k] = helper[k]
      BY <2>2 DEF Expires, IInv, Typed
    <3> QED
      BY <3>1 DEF StaysAsIs, Live
  <2> QED
    BY <2>1, <2>2
<1> QED
  BY <1>1, QuietKeepsWaiting

-----------------------------------------------------------------------------
(* Test nodes begin and end.                                               *)

LEMMA BeginsKeepsWaiting ==
    ASSUME IInv, WInv, NEW g \in Goroutines, Begins(g)
    PROVE  WInv'
<1>1. /\ pc[g] = "off" /\ pc'[g] = "run" /\ helper' = helper
      /\ \A k \in Goroutines \ {g} : pc'[k] = pc[k]
  BY DEF Begins, IInv, Typed
<1>2. helper[g].role = "node" /\ helper[g].root = g
  BY <1>1 DEF IInv, Control, WInv, Rooted
<1>3. ~Live(g) /\ ~LiveNode(g) /\ LiveNode(g)' /\ Live(g)'
  BY <1>1, <1>2 DEF Live, LiveNode, Runnable
<1>4. \A k \in Goroutines \ {g} :
          /\ Live(k)' <=> Live(k)
          /\ LiveNode(k)' <=> LiveNode(k)
          /\ Awaited(k)' <=> Awaited(k)
  BY <1>1 DEF Live, LiveNode, Awaited
<1>5. \A k \in Goroutines : helper[k].root \in Goroutines
  BY DEF IInv, Typed, Errand
<1>6. \A k \in Goroutines : Live(k) => helper[k].root # g
  BY <1>3 DEF WInv, Rooted
<1>7. Rooted'
  <2>1. ASSUME NEW k \in Goroutines, Live(k)'
        PROVE  LiveNode(helper[k].root)'
    BY <1>1, <1>2, <1>3, <1>4, <1>5, <2>1 DEF WInv, Rooted
  <2> QED
    BY <1>1, <2>1 DEF WInv, Rooted
<1>8. ASSUME NEW r \in Goroutines, LiveNode(r)'
      PROVE  \E c \in Seq(Goroutines) : Chain(r, c)'
  <2>1. CASE r = g
    <3> DEFINE c == <<g>>
    <3>1. c \in Seq(Goroutines) /\ Len(c) = 1 /\ c[1] = g /\ c # <<>>
      OBVIOUS
    <3>2. ASSUME NEW k \in Goroutines, Live(k)', helper'[k].root = g
          PROVE  k = g
      BY <1>1, <1>4, <1>6, <3>2
    <3> HIDE DEF c
    <3>3. 1..(Len(c) - 1) = {} /\ 1..Len(c) = {1}
      BY <3>1
    <3>4. Chain(g, c)'
      BY <1>1, <1>2, <3>1, <3>2, <3>3 DEF Chain, Runnable
    <3> QED
      BY <2>1, <3>1, <3>4
  <2>2. CASE r # g
    <3>1. PICK c \in Seq(Goroutines) : Chain(r, c)
      BY <1>4, <1>8, <2>2 DEF WInv, Chained
    <3>2. KeepsTo(r)
      BY <1>1, <1>2, <1>3, <1>4, <2>2 DEF KeepsTo
    <3> QED
      BY <3>1, <3>2, ChainStays
  <2> QED
    BY <2>1, <2>2
<1> QED
  BY <1>7, <1>8 DEF WInv, Chained

\* A test node that returns has nobody working for it any more.
LEMMA FinishesAlone ==
    ASSUME IInv, WInv, NEW g \in Goroutines,
           pc[g] \in {"run", "panic"}, helper[g].role = "node"
    PROVE  \A k \in Goroutines : Live(k) /\ helper[k].root = g => k = g
<1>1. helper[g].root = g /\ LiveNode(g) /\ pc[g] \in Runnable
  BY DEF WInv, Rooted, LiveNode, Runnable
<1>2. PICK c \in Seq(Goroutines) : Chain(g, c)
  BY <1>1 DEF WInv, Chained
<1>3. Len(c) \in Nat \ {0} /\ c[Len(c)] = g /\ c[1] = g
  BY <1>1, <1>2, ChainShape, EndOfChain DEF Chain
<1>4. Len(c) = 1
  <2>1. ASSUME Len(c) # 1
        PROVE  FALSE
    <3>1. 1 \in 1..(Len(c) - 1)
      <4> DEFINE n == Len(c)
      <4>1. n \in Nat /\ n # 0 /\ n # 1
        BY <1>3, <2>1
      <4> HIDE DEF n
      <4>2. 1 \in 1..(n - 1)
        BY <4>1
      <4> QED
        BY <4>2 DEF n
    <3>2. pc[c[1]] = "blocked"
      BY <1>2, <3>1 DEF Chain
    <3> QED
      BY <1>3, <3>2
  <2> QED
    BY <2>1
<1>5. ASSUME NEW k \in Goroutines, Live(k), helper[k].root = g
      PROVE  k = g
  <2>1. PICK i \in 1..Len(c) : c[i] = k
    BY <1>2, <1>5 DEF Chain
  <2> QED
    BY <1>3, <1>4, <2>1
<1> QED
  BY <1>5

LEMMA FinishesKeepsWaiting ==
    ASSUME IInv, WInv, NEW g \in Goroutines, Finishes(g)
    PROVE  WInv'
<1>1. /\ pc[g] \in {"run", "panic"} /\ helper[g].role = "node"
      /\ pc'[g] = "cleanup" /\ helper' = helper
      /\ \A k \in Goroutines \ {g} : pc'[k] = pc[k]
  BY DEF Finishes, IInv, Typed
<1>2. ~Live(g)' /\ ~LiveNode(g)' /\ helper[g].root = g
  BY <1>1 DEF Live, LiveNode, Runnable, WInv, Rooted
<1>3. \A k \in Goroutines \ {g} :
          /\ Live(k)' <=> Live(k)
          /\ LiveNode(k)' <=> LiveNode(k)
          /\ Awaited(k)' <=> Awaited(k)
  BY <1>1 DEF Live, LiveNode, Awaited
<1>4. \A k \in Goroutines : Live(k) /\ helper[k].root = g => k = g
  BY <1>1, FinishesAlone
<1>5. \A k \in Goroutines : helper[k].root \in Goroutines
  BY DEF IInv, Typed, Errand
<1>6. Rooted'
  <2>1. ASSUME NEW k \in Goroutines, Live(k)'
        PROVE  LiveNode(helper[k].root)'
    BY <1>1, <1>2, <1>3, <1>4, <1>5, <2>1 DEF WInv, Rooted
  <2> QED
    BY <1>1, <2>1 DEF WInv, Rooted
<1>7. ASSUME NEW r \in Goroutines, LiveNode(r)'
      PROVE  \E c \in Seq(Goroutines) : Chain(r, c)'
  <2>1. r # g /\ LiveNode(r)
    BY <1>2, <1>3, <1>7
  <2>2. PICK c \in Seq(Goroutines) : Chain(r, c)
    BY <2>1 DEF WInv, Chained
  <2>3. KeepsTo(r)
    BY <1>1, <1>2, <1>3, <2>1 DEF KeepsTo
  <2> QED
    BY <2>2, <2>3, ChainStays
<1> QED
  BY <1>6, <1>7 DEF WInv, Chained

-----------------------------------------------------------------------------
(* A goroutine starts another one, and waits for it.                       *)

LEMMA StartsKeepsWaiting ==
    ASSUME IInv, WInv, NEW g \in Goroutines, NEW h \in Goroutines, Starts(g, h)
    PROVE  WInv'
<1>0. PICK r \in Goroutines : r = helper[g].root
  BY DEF IInv, Typed, Errand
<1>1. PICK e \in Errand :
          e.role # "node" /\ e.boss = g /\ e.root = r
          /\ helper' = [helper EXCEPT ![h] = e]
  BY <1>0 DEF Starts
<1>2. /\ pc[g] = "run" /\ pc[h] = "off" /\ g # h
      /\ pc'[g] = "blocked" /\ pc'[h] = "setup"
      /\ \A k \in Goroutines \ {g, h} : pc'[k] = pc[k]
      /\ helper'[h] = e
      /\ \A k \in Goroutines \ {h} : helper'[k] = helper[k]
  BY <1>1 DEF Starts, IInv, Typed
<1>3. r \in Goroutines /\ \A k \in Goroutines : helper[k].root \in Goroutines
  BY DEF IInv, Typed, Errand
<1>4. Live(g) /\ Live(g)' /\ ~Live(h) /\ Live(h)' /\ LiveNode(r)
  BY <1>0, <1>2 DEF Live, Runnable, WInv, Rooted
<1>5. \A k \in Goroutines :
          /\ k # h => (Live(k)' <=> Live(k))
          /\ LiveNode(k)' <=> LiveNode(k)
          /\ Awaited(k) => Awaited(k)'
  BY <1>1, <1>2 DEF Live, LiveNode, Awaited, Runnable
<1>6. Rooted'
  <2>1. ASSUME NEW k \in Goroutines, Live(k)'
        PROVE  LiveNode(helper[k].root)'
    <3>1. CASE k = h
      BY <1>1, <1>2, <1>3, <1>4, <1>5, <3>1
    <3>2. CASE k # h
      BY <1>2, <1>3, <1>5, <2>1, <3>2 DEF WInv, Rooted
    <3> QED
      BY <3>1, <3>2
  <2>2. ASSUME NEW k \in Goroutines, helper'[k].role = "node"
        PROVE  helper'[k].root = k
    BY <1>1, <1>2, <2>2 DEF WInv, Rooted
  <2> QED
    BY <2>1, <2>2 DEF Rooted
<1>7. \E d \in Seq(Goroutines) : Chain(r, d)'
  <2>1. PICK c \in Seq(Goroutines) : Chain(r, c)
    BY <1>3, <1>4 DEF WInv, Chained
  <2> DEFINE d == Append(c, h)
             n == Len(c)
  <2>2. n \in Nat \ {0} /\ c[n] = g /\ c[1] = r
    <3>1. n \in Nat \ {0}
      BY <2>1, ChainShape
    <3>2. pc[g] \in Runnable /\ helper[g].root = r
      BY <1>0, <1>2 DEF Runnable
    <3>3. g = c[n]
      BY <2>1, <3>2, EndOfChain
    <3>4. c[1] = r
      BY <2>1 DEF Chain
    <3> QED
      BY <3>1, <3>3, <3>4
  <2>3. \A i \in 1..n : c[i] \in Goroutines /\ Live(c[i]) /\ helper[c[i]].root = r
    BY <1>3, <2>1, ChainShape, EndOfChain DEF Chain
  <2>4. /\ d \in Seq(Goroutines) /\ Len(d) = n + 1
        /\ \A i \in 1..n : d[i] = c[i]
        /\ d[n + 1] = h
    BY AppendProperties, LenProperties
  <2>5. \A i \in 1..(n - 1) :
            /\ pc[c[i]] = "blocked"
            /\ Awaited(c[i + 1])
            /\ helper[c[i + 1]].boss = c[i]
    BY <2>1 DEF Chain
  <2>6. \A k \in Goroutines : Live(k) /\ helper[k].root = r => \E i \in 1..n : c[i] = k
    BY <2>1 DEF Chain
  <2> HIDE DEF d, n
  <2>7. d # <<>> /\ d[1] = r
    <3>1. Len(d) # 0 /\ 1 \in 1..n
      BY <2>2, <2>4
    <3> QED
      BY <2>2, <2>4, <3>1, EmptySeq
  <2>8. ASSUME NEW i \in 1..(Len(d) - 1)
        PROVE  /\ pc'[d[i]] = "blocked"
               /\ Awaited(d[i + 1])'
               /\ helper'[d[i + 1]].boss = d[i]
    <3>1. CASE i = n
      <4>1. d[i] = g /\ d[i + 1] = h
        BY <2>2, <2>4, <3>1
      <4> QED
        BY <1>1, <1>2, <4>1 DEF Awaited
    <3>2. CASE i # n
      <4>1. i \in 1..(n - 1) /\ i \in 1..n /\ i + 1 \in 1..n
        BY <2>2, <2>4, <3>2
      <4>2. d[i] = c[i] /\ d[i + 1] = c[i + 1] /\ c[i] # h /\ c[i + 1] # h
        BY <1>4, <2>3, <2>4, <4>1
      <4>3. c[i] \in Goroutines /\ c[i + 1] \in Goroutines
        BY <2>3, <4>1
      <4>4. pc'[c[i]] = "blocked"
        BY <1>2, <2>5, <4>1, <4>2, <4>3
      <4> QED
        BY <1>2, <1>5, <2>5, <4>1, <4>2, <4>3, <4>4
    <3> QED
      BY <3>1, <3>2
  <2>9. pc'[d[Len(d)]] \in Runnable
    BY <1>2, <2>4 DEF Runnable
  <2>10. ASSUME NEW i \in 1..Len(d)
         PROVE  helper'[d[i]].root = r
    <3>1. CASE i = n + 1
      BY <1>1, <1>2, <2>4, <3>1
    <3>2. CASE i # n + 1
      <4>1. i \in 1..n
        BY <2>2, <2>4, <3>2
      <4> QED
        BY <1>2, <1>4, <2>3, <2>4, <4>1
    <3> QED
      BY <3>1, <3>2
  <2>11. ASSUME NEW k \in Goroutines, Live(k)', helper'[k].root = r
         PROVE  \E i \in 1..Len(d) : d[i] = k
    <3>1. CASE k = h
      <4>1. n + 1 \in 1..Len(d)
        BY <2>2, <2>4
      <4> QED
        BY <2>4, <3>1, <4>1
    <3>2. CASE k # h
      <4>1. PICK i \in 1..n : c[i] = k
        BY <1>2, <1>5, <2>6, <2>11, <3>2
      <4>2. i \in 1..Len(d)
        BY <2>2, <2>4
      <4> QED
        BY <2>4, <4>1, <4>2
    <3> QED
      BY <3>1, <3>2
  <2>12. Chain(r, d)'
    BY <2>7, <2>8, <2>9, <2>10, <2>11 DEF Chain
  <2> QED
    BY <2>4, <2>12
<1>8. ASSUME NEW x \in Goroutines, LiveNode(x)'
      PROVE  \E d \in Seq(Goroutines) : Chain(x, d)'
  <2>1. CASE x = r
    BY <1>7, <2>1
  <2>2. CASE x # r
    <3>1. PICK c \in Seq(Goroutines) : Chain(x, c)
      BY <1>5, <1>8 DEF WInv, Chained
    <3>2. KeepsTo(x)
      <4>1. ASSUME NEW k \in Goroutines,
                   \/ Live(k) /\ helper[k].root = x
                   \/ Live(k)' /\ helper'[k].root = x
            PROVE  k # g /\ k # h
        BY <1>0, <1>1, <1>2, <1>4, <2>2, <4>1
      <4> QED
        BY <1>2, <1>5, <4>1 DEF KeepsTo
    <3> QED
      BY <3>1, <3>2, ChainStays
  <2> QED
    BY <2>1, <2>2
<1> QED
  BY <1>6, <1>8 DEF WInv, Chained

-----------------------------------------------------------------------------
(* A goroutine that another one has waited for ends, or idles.             *)

\* It is the last one of its chain, and not the only one.
LEMMA AnswererIsLast ==
    ASSUME IInv, WInv, NEW h \in Goroutines, pc[h] \in Runnable, Awaited(h)
    PROVE  /\ ~LiveNode(h)
           /\ LiveNode(helper[h].root)
           /\ \E c \in Seq(Goroutines) :
                /\ Chain(helper[h].root, c)
                /\ Len(c) > 1
                /\ c[Len(c)] = h
                /\ c[Len(c) - 1] = helper[h].boss
<1>0. PICK r \in Goroutines : r = helper[h].root
  BY DEF IInv, Typed, Errand
<1>1. ~LiveNode(h)
  BY DEF LiveNode, Awaited
<1>2. LiveNode(r)
  BY <1>0 DEF WInv, Rooted, Live
<1>3. PICK c \in Seq(Goroutines) : Chain(r, c)
  BY <1>2 DEF WInv, Chained
<1>4. PICK n \in Nat \ {0} : n = Len(c)
  BY <1>3, ChainShape
<1>5. c[n] = h /\ c[1] = r
  BY <1>0, <1>3, <1>4, EndOfChain DEF Chain
<1>6. n # 1
  BY <1>1, <1>2, <1>5
<1>7. n - 1 \in 1..(n - 1) /\ n > 1 /\ (n - 1) + 1 = n
  BY <1>4, <1>6
<1>8. helper[c[(n - 1) + 1]].boss = c[n - 1]
  BY <1>3, <1>4, <1>7 DEF Chain
<1> QED
  BY <1>0, <1>1, <1>2, <1>3, <1>4, <1>5, <1>7, <1>8

LEMMA AnswersKeepsWaiting ==
    ASSUME IInv, WInv, NEW h \in Goroutines, Answers(h)
    PROVE  WInv'
<1>0. PICK r \in Goroutines, b \in Goroutines :
          r = helper[h].root /\ b = helper[h].boss
  BY DEF IInv, Typed, Errand
<1>1. pc[h] \in Runnable /\ Awaited(h)
  BY DEF Answers
<1>2. /\ b # h /\ pc[b] = "blocked"
      /\ \A k \in Goroutines \ {h} : Awaited(k) => helper[k].boss # b
  BY <1>0, <1>1 DEF IInv, Control
<1>3. /\ pc'[h] \in {"off", "idle", "done"} /\ pc'[b] \in {"run", "panic"}
      /\ \A k \in Goroutines \ {h, b} : pc'[k] = pc[k]
  BY <1>0, <1>2 DEF Answers, IInv, Typed
<1>4. /\ helper'[h] = helper[h] \/ helper'[h] = NoErrand(h)
      /\ \A k \in Goroutines \ {h} : helper'[k] = helper[k]
  BY DEF Answers, IInv, Typed
<1>5. PICK c \in Seq(Goroutines) :
          Chain(r, c) /\ Len(c) > 1 /\ c[Len(c)] = h /\ c[Len(c) - 1] = b
  BY <1>0, <1>1, AnswererIsLast
<1>6. PICK n \in Nat \ {0} : n + 1 = Len(c)
  <2>1. PICK m \in Nat : m = Len(c) /\ m > 1
    BY <1>5, ChainShape
  <2>2. m - 1 \in Nat \ {0} /\ (m - 1) + 1 = m
    BY <2>1
  <2> QED
    BY <2>1, <2>2
<1>7. /\ c[n + 1] = h /\ c[n] = b /\ c[1] = r
      /\ \A i \in 1..(n + 1) :
            c[i] \in Goroutines /\ Live(c[i]) /\ helper[c[i]].root = r
      /\ \A i \in 1..n :
            /\ pc[c[i]] = "blocked"
            /\ Awaited(c[i + 1])
            /\ helper[c[i + 1]].boss = c[i]
      /\ \A k \in Goroutines :
            Live(k) /\ helper[k].root = r => \E i \in 1..(n + 1) : c[i] = k
  <2>1. (n + 1) - 1 = n
    BY <1>6
  <2> QED
    BY <1>5, <1>6, <2>1, ChainShape, EndOfChain DEF Chain
<1>8. ~LiveNode(h) /\ LiveNode(r) /\ Live(b) /\ Live(b)' /\ Live(h) /\ ~Live(h)'
      /\ helper[b].root = r
  <2>1. n \in 1..(n + 1)
    BY <1>6
  <2> QED
    BY <1>0, <1>1, <1>2, <1>3, <1>7, <2>1, AnswererIsLast DEF Live, Runnable
<1>9. \A k \in Goroutines \ {h} :
          /\ Live(k)' <=> Live(k)
          /\ LiveNode(k)' <=> LiveNode(k)
          /\ Awaited(k) => Awaited(k)'
  BY <1>2, <1>3, <1>4 DEF Live, LiveNode, Awaited, Runnable
<1>10. ~LiveNode(h)'
  BY <1>3 DEF LiveNode
<1>11. \A k \in Goroutines : helper[k].root \in Goroutines
  BY DEF IInv, Typed, Errand
<1>12. Rooted'
  <2>1. ASSUME NEW k \in Goroutines, Live(k)'
        PROVE  LiveNode(helper[k].root)'
    BY <1>4, <1>8, <1>9, <1>11, <2>1 DEF WInv, Rooted
  <2>2. ASSUME NEW k \in Goroutines, helper'[k].role = "node"
        PROVE  helper'[k].root = k
    <3>1. NoErrand(k).root = k
      BY DEF NoErrand
    <3> QED
      BY <1>4, <2>2, <3>1 DEF WInv, Rooted
  <2> QED
    BY <2>1, <2>2 DEF Rooted
<1>13. \E d \in Seq(Goroutines) : Chain(r, d)'
  <2> DEFINE d == [i \in 1..n |-> c[i]]
  <2>0. \A i \in 1..n : i \in 1..(n + 1)
    BY <1>6
  <2>1. d \in Seq(Goroutines) /\ Len(d) = n /\ \A i \in 1..n : d[i] = c[i]
    <3>1. d \in [1..n -> Goroutines]
      BY <1>7, <2>0
    <3> QED
      BY <1>6, <3>1
  <2> HIDE DEF d
  <2>2. d # <<>> /\ d[1] = r
    <3>1. Len(d) # 0 /\ 1 \in 1..n
      BY <1>6, <2>1
    <3> QED
      BY <1>7, <2>1, <3>1, EmptySeq
  <2>3. ASSUME NEW i \in 1..n
        PROVE  c[i] # h /\ helper'[c[i]] = helper[c[i]] /\ c[i] \in Goroutines
    BY <1>1, <1>4, <1>7, <2>0 DEF Runnable
  <2>4. ASSUME NEW i \in 1..(n - 1)
        PROVE  /\ pc'[d[i]] = "blocked"
               /\ Awaited(d[i + 1])'
               /\ helper'[d[i + 1]].boss = d[i]
    <3>1. i \in 1..n /\ i + 1 \in 1..n
      BY <1>6
    <3>2. c[i] # b
      <4>1. Awaited(c[i + 1]) /\ helper[c[i + 1]].boss = c[i]
        BY <1>7, <3>1
      <4>2. c[i + 1] \in Goroutines \ {h}
        BY <2>3, <3>1
      <4> QED
        BY <1>2, <4>1, <4>2
    <3>3. pc'[c[i]] = "blocked"
      BY <1>3, <1>7, <2>3, <3>1, <3>2
    <3>4. Awaited(c[i + 1])' /\ helper'[c[i + 1]].boss = c[i]
      BY <1>7, <1>9, <2>3, <3>1
    <3>5. d[i] = c[i] /\ d[i + 1] = c[i + 1]
      BY <2>1, <3>1
    <3> QED
      BY <3>3, <3>4, <3>5
  <2>5. pc'[d[n]] \in Runnable
    <3>1. n \in 1..n
      BY <1>6
    <3> QED
      BY <1>3, <1>7, <2>1, <3>1 DEF Runnable
  <2>6. ASSUME NEW i \in 1..n
        PROVE  helper'[d[i]].root = r
    <3>1. helper[c[i]].root = r
      BY <1>7, <2>0
    <3> QED
      BY <2>1, <2>3, <3>1
  <2>7. ASSUME NEW k \in Goroutines, Live(k)', helper'[k].root = r
        PROVE  \E i \in 1..n : d[i] = k
    <3>1. k # h /\ Live(k) /\ helper[k].root = r
      BY <1>4, <1>8, <1>9, <2>7
    <3>2. PICK i \in 1..(n + 1) : c[i] = k
      BY <1>7, <3>1
    <3>3. i # n + 1
      BY <1>7, <3>1, <3>2
    <3>4. i \in 1..n
      BY <1>6, <3>3
    <3> QED
      BY <2>1, <3>2, <3>4
  <2>8. Chain(r, d)'
    BY <2>1, <2>2, <2>4, <2>5, <2>6, <2>7 DEF Chain
  <2> QED
    BY <2>1, <2>8
<1>14. ASSUME NEW x \in Goroutines, LiveNode(x)'
       PROVE  \E d \in Seq(Goroutines) : Chain(x, d)'
  <2>1. CASE x = r
    BY <1>13, <2>1
  <2>2. CASE x # r
    <3>1. PICK d \in Seq(Goroutines) : Chain(x, d)
      BY <1>9, <1>10, <1>14 DEF WInv, Chained
    <3>2. KeepsTo(x)
      <4>1. ASSUME NEW k \in Goroutines,
                   \/ Live(k) /\ helper[k].root = x
                   \/ Live(k)' /\ helper'[k].root = x
            PROVE  k # h /\ k # b
        BY <1>0, <1>2, <1>4, <1>8, <2>2, <4>1
      <4> QED
        BY <1>3, <1>4, <1>9, <4>1 DEF KeepsTo
    <3> QED
      BY <3>1, <3>2, ChainStays
  <2> QED
    BY <2>1, <2>2
<1> QED
  BY <1>12, <1>14 DEF WInv, Chained

-----------------------------------------------------------------------------
(* Of the goroutines that wait for one another, one can go on.             *)

LEMMA ShapesOfNext ==
    ASSUME IInv, Next
    PROVE  \E g \in Goroutines :
              \/ Runs1(g) \/ Begins(g) \/ Finishes(g) \/ Expires(g)
              \/ Answers(g) \/ CleanupStep(g)
              \/ \E h \in Goroutines : Starts(g, h)
<1>1. PICK g \in Goroutines :
          CallStep(g) \/ ReturnStep(g) \/ NodeStep(g) \/ HelperStep(g)
  BY DEF Next
<1> QED
  BY <1>1, CallShapes, ReturnShapes, NodeShapes, HelperShapes

LEMMA WaitingInit ==
    ASSUME Init
    PROVE  WInv
BY DEF Init, WInv, Rooted, Chained, Live, LiveNode, Runnable, NoErrand

LEMMA WaitingStutter ==
    ASSUME IInv, WInv, UNCHANGED vars
    PROVE  WInv'
<1>1. \A k \in Goroutines : StaysAsIs(k)
  BY DEF vars, StaysAsIs, Live
<1> QED
  BY <1>1, QuietKeepsWaiting

LEMMA WaitingNext ==
    ASSUME IInv, WInv, Next
    PROVE  WInv'
BY ShapesOfNext, RunsKeepsWaiting, BeginsKeepsWaiting, FinishesKeepsWaiting,
   ExpiresKeepsWaiting, AnswersKeepsWaiting, CleanupKeepsWaiting,
   StartsKeepsWaiting

\* Goroutines that wait for one another form chains, each of which begins with
\* a test node and ends with a goroutine that can go on: goSeparate,
\* mntns.NewTransient and Room, nested in any way.
THEOREM Chains == Spec => []WInv
<1>1. IInv /\ WInv /\ [Next]_vars => WInv'
  BY WaitingNext, WaitingStutter
<1> QED
  BY <1>1, WaitingInit, Invariance, PTL DEF Spec

\* Of the goroutines that wait for one another one can go on, for any number
\* of goroutines and any nesting: each channel that goSeparate, NewTransient
\* and Room receive from has a sender.
THEOREM NoDeadlock == Spec => []SomebodyRuns
<1>1. ASSUME IInv, WInv
      PROVE  SomebodyRuns
  <2>1. ASSUME NEW g \in Goroutines, pc[g] = "blocked"
        PROVE  \E k \in Goroutines :
                  /\ helper[k].root = helper[g].root
                  /\ pc[k] \in {"run", "panic", "setup"}
    <3>1. PICK r \in Goroutines : r = helper[g].root
      BY <1>1 DEF IInv, Typed, Errand
    <3>2. LiveNode(r)
      BY <1>1, <2>1, <3>1 DEF WInv, Rooted, Live
    <3>3. PICK c \in Seq(Goroutines) : Chain(r, c)
      BY <1>1, <3>2 DEF WInv, Chained
    <3>4. /\ Len(c) \in Nat \ {0}
          /\ \A i \in 1..Len(c) : c[i] \in Goroutines
      BY <3>3, ChainShape
    <3>5. Len(c) \in 1..Len(c)
      BY <3>4
    <3> QED
      BY <3>1, <3>3, <3>4, <3>5 DEF Chain, Runnable
  <2> QED
    BY <2>1 DEF SomebodyRuns
<1> QED
  BY <1>1, Invariance, Chains, PTL

-----------------------------------------------------------------------------
(* Deferred cleanups.                                                      *)

LEMMA CleanupsType ==
    ASSUME Typed, NEW g \in Goroutines
    PROVE  /\ cleanups[g] \in Seq({"fd", "done"} \X Goroutines)
           /\ Len(cleanups[g]) \in Nat
           /\ DOMAIN cleanups[g] = 1..Len(cleanups[g])
<1>1. cleanups[g] \in Seq({"fd", "done"} \X Goroutines)
  BY DEF Typed
<1> QED
  BY <1>1, LenProperties

LEMMA Scheduled ==
    ASSUME Typed, NEW r \in Goroutines, NEW h \in Goroutines,
           NEW kind \in {"fd", "done"},
           cleanups' = [cleanups EXCEPT ![r] = Append(@, <<kind, h>>)]
    PROVE  /\ Len(cleanups'[r]) = Len(cleanups[r]) + 1
           /\ cleanups'[r][Len(cleanups[r]) + 1] = <<kind, h>>
           /\ \A i \in 1..Len(cleanups[r]) : cleanups'[r][i] = cleanups[r][i]
           /\ \A k \in Goroutines \ {r} : cleanups'[k] = cleanups[k]
<1>1. /\ cleanups[r] \in Seq({"fd", "done"} \X Goroutines)
      /\ <<kind, h>> \in {"fd", "done"} \X Goroutines
  BY CleanupsType
<1>2. /\ cleanups'[r] = Append(cleanups[r], <<kind, h>>)
      /\ \A k \in Goroutines \ {r} : cleanups'[k] = cleanups[k]
  BY DEF Typed
<1> QED
  BY <1>1, <1>2, AppendProperties

LEMMA Popped ==
    ASSUME Typed, NEW g \in Goroutines, cleanups[g] # <<>>,
           cleanups' = [cleanups EXCEPT ![g] = SubSeq(@, 1, Len(@) - 1)]
    PROVE  /\ Len(cleanups[g]) \in Nat \ {0}
           /\ Len(cleanups'[g]) = Len(cleanups[g]) - 1
           /\ \A i \in 1..(Len(cleanups[g]) - 1) : cleanups'[g][i] = cleanups[g][i]
           /\ cleanups[g][Len(cleanups[g])] \in {"fd", "done"} \X Goroutines
           /\ \A k \in Goroutines \ {g} : cleanups'[k] = cleanups[k]
<1>1. cleanups[g] \in Seq({"fd", "done"} \X Goroutines)
  BY CleanupsType
<1>2. /\ cleanups'[g] = SubSeq(cleanups[g], 1, Len(cleanups[g]) - 1)
      /\ \A k \in Goroutines \ {g} : cleanups'[k] = cleanups[k]
  BY DEF Typed
<1>3. Len(cleanups[g]) \in Nat \ {0}
  BY <1>1, Front
<1>4. Len(cleanups[g]) \in 1..Len(cleanups[g])
  BY <1>3
<1> QED
  BY <1>1, <1>2, <1>3, <1>4, Front, ElementOfSeq

-----------------------------------------------------------------------------
(* The mount namespaces of idlers are different ones.                      *)

MadeGrows == made' = made \/ \E typ \in NsTypes : Made(typ)

LEMMA NextMakes ==
    ASSUME IInv, Next
    PROVE  MadeGrows
<1>1. PICK g \in Goroutines :
          CallStep(g) \/ ReturnStep(g) \/ NodeStep(g) \/ HelperStep(g)
  BY DEF Next
<1>2. CASE EnterTransient(g)
  BY <1>2 DEF EnterTransient, Enterable, MadeGrows
<1>3. CASE NewTransient(g)
  BY <1>3 DEF NewTransient, Creatable, MadeGrows
<1>4. CASE GoIn(g) \/ GoSeparate(g)
  <2>1. made' = made
    BY <1>4 DEF GoIn, GoSeparate
  <2> QED
    BY <2>1 DEF MadeGrows
<1>5. CASE MntEnterTransient(g)
  <2>1. made' = made \/ Made("mnt")
    BY <1>5 DEF MntEnterTransient
  <2> QED
    BY <2>1, Constants DEF MadeGrows
<1>6. CASE MntNewTransient(g) \/ RoomUnshare(g)
  <2>1. made' = made
    BY <1>6 DEF MntNewTransient, RoomUnshare
  <2> QED
    BY <2>1 DEF MadeGrows
<1>7. CASE ReturnStep(g)
  BY <1>7 DEF ReturnStep, LeaveTransient, GoOut, MntLeaveTransient, MadeGrows
<1>8. CASE NodeStep(g)
  BY <1>8 DEF NodeStep, StartNode, NodeEnd, CleanupStep, Recover, MadeGrows
<1>9. CASE IdlerSetup(g)
  <2>1. made' = made \/ Made("mnt")
    BY <1>9 DEF IdlerSetup
  <2> QED
    BY <2>1, Constants DEF MadeGrows
<1>10. CASE NewNamespace(g)
  <2>1. DOMAIN helper[g].want \subseteq NsTypes
    BY DEF IInv, Typed, Errand, Partial
  <2>2. made' = made \/ \E typ \in DOMAIN helper[g].want : Made(typ)
    BY <1>10 DEF NewNamespace
  <2> QED
    BY <2>1, <2>2 DEF MadeGrows
<1>11. CASE SeparateSetup(g) \/ SeparateReturn(g) \/ HelperEnd(g)
  BY <1>11 DEF SeparateSetup, SeparateReturn, HelperEnd, MadeGrows
<1> QED
  BY <1>1, <1>2, <1>3, <1>4, <1>5, <1>6, <1>7, <1>8, <1>9, <1>10, <1>11
     DEF CallStep, HelperStep

\* Whoever starts to idle is one that has just got its mount namespace.
LEMMA NewIdlers ==
    ASSUME IInv, Next, NEW h \in Goroutines, pc'[h] = "idle", pc[h] # "idle"
    PROVE  /\ Answers(h) /\ BecomesIdler(h) /\ NewMount(h)
           /\ \A k \in Goroutines \ {h} : pc'[k] = "idle" => pc[k] = "idle"
           /\ helper' = helper
           /\ cleanups' = [cleanups EXCEPT ![helper[h].root] =
                              Append(@, <<"fd", h>>)]
<1>1. PICK g \in Goroutines :
          \/ Runs1(g) \/ Begins(g) \/ Finishes(g) \/ Expires(g)
          \/ Answers(g) \/ CleanupStep(g)
          \/ \E k \in Goroutines : Starts(g, k)
  BY ShapesOfNext
<1>2. ~Runs1(g) /\ ~Begins(g) /\ ~Finishes(g) /\ ~Expires(g)
  BY DEF Runs1, Begins, Finishes, Expires, IInv, Typed
<1>3. ~\E k \in Goroutines : Starts(g, k)
  BY DEF Starts, IInv, Typed
<1>4. ~CleanupStep(g)
  BY DEF CleanupStep, IInv, Typed
<1>5. helper[g].boss \in Goroutines
  BY DEF IInv, Typed, Errand
<1>6. PICK p \in {"off", "idle", "done"}, q \in {"run", "panic"} :
          /\ pc' = [pc EXCEPT ![g] = p, ![helper[g].boss] = q]
          /\ p # "off" => helper' = helper
          /\ p = "idle" => /\ BecomesIdler(g) /\ NewMount(g)
                           /\ cleanups' = [cleanups EXCEPT ![helper[g].root] =
                                             Append(@, <<"fd", g>>)]
  BY <1>1, <1>2, <1>3, <1>4 DEF Answers
<1>7. \A k \in Goroutines \ {g} : pc'[k] = "idle" => pc[k] = "idle"
  BY <1>5, <1>6 DEF IInv, Typed
<1>8. h = g
  BY <1>7
<1>9. p = "idle"
  BY <1>5, <1>6, <1>8 DEF IInv, Typed
<1> QED
  BY <1>1, <1>2, <1>3, <1>4, <1>6, <1>7, <1>8, <1>9

LEMMA NumberedKept ==
    ASSUME IInv, Numbered, Next
    PROVE  Numbered'
<1>1. /\ made["mnt"] \in Nat /\ made'["mnt"] \in Nat
      /\ made["mnt"] <= made'["mnt"]
  <2>1. made["mnt"] \in Nat /\ DOMAIN made = NsTypes /\ "mnt" \in NsTypes
    BY Constants DEF IInv, Typed, Namespaces
  <2> QED
    BY <2>1, NextMakes DEF MadeGrows, Made
<1>2. ASSUME NEW k \in Goroutines, pc[k] = "idle"
      PROVE  /\ locks'[k] > 0
             /\ ns'[on'[k]]["mnt"] = ns[on[k]]["mnt"]
             /\ ns[on[k]]["mnt"] \in 1..made["mnt"]
  BY <1>2, NextMoves DEF IdlersRest, Still, Numbered
<1>3. ASSUME NEW h \in Goroutines, pc'[h] = "idle", pc[h] # "idle"
      PROVE  /\ locks'[h] > 0
             /\ ns'[on'[h]]["mnt"] = made["mnt"] + 1
             /\ made'["mnt"] = made["mnt"] + 1
             /\ \A k \in Goroutines \ {h} : pc'[k] = "idle" => pc[k] = "idle"
  <2>1. NewMount(h) /\ \A k \in Goroutines \ {h} : pc'[k] = "idle" => pc[k] = "idle"
    BY <1>3, NewIdlers
  <2>2. PICK t \in Lockable(h) :
            Lock(h, t, [ns[t] EXCEPT !["mnt"] = NextNs("mnt")], TRUE)
    BY <2>1 DEF NewMount
  <2>3. ns[t] \in Namespaces
    BY LockableThread DEF IInv
  <2>4. [ns[t] EXCEPT !["mnt"] = NextNs("mnt")]["mnt"] = made["mnt"] + 1
    BY <2>3, Constants DEF Namespaces, NextNs
  <2>5. /\ locks'[h] = locks[h] + 1 /\ on'[h] = t /\ locks[h] \in Nat
        /\ ns'[t] = [ns[t] EXCEPT !["mnt"] = NextNs("mnt")]
    <3> DEFINE new == [ns[t] EXCEPT !["mnt"] = NextNs("mnt")]
    <3>1. PICK own : Lock(h, t, new, own)
      BY <2>2
    <3> HIDE DEF new
    <3>2. locks'[h] = locks[h] + 1 /\ on'[h] = t /\ ns'[t] = new /\ locks[h] \in Nat
      BY <3>1, LockConcernsOne
    <3> QED
      BY <3>2 DEF new
  <2>6. made'["mnt"] = made["mnt"] + 1
    BY <2>1, Constants DEF NewMount, Made, IInv, Typed, Namespaces
  <2> QED
    BY <2>1, <2>4, <2>5, <2>6
<1>4. ASSUME NEW h \in Goroutines, pc'[h] = "idle"
      PROVE  /\ locks'[h] > 0
             /\ ns'[on'[h]]["mnt"] \in 1..made'["mnt"]
  BY <1>1, <1>2, <1>3, <1>4
<1>5. ASSUME NEW h \in Goroutines, NEW k \in Goroutines \ {h},
             pc'[h] = "idle", pc'[k] = "idle"
      PROVE  ns'[on'[k]]["mnt"] # ns'[on'[h]]["mnt"]
  <2>1. CASE pc[h] = "idle" /\ pc[k] = "idle"
    BY <1>2, <2>1 DEF Numbered
  <2>2. CASE pc[h] # "idle"
    BY <1>1, <1>2, <1>3, <1>5, <2>2
  <2>3. CASE pc[k] # "idle"
    BY <1>1, <1>2, <1>3, <1>5, <2>3
  <2> QED
    BY <2>1, <2>2, <2>3
<1> QED
  BY <1>4, <1>5 DEF Numbered

-----------------------------------------------------------------------------
(* References are closed first, and each idler is due.                     *)

\* Idlers and their errands stay.
IdlersStay ==
    \A k \in Goroutines :
        pc[k] = "idle" => pc'[k] = "idle" /\ helper'[k] = helper[k]

SchedulesDone(r, k) ==
    /\ pc[k] = "off" /\ IdlersStay
    /\ cleanups' = [cleanups EXCEPT ![r] = Append(@, <<"done", k>>)]

SchedulesFd(r, k) ==
    /\ pc'[k] = "idle" /\ helper'[k].root = r /\ IdlersStay
    /\ cleanups' = [cleanups EXCEPT ![r] = Append(@, <<"fd", k>>)]

LEMMA ShapesStay ==
    ASSUME IInv, NEW g \in Goroutines,
           \/ Runs1(g) \/ Begins(g) \/ Finishes(g) \/ Expires(g) \/ Answers(g)
           \/ \E h \in Goroutines : Starts(g, h)
    PROVE  IdlersStay
<1> SUFFICES ASSUME NEW k \in Goroutines, pc[k] = "idle"
             PROVE  pc'[k] = "idle" /\ helper'[k] = helper[k]
  BY DEF IdlersStay
<1>1. CASE Runs1(g) \/ Begins(g) \/ Finishes(g)
  BY <1>1 DEF Runs1, Begins, Finishes, IInv, Typed
<1>2. CASE Expires(g)
  BY <1>2 DEF Expires, IInv, Typed
<1>3. CASE Answers(g)
  <2>1. pc[g] \in Runnable /\ Awaited(g)
    BY <1>3 DEF Answers
  <2>2. pc[helper[g].boss] = "blocked"
    BY <2>1 DEF IInv, Control
  <2> QED
    BY <1>3, <2>1, <2>2 DEF Answers, Runnable, IInv, Typed
<1>4. ASSUME NEW h \in Goroutines, Starts(g, h)
      PROVE  pc'[k] = "idle" /\ helper'[k] = helper[k]
  BY <1>4 DEF Starts, IInv, Typed
<1> QED
  BY <1>1, <1>2, <1>3, <1>4

LEMMA CleanupsChange ==
    ASSUME IInv, Next
    PROVE  \/ cleanups' = cleanups /\ IdlersStay
           \/ \E r, k \in Goroutines : SchedulesDone(r, k) \/ SchedulesFd(r, k)
           \/ \E g \in Goroutines : CleanupStep(g)
<1>1. PICK g \in Goroutines :
          \/ Runs1(g) \/ Begins(g) \/ Finishes(g) \/ Expires(g)
          \/ Answers(g) \/ CleanupStep(g)
          \/ \E k \in Goroutines : Starts(g, k)
  BY ShapesOfNext
<1>2. helper[g].root \in Goroutines /\ helper[g].boss \in Goroutines
  BY DEF IInv, Typed, Errand
<1>3. CASE Runs1(g) \/ Begins(g) \/ Finishes(g) \/ Expires(g)
  <2>1. IdlersStay
    BY <1>3, ShapesStay
  <2> QED
    BY <1>3, <2>1 DEF Runs1, Begins, Finishes, Expires
<1>4. CASE Answers(g)
  <2>1. IdlersStay
    BY <1>4, ShapesStay
  <2>2. PICK p \in {"off", "idle", "done"}, q \in {"run", "panic"} :
          /\ pc' = [pc EXCEPT ![g] = p, ![helper[g].boss] = q]
          /\ p # "off" => helper' = helper
          /\ p = "idle" => cleanups' = [cleanups EXCEPT ![helper[g].root] =
                                          Append(@, <<"fd", g>>)]
          /\ p # "idle" => cleanups' = cleanups
    BY <1>4 DEF Answers
  <2>3. helper[g].boss # g
    BY <1>4 DEF Answers, IInv, Control
  <2>4. pc'[g] = p
    BY <1>2, <2>2, <2>3 DEF IInv, Typed
  <2>5. CASE p = "idle"
    <3>1. SchedulesFd(helper[g].root, g)
      BY <2>1, <2>2, <2>4, <2>5 DEF SchedulesFd
    <3> QED
      BY <1>2, <3>1
  <2> QED
    BY <2>1, <2>2, <2>5
<1>5. ASSUME NEW k \in Goroutines, Starts(g, k)
      PROVE  \/ cleanups' = cleanups /\ IdlersStay
             \/ SchedulesDone(helper[g].root, k)
  <2>1. IdlersStay
    BY <1>5, ShapesStay
  <2> QED
    BY <1>5, <2>1 DEF Starts, SchedulesDone
<1> QED
  BY <1>1, <1>2, <1>3, <1>4, <1>5

LEMMA DoneKeepsReferenced ==
    ASSUME IInv, Referenced, NEW r \in Goroutines, NEW k \in Goroutines,
           SchedulesDone(r, k)
    PROVE  Referenced'
<1> SUFFICES ASSUME NEW g \in Goroutines, NEW h \in Goroutines,
                    NEW i \in 1..Len(cleanups'[g]),
                    cleanups'[g][i] = <<"fd", h>>
             PROVE  /\ pc'[h] = "idle"
                    /\ helper'[h].root = g
                    /\ \A j \in 1..Len(cleanups'[g]) :
                         cleanups'[g][j] = <<"done", h>> => j < i
  BY DEF Referenced
<1>1. /\ Len(cleanups'[r]) = Len(cleanups[r]) + 1
      /\ cleanups'[r][Len(cleanups[r]) + 1] = <<"done", k>>
      /\ \A j \in 1..Len(cleanups[r]) : cleanups'[r][j] = cleanups[r][j]
      /\ \A x \in Goroutines \ {r} : cleanups'[x] = cleanups[x]
  BY Scheduled DEF SchedulesDone, IInv
<1>2. Len(cleanups[r]) \in Nat
  BY CleanupsType DEF IInv
<1>3. CASE g # r
  BY <1>1, <1>3 DEF Referenced, SchedulesDone, IdlersStay
<1>4. CASE g = r
  <2>1. i \in 1..Len(cleanups[r])
    BY <1>1, <1>2, <1>4
  <2>2. cleanups[r][i] = <<"fd", h>>
    BY <1>1, <1>4, <2>1
  <2>3. /\ pc[h] = "idle" /\ helper[h].root = r
        /\ \A j \in 1..Len(cleanups[r]) : cleanups[r][j] = <<"done", h>> => j < i
    BY <2>1, <2>2 DEF Referenced
  <2>4. k # h
    BY <2>3 DEF SchedulesDone
  <2>5. ASSUME NEW j \in 1..Len(cleanups'[r]), cleanups'[r][j] = <<"done", h>>
        PROVE  j < i
    <3>1. j # Len(cleanups[r]) + 1
      BY <1>1, <2>4, <2>5
    <3>2. j \in 1..Len(cleanups[r])
      BY <1>1, <1>2, <3>1
    <3> QED
      BY <1>1, <2>3, <2>5, <3>2
  <2> QED
    BY <1>4, <2>3, <2>5 DEF SchedulesDone, IdlersStay
<1> QED
  BY <1>3, <1>4

LEMMA FdKeepsReferenced ==
    ASSUME IInv, Referenced, NEW r \in Goroutines, NEW k \in Goroutines,
           SchedulesFd(r, k)
    PROVE  Referenced'
<1> SUFFICES ASSUME NEW g \in Goroutines, NEW h \in Goroutines,
                    NEW i \in 1..Len(cleanups'[g]),
                    cleanups'[g][i] = <<"fd", h>>
             PROVE  /\ pc'[h] = "idle"
                    /\ helper'[h].root = g
                    /\ \A j \in 1..Len(cleanups'[g]) :
                         cleanups'[g][j] = <<"done", h>> => j < i
  BY DEF Referenced
<1>1. /\ Len(cleanups'[r]) = Len(cleanups[r]) + 1
      /\ cleanups'[r][Len(cleanups[r]) + 1] = <<"fd", k>>
      /\ \A j \in 1..Len(cleanups[r]) : cleanups'[r][j] = cleanups[r][j]
      /\ \A x \in Goroutines \ {r} : cleanups'[x] = cleanups[x]
  BY Scheduled DEF SchedulesFd, IInv
<1>2. Len(cleanups[r]) \in Nat
  BY CleanupsType DEF IInv
<1>3. CASE g # r
  BY <1>1, <1>3 DEF Referenced, SchedulesFd, IdlersStay
<1>4. CASE g = r
  <2>1. ASSUME NEW j \in 1..Len(cleanups'[r]), cleanups'[r][j] = <<"done", h>>
        PROVE  j \in 1..Len(cleanups[r]) /\ cleanups[r][j] = <<"done", h>>
    <3>1. j # Len(cleanups[r]) + 1
      BY <1>1, <2>1
    <3>2. j \in 1..Len(cleanups[r])
      BY <1>1, <1>2, <3>1
    <3> QED
      BY <1>1, <2>1, <3>2
  <2>2. CASE i = Len(cleanups[r]) + 1
    <3>1. h = k
      BY <1>1, <1>4, <2>2
    <3>2. \A j \in 1..Len(cleanups[r]) : j < i
      BY <1>2, <2>2
    <3> QED
      BY <1>4, <2>1, <3>1, <3>2 DEF SchedulesFd
  <2>3. CASE i # Len(cleanups[r]) + 1
    <3>1. i \in 1..Len(cleanups[r])
      BY <1>1, <1>2, <1>4, <2>3
    <3>2. cleanups[r][i] = <<"fd", h>>
      BY <1>1, <1>4, <3>1
    <3>3. /\ pc[h] = "idle" /\ helper[h].root = r
          /\ \A j \in 1..Len(cleanups[r]) : cleanups[r][j] = <<"done", h>> => j < i
      BY <3>1, <3>2 DEF Referenced
    <3> QED
      BY <1>4, <2>1, <3>3 DEF SchedulesFd, IdlersStay
  <2> QED
    BY <2>2, <2>3
<1> QED
  BY <1>3, <1>4

LEMMA CleanupKeepsReferenced ==
    ASSUME IInv, Referenced, NEW x \in Goroutines, CleanupStep(x)
    PROVE  Referenced'
<1> SUFFICES ASSUME NEW g \in Goroutines, NEW h \in Goroutines,
                    NEW i \in 1..Len(cleanups'[g]),
                    cleanups'[g][i] = <<"fd", h>>
             PROVE  /\ pc'[h] = "idle"
                    /\ helper'[h].root = g
                    /\ \A j \in 1..Len(cleanups'[g]) :
                         cleanups'[g][j] = <<"done", h>> => j < i
  BY DEF Referenced
<1>0. helper' = helper /\ pc[x] = "cleanup"
  BY DEF CleanupStep
<1>1. CASE cleanups' = cleanups /\ pc' = [pc EXCEPT ![x] = "off"]
  <2>1. /\ pc[h] = "idle" /\ helper[h].root = g
        /\ \A j \in 1..Len(cleanups[g]) : cleanups[g][j] = <<"done", h>> => j < i
    BY <1>1 DEF Referenced
  <2>2. pc'[h] = pc[h]
    BY <1>0, <1>1, <2>1 DEF IInv, Typed
  <2> QED
    BY <1>0, <1>1, <2>1, <2>2
<1>2. CASE /\ cleanups[x] # <<>>
           /\ cleanups' = [cleanups EXCEPT ![x] = SubSeq(@, 1, Len(@) - 1)]
           /\ LET item == cleanups[x][Len(cleanups[x])]
                  k    == item[2]
              IN  pc' = IF /\ item[1] = "done"
                           /\ pc[k] = "idle" /\ helper[k].root = x
                        THEN [pc EXCEPT ![k] = "done"] ELSE pc
  <2>1. PICK n \in Nat \ {0} : n = Len(cleanups[x])
    BY <1>2, Popped DEF IInv
  <2>2. PICK kind \in {"fd", "done"}, k \in Goroutines : cleanups[x][n] = <<kind, k>>
    <3>1. cleanups[x][n] \in {"fd", "done"} \X Goroutines
      BY <1>2, <2>1, Popped DEF IInv
    <3> QED
      BY <3>1
  <2>3. /\ Len(cleanups'[x]) = n - 1
        /\ \A j \in 1..(n - 1) : cleanups'[x][j] = cleanups[x][j]
        /\ \A y \in Goroutines \ {x} : cleanups'[y] = cleanups[y]
    BY <1>2, <2>1, Popped DEF IInv
  <2>4. pc' = IF kind = "done" /\ pc[k] = "idle" /\ helper[k].root = x
              THEN [pc EXCEPT ![k] = "done"] ELSE pc
    BY <1>2, <2>1, <2>2
  <2>5. /\ i \in 1..Len(cleanups[g])
        /\ cleanups[g][i] = <<"fd", h>>
        /\ g = x => i < n
    <3>1. CASE g = x
      <4>1. i \in 1..(n - 1) /\ i \in 1..n /\ i < n
        BY <2>1, <2>3, <3>1
      <4> QED
        BY <2>1, <2>3, <3>1, <4>1
    <3>2. CASE g # x
      BY <2>3, <3>2
    <3> QED
      BY <3>1, <3>2
  <2>6. /\ pc[h] = "idle" /\ helper[h].root = g
        /\ \A j \in 1..Len(cleanups[g]) : cleanups[g][j] = <<"done", h>> => j < i
    BY <2>5 DEF Referenced
  <2>7. ASSUME kind = "done", k = h, g = x
        PROVE  FALSE
    <3>1. n \in 1..Len(cleanups[g]) /\ cleanups[g][n] = <<"done", h>>
      BY <2>1, <2>2, <2>7
    <3>2. n < i
      BY <2>6, <3>1
    <3> QED
      BY <2>1, <2>5, <2>7, <3>2
  <2>8. pc'[h] = "idle"
    BY <2>4, <2>6, <2>7 DEF IInv, Typed
  <2>9. ASSUME NEW j \in 1..Len(cleanups'[g]), cleanups'[g][j] = <<"done", h>>
        PROVE  j < i
    <3>1. j \in 1..Len(cleanups[g]) /\ cleanups[g][j] = <<"done", h>>
      <4>1. CASE g = x
        <5>1. j \in 1..(n - 1) /\ j \in 1..n
          BY <2>1, <2>3, <4>1
        <5> QED
          BY <2>1, <2>3, <2>9, <4>1, <5>1
      <4>2. CASE g # x
        BY <2>3, <2>9, <4>2
      <4> QED
        BY <4>1, <4>2
    <3> QED
      BY <2>6, <3>1
  <2> QED
    BY <1>0, <2>6, <2>8, <2>9
<1> QED
  BY <1>1, <1>2 DEF CleanupStep

LEMMA ReferencedKept ==
    ASSUME IInv, Referenced, Next
    PROVE  Referenced'
<1>1. CASE cleanups' = cleanups /\ IdlersStay
  BY <1>1 DEF Referenced, IdlersStay
<1> QED
  BY <1>1, CleanupsChange, DoneKeepsReferenced, FdKeepsReferenced,
     CleanupKeepsReferenced

\* Test nodes do not go away but by a cleanup step.
LEMMA NodesStayUp ==
    ASSUME IInv, NEW g \in Goroutines,
           \/ Runs1(g) \/ Begins(g) \/ Finishes(g) \/ Expires(g) \/ Answers(g)
           \/ \E h \in Goroutines : Starts(g, h)
    PROVE  \A r \in Goroutines : NodeIsUp(r) => NodeIsUp(r)'
<1> SUFFICES ASSUME NEW r \in Goroutines, NodeIsUp(r)
             PROVE  NodeIsUp(r)'
  OBVIOUS
<1>1. helper[r].role = "node" /\ pc[r] \in {"run", "panic", "blocked", "cleanup"}
  BY DEF NodeIsUp
<1>2. CASE Runs1(g) \/ Begins(g) \/ Finishes(g)
  BY <1>1, <1>2 DEF Runs1, Begins, Finishes, NodeIsUp, IInv, Typed
<1>3. CASE Expires(g)
  BY <1>1, <1>3 DEF Expires, NodeIsUp, IInv, Typed
<1>4. CASE Answers(g)
  <2>1. pc[g] \in Runnable /\ Awaited(g)
    BY <1>4 DEF Answers
  <2>2. r # g
    BY <1>1, <2>1 DEF Awaited
  <2>3. helper'[r] = helper[r] /\ pc'[r] \in {pc[r], "run", "panic"}
    BY <1>4, <2>2 DEF Answers, IInv, Typed
  <2> QED
    BY <1>1, <2>3 DEF NodeIsUp
<1>5. ASSUME NEW h \in Goroutines, Starts(g, h)
      PROVE  NodeIsUp(r)'
  <2>1. r # h
    BY <1>1, <1>5 DEF Starts
  <2>2. helper'[r] = helper[r] /\ pc'[r] \in {pc[r], "blocked"}
    BY <1>5, <2>1 DEF Starts, IInv, Typed
  <2> QED
    BY <1>1, <2>2 DEF NodeIsUp
<1> QED
  BY <1>2, <1>3, <1>4, <1>5

LEMMA HoldsStays ==
    ASSUME IInv, NEW r \in Goroutines, NEW h \in Goroutines, Holds(r, h),
           \/ cleanups' = cleanups
           \/ \E s, k \in Goroutines, kind \in {"fd", "done"} :
                cleanups' = [cleanups EXCEPT ![s] = Append(@, <<kind, k>>)]
    PROVE  Holds(r, h)'
<1>1. PICK i \in 1..Len(cleanups[r]) : cleanups[r][i] = <<"done", h>>
  BY DEF Holds
<1>2. Len(cleanups[r]) \in Nat
  BY CleanupsType DEF IInv
<1>3. CASE cleanups'[r] = cleanups[r]
  BY <1>1, <1>3 DEF Holds
<1>4. ASSUME NEW k \in Goroutines, NEW kind \in {"fd", "done"},
             cleanups' = [cleanups EXCEPT ![r] = Append(@, <<kind, k>>)]
      PROVE  Holds(r, h)'
  <2>1. Len(cleanups'[r]) = Len(cleanups[r]) + 1 /\ cleanups'[r][i] = cleanups[r][i]
    BY <1>4, Scheduled DEF IInv
  <2>2. i \in 1..Len(cleanups'[r])
    BY <1>2, <2>1
  <2> QED
    BY <1>1, <2>1, <2>2 DEF Holds
<1>5. ASSUME NEW s \in Goroutines \ {r}, NEW k \in Goroutines, NEW kind \in {"fd", "done"},
             cleanups' = [cleanups EXCEPT ![s] = Append(@, <<kind, k>>)]
      PROVE  cleanups'[r] = cleanups[r]
  BY <1>5 DEF IInv, Typed
<1>6. CASE cleanups' = cleanups
  BY <1>3, <1>6
<1> QED
  BY <1>3, <1>4, <1>5, <1>6

LEMMA StartsKeepsDue ==
    ASSUME IInv, WInv, Due, NEW g \in Goroutines, NEW h \in Goroutines, Starts(g, h)
    PROVE  Due'
<1>0. PICK r \in Goroutines : r = helper[g].root
  BY DEF IInv, Typed, Errand
<1>1. PICK e \in Errand :
          /\ e.boss = g /\ e.root = r
          /\ helper' = [helper EXCEPT ![h] = e]
          /\ cleanups' = IF e.role = "idler"
                         THEN [cleanups EXCEPT ![r] = Append(@, <<"done", h>>)]
                         ELSE cleanups
  BY <1>0 DEF Starts
<1>2. /\ pc[g] = "run" /\ g # h /\ helper'[h] = e /\ pc'[h] = "setup"
      /\ pc'[g] = "blocked"
      /\ \A k \in Goroutines \ {h} : helper'[k] = helper[k]
      /\ \A k \in Goroutines \ {g, h} : pc'[k] = pc[k]
  BY <1>1 DEF Starts, IInv, Typed
<1>3. NodeIsUp(r)'
  <2>1. NodeIsUp(r)
    BY <1>0, <1>2 DEF WInv, Rooted, Live, Runnable, LiveNode, NodeIsUp
  <2> QED
    BY <2>1, NodesStayUp
<1>4. e.role = "idler" => Holds(r, h)'
  <2>1. SUFFICES ASSUME e.role = "idler" PROVE Holds(r, h)'
    OBVIOUS
  <2>2. cleanups' = [cleanups EXCEPT ![r] = Append(@, <<"done", h>>)]
    BY <1>1, <2>1
  <2>3. /\ Len(cleanups'[r]) = Len(cleanups[r]) + 1
        /\ cleanups'[r][Len(cleanups[r]) + 1] = <<"done", h>>
    BY <2>2, Scheduled DEF IInv
  <2>4. Len(cleanups[r]) + 1 \in 1..Len(cleanups'[r])
    BY <2>3, CleanupsType DEF IInv
  <2> QED
    BY <2>3, <2>4 DEF Holds
<1>5. ASSUME NEW k \in Goroutines, pc'[k] = "idle" \/ BecomesIdler(k)'
      PROVE  NodeIsUp(helper[k].root)' /\ Holds(helper[k].root, k)'
  <2>1. CASE k = h
    BY <1>1, <1>2, <1>3, <1>4, <1>5, <2>1 DEF BecomesIdler
  <2>2. CASE k # h
    <3>1. k # g /\ helper'[k] = helper[k] /\ (pc[k] = "idle" \/ BecomesIdler(k))
      BY <1>2, <1>5, <2>2 DEF BecomesIdler
    <3>2. NodeIsUp(helper[k].root) /\ Holds(helper[k].root, k)
      BY <3>1 DEF Due
    <3>3. helper[k].root \in Goroutines
      BY DEF IInv, Typed, Errand
    <3>4. \/ cleanups' = cleanups
          \/ \E s, x \in Goroutines, kind \in {"fd", "done"} :
                cleanups' = [cleanups EXCEPT ![s] = Append(@, <<kind, x>>)]
      BY <1>1
    <3>5. PICK y \in Goroutines : y = helper[k].root
      BY <3>3
    <3>6. NodeIsUp(y)' /\ Holds(y, k)'
      BY <3>2, <3>4, <3>5, NodesStayUp, HoldsStays
    <3> QED
      BY <3>1, <3>5, <3>6
  <2> QED
    BY <2>1, <2>2
<1> QED
  BY <1>5 DEF Due

LEMMA OthersKeepDue ==
    ASSUME IInv, Due, NEW g \in Goroutines,
           Runs1(g) \/ Begins(g) \/ Finishes(g) \/ Expires(g) \/ Answers(g)
    PROVE  Due'
<1>1. ASSUME NEW k \in Goroutines, pc'[k] = "idle" \/ BecomesIdler(k)'
      PROVE  /\ pc[k] = "idle" \/ BecomesIdler(k)
             /\ helper'[k] = helper[k]
  <2>1. CASE Runs1(g) \/ Begins(g) \/ Finishes(g)
    BY <1>1, <2>1 DEF Runs1, Begins, Finishes, BecomesIdler, IInv, Typed
  <2>2. CASE Expires(g)
    BY <1>1, <2>2 DEF Expires, BecomesIdler, IInv, Typed
  <2>3. CASE Answers(g)
    <3>1. PICK p \in {"off", "idle", "done"}, q \in {"run", "panic"} :
            /\ pc' = [pc EXCEPT ![g] = p, ![helper[g].boss] = q]
            /\ p = "idle" => BecomesIdler(g)
            /\ p # "off" => helper' = helper
            /\ p = "off" => helper' = [helper EXCEPT ![g] = NoErrand(g)]
      BY <2>3 DEF Answers
    <3>2. helper[g].boss \in Goroutines \ {g}
      BY <2>3 DEF Answers, IInv, Control, Typed, Errand
    <3>3. CASE k = g
      BY <1>1, <3>1, <3>2, <3>3 DEF BecomesIdler, IInv, Typed
    <3>4. CASE k # g
      <4>1. helper'[k] = helper[k]
        BY <3>1, <3>4 DEF IInv, Typed
      <4>2. pc'[k] \in {pc[k], "run", "panic"}
        BY <3>1, <3>4 DEF IInv, Typed
      <4> QED
        BY <1>1, <4>1, <4>2 DEF BecomesIdler
    <3> QED
      BY <3>3, <3>4
  <2> QED
    BY <2>1, <2>2, <2>3
<1>2. \/ cleanups' = cleanups
      \/ \E s, x \in Goroutines, kind \in {"fd", "done"} :
            cleanups' = [cleanups EXCEPT ![s] = Append(@, <<kind, x>>)]
  <2>1. CASE Runs1(g) \/ Begins(g) \/ Finishes(g) \/ Expires(g)
    BY <2>1 DEF Runs1, Begins, Finishes, Expires
  <2>2. CASE Answers(g)
    <3>1. helper[g].root \in Goroutines
      BY DEF IInv, Typed, Errand
    <3> QED
      BY <2>2, <3>1 DEF Answers
  <2> QED
    BY <2>1, <2>2
<1>3. ASSUME NEW k \in Goroutines, pc'[k] = "idle" \/ BecomesIdler(k)'
      PROVE  NodeIsUp(helper[k].root)' /\ Holds(helper[k].root, k)'
  <2>1. PICK y \in Goroutines : y = helper[k].root
    BY DEF IInv, Typed, Errand
  <2>2. NodeIsUp(y) /\ Holds(y, k) /\ helper'[k] = helper[k]
    BY <1>1, <1>3, <2>1 DEF Due
  <2>3. NodeIsUp(y)' /\ Holds(y, k)'
    BY <1>2, <2>2, NodesStayUp, HoldsStays
  <2> QED
    BY <2>1, <2>2, <2>3
<1> QED
  BY <1>3 DEF Due

LEMMA CleanupKeepsDue ==
    ASSUME IInv, WInv, Due, NEW g \in Goroutines, CleanupStep(g)
    PROVE  Due'
<1>0. helper' = helper /\ pc[g] = "cleanup"
  BY DEF CleanupStep
<1>1. ASSUME NEW k \in Goroutines, BecomesIdler(k)
      PROVE  helper[k].root # g
  <2>1. LiveNode(helper[k].root)
    BY <1>1 DEF BecomesIdler, WInv, Rooted, Live, Runnable
  <2> QED
    BY <1>0, <2>1 DEF LiveNode
<1>2. CASE /\ cleanups[g] = <<>> /\ cleanups' = cleanups
           /\ pc' = [pc EXCEPT ![g] = "off"]
  <2>1. ASSUME NEW k \in Goroutines, pc'[k] = "idle" \/ BecomesIdler(k)'
        PROVE  NodeIsUp(helper[k].root)' /\ Holds(helper[k].root, k)'
    <3>1. PICK r \in Goroutines : r = helper[k].root
      BY DEF IInv, Typed, Errand
    <3>2. pc[k] = "idle" \/ BecomesIdler(k)
      BY <1>0, <1>2, <2>1 DEF BecomesIdler, IInv, Typed
    <3>3. NodeIsUp(r) /\ Holds(r, k)
      BY <3>1, <3>2 DEF Due
    <3>4. r # g
      BY <1>2, <3>3, EmptySeq DEF Holds
    <3>5. NodeIsUp(r)' /\ Holds(r, k)'
      BY <1>0, <1>2, <3>3, <3>4 DEF NodeIsUp, Holds, IInv, Typed
    <3> QED
      BY <1>0, <3>1, <3>5
  <2> QED
    BY <2>1 DEF Due
<1>3. CASE /\ cleanups[g] # <<>>
           /\ cleanups' = [cleanups EXCEPT ![g] = SubSeq(@, 1, Len(@) - 1)]
           /\ LET item == cleanups[g][Len(cleanups[g])]
                  k    == item[2]
              IN  pc' = IF /\ item[1] = "done"
                           /\ pc[k] = "idle" /\ helper[k].root = g
                        THEN [pc EXCEPT ![k] = "done"] ELSE pc
  <2>1. PICK n \in Nat \ {0} : n = Len(cleanups[g])
    BY <1>3, Popped DEF IInv
  <2>2. PICK kind \in {"fd", "done"}, x \in Goroutines : cleanups[g][n] = <<kind, x>>
    <3>1. cleanups[g][n] \in {"fd", "done"} \X Goroutines
      BY <1>3, <2>1, Popped DEF IInv
    <3> QED
      BY <3>1
  <2>3. /\ Len(cleanups'[g]) = n - 1
        /\ \A j \in 1..(n - 1) : cleanups'[g][j] = cleanups[g][j]
        /\ \A y \in Goroutines \ {g} : cleanups'[y] = cleanups[y]
    BY <1>3, <2>1, Popped DEF IInv
  <2>4. pc' = IF kind = "done" /\ pc[x] = "idle" /\ helper[x].root = g
              THEN [pc EXCEPT ![x] = "done"] ELSE pc
    BY <1>3, <2>1, <2>2
  <2>5. \A k \in Goroutines : pc'[k] = pc[k] \/ (pc[k] = "idle" /\ pc'[k] = "done")
    BY <2>4 DEF IInv, Typed
  <2>6. ASSUME NEW k \in Goroutines, pc'[k] = "idle" \/ BecomesIdler(k)'
        PROVE  NodeIsUp(helper[k].root)' /\ Holds(helper[k].root, k)'
    <3>1. PICK r \in Goroutines : r = helper[k].root
      BY DEF IInv, Typed, Errand
    <3>2. pc'[k] = pc[k] /\ (pc[k] = "idle" \/ BecomesIdler(k))
      BY <1>0, <2>5, <2>6 DEF BecomesIdler
    <3>3. NodeIsUp(r) /\ Holds(r, k)
      BY <3>1, <3>2 DEF Due
    <3>4. NodeIsUp(r)'
      BY <1>0, <2>5, <3>3 DEF NodeIsUp
    <3>5. PICK i \in 1..Len(cleanups[r]) : cleanups[r][i] = <<"done", k>>
      BY <3>3 DEF Holds
    <3>6. ASSUME r # g
          PROVE  Holds(r, k)'
      <4>1. cleanups'[r] = cleanups[r]
        BY <2>3, <3>6
      <4> QED
        BY <3>5, <4>1 DEF Holds
    <3>7. ASSUME r = g
          PROVE  Holds(r, k)'
      <4>1. pc[k] = "idle"
        BY <1>1, <3>1, <3>2, <3>7
      <4>2. i # n
        <5>1. SUFFICES ASSUME i = n PROVE FALSE
          OBVIOUS
        <5>2. kind = "done" /\ x = k
          BY <2>2, <3>5, <3>7, <5>1
        <5>3. pc' = [pc EXCEPT ![k] = "done"]
          BY <2>4, <3>1, <3>7, <4>1, <5>2
        <5> QED
          BY <3>2, <4>1, <5>3 DEF IInv, Typed
      <4>3. i \in 1..(n - 1)
        BY <2>1, <3>5, <3>7, <4>2
      <4> QED
        <5>1. i \in 1..Len(cleanups'[g]) /\ cleanups'[g][i] = <<"done", k>>
          BY <2>3, <3>5, <3>7, <4>3
        <5> QED
          BY <3>7, <5>1 DEF Holds
    <3> QED
      BY <1>0, <3>1, <3>4, <3>6, <3>7
  <2> QED
    BY <2>6 DEF Due
<1> QED
  BY <1>2, <1>3 DEF CleanupStep

LEMMA IdlersInit ==
    ASSUME Init
    PROVE  DInv
<1>1. \A g \in Goroutines : pc[g] = "off" /\ cleanups[g] = <<>>
  BY DEF Init
<1>2. \A g \in Goroutines : 1..Len(cleanups[g]) = {}
  <2>1. Len(<<>>) = 0 /\ 1..0 = {}
    OBVIOUS
  <2> QED
    BY <1>1, <2>1
<1> QED
  BY <1>1, <1>2 DEF DInv, Numbered, Referenced, Due, BecomesIdler

LEMMA IdlersNext ==
    ASSUME IInv, WInv, DInv, Next
    PROVE  DInv'
<1>1. Due'
  BY ShapesOfNext, StartsKeepsDue, OthersKeepDue, CleanupKeepsDue DEF DInv
<1> QED
  BY <1>1, NumberedKept, ReferencedKept DEF DInv

\* In every state, references are closed before idlers are told to end, idlers
\* hold mount namespaces of their own, and the end of each one is scheduled in
\* a test node that is still there.
THEOREM IdlersInvariance == Spec => []DInv
<1>1. ASSUME DInv, UNCHANGED vars
      PROVE  DInv'
  <2>1. UNCHANGED <<pc, helper, cleanups, locks, on, ns, made>>
    BY <1>1 DEF vars, threadVars
  <2>2. Numbered' /\ Referenced'
    BY <1>1, <2>1 DEF DInv, Numbered, Referenced
  <2>3. Due'
    BY <1>1, <2>1 DEF DInv, Due, Holds, BecomesIdler, NodeIsUp
  <2> QED
    BY <2>2, <2>3 DEF DInv
<1>2. IInv /\ WInv /\ DInv /\ [Next]_vars => DInv'
  BY <1>1, IdlersNext
<1> QED
  BY <1>2, IdlersInit, Invariance, Chains, PTL DEF Spec

\* Until the reference handed out by mntns.NewTransient is closed, its idler
\* is alive and the only one attached to the mount namespace it refers to, for
\* any number of idlers and whatever has been nested or has failed.
THEOREM IdlersKeepNamespaces == Spec => []IdlerKeepsNamespace
<1>1. ASSUME IInv, DInv
      PROVE  IdlerKeepsNamespace
  <2> SUFFICES ASSUME NEW g \in Goroutines, NEW h \in Goroutines,
                      NEW i \in DOMAIN cleanups[g], cleanups[g][i] = <<"fd", h>>
               PROVE  /\ pc[h] = "idle"
                      /\ on[h] \in alive
                      /\ ns[on[h]]["mnt"] # 0
                      /\ \A k \in Goroutines \ {h} :
                            pc[k] = "idle" => ns[on[k]]["mnt"] # ns[on[h]]["mnt"]
    BY DEF IdlerKeepsNamespace
  <2>1. i \in 1..Len(cleanups[g])
    BY <1>1, CleanupsType DEF IInv
  <2>2. pc[h] = "idle"
    BY <1>1, <2>1 DEF DInv, Referenced
  <2>3. /\ locks[h] > 0
        /\ ns[on[h]]["mnt"] \in 1..made["mnt"]
        /\ \A k \in Goroutines \ {h} :
              pc[k] = "idle" => ns[on[k]]["mnt"] # ns[on[h]]["mnt"]
    BY <1>1, <2>2 DEF DInv, Numbered
  <2>4. on[h] \in alive
    BY <1>1, <2>3 DEF IInv, Threads
  <2>5. ns[on[h]]["mnt"] # 0
    <3>1. made["mnt"] \in Nat
      BY <1>1, Constants DEF IInv, Typed, Namespaces
    <3> QED
      BY <2>3, <3>1
  <2> QED
    BY <2>2, <2>3, <2>4, <2>5
<1> QED
  BY <1>1, Invariance, IdlersInvariance, PTL

\* No idler is forgotten: the test node it was created for, directly or by
\* functions of Execute, still exists and has its end scheduled, also after
\* failures. The thread and the mount namespace are released in the end.
THEOREM NoIdlerIsForgotten == Spec => []IdlersAreDue
<1>1. ASSUME IInv, DInv
      PROVE  IdlersAreDue
  <2> SUFFICES ASSUME NEW h \in Goroutines, pc[h] = "idle"
               PROVE  /\ pc[helper[h].root] # "off"
                      /\ \E i \in DOMAIN cleanups[helper[h].root] :
                            cleanups[helper[h].root][i] = <<"done", h>>
    BY DEF IdlersAreDue
  <2>1. helper[h].root \in Goroutines
    BY <1>1 DEF IInv, Typed, Errand
  <2>2. NodeIsUp(helper[h].root) /\ Holds(helper[h].root, h)
    BY <1>1 DEF DInv, Due
  <2> QED
    BY <1>1, <2>1, <2>2, CleanupsType DEF IInv, NodeIsUp, Holds
<1> QED
  BY <1>1, Invariance, IdlersInvariance, PTL
=============================================================================
