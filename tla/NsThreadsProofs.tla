--------------------------- MODULE NsThreadsProofs ---------------------------
(***************************************************************************)
(* For any number of goroutines, threads, types of namespaces, nested      *)
(* calls and failures: a thread that the runtime may run another goroutine *)
(* on is as the process was started.                                       *)
(***************************************************************************)
EXTENDS NsThreads, SequenceTheorems, TLAPS

(***************************************************************************)
(* A goroutine that has undone every lock but the ones of the calls on its *)
(* stack can still get its thread back to where it was: each type the      *)
(* thread is not pristine in is restored by some call, the bottommost of   *)
(* which restores it to the pristine one. A goroutine with a lock that no  *)
(* call on its stack accounts for never unlocks its thread, so that        *)
(* nothing is to be said of that thread.                                   *)
(***************************************************************************)
Restorable(n, own, st) ==
    /\ \A typ \in NsTypes :
         n[typ] # 0 => \E j \in 1..Len(st) : typ \in DOMAIN st[j].saved
    /\ own => \E j \in 1..Len(st) : st[j].op = "mnt"
    /\ \A i \in 1..Len(st), typ \in NsTypes :
         typ \in DOMAIN st[i].saved /\ st[i].saved[typ] # 0 =>
            \E j \in 1..(i - 1) : typ \in DOMAIN st[j].saved

Clean(t) == ns[t] = Pristine /\ ~ownFs[t]

Typed ==
    /\ alive \subseteq OSThreads
    /\ ns \in [OSThreads -> Namespaces]
    /\ ownFs \in [OSThreads -> BOOLEAN]
    /\ on \in [Goroutines -> OSThreads \union {NoThread}]
    /\ locks \in [Goroutines -> Nat]
    /\ stack \in [Goroutines -> Seq(Frames)]
    /\ pc \in [Goroutines -> PCs]
    /\ helper \in [Goroutines -> Errand]
    /\ made \in Namespaces
    /\ cleanups \in [Goroutines -> Seq({"fd", "done"} \X Goroutines)]
    /\ failed \subseteq Goroutines

\* Threads and what their goroutines still owe them.
Threads ==
    /\ InitialThread \in alive
    /\ \A g \in Goroutines :
         /\ locks[g] = 0 => on[g] = NoThread
         /\ locks[g] > 0 => on[g] \in alive \ {InitialThread}
         /\ Len(stack[g]) <= locks[g]
         /\ locks[g] > 0 /\ locks[g] = Len(stack[g])
              => Restorable(ns[on[g]], ownFs[on[g]], stack[g])
    /\ \A g, h \in Goroutines : g # h /\ on[g] = on[h] => on[g] = NoThread
    /\ \A t \in OSThreads : (\A g \in Goroutines : on[g] # t) => Clean(t)

\* A goroutine that another one waits for.
Awaited(h) ==
    \/ pc[h] = "setup"
    \/ pc[h] # "off" /\ helper[h].role = "fn"

\* The call of goSeparate on top of a stack has nothing to restore.
SeparateTop(st) ==
    /\ st # <<>>
    /\ st[Len(st)].op = "separate"
    /\ DOMAIN st[Len(st)].saved = {}

Control ==
    \A h \in Goroutines :
        /\ pc[h] \in {"off", "setup", "cleanup", "idle", "done"} => stack[h] = <<>>
        /\ pc[h] \in {"off", "cleanup"} => helper[h].role = "node"
        /\ pc[h] \in {"idle", "done"} => helper[h].role # "fn"
        /\ Awaited(h) =>
             /\ helper[h].boss # h
             /\ pc[helper[h].boss] = "blocked"
             /\ \A k \in Goroutines \ {h} :
                  Awaited(k) => helper[k].boss # helper[h].boss
             /\ helper[h].role = "fn" => SeparateTop(stack[helper[h].boss])

IInv == Typed /\ Threads /\ Control

-----------------------------------------------------------------------------
(* Namespaces and stacks.                                                  *)

LEMMA Constants ==
    /\ InitialThread \in OSThreads
    /\ NoThread \notin OSThreads
    /\ "mnt" \in NsTypes
    /\ MaxNs \in Nat
    /\ Pristine \in Namespaces
    /\ Pristine \in Partial
    /\ Namespaces \subseteq Partial
BY ThreadsAssumption, TypesAssumption, BoundsAssumption
   DEF Pristine, Namespaces, Partial

LEMMA SwitchType ==
    ASSUME NEW cur \in Namespaces, NEW to \in Partial
    PROVE  Switch(cur, to) \in Namespaces
BY DEF Switch, Namespaces, Partial

LEMMA CurrentOfType ==
    ASSUME NEW cur \in Namespaces, NEW T \in SUBSET NsTypes
    PROVE  /\ CurrentOf(cur, T) \in Partial
           /\ DOMAIN CurrentOf(cur, T) = T
<1>1. CurrentOf(cur, T) \in [T -> 0..MaxNs]
  BY Constants DEF CurrentOf, Namespaces
<1> QED
  BY <1>1 DEF Partial

LEMMA PartialPart ==
    ASSUME NEW to \in Partial, NEW R \in SUBSET DOMAIN to
    PROVE  [typ \in R |-> to[typ]] \in Partial
BY DEF Partial

LEMMA ListsType ==
    ASSUME NEW T \in SUBSET NsTypes, NEW to \in Lists(T)
    PROVE  to \in Partial /\ DOMAIN to \in SUBSET T
BY DEF Lists, Partial

LEMMA NextNsType ==
    ASSUME made \in Namespaces, NEW typ \in NsTypes, CanMake(typ),
           NEW cur \in Namespaces
    PROVE  /\ [cur EXCEPT ![typ] = NextNs(typ)] \in Namespaces
           /\ [made EXCEPT ![typ] = @ + 1] \in Namespaces
BY Constants DEF Namespaces, CanMake, NextNs

LEMMA DestinationType ==
    ASSUME NEW cur \in Namespaces, NEW caller \in Namespaces, NEW to \in Partial
    PROVE  Destination(cur, caller, to) \in Namespaces
<1> DEFINE wanted == Switch(CurrentOf(caller, NsTypes), to)
<1>1. CurrentOf(caller, NsTypes) \in Namespaces
  BY Constants DEF CurrentOf, Namespaces
<1>2. wanted \in Namespaces
  BY <1>1, SwitchType
<1> QED
  BY <1>2 DEF Destination, Namespaces

-----------------------------------------------------------------------------
(* What calls and returns do to a stack.                                   *)

\* A call that restores the types it switches keeps the thread restorable.
LEMMA PushRestorable ==
    ASSUME NEW n, NEW own, NEW st \in Seq(Frames), Restorable(n, own, st),
           NEW f \in Frames, NEW m, NEW own2,
           \A typ \in NsTypes \ DOMAIN f.saved : m[typ] = n[typ],
           \A typ \in DOMAIN f.saved : f.saved[typ] \in {0, n[typ]},
           own2 => own \/ f.op = "mnt"
    PROVE  Restorable(m, own2, Append(st, f))
<1> DEFINE new == Append(st, f)
<1>1. /\ Len(new) = Len(st) + 1
      /\ \A i \in 1..Len(st) : new[i] = st[i]
      /\ new[Len(st) + 1] = f
      /\ Len(st) \in Nat
  BY AppendProperties, LenProperties
<1> HIDE DEF new
<1>2. ASSUME NEW typ \in NsTypes, m[typ] # 0
      PROVE  \E j \in 1..Len(new) : typ \in DOMAIN new[j].saved
  <2>1. CASE typ \in DOMAIN f.saved
    BY <1>1, <2>1
  <2>2. CASE typ \notin DOMAIN f.saved
    <3>1. PICK j \in 1..Len(st) : typ \in DOMAIN st[j].saved
      BY <1>2, <2>2 DEF Restorable
    <3> QED
      BY <1>1, <3>1
  <2> QED
    BY <2>1, <2>2
<1>3. ASSUME own2
      PROVE  \E j \in 1..Len(new) : new[j].op = "mnt"
  <2>1. CASE f.op = "mnt"
    BY <1>1, <2>1
  <2>2. CASE own
    <3>1. PICK j \in 1..Len(st) : st[j].op = "mnt"
      BY <2>2 DEF Restorable
    <3> QED
      BY <1>1, <3>1
  <2> QED
    BY <1>3, <2>1, <2>2
<1>4. ASSUME NEW i \in 1..Len(new), NEW typ \in NsTypes,
             typ \in DOMAIN new[i].saved, new[i].saved[typ] # 0
      PROVE  \E j \in 1..(i - 1) : typ \in DOMAIN new[j].saved
  <2>1. CASE i \in 1..Len(st)
    <3>1. PICK j \in 1..(i - 1) : typ \in DOMAIN st[j].saved
      BY <1>1, <1>4, <2>1 DEF Restorable
    <3> QED
      BY <1>1, <2>1, <3>1
  <2>2. CASE i = Len(st) + 1
    <3>1. n[typ] # 0
      BY <1>1, <1>4, <2>2
    <3>2. PICK j \in 1..Len(st) : typ \in DOMAIN st[j].saved
      BY <3>1 DEF Restorable
    <3> QED
      BY <1>1, <2>2, <3>2
  <2> QED
    BY <1>1, <2>1, <2>2
<1> QED
  BY <1>2, <1>3, <1>4 DEF Restorable, new

LEMMA Front ==
    ASSUME NEW S, NEW st \in Seq(S), st # <<>>
    PROVE  /\ Len(st) \in Nat \ {0}
           /\ SubSeq(st, 1, Len(st) - 1) \in Seq(S)
           /\ Len(SubSeq(st, 1, Len(st) - 1)) = Len(st) - 1
           /\ \A i \in 1..(Len(st) - 1) : SubSeq(st, 1, Len(st) - 1)[i] = st[i]
<1>1. Len(st) \in Nat \ {0}
  BY EmptySeq, LenProperties
<1>2. \A i \in 1..Len(st) : st[i] \in S
  BY ElementOfSeq
<1>3. \A i \in 1..(Len(st) - 1) : st[i] \in S
  BY <1>1, <1>2
<1>4. /\ SubSeq(st, 1, Len(st) - 1) \in Seq(S)
      /\ Len(SubSeq(st, 1, Len(st) - 1))
            = IF 1 <= Len(st) - 1 THEN Len(st) - 1 - 1 + 1 ELSE 0
      /\ \A i \in 1..(Len(st) - 1 - 1 + 1) :
            SubSeq(st, 1, Len(st) - 1)[i] = st[1 + i - 1]
  BY <1>1, <1>3, SubSeqProperties
<1>5. Len(SubSeq(st, 1, Len(st) - 1)) = Len(st) - 1
  <2> DEFINE n == Len(st)
             k == Len(SubSeq(st, 1, Len(st) - 1))
  <2>1. n \in Nat \ {0} /\ k = IF 1 <= n - 1 THEN n - 1 - 1 + 1 ELSE 0
    BY <1>1, <1>4
  <2> HIDE DEF n, k
  <2>2. k = n - 1
    BY <2>1
  <2> QED
    BY <2>2 DEF n, k
<1>6. ASSUME NEW i \in 1..(Len(st) - 1)
      PROVE  SubSeq(st, 1, Len(st) - 1)[i] = st[i]
  <2>1. i \in 1..(Len(st) - 1 - 1 + 1) /\ 1 + i - 1 = i
    BY <1>1
  <2> QED
    BY <1>4, <2>1
<1> QED
  BY <1>1, <1>4, <1>5, <1>6

LEMMA FrontProperties ==
    ASSUME NEW st \in Seq(Frames), st # <<>>
    PROVE  /\ Len(st) \in Nat \ {0}
           /\ SubSeq(st, 1, Len(st) - 1) \in Seq(Frames)
           /\ Len(SubSeq(st, 1, Len(st) - 1)) = Len(st) - 1
           /\ \A i \in 1..(Len(st) - 1) : SubSeq(st, 1, Len(st) - 1)[i] = st[i]
BY Front

\* So does the return from a call that restores all it has switched.
LEMMA PopRestorable ==
    ASSUME NEW n \in Namespaces, NEW own, NEW st \in Seq(Frames), st # <<>>,
           Restorable(n, own, st), st[Len(st)].op # "mnt"
    PROVE  Restorable(Switch(n, st[Len(st)].saved), own,
                      SubSeq(st, 1, Len(st) - 1))
<1> DEFINE top == st[Len(st)]
           new == SubSeq(st, 1, Len(st) - 1)
           m   == Switch(n, top.saved)
<1>1. /\ Len(st) \in Nat \ {0}
      /\ Len(new) = Len(st) - 1
      /\ \A i \in 1..(Len(st) - 1) : new[i] = st[i]
  BY FrontProperties
<1> HIDE DEF new, m
<1>3. ASSUME NEW typ \in NsTypes, m[typ] # 0
      PROVE  \E j \in 1..Len(new) : typ \in DOMAIN new[j].saved
  <2>1. CASE typ \in DOMAIN top.saved
    <3>1. top.saved[typ] # 0
      BY <1>3, <2>1 DEF Switch, m
    <3>2. PICK j \in 1..(Len(st) - 1) : typ \in DOMAIN st[j].saved
      BY <1>1, <2>1, <3>1 DEF Restorable
    <3> QED
      BY <1>1, <3>2
  <2>2. CASE typ \notin DOMAIN top.saved
    <3>1. n[typ] # 0
      BY <1>3, <2>2 DEF Switch, m
    <3>2. PICK j \in 1..Len(st) : typ \in DOMAIN st[j].saved
      BY <3>1 DEF Restorable
    <3>3. j \in 1..(Len(st) - 1)
      BY <1>1, <2>2, <3>2
    <3> QED
      BY <1>1, <3>2, <3>3
  <2> QED
    BY <2>1, <2>2
<1>4. ASSUME own
      PROVE  \E j \in 1..Len(new) : new[j].op = "mnt"
  <2>1. PICK j \in 1..Len(st) : st[j].op = "mnt"
    BY <1>4 DEF Restorable
  <2>2. j \in 1..(Len(st) - 1)
    BY <1>1, <2>1
  <2> QED
    BY <1>1, <2>1, <2>2
<1>5. ASSUME NEW i \in 1..Len(new), NEW typ \in NsTypes,
             typ \in DOMAIN new[i].saved, new[i].saved[typ] # 0
      PROVE  \E j \in 1..(i - 1) : typ \in DOMAIN new[j].saved
  <2>1. i \in 1..Len(st) /\ new[i] = st[i]
    BY <1>1
  <2>2. PICK j \in 1..(i - 1) : typ \in DOMAIN st[j].saved
    BY <1>5, <2>1 DEF Restorable
  <2> QED
    BY <1>1, <2>2
<1> QED
  BY <1>3, <1>4, <1>5 DEF Restorable, new, m

\* With no call left, there is nothing to be restored.
LEMMA EmptyRestorable ==
    ASSUME NEW n \in Namespaces, NEW own \in BOOLEAN
    PROVE  Restorable(n, own, <<>>) <=> n = Pristine /\ ~own
BY EmptySeq DEF Restorable, Namespaces, Pristine

-----------------------------------------------------------------------------
(* What a step does to the threads.                                        *)

LEMMA SwitchPart ==
    ASSUME NEW cur \in Namespaces, NEW to \in Partial, NEW R \in SUBSET DOMAIN to
    PROVE  Switch(cur, [typ \in R |-> to[typ]]) \in Namespaces
BY PartialPart, SwitchType

LEMMA FramesType ==
    ASSUME NEW g \in Goroutines, Typed, stack[g] # <<>>
    PROVE  /\ Top(g) \in Frames
           /\ Top(g).saved \in Partial
           /\ Top(g).before \in Namespaces
           /\ Below(g) \in Seq(Frames)
           /\ Len(Below(g)) = Len(stack[g]) - 1
           /\ Len(stack[g]) \in Nat \ {0}
<1> DEFINE st == stack[g]
<1>1. st \in Seq(Frames)
  BY DEF Typed
<1> HIDE DEF st
<1>2. /\ Len(st) \in Nat \ {0}
      /\ SubSeq(st, 1, Len(st) - 1) \in Seq(Frames)
      /\ Len(SubSeq(st, 1, Len(st) - 1)) = Len(st) - 1
  BY <1>1, FrontProperties DEF st
<1>3. Top(g) \in Frames
  BY <1>1, <1>2, ElementOfSeq DEF Top, st
<1> QED
  BY <1>2, <1>3 DEF Frames, Below, st

\* The thread that a goroutine is about to lock is either restorable along
\* its stack or already lost.
LEMMA LockableThread ==
    ASSUME Typed, Threads, NEW g \in Goroutines, NEW t \in Lockable(g)
    PROVE  /\ t \in OSThreads \ {InitialThread}
           /\ t # NoThread
           /\ \A h \in Goroutines \ {g} : on[h] # t
           /\ ns[t] \in Namespaces
           /\ ownFs[t] \in BOOLEAN
           /\ locks[g] = Len(stack[g]) => Restorable(ns[t], ownFs[t], stack[g])
<1>1. locks[g] \in Nat /\ stack[g] \in Seq(Frames)
  BY DEF Typed
<1>2. CASE locks[g] > 0
  <2>1. t = on[g] /\ t \in alive \ {InitialThread}
    BY <1>2 DEF Lockable, Threads
  <2>2. t \in OSThreads
    BY <2>1 DEF Typed
  <2>3. t # NoThread
    BY <2>2, Constants
  <2>4. \A h \in Goroutines \ {g} : on[h] # t
    BY <2>1, <2>3 DEF Threads
  <2>5. locks[g] = Len(stack[g]) => Restorable(ns[t], ownFs[t], stack[g])
    BY <1>2, <2>1 DEF Threads
  <2> QED
    BY <2>1, <2>2, <2>3, <2>4, <2>5 DEF Typed
<1>3. CASE ~(locks[g] > 0)
  <2>1. t \in Pool \union (OSThreads \ alive)
    BY <1>3 DEF Lockable
  <2>2. t \in OSThreads \ {InitialThread}
    BY <2>1, Constants DEF Pool, Typed, Threads
  <2>3. t # NoThread
    BY <2>2, Constants
  <2>4. \A h \in Goroutines : on[h] # t
    <3>1. CASE t \in Pool
      BY <3>1 DEF Pool
    <3>2. CASE t \notin alive
      BY <1>1, <2>3, <3>2 DEF Threads, Typed
    <3> QED
      BY <2>1, <3>1, <3>2
  <2>5. Clean(t)
    BY <2>2, <2>4 DEF Threads
  <2>6. ASSUME locks[g] = Len(stack[g])
        PROVE  Restorable(ns[t], ownFs[t], stack[g])
    <3>1. stack[g] = <<>>
      BY <1>1, <1>3, <2>6, EmptySeq
    <3>2. ns[t] \in Namespaces /\ ownFs[t] \in BOOLEAN
      BY <2>2 DEF Typed
    <3>3. ns[t] = Pristine /\ ~ownFs[t]
      BY <2>5 DEF Clean
    <3> QED
      BY <3>1, <3>2, <3>3, EmptyRestorable
  <2> QED
    BY <2>2, <2>3, <2>4, <2>6 DEF Typed
<1> QED
  BY <1>2, <1>3

\* Locking a thread, with or without a call that is to restore it.
LEMMA LockStep ==
    ASSUME Typed, Threads, NEW g \in Goroutines, NEW t \in Lockable(g),
           NEW n \in Namespaces, NEW own \in BOOLEAN, Lock(g, t, n, own),
           \/ stack' = stack
           \/ \E f \in Frames :
                 /\ stack' = [stack EXCEPT ![g] = Append(@, f)]
                 /\ \A typ \in NsTypes \ DOMAIN f.saved : n[typ] = ns[t][typ]
                 /\ \A typ \in DOMAIN f.saved : f.saved[typ] \in {0, ns[t][typ]}
                 /\ own => ownFs[t] \/ f.op = "mnt"
    PROVE  /\ Threads'
           /\ alive' \subseteq OSThreads
           /\ ns' \in [OSThreads -> Namespaces]
           /\ ownFs' \in [OSThreads -> BOOLEAN]
           /\ on' \in [Goroutines -> OSThreads \union {NoThread}]
           /\ locks' \in [Goroutines -> Nat]
           /\ stack' \in [Goroutines -> Seq(Frames)]
           /\ \A h \in Goroutines \ {g} : stack'[h] = stack[h]
<1>1. /\ t \in OSThreads \ {InitialThread}
      /\ t # NoThread
      /\ \A h \in Goroutines \ {g} : on[h] # t
      /\ locks[g] = Len(stack[g]) => Restorable(ns[t], ownFs[t], stack[g])
  BY LockableThread
<1>2. /\ alive' = alive \union {t}
      /\ on' = [on EXCEPT ![g] = t]
      /\ locks' = [locks EXCEPT ![g] = @ + 1]
      /\ ns' = [ns EXCEPT ![t] = n]
      /\ ownFs' = [ownFs EXCEPT ![t] = own]
  BY DEF Lock
<1>3. /\ alive' \subseteq OSThreads
      /\ ns' \in [OSThreads -> Namespaces]
      /\ ownFs' \in [OSThreads -> BOOLEAN]
      /\ on' \in [Goroutines -> OSThreads \union {NoThread}]
      /\ locks' \in [Goroutines -> Nat]
  BY <1>1, <1>2 DEF Typed
<1>4. /\ stack' \in [Goroutines -> Seq(Frames)]
      /\ \A h \in Goroutines \ {g} : stack'[h] = stack[h]
      /\ Len(stack'[g]) <= locks'[g]
      /\ locks'[g] = Len(stack'[g]) => Restorable(n, own, stack'[g])
  <2>1. /\ stack \in [Goroutines -> Seq(Frames)]
        /\ stack[g] \in Seq(Frames)
        /\ Len(stack[g]) \in Nat
        /\ locks[g] \in Nat
        /\ Len(stack[g]) <= locks[g]
        /\ locks'[g] = locks[g] + 1
    BY <1>2, LenProperties DEF Typed, Threads
  <2>2. CASE stack' = stack
    BY <2>1, <2>2
  <2>3. CASE \E f \in Frames :
               /\ stack' = [stack EXCEPT ![g] = Append(@, f)]
               /\ \A typ \in NsTypes \ DOMAIN f.saved : n[typ] = ns[t][typ]
               /\ \A typ \in DOMAIN f.saved : f.saved[typ] \in {0, ns[t][typ]}
               /\ own => ownFs[t] \/ f.op = "mnt"
    <3>1. PICK f \in Frames :
               /\ stack' = [stack EXCEPT ![g] = Append(@, f)]
               /\ \A typ \in NsTypes \ DOMAIN f.saved : n[typ] = ns[t][typ]
               /\ \A typ \in DOMAIN f.saved : f.saved[typ] \in {0, ns[t][typ]}
               /\ own => ownFs[t] \/ f.op = "mnt"
      BY <2>3
    <3>2. /\ Append(stack[g], f) \in Seq(Frames)
          /\ Len(Append(stack[g], f)) = Len(stack[g]) + 1
      BY <2>1, AppendProperties
    <3>3. stack'[g] = Append(stack[g], f)
      BY <2>1, <3>1
    <3>4. stack' \in [Goroutines -> Seq(Frames)]
      BY <2>1, <3>1, <3>2
    <3>5. ASSUME locks[g] = Len(stack[g])
          PROVE  Restorable(n, own, Append(stack[g], f))
      <4>1. Restorable(ns[t], ownFs[t], stack[g])
        BY <1>1, <3>5
      <4> QED
        BY <2>1, <3>1, <4>1, PushRestorable
    <3> QED
      BY <2>1, <3>1, <3>2, <3>3, <3>4, <3>5
  <2> QED
    BY <2>2, <2>3
<1>5. Threads'
  <2>1. InitialThread \in alive'
    BY <1>2 DEF Threads
  <2>2. ASSUME NEW h \in Goroutines
        PROVE  /\ locks'[h] = 0 => on'[h] = NoThread
               /\ locks'[h] > 0 => on'[h] \in alive' \ {InitialThread}
               /\ Len(stack'[h]) <= locks'[h]
               /\ locks'[h] > 0 /\ locks'[h] = Len(stack'[h])
                    => Restorable(ns'[on'[h]], ownFs'[on'[h]], stack'[h])
    <3>1. CASE h = g
      <4>1. on'[g] = t /\ locks'[g] \in Nat \ {0} /\ t \in alive'
        BY <1>2 DEF Typed
      <4>2. ns'[t] = n /\ ownFs'[t] = own
        BY <1>1, <1>2 DEF Typed
      <4> QED
        BY <1>1, <1>4, <3>1, <4>1, <4>2
    <3>2. CASE h # g
      <4>1. on'[h] = on[h] /\ locks'[h] = locks[h] /\ stack'[h] = stack[h]
        BY <1>2, <1>4, <3>2 DEF Typed
      <4>2. on[h] # t
        BY <1>1, <3>2
      <4>3. ns'[on[h]] = ns[on[h]] /\ ownFs'[on[h]] = ownFs[on[h]]
        BY <1>2, <4>2 DEF Typed
      <4> QED
        BY <1>2, <4>1, <4>3 DEF Threads
    <3> QED
      BY <3>1, <3>2
  <2>3. \A h, k \in Goroutines : h # k /\ on'[h] = on'[k] => on'[h] = NoThread
    BY <1>1, <1>2 DEF Threads, Typed
  <2>4. \A u \in OSThreads : (\A h \in Goroutines : on'[h] # u) => Clean(u)'
    <3> SUFFICES ASSUME NEW u \in OSThreads, \A h \in Goroutines : on'[h] # u
                 PROVE  Clean(u)'
      OBVIOUS
    <3>1. u # t
      BY <1>2 DEF Typed
    <3>2. ns'[u] = ns[u] /\ ownFs'[u] = ownFs[u]
      BY <1>2, <3>1 DEF Typed
    <3>3. CASE \A h \in Goroutines : on[h] # u
      BY <3>2, <3>3 DEF Threads, Clean
    <3>4. CASE on[g] = u
      <4>1. locks[g] > 0
        <5>1. on[g] # NoThread
          BY <3>4, Constants
        <5> QED
          BY <5>1 DEF Threads, Typed
      <4> QED
        BY <3>1, <3>4, <4>1 DEF Lockable
    <3> QED
      BY <1>2, <3>3, <3>4 DEF Typed
  <2> QED
    BY <2>1, <2>2, <2>3, <2>4 DEF Threads
<1> QED
  BY <1>3, <1>4, <1>5

\* Returning from a call without unlocking: the thread is lost.
LEMMA LoseStep ==
    ASSUME Typed, Threads, NEW g \in Goroutines, stack[g] # <<>>,
           NEW n \in Namespaces, ns' = [ns EXCEPT ![on[g]] = n],
           UNCHANGED <<alive, ownFs, on, locks>>, Pop(g)
    PROVE  /\ Threads'
           /\ ns' \in [OSThreads -> Namespaces]
           /\ stack' \in [Goroutines -> Seq(Frames)]
           /\ \A h \in Goroutines \ {g} : stack'[h] = stack[h]
<1>1. /\ Below(g) \in Seq(Frames)
      /\ Len(Below(g)) = Len(stack[g]) - 1
      /\ Len(stack[g]) \in Nat \ {0}
  BY FramesType
<1>2. /\ ns' \in [OSThreads -> Namespaces]
      /\ stack' \in [Goroutines -> Seq(Frames)]
      /\ stack'[g] = Below(g)
      /\ \A h \in Goroutines \ {g} : stack'[h] = stack[h]
  BY <1>1 DEF Typed, Pop
<1>3. /\ Len(stack[g]) <= locks[g]
      /\ locks[g] \in Nat
      /\ on[g] \in alive \ {InitialThread}
      /\ on[g] \in OSThreads
      /\ on[g] # NoThread
  <2>1. Len(stack[g]) <= locks[g] /\ locks[g] \in Nat
    BY DEF Threads, Typed
  <2>2. locks[g] > 0
    BY <1>1, <2>1
  <2>3. on[g] \in alive \ {InitialThread}
    BY <2>2 DEF Threads
  <2> QED
    BY <2>1, <2>3, Constants DEF Typed
<1>4. ASSUME NEW h \in Goroutines
      PROVE  /\ locks'[h] = 0 => on'[h] = NoThread
             /\ locks'[h] > 0 => on'[h] \in alive' \ {InitialThread}
             /\ Len(stack'[h]) <= locks'[h]
             /\ locks'[h] > 0 /\ locks'[h] = Len(stack'[h])
                  => Restorable(ns'[on'[h]], ownFs'[on'[h]], stack'[h])
  <2>1. CASE h = g
    BY <1>1, <1>2, <1>3, <2>1
  <2>2. CASE h # g
    <3>1. on[h] # on[g]
      BY <1>3, <2>2 DEF Threads
    <3>2. ns'[on[h]] = ns[on[h]]
      BY <3>1 DEF Typed
    <3> QED
      BY <1>2, <2>2, <3>2 DEF Threads
  <2> QED
    BY <2>1, <2>2
<1>5. \A t \in OSThreads : (\A h \in Goroutines : on'[h] # t) => Clean(t)'
  BY DEF Threads, Clean, Typed
<1> QED
  BY <1>2, <1>4, <1>5 DEF Threads

\* Returning from a call that has restored what it had switched, and undoing
\* its lock.
LEMMA UnlockStep ==
    ASSUME Typed, Threads, NEW g \in Goroutines, stack[g] # <<>>,
           Top(g).op # "mnt",
           ns' = [ns EXCEPT ![on[g]] = Switch(@, Top(g).saved)],
           UNCHANGED <<alive, ownFs>>, Unlock(g), Pop(g)
    PROVE  /\ Threads'
           /\ ns' \in [OSThreads -> Namespaces]
           /\ on' \in [Goroutines -> OSThreads \union {NoThread}]
           /\ locks' \in [Goroutines -> Nat]
           /\ stack' \in [Goroutines -> Seq(Frames)]
           /\ \A h \in Goroutines \ {g} : stack'[h] = stack[h]
<1>1. /\ Top(g).saved \in Partial
      /\ Below(g) \in Seq(Frames)
      /\ Len(Below(g)) = Len(stack[g]) - 1
      /\ Len(stack[g]) \in Nat \ {0}
  BY FramesType
<1>2. /\ Len(stack[g]) <= locks[g]
      /\ locks[g] \in Nat
      /\ on[g] \in alive \ {InitialThread}
      /\ on[g] \in OSThreads
      /\ on[g] # NoThread
  <2>1. Len(stack[g]) <= locks[g] /\ locks[g] \in Nat
    BY DEF Threads, Typed
  <2>2. locks[g] > 0
    BY <1>1, <2>1
  <2>3. on[g] \in alive \ {InitialThread}
    BY <2>2 DEF Threads
  <2> QED
    BY <2>1, <2>3, Constants DEF Typed
<1> DEFINE n == Switch(ns[on[g]], Top(g).saved)
<1>3. n \in Namespaces
  BY <1>1, <1>2, SwitchType DEF Typed
<1>4. ns' = [ns EXCEPT ![on[g]] = n]
  OBVIOUS
<1> HIDE DEF n
<1>5. /\ ns' \in [OSThreads -> Namespaces]
      /\ on' \in [Goroutines -> OSThreads \union {NoThread}]
      /\ locks' \in [Goroutines -> Nat]
      /\ stack' \in [Goroutines -> Seq(Frames)]
      /\ stack'[g] = Below(g)
      /\ locks'[g] = locks[g] - 1
      /\ on'[g] = IF locks[g] = 1 THEN NoThread ELSE on[g]
      /\ \A h \in Goroutines \ {g} :
            stack'[h] = stack[h] /\ on'[h] = on[h] /\ locks'[h] = locks[h]
  BY <1>1, <1>2, <1>3, <1>4 DEF Typed, Unlock, Pop
<1>6. ns'[on[g]] = n
  BY <1>2, <1>4 DEF Typed
<1>7. locks[g] = Len(stack[g]) => Restorable(n, ownFs[on[g]], Below(g))
  <2> SUFFICES ASSUME locks[g] = Len(stack[g])
               PROVE  Restorable(n, ownFs[on[g]], Below(g))
    OBVIOUS
  <2>1. Restorable(ns[on[g]], ownFs[on[g]], stack[g])
    BY <1>1 DEF Threads
  <2>2. ns[on[g]] \in Namespaces /\ stack[g] \in Seq(Frames)
    BY <1>2 DEF Typed
  <2> QED
    BY <2>1, <2>2, PopRestorable DEF n, Top, Below
<1>8. ASSUME NEW h \in Goroutines
      PROVE  /\ locks'[h] = 0 => on'[h] = NoThread
             /\ locks'[h] > 0 => on'[h] \in alive' \ {InitialThread}
             /\ Len(stack'[h]) <= locks'[h]
             /\ locks'[h] > 0 /\ locks'[h] = Len(stack'[h])
                  => Restorable(ns'[on'[h]], ownFs'[on'[h]], stack'[h])
  <2>1. CASE h = g
    BY <1>1, <1>2, <1>5, <1>6, <1>7, <2>1
  <2>2. CASE h # g
    <3>1. on[h] # on[g]
      BY <1>2, <2>2 DEF Threads
    <3>2. ns'[on[h]] = ns[on[h]]
      BY <1>4, <3>1 DEF Typed
    <3> QED
      BY <1>5, <2>2, <3>2 DEF Threads
  <2> QED
    BY <2>1, <2>2
<1>9. ASSUME NEW t \in OSThreads, \A h \in Goroutines : on'[h] # t
      PROVE  Clean(t)'
  <2>1. CASE t = on[g]
    <3>1. locks[g] = 1
      BY <1>5, <1>9, <2>1
    <3>2. Len(stack[g]) = 1
      <4> DEFINE k == Len(stack[g])
                 m == locks[g]
      <4>1. k \in Nat \ {0} /\ k <= m /\ m = 1
        BY <1>1, <1>2, <3>1
      <4> HIDE DEF k, m
      <4>2. k = 1
        BY <4>1
      <4> QED
        BY <4>2 DEF k
    <3>3. Len(Below(g)) = 0
      BY <1>1, <3>2
    <3>4. Below(g) = <<>>
      BY <1>1, <3>3, EmptySeq
    <3>5. Restorable(n, ownFs[on[g]], <<>>)
      BY <1>7, <3>1, <3>2, <3>4
    <3>6. ownFs[on[g]] \in BOOLEAN
      BY <1>2 DEF Typed
    <3> QED
      BY <1>3, <1>6, <2>1, <3>5, <3>6, EmptyRestorable DEF Clean
  <2>2. CASE t # on[g]
    <3>1. \A h \in Goroutines : on[h] # t
      BY <1>5, <1>9, <2>2
    <3>2. Clean(t)
      BY <3>1 DEF Threads
    <3> QED
      BY <1>4, <2>2, <3>2 DEF Clean, Typed
  <2> QED
    BY <2>1, <2>2
<1>10. \A h, k \in Goroutines : h # k /\ on'[h] = on'[k] => on'[h] = NoThread
  BY <1>5 DEF Threads
<1> QED
  BY <1>5, <1>8, <1>9, <1>10 DEF Threads

\* The end of a goroutine takes its thread along.
LEMMA EndStep ==
    ASSUME Typed, Threads, NEW g \in Goroutines, stack[g] = <<>>,
           End(g), stack' = stack
    PROVE  /\ Threads'
           /\ alive' \subseteq OSThreads
           /\ ns' \in [OSThreads -> Namespaces]
           /\ ownFs' \in [OSThreads -> BOOLEAN]
           /\ on' \in [Goroutines -> OSThreads \union {NoThread}]
           /\ locks' \in [Goroutines -> Nat]
<1>1. /\ alive' = alive \ {on[g]}
      /\ ns' = [ns EXCEPT ![on[g]] = Pristine]
      /\ ownFs' = [ownFs EXCEPT ![on[g]] = FALSE]
      /\ on' = [on EXCEPT ![g] = NoThread]
      /\ locks' = [locks EXCEPT ![g] = 0]
  BY DEF End, Discard
<1>2. /\ alive' \subseteq OSThreads
      /\ ns' \in [OSThreads -> Namespaces]
      /\ ownFs' \in [OSThreads -> BOOLEAN]
      /\ on' \in [Goroutines -> OSThreads \union {NoThread}]
      /\ locks' \in [Goroutines -> Nat]
  BY <1>1, Constants DEF Typed
<1>3. on[g] # InitialThread
  BY Constants DEF Threads, Typed
<1>4. ASSUME NEW h \in Goroutines
      PROVE  /\ locks'[h] = 0 => on'[h] = NoThread
             /\ locks'[h] > 0 => on'[h] \in alive' \ {InitialThread}
             /\ Len(stack'[h]) <= locks'[h]
             /\ locks'[h] > 0 /\ locks'[h] = Len(stack'[h])
                  => Restorable(ns'[on'[h]], ownFs'[on'[h]], stack'[h])
  <2>1. CASE h = g
    <3>1. Len(stack[g]) = 0
      BY EmptySeq
    <3> QED
      BY <1>1, <2>1, <3>1 DEF Typed
  <2>2. CASE h # g
    <3>1. on'[h] = on[h] /\ locks'[h] = locks[h]
      BY <1>1, <2>2 DEF Typed
    <3>2. CASE locks[h] = 0
      BY <3>1, <3>2 DEF Threads
    <3>3. CASE locks[h] # 0
      <4>1. locks[h] > 0
        BY <3>3 DEF Typed
      <4>2. on[h] # NoThread
        BY <4>1, Constants DEF Threads, Typed
      <4>3. on[h] # on[g]
        BY <2>2, <4>2 DEF Threads
      <4>4. ns'[on[h]] = ns[on[h]] /\ ownFs'[on[h]] = ownFs[on[h]]
        BY <1>1, <4>3 DEF Typed
      <4>5. /\ on[h] \in alive \ {InitialThread}
            /\ Len(stack[h]) <= locks[h]
            /\ locks[h] = Len(stack[h])
                 => Restorable(ns[on[h]], ownFs[on[h]], stack[h])
        BY <4>1 DEF Threads
      <4>6. stack'[h] = stack[h]
        OBVIOUS
      <4>7. on'[h] \in alive' \ {InitialThread}
        BY <1>1, <3>1, <4>3, <4>5
      <4> QED
        BY <3>1, <3>3, <4>4, <4>5, <4>6, <4>7
    <3> QED
      BY <3>2, <3>3
  <2> QED
    BY <2>1, <2>2
<1>5. ASSUME NEW t \in OSThreads, \A h \in Goroutines : on'[h] # t
      PROVE  Clean(t)'
  <2>1. CASE t = on[g]
    BY <1>1, <2>1 DEF Clean, Typed
  <2>2. CASE t # on[g]
    BY <1>1, <1>5, <2>2 DEF Clean, Typed, Threads
  <2> QED
    BY <2>1, <2>2
<1>6. \A h, k \in Goroutines : h # k /\ on'[h] = on'[k] => on'[h] = NoThread
  BY <1>1 DEF Threads, Typed
<1>7. InitialThread \in alive'
  BY <1>1, <1>3 DEF Threads
<1> QED
  BY <1>2, <1>4, <1>5, <1>6, <1>7 DEF Threads

\* The end of a separate goroutine h, with which its caller b unlocks.
LEMMA SeparateReturnStep ==
    ASSUME Typed, Threads, NEW h \in Goroutines, NEW b \in Goroutines, h # b,
           stack[h] = <<>>, stack[b] # <<>>,
           Top(b).op # "mnt", DOMAIN Top(b).saved = {},
           Discard(on[h]),
           on' = [on EXCEPT ![h] = NoThread,
                            ![b] = IF locks[b] = 1 THEN NoThread ELSE @],
           locks' = [locks EXCEPT ![h] = 0, ![b] = @ - 1],
           Pop(b)
    PROVE  /\ Threads'
           /\ alive' \subseteq OSThreads
           /\ ns' \in [OSThreads -> Namespaces]
           /\ ownFs' \in [OSThreads -> BOOLEAN]
           /\ on' \in [Goroutines -> OSThreads \union {NoThread}]
           /\ locks' \in [Goroutines -> Nat]
           /\ stack' \in [Goroutines -> Seq(Frames)]
           /\ \A k \in Goroutines \ {b} : stack'[k] = stack[k]
<1>1. /\ Top(b).saved \in Partial
      /\ Below(b) \in Seq(Frames)
      /\ Len(Below(b)) = Len(stack[b]) - 1
      /\ Len(stack[b]) \in Nat \ {0}
  BY FramesType
<1>2. /\ Len(stack[b]) <= locks[b]
      /\ locks[b] \in Nat
      /\ locks[b] > 0
      /\ on[b] \in alive \ {InitialThread}
      /\ on[b] \in OSThreads
      /\ on[b] # NoThread
  <2>1. Len(stack[b]) <= locks[b] /\ locks[b] \in Nat
    BY DEF Threads, Typed
  <2>2. locks[b] > 0
    BY <1>1, <2>1
  <2>3. on[b] \in alive \ {InitialThread}
    BY <2>2 DEF Threads
  <2> QED
    BY <2>1, <2>2, <2>3, Constants DEF Typed
<1>3. /\ on[h] # on[b]
      /\ on[h] # InitialThread
  BY <1>2, Constants DEF Threads, Typed
<1>4. /\ alive' = alive \ {on[h]}
      /\ ns' = [ns EXCEPT ![on[h]] = Pristine]
      /\ ownFs' = [ownFs EXCEPT ![on[h]] = FALSE]
  BY DEF Discard
<1>5. /\ alive' \subseteq OSThreads
      /\ ns' \in [OSThreads -> Namespaces]
      /\ ownFs' \in [OSThreads -> BOOLEAN]
      /\ InitialThread \in alive'
      /\ \A t \in OSThreads \ {on[h]} : ns'[t] = ns[t] /\ ownFs'[t] = ownFs[t]
  BY <1>3, <1>4, Constants DEF Typed, Threads
<1>6. /\ on' \in [Goroutines -> OSThreads \union {NoThread}]
      /\ locks' \in [Goroutines -> Nat]
      /\ locks'[h] = 0 /\ on'[h] = NoThread
      /\ locks'[b] = locks[b] - 1
      /\ on'[b] = IF locks[b] = 1 THEN NoThread ELSE on[b]
      /\ \A k \in Goroutines \ {b, h} : on'[k] = on[k] /\ locks'[k] = locks[k]
  <2>1. /\ on' \in [Goroutines -> OSThreads \union {NoThread}]
        /\ on'[h] = NoThread
        /\ on'[b] = IF locks[b] = 1 THEN NoThread ELSE on[b]
        /\ \A k \in Goroutines \ {b, h} : on'[k] = on[k]
    BY DEF Typed
  <2>2. locks \in [Goroutines -> Nat] /\ locks[b] - 1 \in Nat
    BY <1>2 DEF Typed
  <2>3. locks' = [k \in Goroutines |-> IF k = h THEN 0
                                       ELSE IF k = b THEN locks[b] - 1
                                       ELSE locks[k]]
    BY <2>2
  <2> QED
    BY <2>1, <2>2, <2>3
<1>7. /\ stack' \in [Goroutines -> Seq(Frames)]
      /\ stack'[b] = Below(b)
      /\ \A k \in Goroutines \ {b} : stack'[k] = stack[k]
  BY <1>1 DEF Typed, Pop
<1>8. locks[b] = Len(stack[b]) => Restorable(ns[on[b]], ownFs[on[b]], Below(b))
  <2> SUFFICES ASSUME locks[b] = Len(stack[b])
               PROVE  Restorable(ns[on[b]], ownFs[on[b]], Below(b))
    OBVIOUS
  <2>1. Restorable(ns[on[b]], ownFs[on[b]], stack[b])
    BY <1>2 DEF Threads
  <2>2. ns[on[b]] \in Namespaces /\ stack[b] \in Seq(Frames)
    BY <1>2 DEF Typed
  <2>3. Switch(ns[on[b]], Top(b).saved) = ns[on[b]]
    BY <2>2 DEF Switch, Namespaces
  <2> QED
    BY <2>1, <2>2, <2>3, PopRestorable DEF Top, Below
<1>9. ASSUME NEW k \in Goroutines
      PROVE  /\ locks'[k] = 0 => on'[k] = NoThread
             /\ locks'[k] > 0 => on'[k] \in alive' \ {InitialThread}
             /\ Len(stack'[k]) <= locks'[k]
             /\ locks'[k] > 0 /\ locks'[k] = Len(stack'[k])
                  => Restorable(ns'[on'[k]], ownFs'[on'[k]], stack'[k])
  <2>1. CASE k = b
    <3>1. ns'[on[b]] = ns[on[b]] /\ ownFs'[on[b]] = ownFs[on[b]]
      BY <1>2, <1>3, <1>5
    <3>2. on[b] \in alive' \ {InitialThread}
      BY <1>2, <1>3, <1>4
    <3> QED
      BY <1>1, <1>2, <1>6, <1>7, <1>8, <2>1, <3>1, <3>2
  <2>2. CASE k = h
    <3>1. Len(stack'[h]) = 0
      BY <1>7, EmptySeq
    <3> QED
      BY <1>6, <2>2, <3>1
  <2>3. CASE k \notin {b, h}
    <3>1. on'[k] = on[k] /\ locks'[k] = locks[k] /\ stack'[k] = stack[k]
      BY <1>6, <1>7, <2>3
    <3>2. CASE locks[k] = 0
      BY <3>1, <3>2 DEF Threads
    <3>3. CASE locks[k] # 0
      <4>1. locks[k] > 0
        BY <3>3 DEF Typed
      <4>2. on[k] \in OSThreads /\ on[k] # NoThread
        BY <4>1, Constants DEF Threads, Typed
      <4>3. on[k] # on[h]
        BY <2>3, <4>2 DEF Threads
      <4>4. ns'[on[k]] = ns[on[k]] /\ ownFs'[on[k]] = ownFs[on[k]]
        BY <1>5, <4>2, <4>3
      <4>5. /\ on[k] \in alive \ {InitialThread}
            /\ Len(stack[k]) <= locks[k]
            /\ locks[k] = Len(stack[k])
                 => Restorable(ns[on[k]], ownFs[on[k]], stack[k])
        BY <4>1 DEF Threads
      <4>6. on'[k] \in alive' \ {InitialThread}
        BY <1>4, <3>1, <4>3, <4>5
      <4> QED
        BY <3>1, <3>3, <4>4, <4>5, <4>6
    <3> QED
      BY <3>2, <3>3
  <2> QED
    BY <2>1, <2>2, <2>3
<1>10. ASSUME NEW t \in OSThreads, \A k \in Goroutines : on'[k] # t
       PROVE  Clean(t)'
  <2>1. CASE t = on[h]
    BY <1>4, <2>1 DEF Clean, Typed
  <2>2. CASE t = on[b]
    <3>1. locks[b] = 1
      BY <1>6, <1>10, <2>2
    <3>2. Len(stack[b]) = 1
      <4> DEFINE k == Len(stack[b])
                 m == locks[b]
      <4>1. k \in Nat \ {0} /\ k <= m /\ m = 1
        BY <1>1, <1>2, <3>1
      <4> HIDE DEF k, m
      <4>2. k = 1
        BY <4>1
      <4> QED
        BY <4>2 DEF k
    <3>3. Len(Below(b)) = 0
      BY <1>1, <3>2
    <3>4. Below(b) = <<>>
      BY <1>1, <3>3, EmptySeq
    <3>5. Restorable(ns[on[b]], ownFs[on[b]], <<>>)
      BY <1>8, <3>1, <3>2, <3>4
    <3>6. ns[on[b]] \in Namespaces /\ ownFs[on[b]] \in BOOLEAN
      BY <1>2 DEF Typed
    <3>7. ns[t] = Pristine /\ ~ownFs[t]
      BY <2>2, <3>5, <3>6, EmptyRestorable
    <3> QED
      BY <1>3, <1>5, <2>2, <3>7 DEF Clean
  <2>3. CASE t \notin {on[b], on[h]}
    <3>1. \A k \in Goroutines : on[k] # t
      BY <1>6, <1>10, <2>3
    <3>2. Clean(t)
      BY <3>1 DEF Threads
    <3> QED
      BY <1>5, <2>3, <3>2 DEF Clean
  <2> QED
    BY <2>1, <2>2, <2>3
<1>11. \A k, l \in Goroutines : k # l /\ on'[k] = on'[l] => on'[k] = NoThread
  BY <1>6 DEF Threads
<1> QED
  BY <1>5, <1>6, <1>7, <1>9, <1>10, <1>11 DEF Threads

-----------------------------------------------------------------------------
(* What a step does to the control of goroutines.                          *)

Keeps(g) == \A h \in Goroutines \ {g} : stack'[h] = stack[h]

\* A running goroutine goes on, or panics, or is recovered.
LEMMA RunningStep ==
    ASSUME Typed, Control, NEW g \in Goroutines, pc[g] \in {"run", "panic"},
           Keeps(g), helper' = helper,
           NEW p \in {"run", "panic"}, pc' = [pc EXCEPT ![g] = p]
    PROVE  Control'
<1>1. \A h \in Goroutines : Awaited(h)' <=> Awaited(h)
  BY DEF Awaited, Typed
<1>2. \A h \in Goroutines : Awaited(h) => helper[h].boss \in Goroutines \ {g}
  BY DEF Control, Typed, Errand
<1>3. \A h \in Goroutines \ {g} : stack'[h] = stack[h] /\ pc'[h] = pc[h]
  BY DEF Keeps, Typed
<1>4. pc'[g] = p
  BY DEF Typed
<1> QED
  BY <1>1, <1>2, <1>3, <1>4 DEF Control

\* A goroutine starts another one and waits for it.
LEMMA SpawnStep ==
    ASSUME Typed, Control, NEW g \in Goroutines, NEW h \in Goroutines,
           NEW role \in Roles, NEW want, pc[g] = "run", Keeps(g),
           Spawn(g, h, role, want),
           role = "fn" => SeparateTop(stack'[g])
    PROVE  Control'
<1>1. /\ h # g
      /\ pc[h] = "off"
      /\ pc' = [pc EXCEPT ![g] = "blocked", ![h] = "setup"]
      /\ helper' = [helper EXCEPT ![h] =
                      [role |-> role, boss |-> g, root |-> helper[g].root,
                       want |-> want]]
  BY DEF Spawn
<1>2. /\ pc'[g] = "blocked" /\ pc'[h] = "setup"
      /\ helper'[h].role = role /\ helper'[h].boss = g
      /\ \A k \in Goroutines \ {g, h} : pc'[k] = pc[k]
      /\ \A k \in Goroutines \ {h} : helper'[k] = helper[k]
  BY <1>1 DEF Typed
<1>3. /\ \A k \in Goroutines \ {h} : Awaited(k)' <=> Awaited(k)
      /\ Awaited(h)' /\ ~Awaited(h)
  BY <1>1, <1>2 DEF Awaited, Control
<1>4. \A k \in Goroutines : Awaited(k) => helper[k].boss \in Goroutines \ {g, h}
  BY <1>1 DEF Control, Typed, Errand
<1>5. \A k \in Goroutines \ {g} : stack'[k] = stack[k]
  BY DEF Keeps
<1>6. \A k \in Goroutines : Awaited(k) =>
           stack'[helper[k].boss] = stack[helper[k].boss]
  BY <1>4, <1>5
<1>7. ASSUME NEW k \in Goroutines
      PROVE  /\ pc'[k] \in {"off", "setup", "cleanup", "idle", "done"} => stack'[k] = <<>>
             /\ pc'[k] \in {"off", "cleanup"} => helper'[k].role = "node"
             /\ pc'[k] \in {"idle", "done"} => helper'[k].role # "fn"
  <2>1. CASE k = g
    BY <1>2, <2>1
  <2>2. CASE k = h
    <3>1. stack'[k] = stack[k] /\ stack[k] = <<>> /\ pc'[k] = "setup"
      BY <1>1, <1>2, <1>5, <2>2 DEF Control
    <3> QED
      BY <3>1
  <2>3. CASE k \notin {g, h}
    <3>1. pc'[k] = pc[k] /\ helper'[k] = helper[k] /\ stack'[k] = stack[k]
      BY <1>2, <1>5, <2>3
    <3> QED
      BY <3>1 DEF Control
  <2> QED
    BY <2>1, <2>2, <2>3
<1>8. ASSUME NEW k \in Goroutines, Awaited(k)'
      PROVE  /\ helper'[k].boss # k
             /\ pc'[helper'[k].boss] = "blocked"
             /\ \A l \in Goroutines \ {k} :
                  Awaited(l)' => helper'[l].boss # helper'[k].boss
             /\ helper'[k].role = "fn" => SeparateTop(stack'[helper'[k].boss])
  <2>1. CASE k = h
    <3>1. \A l \in Goroutines \ {h} : Awaited(l)' => helper'[l].boss # g
      BY <1>2, <1>3, <1>4
    <3> QED
      BY <1>1, <1>2, <2>1, <3>1
  <2>2. CASE k # h
    <3>1. Awaited(k) /\ helper'[k] = helper[k]
      BY <1>2, <1>3, <1>8, <2>2
    <3>2. /\ helper[k].boss # k
          /\ pc'[helper[k].boss] = "blocked"
          /\ helper[k].role = "fn" => SeparateTop(stack'[helper[k].boss])
      BY <1>2, <1>4, <1>5, <1>6, <3>1 DEF Control
    <3>3. ASSUME NEW l \in Goroutines \ {k}, Awaited(l)'
          PROVE  helper'[l].boss # helper[k].boss
      <4>1. CASE l = h
        BY <1>2, <1>4, <3>1, <4>1
      <4>2. CASE l # h
        <5>1. Awaited(l) /\ helper'[l] = helper[l]
          BY <1>2, <1>3, <3>3, <4>2
        <5> QED
          BY <3>1, <5>1 DEF Control
      <4> QED
        BY <4>1, <4>2
    <3>4. helper'[k] = helper[k]
      BY <3>1
    <3> QED
      BY <3>2, <3>3, <3>4
  <2> QED
    BY <2>1, <2>2
<1> QED
  BY <1>7, <1>8 DEF Control

\* A helper that another goroutine waits for lets it go on.
LEMMA ReportStep ==
    ASSUME Typed, Control, NEW h \in Goroutines, pc[h] = "setup",
           helper[h].role # "fn", stack' = stack, helper' = helper,
           NEW p \in {"idle", "done"}, NEW q \in {"run", "panic"},
           pc' = [pc EXCEPT ![h] = p, ![helper[h].boss] = q]
    PROVE  Control'
<1> DEFINE b == helper[h].boss
<1>1. /\ b \in Goroutines
      /\ b # h
      /\ pc[b] = "blocked"
      /\ stack[h] = <<>>
      /\ \A k \in Goroutines \ {h} : Awaited(k) => helper[k].boss # b
  BY DEF Control, Awaited, Typed, Errand
<1>2. /\ pc'[h] = p /\ pc'[b] = q
      /\ \A k \in Goroutines \ {b, h} : pc'[k] = pc[k]
  BY <1>1 DEF Typed
<1>3. \A k \in Goroutines : helper[k].boss \in Goroutines
  BY DEF Typed, Errand
<1> HIDE DEF b
<1>4. /\ \A k \in Goroutines \ {h} : Awaited(k)' <=> Awaited(k)
      /\ ~Awaited(h)'
  BY <1>1, <1>2 DEF Awaited
<1>5. \A k \in Goroutines \ {h} :
        Awaited(k) => helper[k].boss \notin {b, h} /\ pc'[helper[k].boss] = "blocked"
  <2> SUFFICES ASSUME NEW k \in Goroutines \ {h}, Awaited(k)
               PROVE  helper[k].boss \notin {b, h} /\ pc'[helper[k].boss] = "blocked"
    OBVIOUS
  <2>1. pc[helper[k].boss] = "blocked" /\ helper[k].boss # b
    BY <1>1 DEF Control
  <2> QED
    BY <1>2, <1>3, <2>1
<1>6. ASSUME NEW k \in Goroutines
      PROVE  /\ pc'[k] \in {"off", "setup", "cleanup", "idle", "done"} => stack'[k] = <<>>
             /\ pc'[k] \in {"off", "cleanup"} => helper'[k].role = "node"
             /\ pc'[k] \in {"idle", "done"} => helper'[k].role # "fn"
  <2>1. CASE k = h
    BY <1>1, <1>2, <2>1
  <2>2. CASE k = b
    BY <1>2, <2>2
  <2>3. CASE k \notin {b, h}
    BY <1>2, <2>3 DEF Control
  <2> QED
    BY <2>1, <2>2, <2>3
<1>7. ASSUME NEW k \in Goroutines, Awaited(k)'
      PROVE  /\ helper'[k].boss # k
             /\ pc'[helper'[k].boss] = "blocked"
             /\ \A l \in Goroutines \ {k} :
                  Awaited(l)' => helper'[l].boss # helper'[k].boss
             /\ helper'[k].role = "fn" => SeparateTop(stack'[helper'[k].boss])
  BY <1>4, <1>5, <1>7 DEF Control
<1> QED
  BY <1>6, <1>7 DEF Control

\* A goroutine that nobody waits for and that has no call left starts, ends, or
\* is about to.
LEMMA AloneStep ==
    ASSUME Typed, Control, NEW g \in Goroutines, pc[g] # "blocked",
           stack[g] = <<>>, stack' = stack,
           NEW p \in {"run", "cleanup", "off", "done"},
           pc' = [pc EXCEPT ![g] = p],
           \A k \in Goroutines \ {g} : helper'[k] = helper[k],
           helper'[g].role # "fn",
           p \in {"cleanup", "off"} => helper'[g].role = "node"
    PROVE  Control'
<1>1. /\ pc'[g] = p
      /\ \A k \in Goroutines \ {g} : pc'[k] = pc[k]
  BY DEF Typed
<1>2. /\ ~Awaited(g)'
      /\ \A k \in Goroutines \ {g} : Awaited(k)' <=> Awaited(k)
  BY <1>1 DEF Awaited
<1>3. \A k \in Goroutines : Awaited(k) => helper[k].boss \in Goroutines \ {g}
  BY DEF Control, Typed, Errand
<1>4. ASSUME NEW k \in Goroutines
      PROVE  /\ pc'[k] \in {"off", "setup", "cleanup", "idle", "done"} => stack'[k] = <<>>
             /\ pc'[k] \in {"off", "cleanup"} => helper'[k].role = "node"
             /\ pc'[k] \in {"idle", "done"} => helper'[k].role # "fn"
  BY <1>1 DEF Control
<1>5. ASSUME NEW k \in Goroutines, Awaited(k)'
      PROVE  /\ helper'[k].boss # k
             /\ pc'[helper'[k].boss] = "blocked"
             /\ \A l \in Goroutines \ {k} :
                  Awaited(l)' => helper'[l].boss # helper'[k].boss
             /\ helper'[k].role = "fn" => SeparateTop(stack'[helper'[k].boss])
  <2>1. k # g /\ Awaited(k) /\ helper'[k] = helper[k]
    BY <1>2, <1>5
  <2>2. ASSUME NEW l \in Goroutines \ {k}, Awaited(l)'
        PROVE  helper'[l].boss # helper'[k].boss
    <3>1. l # g /\ Awaited(l) /\ helper'[l] = helper[l]
      BY <1>2, <2>2
    <3> QED
      BY <2>1, <3>1 DEF Control
  <2> QED
    BY <1>1, <1>3, <2>1, <2>2 DEF Control
<1> QED
  BY <1>4, <1>5 DEF Control

\* A separate goroutine ends, and its caller goes on or panics.
LEMMA ReturnStepControl ==
    ASSUME Typed, Control, NEW h \in Goroutines, NEW b \in Goroutines,
           pc[h] \in {"run", "panic"}, helper[h].role = "fn",
           helper[h].boss = b, stack[h] = <<>>, Keeps(b),
           pc' = [pc EXCEPT ![h] = "off", ![b] = pc[h]],
           helper' = [helper EXCEPT ![h] = NoErrand(h)]
    PROVE  Control'
<1>1. /\ Awaited(h)
      /\ b # h
      /\ pc[b] = "blocked"
      /\ \A k \in Goroutines \ {h} : Awaited(k) => helper[k].boss # b
  BY DEF Control, Awaited
<1>2. /\ pc'[h] = "off" /\ pc'[b] = pc[h]
      /\ \A k \in Goroutines \ {b, h} : pc'[k] = pc[k]
      /\ helper'[h].role = "node"
      /\ \A k \in Goroutines \ {h} : helper'[k] = helper[k]
      /\ \A k \in Goroutines \ {b} : stack'[k] = stack[k]
  BY <1>1 DEF Typed, Keeps, NoErrand
<1>3. /\ ~Awaited(h)'
      /\ \A k \in Goroutines \ {h} : Awaited(k)' <=> Awaited(k)
  BY <1>1, <1>2 DEF Awaited
<1>4. \A k \in Goroutines \ {h} :
        Awaited(k) => /\ helper[k].boss \in Goroutines \ {b, h}
                      /\ pc'[helper[k].boss] = "blocked"
  <2> SUFFICES ASSUME NEW k \in Goroutines \ {h}, Awaited(k)
               PROVE  /\ helper[k].boss \in Goroutines \ {b, h}
                      /\ pc'[helper[k].boss] = "blocked"
    OBVIOUS
  <2>1. pc[helper[k].boss] = "blocked" /\ helper[k].boss # b
    BY <1>1 DEF Control
  <2>2. helper[k].boss \in Goroutines
    BY DEF Typed, Errand
  <2> QED
    BY <1>2, <2>1, <2>2
<1>5. ASSUME NEW k \in Goroutines
      PROVE  /\ pc'[k] \in {"off", "setup", "cleanup", "idle", "done"} => stack'[k] = <<>>
             /\ pc'[k] \in {"off", "cleanup"} => helper'[k].role = "node"
             /\ pc'[k] \in {"idle", "done"} => helper'[k].role # "fn"
  <2>1. CASE k = b
    BY <1>2, <2>1
  <2>2. CASE k = h
    BY <1>1, <1>2, <2>2
  <2>3. CASE k \notin {b, h}
    <3>1. pc'[k] = pc[k] /\ helper'[k] = helper[k] /\ stack'[k] = stack[k]
      BY <1>2, <2>3
    <3> QED
      BY <3>1 DEF Control
  <2> QED
    BY <2>1, <2>2, <2>3
<1>6. ASSUME NEW k \in Goroutines, Awaited(k)'
      PROVE  /\ helper'[k].boss # k
             /\ pc'[helper'[k].boss] = "blocked"
             /\ \A l \in Goroutines \ {k} :
                  Awaited(l)' => helper'[l].boss # helper'[k].boss
             /\ helper'[k].role = "fn" => SeparateTop(stack'[helper'[k].boss])
  <2>1. k # h /\ Awaited(k) /\ helper'[k] = helper[k]
    BY <1>2, <1>3, <1>6
  <2>2. ASSUME NEW l \in Goroutines \ {k}, Awaited(l)'
        PROVE  helper'[l].boss # helper'[k].boss
    <3>1. l # h /\ Awaited(l) /\ helper'[l] = helper[l]
      BY <1>2, <1>3, <2>2
    <3> QED
      BY <2>1, <3>1 DEF Control
  <2>3. stack'[helper[k].boss] = stack[helper[k].boss]
    BY <1>2, <1>4, <2>1
  <2>4. /\ helper[k].boss # k
        /\ helper[k].role = "fn" => SeparateTop(stack[helper[k].boss])
    BY <2>1 DEF Control
  <2> QED
    BY <1>4, <2>1, <2>2, <2>3, <2>4
<1> QED
  BY <1>5, <1>6 DEF Control

-----------------------------------------------------------------------------
(* Each action keeps the invariant.                                        *)

\* A running goroutine locks a thread and goes on, having pushed a call that
\* is to restore it, or panics.
Calls(g, t, n, own) ==
    /\ pc[g] \in {"run", "panic"}
    /\ t \in Lockable(g) /\ n \in Namespaces /\ own \in BOOLEAN
    /\ Lock(g, t, n, own)
    /\ \/ stack' = stack
       \/ \E f \in Frames :
             /\ stack' = [stack EXCEPT ![g] = Append(@, f)]
             /\ \A typ \in NsTypes \ DOMAIN f.saved : n[typ] = ns[t][typ]
             /\ \A typ \in DOMAIN f.saved : f.saved[typ] \in {0, ns[t][typ]}
             /\ own => ownFs[t] \/ f.op = "mnt"
    /\ \E p \in {"run", "panic"} : pc' = [pc EXCEPT ![g] = p]
    /\ failed' \subseteq Goroutines /\ made' \in Namespaces
    /\ UNCHANGED <<helper, cleanups>>

LEMMA CallKeeps ==
    ASSUME IInv, NEW g \in Goroutines, NEW t, NEW n, NEW own, Calls(g, t, n, own)
    PROVE  IInv'
<1> USE DEF Calls
<1>0. PICK p \in {"run", "panic"} : pc' = [pc EXCEPT ![g] = p]
  OBVIOUS
<1>1. Threads' /\ Keeps(g)
  BY LockStep DEF IInv, Keeps
<1>2. Control'
  BY <1>1, RunningStep DEF IInv
<1>3. /\ alive' \subseteq OSThreads
      /\ ns' \in [OSThreads -> Namespaces]
      /\ ownFs' \in [OSThreads -> BOOLEAN]
      /\ on' \in [Goroutines -> OSThreads \union {NoThread}]
      /\ locks' \in [Goroutines -> Nat]
      /\ stack' \in [Goroutines -> Seq(Frames)]
  BY LockStep DEF IInv
<1>4. pc' \in [Goroutines -> PCs]
  BY DEF IInv, Typed, PCs
<1> QED
  BY <1>1, <1>2, <1>3, <1>4 DEF IInv, Typed

\* What a call pushes is a frame.
LEMMA FrameType ==
    ASSUME NEW op \in {"enter", "inout", "separate", "mnt"}, NEW cur \in Namespaces,
           NEW T \in SUBSET NsTypes
    PROVE  LET f == [op |-> op, saved |-> CurrentOf(cur, T), before |-> cur]
           IN  /\ f \in Frames
               /\ f.op = op
               /\ DOMAIN f.saved = T
               /\ \A typ \in T : f.saved[typ] \in {0, cur[typ]}
<1>1. CurrentOf(cur, T) \in Partial /\ DOMAIN CurrentOf(cur, T) = T
  BY CurrentOfType
<1>2. \A typ \in T : CurrentOf(cur, T)[typ] \in {0, cur[typ]}
  BY DEF CurrentOf
<1> QED
  BY <1>1, <1>2 DEF Frames

LEMMA SamePc ==
    ASSUME Typed, NEW g \in Goroutines
    PROVE  pc = [pc EXCEPT ![g] = pc[g]]
BY DEF Typed

LEMMA EnterTransientKeeps ==
    ASSUME IInv, NEW g \in Goroutines, EnterTransient(g)
    PROVE  IInv'
<1>1. pc[g] = "run"
  BY DEF EnterTransient, MayCall, Runs
<1>2. PICK typ \in Enterable, t \in Lockable(g) :
         \/ /\ CanMake(typ)
            /\ Lock(g, t, [ns[t] EXCEPT ![typ] = NextNs(typ)], ownFs[t])
            /\ Push(g, "enter", CurrentOf(ns[t], {typ}), ns[t])
            /\ Made(typ)
            /\ UNCHANGED <<pc, failed>>
         \/ /\ Lock(g, t, ns[t], ownFs[t])
            /\ Panic(g)
            /\ UNCHANGED <<stack, made>>
  BY DEF EnterTransient
<1>3. UNCHANGED <<helper, cleanups>>
  BY DEF EnterTransient
<1>4. /\ ns[t] \in Namespaces /\ ownFs[t] \in BOOLEAN
      /\ typ \in NsTypes
      /\ made \in Namespaces /\ failed \subseteq Goroutines
      /\ Typed
  BY LockableThread DEF IInv, Typed, Enterable
<1>5. CASE /\ CanMake(typ)
           /\ Lock(g, t, [ns[t] EXCEPT ![typ] = NextNs(typ)], ownFs[t])
           /\ Push(g, "enter", CurrentOf(ns[t], {typ}), ns[t])
           /\ Made(typ)
           /\ UNCHANGED <<pc, failed>>
  <2> DEFINE f == [op |-> "enter", saved |-> CurrentOf(ns[t], {typ}), before |-> ns[t]]
             n == [ns[t] EXCEPT ![typ] = NextNs(typ)]
  <2>1. n \in Namespaces /\ made' \in Namespaces
    BY <1>4, <1>5, NextNsType DEF Made
  <2>2. /\ f \in Frames
        /\ DOMAIN f.saved = {typ}
        /\ \A x \in {typ} : f.saved[x] \in {0, ns[t][x]}
    BY <1>4, FrameType
  <2>3. stack' = [stack EXCEPT ![g] = Append(@, f)]
    BY <1>5 DEF Push
  <2>4. \A x \in NsTypes \ {typ} : n[x] = ns[t][x]
    BY <1>4 DEF Namespaces
  <2>5. Lock(g, t, n, ownFs[t])
    BY <1>5
  <2>6. pc' = [pc EXCEPT ![g] = "run"]
    BY <1>1, <1>4, <1>5, SamePc
  <2>7. failed' \subseteq Goroutines
    BY <1>4, <1>5
  <2> HIDE DEF f, n
  <2>8. \E x \in Frames :
          /\ stack' = [stack EXCEPT ![g] = Append(@, x)]
          /\ \A y \in NsTypes \ DOMAIN x.saved : n[y] = ns[t][y]
          /\ \A y \in DOMAIN x.saved : x.saved[y] \in {0, ns[t][y]}
          /\ ownFs[t] => ownFs[t] \/ x.op = "mnt"
    BY <2>2, <2>3, <2>4
  <2>9. Calls(g, t, n, ownFs[t])
    BY <1>1, <1>3, <1>4, <2>1, <2>5, <2>6, <2>7, <2>8 DEF Calls
  <2> QED
    BY <2>9, CallKeeps
<1>6. CASE /\ Lock(g, t, ns[t], ownFs[t])
           /\ Panic(g)
           /\ UNCHANGED <<stack, made>>
  <2>1. /\ pc' = [pc EXCEPT ![g] = "panic"]
        /\ failed' \subseteq Goroutines
        /\ stack' = stack /\ made' \in Namespaces
    BY <1>4, <1>6 DEF Panic
  <2>9. Calls(g, t, ns[t], ownFs[t])
    BY <1>1, <1>3, <1>4, <1>6, <2>1 DEF Calls
  <2> QED
    BY <2>9, CallKeeps
<1> QED
  BY <1>2, <1>5, <1>6

LEMMA NewTransientKeeps ==
    ASSUME IInv, NEW g \in Goroutines, NewTransient(g)
    PROVE  IInv'
<1>1. pc[g] = "run" /\ UNCHANGED <<stack, helper, cleanups>>
  BY DEF NewTransient, MayCall, Runs
<1>2. PICK typ \in Creatable :
         \/ /\ CanMake(typ)
            /\ Made(typ)
            /\ UNCHANGED <<threadVars, on, locks, pc, failed>>
         \/ \E t \in Lockable(g) :
               /\ \/ /\ Lock(g, t, ns[t], ownFs[t])
                     /\ UNCHANGED made
                  \/ /\ CanMake(typ)
                     /\ Lock(g, t, [ns[t] EXCEPT ![typ] = NextNs(typ)], ownFs[t])
                     /\ Made(typ)
               /\ Panic(g)
  BY DEF NewTransient
<1>3. /\ typ \in NsTypes
      /\ made \in Namespaces /\ failed \subseteq Goroutines
      /\ Pristine \in Namespaces
  BY Constants DEF IInv, Typed, Creatable
<1>4. CASE /\ CanMake(typ)
           /\ Made(typ)
           /\ UNCHANGED <<threadVars, on, locks, pc, failed>>
  <2>1. made' \in Namespaces
    BY <1>3, <1>4, NextNsType DEF Made
  <2>2. Typed'
    BY <1>1, <1>4, <2>1 DEF IInv, Typed, threadVars
  <2>3. Threads'
    BY <1>1, <1>4 DEF IInv, Threads, Clean, threadVars
  <2>4. Control'
    BY <1>1, <1>4 DEF IInv, Control, Awaited
  <2> QED
    BY <2>2, <2>3, <2>4 DEF IInv
<1>5. ASSUME NEW t \in Lockable(g), Panic(g),
             \/ /\ Lock(g, t, ns[t], ownFs[t])
                /\ UNCHANGED made
             \/ /\ CanMake(typ)
                /\ Lock(g, t, [ns[t] EXCEPT ![typ] = NextNs(typ)], ownFs[t])
                /\ Made(typ)
      PROVE  IInv'
  <2>1. ns[t] \in Namespaces /\ ownFs[t] \in BOOLEAN
    BY LockableThread DEF IInv
  <2>2. PICK n \in Namespaces : Lock(g, t, n, ownFs[t]) /\ made' \in Namespaces
    BY <1>3, <1>5, <2>1, NextNsType DEF Made
  <2>3. pc' = [pc EXCEPT ![g] = "panic"] /\ failed' \subseteq Goroutines
    BY <1>3, <1>5 DEF Panic
  <2>9. Calls(g, t, n, ownFs[t])
    BY <1>1, <2>1, <2>2, <2>3 DEF Calls
  <2> QED
    BY <2>9, CallKeeps
<1> QED
  BY <1>2, <1>4, <1>5

LEMMA GoInKeeps ==
    ASSUME IInv, NEW g \in Goroutines, GoIn(g)
    PROVE  IInv'
<1>1. pc[g] = "run" /\ UNCHANGED <<helper, made, cleanups>>
  BY DEF GoIn, MayCall, Runs
<1>2. PICK to \in Lists(NsTypes \ {"mnt"}), t \in Lockable(g) :
         \/ /\ Lock(g, t, Switch(ns[t], to), ownFs[t])
            /\ Push(g, "inout", CurrentOf(ns[t], DOMAIN to), ns[t])
            /\ UNCHANGED <<pc, failed>>
         \/ /\ \E S, R \in SUBSET DOMAIN to :
                  /\ S # DOMAIN to
                  /\ Lock(g, t,
                          Switch(Switch(ns[t], [typ \in S |-> to[typ]]),
                                 CurrentOf(ns[t], R)),
                          ownFs[t])
            /\ Panic(g)
            /\ UNCHANGED stack
  BY DEF GoIn
<1>3. /\ ns[t] \in Namespaces /\ ownFs[t] \in BOOLEAN
      /\ to \in Partial /\ DOMAIN to \in SUBSET NsTypes
      /\ made' \in Namespaces /\ failed \subseteq Goroutines
      /\ Typed
  <2>1. ns[t] \in Namespaces /\ ownFs[t] \in BOOLEAN
    BY LockableThread DEF IInv
  <2>2. NsTypes \ {"mnt"} \in SUBSET NsTypes
    OBVIOUS
  <2>3. to \in Partial /\ DOMAIN to \in SUBSET NsTypes
    BY <2>2, ListsType
  <2> QED
    BY <1>1, <2>1, <2>3 DEF IInv, Typed
<1>4. CASE /\ Lock(g, t, Switch(ns[t], to), ownFs[t])
           /\ Push(g, "inout", CurrentOf(ns[t], DOMAIN to), ns[t])
           /\ UNCHANGED <<pc, failed>>
  <2> DEFINE T == DOMAIN to
             f == [op |-> "inout", saved |-> CurrentOf(ns[t], T), before |-> ns[t]]
             n == Switch(ns[t], to)
  <2>1. n \in Namespaces
    BY <1>3, SwitchType
  <2>2. /\ f \in Frames
        /\ DOMAIN f.saved = T
        /\ \A x \in T : f.saved[x] \in {0, ns[t][x]}
    BY <1>3, FrameType
  <2>3. stack' = [stack EXCEPT ![g] = Append(@, f)]
    BY <1>4 DEF Push
  <2>4. \A x \in NsTypes \ T : n[x] = ns[t][x]
    BY DEF Switch
  <2>5. Lock(g, t, n, ownFs[t])
    BY <1>4
  <2>6. pc' = [pc EXCEPT ![g] = "run"]
    BY <1>1, <1>3, <1>4, SamePc
  <2>7. failed' \subseteq Goroutines
    BY <1>3, <1>4
  <2> HIDE DEF f, n, T
  <2>8. \E x \in Frames :
          /\ stack' = [stack EXCEPT ![g] = Append(@, x)]
          /\ \A y \in NsTypes \ DOMAIN x.saved : n[y] = ns[t][y]
          /\ \A y \in DOMAIN x.saved : x.saved[y] \in {0, ns[t][y]}
          /\ ownFs[t] => ownFs[t] \/ x.op = "mnt"
    BY <2>2, <2>3, <2>4
  <2>9. Calls(g, t, n, ownFs[t])
    BY <1>1, <1>3, <2>1, <2>5, <2>6, <2>7, <2>8 DEF Calls
  <2> QED
    BY <2>9, CallKeeps
<1>5. ASSUME NEW S \in SUBSET DOMAIN to, NEW R \in SUBSET DOMAIN to,
             Lock(g, t, Switch(Switch(ns[t], [typ \in S |-> to[typ]]),
                               CurrentOf(ns[t], R)), ownFs[t]),
             Panic(g), UNCHANGED stack
      PROVE  IInv'
  <2> DEFINE n1 == Switch(ns[t], [typ \in S |-> to[typ]])
             n  == Switch(n1, CurrentOf(ns[t], R))
  <2>1. n1 \in Namespaces
    BY <1>3, SwitchPart
  <2>2. CurrentOf(ns[t], R) \in Partial
    BY <1>3, CurrentOfType
  <2> HIDE DEF n1
  <2>3. n \in Namespaces
    BY <2>1, <2>2, SwitchType
  <2>4. Lock(g, t, n, ownFs[t])
    BY <1>5 DEF n1
  <2>5. pc' = [pc EXCEPT ![g] = "panic"] /\ failed' \subseteq Goroutines
    BY <1>3, <1>5 DEF Panic
  <2> HIDE DEF n
  <2>9. Calls(g, t, n, ownFs[t])
    BY <1>1, <1>3, <1>5, <2>3, <2>4, <2>5 DEF Calls
  <2> QED
    BY <2>9, CallKeeps
<1> QED
  BY <1>2, <1>4, <1>5

LEMMA MntEnterTransientKeeps ==
    ASSUME IInv, NEW g \in Goroutines, MntEnterTransient(g)
    PROVE  IInv'
<1>1. pc[g] = "run" /\ UNCHANGED <<helper, cleanups>>
  BY DEF MntEnterTransient, MayCall, Runs
<1>2. PICK t \in Lockable(g) :
         \/ /\ CanMake("mnt")
            /\ Lock(g, t, [ns[t] EXCEPT !["mnt"] = NextNs("mnt")], TRUE)
            /\ Push(g, "mnt", CurrentOf(ns[t], {"mnt"}), ns[t])
            /\ Made("mnt")
            /\ UNCHANGED <<pc, failed>>
         \/ /\ Lock(g, t, ns[t], ownFs[t])
            /\ Panic(g)
            /\ UNCHANGED <<stack, made>>
         \/ /\ CanMake("mnt")
            /\ Lock(g, t, [ns[t] EXCEPT !["mnt"] = NextNs("mnt")], TRUE)
            /\ Made("mnt")
            /\ Panic(g)
            /\ UNCHANGED stack
  BY DEF MntEnterTransient
<1>3. /\ ns[t] \in Namespaces /\ ownFs[t] \in BOOLEAN
      /\ "mnt" \in NsTypes
      /\ made \in Namespaces /\ failed \subseteq Goroutines
      /\ Typed
  BY LockableThread, Constants DEF IInv, Typed
<1>4. CASE /\ CanMake("mnt")
           /\ Lock(g, t, [ns[t] EXCEPT !["mnt"] = NextNs("mnt")], TRUE)
           /\ Push(g, "mnt", CurrentOf(ns[t], {"mnt"}), ns[t])
           /\ Made("mnt")
           /\ UNCHANGED <<pc, failed>>
  <2> DEFINE f == [op |-> "mnt", saved |-> CurrentOf(ns[t], {"mnt"}), before |-> ns[t]]
             n == [ns[t] EXCEPT !["mnt"] = NextNs("mnt")]
  <2>1. n \in Namespaces /\ made' \in Namespaces
    BY <1>3, <1>4, NextNsType DEF Made
  <2>2. /\ f \in Frames
        /\ f.op = "mnt"
        /\ DOMAIN f.saved = {"mnt"}
        /\ \A x \in {"mnt"} : f.saved[x] \in {0, ns[t][x]}
    BY <1>3, FrameType
  <2>3. stack' = [stack EXCEPT ![g] = Append(@, f)]
    BY <1>4 DEF Push
  <2>4. \A x \in NsTypes \ {"mnt"} : n[x] = ns[t][x]
    BY <1>3 DEF Namespaces
  <2>5. Lock(g, t, n, TRUE)
    BY <1>4
  <2>6. pc' = [pc EXCEPT ![g] = "run"]
    BY <1>1, <1>3, <1>4, SamePc
  <2>7. failed' \subseteq Goroutines
    BY <1>3, <1>4
  <2> HIDE DEF f, n
  <2>8. \E x \in Frames :
          /\ stack' = [stack EXCEPT ![g] = Append(@, x)]
          /\ \A y \in NsTypes \ DOMAIN x.saved : n[y] = ns[t][y]
          /\ \A y \in DOMAIN x.saved : x.saved[y] \in {0, ns[t][y]}
          /\ TRUE => ownFs[t] \/ x.op = "mnt"
    BY <2>2, <2>3, <2>4
  <2>9. Calls(g, t, n, TRUE)
    BY <1>1, <1>3, <2>1, <2>5, <2>6, <2>7, <2>8 DEF Calls
  <2> QED
    BY <2>9, CallKeeps
<1>5. CASE /\ Lock(g, t, ns[t], ownFs[t])
           /\ Panic(g)
           /\ UNCHANGED <<stack, made>>
  <2>1. /\ pc' = [pc EXCEPT ![g] = "panic"]
        /\ failed' \subseteq Goroutines
        /\ stack' = stack /\ made' \in Namespaces
    BY <1>3, <1>5 DEF Panic
  <2>9. Calls(g, t, ns[t], ownFs[t])
    BY <1>1, <1>3, <1>5, <2>1 DEF Calls
  <2> QED
    BY <2>9, CallKeeps
<1>6. CASE /\ CanMake("mnt")
           /\ Lock(g, t, [ns[t] EXCEPT !["mnt"] = NextNs("mnt")], TRUE)
           /\ Made("mnt")
           /\ Panic(g)
           /\ UNCHANGED stack
  <2>1. /\ pc' = [pc EXCEPT ![g] = "panic"]
        /\ failed' \subseteq Goroutines
        /\ stack' = stack /\ made' \in Namespaces
        /\ [ns[t] EXCEPT !["mnt"] = NextNs("mnt")] \in Namespaces
    BY <1>3, <1>6, NextNsType DEF Panic, Made
  <2>9. Calls(g, t, [ns[t] EXCEPT !["mnt"] = NextNs("mnt")], TRUE)
    BY <1>1, <1>3, <1>6, <2>1 DEF Calls
  <2> QED
    BY <2>9, CallKeeps
<1> QED
  BY <1>2, <1>4, <1>5, <1>6

LEMMA GoSeparateKeeps ==
    ASSUME IInv, NEW g \in Goroutines, GoSeparate(g)
    PROVE  IInv'
<1>1. pc[g] = "run" /\ UNCHANGED <<made, cleanups>>
  BY DEF GoSeparate, MayCall, Runs
<1>2. PICK to \in Lists(NsTypes) :
         \/ \E t \in Lockable(g), h \in Goroutines :
              /\ Lock(g, t, ns[t], ownFs[t])
              /\ Push(g, "separate", CurrentOf(ns[t], {}), ns[t])
              /\ Spawn(g, h, "fn", to)
              /\ UNCHANGED failed
         \/ /\ Panic(g)
            /\ UNCHANGED <<threadVars, on, locks, stack, helper>>
  BY DEF GoSeparate
<1>3. /\ to \in Partial /\ failed \subseteq Goroutines /\ Typed /\ Control
      /\ Threads
  BY ListsType DEF IInv, Typed
<1>4. ASSUME NEW t \in Lockable(g), NEW h \in Goroutines,
             Lock(g, t, ns[t], ownFs[t]),
             Push(g, "separate", CurrentOf(ns[t], {}), ns[t]),
             Spawn(g, h, "fn", to),
             UNCHANGED failed
      PROVE  IInv'
  <2> DEFINE f == [op |-> "separate", saved |-> CurrentOf(ns[t], {}), before |-> ns[t]]
  <2>1. ns[t] \in Namespaces /\ ownFs[t] \in BOOLEAN
    BY LockableThread DEF IInv
  <2>2. /\ f \in Frames
        /\ f.op = "separate"
        /\ DOMAIN f.saved = {}
    BY <2>1, FrameType
  <2>3. stack' = [stack EXCEPT ![g] = Append(@, f)]
    BY <1>4 DEF Push
  <2> HIDE DEF f
  <2> DEFINE n   == ns[t]
             own == ownFs[t]
  <2>4. /\ n \in Namespaces /\ own \in BOOLEAN /\ Lock(g, t, n, own)
        /\ \A y \in NsTypes : n[y] = ns[t][y]
        /\ own => ownFs[t]
    BY <1>4, <2>1
  <2> HIDE DEF n, own
  <2>9. \E x \in Frames :
          /\ stack' = [stack EXCEPT ![g] = Append(@, x)]
          /\ \A y \in NsTypes \ DOMAIN x.saved : n[y] = ns[t][y]
          /\ \A y \in DOMAIN x.saved : x.saved[y] \in {0, ns[t][y]}
          /\ own => ownFs[t] \/ x.op = "mnt"
    BY <2>2, <2>3, <2>4
  <2>5. /\ Threads'
        /\ alive' \subseteq OSThreads
        /\ ns' \in [OSThreads -> Namespaces]
        /\ ownFs' \in [OSThreads -> BOOLEAN]
        /\ on' \in [Goroutines -> OSThreads \union {NoThread}]
        /\ locks' \in [Goroutines -> Nat]
        /\ stack' \in [Goroutines -> Seq(Frames)]
        /\ Keeps(g)
    <3>1. Typed /\ Threads /\ t \in Lockable(g)
      BY <1>3
    <3>2. /\ Threads'
          /\ alive' \subseteq OSThreads
          /\ ns' \in [OSThreads -> Namespaces]
          /\ ownFs' \in [OSThreads -> BOOLEAN]
          /\ on' \in [Goroutines -> OSThreads \union {NoThread}]
          /\ locks' \in [Goroutines -> Nat]
          /\ stack' \in [Goroutines -> Seq(Frames)]
          /\ \A k \in Goroutines \ {g} : stack'[k] = stack[k]
      BY <2>4, <2>9, <3>1, LockStep
    <3> QED
      BY <3>2 DEF Keeps
  <2>6. SeparateTop(stack'[g])
    <3>1. stack[g] \in Seq(Frames) /\ stack'[g] = Append(stack[g], f)
      BY <1>3, <2>3 DEF Typed
    <3>2. /\ Append(stack[g], f) # <<>>
          /\ Append(stack[g], f)[Len(Append(stack[g], f))] = f
      BY <2>2, <3>1, AppendProperties
    <3> QED
      BY <2>2, <3>1, <3>2 DEF SeparateTop
  <2>7. Control'
    BY <1>1, <1>3, <1>4, <2>5, <2>6, SpawnStep DEF Roles
  <2>8. pc' \in [Goroutines -> PCs] /\ helper' \in [Goroutines -> Errand]
    BY <1>3, <1>4 DEF Spawn, Typed, PCs, Errand, Roles
  <2> QED
    BY <1>1, <1>3, <1>4, <2>5, <2>7, <2>8 DEF IInv, Typed
<1>5. CASE /\ Panic(g)
           /\ UNCHANGED <<threadVars, on, locks, stack, helper>>
  <2>1. Typed'
    BY <1>1, <1>3, <1>5 DEF Typed, threadVars, Panic, PCs
  <2>2. Threads'
    BY <1>3, <1>5 DEF Threads, Clean, threadVars
  <2>3. pc' = [pc EXCEPT ![g] = "panic"] /\ Keeps(g) /\ helper' = helper
    BY <1>5 DEF Panic, Keeps
  <2>4. Control'
    BY <1>1, <1>3, <2>3, RunningStep
  <2> QED
    BY <2>1, <2>2, <2>4 DEF IInv
<1> QED
  BY <1>2, <1>4, <1>5

\* A running goroutine returns from a call and does not unlock.
LEMMA LoseKeeps ==
    ASSUME IInv, NEW g \in Goroutines, pc[g] \in {"run", "panic"},
           stack[g] # <<>>, NEW n \in Namespaces,
           ns' = [ns EXCEPT ![on[g]] = n], Pop(g),
           NEW p \in {"run", "panic"}, pc' = [pc EXCEPT ![g] = p],
           failed' \subseteq Goroutines,
           UNCHANGED <<alive, ownFs, on, locks, helper, made, cleanups>>
    PROVE  IInv'
<1>1. /\ Threads'
      /\ ns' \in [OSThreads -> Namespaces]
      /\ stack' \in [Goroutines -> Seq(Frames)]
      /\ Keeps(g)
  BY LoseStep DEF IInv, Keeps
<1>2. Control'
  BY <1>1, RunningStep DEF IInv
<1>3. pc' \in [Goroutines -> PCs]
  BY DEF IInv, Typed, PCs
<1> QED
  BY <1>1, <1>2, <1>3 DEF IInv, Typed

\* A running goroutine returns from a call, has restored all of it, and
\* unlocks.
LEMMA UnlockKeeps ==
    ASSUME IInv, NEW g \in Goroutines, pc[g] \in {"run", "panic"},
           stack[g] # <<>>, Top(g).op # "mnt",
           ns' = [ns EXCEPT ![on[g]] = Switch(@, Top(g).saved)],
           Unlock(g), Pop(g),
           UNCHANGED <<alive, ownFs, pc, failed, helper, made, cleanups>>
    PROVE  IInv'
<1>1. /\ Threads'
      /\ ns' \in [OSThreads -> Namespaces]
      /\ on' \in [Goroutines -> OSThreads \union {NoThread}]
      /\ locks' \in [Goroutines -> Nat]
      /\ stack' \in [Goroutines -> Seq(Frames)]
      /\ Keeps(g)
  BY UnlockStep DEF IInv, Keeps
<1>2. Control'
  <2>1. pc' = [pc EXCEPT ![g] = pc[g]]
    BY SamePc DEF IInv
  <2> QED
    BY <1>1, <2>1, RunningStep DEF IInv
<1> QED
  BY <1>1, <1>2 DEF IInv, Typed

\* The namespaces of a thread that a goroutine is locked to.
LEMMA OwnThread ==
    ASSUME IInv, NEW g \in Goroutines, stack[g] # <<>>
    PROVE  /\ on[g] \in OSThreads
           /\ ns[on[g]] \in Namespaces
           /\ Top(g).saved \in Partial
<1>1. Len(stack[g]) \in Nat \ {0} /\ Top(g).saved \in Partial
  BY FramesType DEF IInv
<1>2. locks[g] \in Nat /\ Len(stack[g]) <= locks[g]
  BY DEF IInv, Typed, Threads
<1>3. locks[g] > 0
  BY <1>1, <1>2
<1>4. on[g] \in OSThreads
  BY <1>3 DEF IInv, Typed, Threads
<1> QED
  BY <1>1, <1>4 DEF IInv, Typed

LEMMA LeaveTransientKeeps ==
    ASSUME IInv, NEW g \in Goroutines, LeaveTransient(g)
    PROVE  IInv'
<1>1. /\ pc[g] \in {"run", "panic"} /\ stack[g] # <<>> /\ Top(g).op = "enter"
      /\ Pop(g)
      /\ UNCHANGED <<alive, ownFs, helper, made, cleanups>>
  BY DEF LeaveTransient, Returns
<1>2. CASE /\ ns' = [ns EXCEPT ![on[g]] = Switch(@, Top(g).saved)]
           /\ Unlock(g)
           /\ UNCHANGED <<pc, failed>>
  BY <1>1, <1>2, UnlockKeeps
<1>3. CASE Panic(g) /\ UNCHANGED <<ns, on, locks>>
  <2>1. ns[on[g]] \in Namespaces
    BY <1>1, OwnThread
  <2>2. ns' = [ns EXCEPT ![on[g]] = ns[on[g]]]
    BY <1>3 DEF IInv, Typed
  <2>3. pc' = [pc EXCEPT ![g] = "panic"] /\ failed' \subseteq Goroutines
    BY <1>3 DEF Panic, IInv, Typed
  <2> QED
    BY <1>1, <1>3, <2>1, <2>2, <2>3, LoseKeeps
<1> QED
  BY <1>2, <1>3 DEF LeaveTransient

LEMMA GoOutKeeps ==
    ASSUME IInv, NEW g \in Goroutines, GoOut(g)
    PROVE  IInv'
<1>1. /\ pc[g] \in {"run", "panic"} /\ stack[g] # <<>> /\ Top(g).op = "inout"
      /\ Pop(g)
      /\ UNCHANGED <<alive, ownFs, helper, made, cleanups>>
  BY DEF GoOut, Returns
<1>2. CASE /\ ns' = [ns EXCEPT ![on[g]] = Switch(@, Top(g).saved)]
           /\ Unlock(g)
           /\ UNCHANGED <<pc, failed>>
  BY <1>1, <1>2, UnlockKeeps
<1>3. ASSUME NEW R \in SUBSET DOMAIN Top(g).saved,
             ns' = [ns EXCEPT ![on[g]] =
                      Switch(@, [typ \in R |-> Top(g).saved[typ]])],
             Panic(g), UNCHANGED <<on, locks>>
      PROVE  IInv'
  <2> DEFINE n == Switch(ns[on[g]], [typ \in R |-> Top(g).saved[typ]])
  <2>1. n \in Namespaces
    BY <1>1, OwnThread, SwitchPart
  <2>2. ns' = [ns EXCEPT ![on[g]] = n]
    BY <1>3
  <2>3. pc' = [pc EXCEPT ![g] = "panic"] /\ failed' \subseteq Goroutines
    BY <1>3 DEF Panic, IInv, Typed
  <2> HIDE DEF n
  <2> QED
    BY <1>1, <1>3, <2>1, <2>2, <2>3, LoseKeeps
<1> QED
  BY <1>2, <1>3 DEF GoOut

LEMMA MntLeaveTransientKeeps ==
    ASSUME IInv, NEW g \in Goroutines, MntLeaveTransient(g)
    PROVE  IInv'
<1>1. /\ pc[g] \in {"run", "panic"} /\ stack[g] # <<>>
      /\ Pop(g)
      /\ UNCHANGED <<alive, ownFs, on, locks, helper, made, cleanups>>
  BY DEF MntLeaveTransient, Returns
<1>2. CASE /\ ns' = [ns EXCEPT ![on[g]] = Switch(@, Top(g).saved)]
           /\ UNCHANGED <<pc, failed>>
  <2> DEFINE n == Switch(ns[on[g]], Top(g).saved)
  <2>1. n \in Namespaces
    BY <1>1, OwnThread, SwitchType
  <2>2. ns' = [ns EXCEPT ![on[g]] = n]
    BY <1>2
  <2>3. pc' = [pc EXCEPT ![g] = pc[g]] /\ failed' \subseteq Goroutines
    BY <1>2, SamePc DEF IInv, Typed
  <2> HIDE DEF n
  <2> QED
    BY <1>1, <2>1, <2>2, <2>3, LoseKeeps
<1>3. CASE Panic(g) /\ UNCHANGED ns
  <2>1. ns[on[g]] \in Namespaces
    BY <1>1, OwnThread
  <2>2. ns' = [ns EXCEPT ![on[g]] = ns[on[g]]]
    BY <1>3 DEF IInv, Typed
  <2>3. pc' = [pc EXCEPT ![g] = "panic"] /\ failed' \subseteq Goroutines
    BY <1>3 DEF Panic, IInv, Typed
  <2> QED
    BY <1>1, <2>1, <2>2, <2>3, LoseKeeps
<1> QED
  BY <1>2, <1>3 DEF MntLeaveTransient

LEMMA RecoverKeeps ==
    ASSUME IInv, NEW g \in Goroutines, Recover(g)
    PROVE  IInv'
<1>1. /\ pc[g] = "panic"
      /\ pc' = [pc EXCEPT ![g] = "run"]
      /\ UNCHANGED <<alive, ns, ownFs, on, locks, stack, helper, made, cleanups, failed>>
  BY DEF Recover, threadVars
<1>2. Control'
  <2>1. Keeps(g)
    BY <1>1 DEF Keeps
  <2> QED
    BY <1>1, <2>1, RunningStep DEF IInv
<1>3. Typed'
  BY <1>1 DEF IInv, Typed, PCs
<1>4. Threads'
  BY <1>1 DEF IInv, Threads, Clean
<1> QED
  BY <1>2, <1>3, <1>4 DEF IInv

LEMMA StartNodeKeeps ==
    ASSUME IInv, NEW g \in Goroutines, StartNode(g)
    PROVE  IInv'
<1>1. /\ pc[g] = "off"
      /\ pc' = [pc EXCEPT ![g] = "run"]
      /\ UNCHANGED <<alive, ns, ownFs, on, locks, stack, helper, made, cleanups, failed>>
  BY DEF StartNode, threadVars
<1>2. stack[g] = <<>> /\ helper[g].role = "node"
  BY <1>1 DEF IInv, Control
<1>3. Control'
  BY <1>1, <1>2, AloneStep DEF IInv
<1>4. Typed'
  BY <1>1 DEF IInv, Typed, PCs
<1>5. Threads'
  BY <1>1 DEF IInv, Threads, Clean
<1> QED
  BY <1>3, <1>4, <1>5 DEF IInv

LEMMA NodeEndKeeps ==
    ASSUME IInv, NEW g \in Goroutines, NodeEnd(g)
    PROVE  IInv'
<1>1. /\ pc[g] \in {"run", "panic"}
      /\ helper[g].role = "node"
      /\ stack[g] = <<>>
      /\ IF locks[g] > 0 THEN End(g) ELSE UNCHANGED <<threadVars, on, locks>>
      /\ pc' = [pc EXCEPT ![g] = "cleanup"]
      /\ failed' = failed \ {g}
      /\ UNCHANGED <<stack, helper, made, cleanups>>
  BY DEF NodeEnd
<1>2. Control'
  BY <1>1, AloneStep DEF IInv
<1>3. /\ Threads'
      /\ alive' \subseteq OSThreads
      /\ ns' \in [OSThreads -> Namespaces]
      /\ ownFs' \in [OSThreads -> BOOLEAN]
      /\ on' \in [Goroutines -> OSThreads \union {NoThread}]
      /\ locks' \in [Goroutines -> Nat]
  <2>1. CASE locks[g] > 0
    BY <1>1, <2>1, EndStep DEF IInv
  <2>2. CASE ~(locks[g] > 0)
    BY <1>1, <2>2 DEF IInv, Typed, Threads, Clean, threadVars
  <2> QED
    BY <2>1, <2>2
<1>4. pc' \in [Goroutines -> PCs] /\ failed' \subseteq Goroutines
  BY <1>1 DEF IInv, Typed, PCs
<1> QED
  BY <1>1, <1>2, <1>3, <1>4 DEF IInv, Typed

LEMMA HelperEndKeeps ==
    ASSUME IInv, NEW h \in Goroutines, HelperEnd(h)
    PROVE  IInv'
<1>1. /\ pc[h] = "done"
      /\ End(h)
      /\ pc' = [pc EXCEPT ![h] = "off"]
      /\ helper' = [helper EXCEPT ![h] = NoErrand(h)]
      /\ UNCHANGED <<stack, made, cleanups, failed>>
  BY DEF HelperEnd
<1>2. stack[h] = <<>>
  BY <1>1 DEF IInv, Control
<1>3. /\ \A k \in Goroutines \ {h} : helper'[k] = helper[k]
      /\ helper'[h].role = "node"
  BY <1>1 DEF IInv, Typed, NoErrand
<1>4. Control'
  BY <1>1, <1>2, <1>3, AloneStep DEF IInv
<1>5. /\ Threads'
      /\ alive' \subseteq OSThreads
      /\ ns' \in [OSThreads -> Namespaces]
      /\ ownFs' \in [OSThreads -> BOOLEAN]
      /\ on' \in [Goroutines -> OSThreads \union {NoThread}]
      /\ locks' \in [Goroutines -> Nat]
  BY <1>1, <1>2, EndStep DEF IInv
<1>6. pc' \in [Goroutines -> PCs] /\ helper' \in [Goroutines -> Errand]
  <2>1. NoErrand(h) \in Errand
    BY Constants DEF NoErrand, Errand, Roles
  <2> QED
    BY <1>1, <2>1 DEF IInv, Typed, PCs
<1> QED
  BY <1>1, <1>4, <1>5, <1>6 DEF IInv, Typed

Cleanups == {"fd", "done"} \X Goroutines

LEMMA CleanupStepKeeps ==
    ASSUME IInv, NEW g \in Goroutines, CleanupStep(g)
    PROVE  IInv'
<1>1. /\ pc[g] = "cleanup"
      /\ UNCHANGED <<alive, ns, ownFs, on, locks, stack, helper, made, failed>>
  BY DEF CleanupStep, threadVars
<1>2. Threads'
  BY <1>1 DEF IInv, Threads, Clean
<1>3. stack[g] = <<>> /\ helper[g].role = "node"
  BY <1>1 DEF IInv, Control
<1>4. CASE /\ cleanups[g] = <<>>
           /\ pc' = [pc EXCEPT ![g] = "off"]
           /\ UNCHANGED cleanups
  <2>1. Control'
    BY <1>1, <1>3, <1>4, AloneStep DEF IInv
  <2>2. Typed'
    BY <1>1, <1>4 DEF IInv, Typed, PCs
  <2> QED
    BY <1>2, <2>1, <2>2 DEF IInv
<1>5. CASE /\ cleanups[g] # <<>>
           /\ LET item == cleanups[g][Len(cleanups[g])]
                  h    == item[2]
              IN  pc' = IF /\ item[1] = "done"
                           /\ pc[h] = "idle" /\ helper[h].root = g
                        THEN [pc EXCEPT ![h] = "done"] ELSE pc
           /\ cleanups' = [cleanups EXCEPT ![g] = SubSeq(@, 1, Len(@) - 1)]
  <2> DEFINE cs == cleanups[g]
  <2>1. cs \in Seq(Cleanups) /\ cs # <<>>
    BY <1>5 DEF IInv, Typed, Cleanups
  <2> HIDE DEF cs
  <2>2. Len(cs) \in Nat \ {0} /\ cs[Len(cs)] \in Cleanups
    BY <2>1, EmptySeq, LenProperties, ElementOfSeq
  <2>3. SubSeq(cs, 1, Len(cs) - 1) \in Seq(Cleanups)
    <3>1. \A i \in 1..(Len(cs) - 1) : cs[i] \in Cleanups
      BY <2>1, <2>2, ElementOfSeq
    <3> QED
      BY <2>2, <3>1, SubSeqProperties
  <2>4. cleanups' \in [Goroutines -> Seq(Cleanups)]
    BY <1>5, <2>3 DEF IInv, Typed, Cleanups, cs
  <2>5. \/ pc' = pc
        \/ \E h \in Goroutines : pc[h] = "idle" /\ pc' = [pc EXCEPT ![h] = "done"]
    BY <1>5, <2>2 DEF Cleanups, cs
  <2>6. pc' \in [Goroutines -> PCs]
    BY <2>5 DEF IInv, Typed, PCs
  <2>7. Control'
    <3>1. CASE pc' = pc
      BY <1>1, <3>1 DEF IInv, Control, Awaited
    <3>2. ASSUME NEW h \in Goroutines, pc[h] = "idle",
                 pc' = [pc EXCEPT ![h] = "done"]
          PROVE  Control'
      <4>1. stack[h] = <<>> /\ helper[h].role # "fn"
        BY <3>2 DEF IInv, Control
      <4> QED
        BY <1>1, <3>2, <4>1, AloneStep DEF IInv
    <3> QED
      BY <2>5, <3>1, <3>2
  <2>8. Typed'
    BY <1>1, <2>4, <2>6 DEF IInv, Typed, Cleanups
  <2> QED
    BY <1>2, <2>7, <2>8 DEF IInv
<1> QED
  BY <1>4, <1>5 DEF CleanupStep

\* A goroutine starts a helper without having locked its own thread.
LEMMA SpawnKeeps ==
    ASSUME IInv, NEW g \in Goroutines, NEW h \in Goroutines,
           NEW role \in Roles \ {"fn"}, NEW want \in Partial, pc[g] = "run",
           Spawn(g, h, role, want),
           cleanups' \in [Goroutines -> Seq(Cleanups)],
           UNCHANGED <<alive, ns, ownFs, on, locks, stack, made, failed>>
    PROVE  IInv'
<1>1. Threads'
  BY DEF IInv, Threads, Clean
<1>2. Control'
  <2>1. Keeps(g)
    BY DEF Keeps
  <2> QED
    BY <2>1, SpawnStep DEF IInv
<1>3. pc' \in [Goroutines -> PCs] /\ helper' \in [Goroutines -> Errand]
  BY DEF IInv, Spawn, Typed, PCs, Errand
<1>4. Typed'
  BY <1>3 DEF IInv, Typed, Cleanups
<1> QED
  BY <1>1, <1>2, <1>4 DEF IInv

LEMMA MntNewTransientKeeps ==
    ASSUME IInv, NEW g \in Goroutines, MntNewTransient(g)
    PROVE  IInv'
<1>1. /\ pc[g] = "run"
      /\ UNCHANGED <<alive, ns, ownFs, on, locks, stack, made, failed>>
  BY DEF MntNewTransient, Runs, threadVars
<1>2. PICK h \in Goroutines :
        /\ Spawn(g, h, "idler", Pristine)
        /\ cleanups' = [cleanups EXCEPT ![helper[g].root] = Append(@, <<"done", h>>)]
  BY DEF MntNewTransient
<1>3. cleanups' \in [Goroutines -> Seq(Cleanups)]
  <2>1. <<"done", h>> \in Cleanups
    BY DEF Cleanups
  <2>2. helper[g].root \in Goroutines
    BY DEF IInv, Typed, Errand
  <2>3. Append(cleanups[helper[g].root], <<"done", h>>) \in Seq(Cleanups)
    BY <2>1, <2>2, AppendProperties DEF IInv, Typed, Cleanups
  <2> QED
    BY <1>2, <2>2, <2>3 DEF IInv, Typed, Cleanups
<1>4. Pristine \in Partial /\ "idler" \in Roles \ {"fn"}
  BY Constants DEF Roles
<1> QED
  BY <1>1, <1>2, <1>3, <1>4, SpawnKeeps

LEMMA RoomUnshareKeeps ==
    ASSUME IInv, NEW g \in Goroutines, RoomUnshare(g)
    PROVE  IInv'
<1>1. /\ pc[g] = "run"
      /\ UNCHANGED <<alive, ns, ownFs, on, locks, stack, made, cleanups, failed>>
  BY DEF RoomUnshare, Runs, threadVars
<1>2. PICK typ \in Roomy, h \in Goroutines :
        Spawn(g, h, "maker", [x \in {typ} |-> 0])
  BY DEF RoomUnshare
<1>3. [x \in {typ} |-> 0] \in Partial
  <2>1. [x \in {typ} |-> 0] \in [{typ} -> 0..MaxNs]
    BY Constants
  <2> QED
    BY <2>1 DEF Partial, Roomy
<1>4. cleanups' \in [Goroutines -> Seq(Cleanups)] /\ "maker" \in Roles \ {"fn"}
  BY <1>1 DEF IInv, Typed, Cleanups, Roles
<1> QED
  BY <1>1, <1>2, <1>3, <1>4, SpawnKeeps

LEMMA SeparateSetupKeeps ==
    ASSUME IInv, NEW h \in Goroutines, SeparateSetup(h)
    PROVE  IInv'
<1>1. /\ pc[h] = "setup" /\ helper[h].role = "fn"
      /\ UNCHANGED <<stack, helper, made, cleanups>>
  BY DEF SeparateSetup
<1> DEFINE b == helper[h].boss
<1>2. PICK t \in Lockable(h) :
        \/ /\ Lock(h, t, Destination(ns[t], ns[on[b]], helper[h].want), TRUE)
           /\ pc' = [pc EXCEPT ![h] = "run"]
           /\ UNCHANGED failed
        \/ /\ \E S \in SUBSET NsTypes, own \in {ownFs[t], TRUE} :
                 /\ S # {} => own
                 /\ Lock(h, t,
                         Switch(ns[t], [typ \in S |->
                           Destination(ns[t], ns[on[b]], helper[h].want)[typ]]),
                         own)
           /\ Panic(h)
  BY DEF SeparateSetup
<1>3. /\ b \in Goroutines
      /\ SeparateTop(stack[b])
      /\ stack[h] = <<>>
  BY <1>1 DEF IInv, Control, Awaited, Typed, Errand
<1>4. /\ ns[t] \in Namespaces /\ ownFs[t] \in BOOLEAN
      /\ ns[on[b]] \in Namespaces
      /\ helper[h].want \in Partial
  <2>1. ns[on[b]] \in Namespaces
    BY <1>3, OwnThread DEF SeparateTop
  <2>2. helper[h].want \in Partial
    BY DEF IInv, Typed, Errand
  <2> QED
    BY <2>1, <2>2, LockableThread DEF IInv
<1> DEFINE dest == Destination(ns[t], ns[on[b]], helper[h].want)
<1>5. dest \in Namespaces
  BY <1>4, DestinationType
<1>6. PICK n \in Namespaces, own \in BOOLEAN, p \in {"run", "panic"} :
        /\ Lock(h, t, n, own)
        /\ pc' = [pc EXCEPT ![h] = p]
        /\ failed' \subseteq Goroutines
  <2>1. CASE /\ Lock(h, t, dest, TRUE)
             /\ pc' = [pc EXCEPT ![h] = "run"]
             /\ UNCHANGED failed
    BY <1>5, <2>1 DEF IInv, Typed
  <2>2. ASSUME NEW S \in SUBSET NsTypes, NEW own \in {ownFs[t], TRUE},
               Lock(h, t, Switch(ns[t], [typ \in S |-> dest[typ]]), own),
               Panic(h)
        PROVE  \E n \in Namespaces, o \in BOOLEAN, p \in {"run", "panic"} :
                 /\ Lock(h, t, n, o)
                 /\ pc' = [pc EXCEPT ![h] = p]
                 /\ failed' \subseteq Goroutines
    <3>1. dest \in Partial /\ DOMAIN dest = NsTypes
      BY <1>5, Constants DEF Namespaces
    <3> HIDE DEF dest
    <3>2. Switch(ns[t], [typ \in S |-> dest[typ]]) \in Namespaces
      BY <1>4, <3>1, SwitchPart
    <3>3. pc' = [pc EXCEPT ![h] = "panic"] /\ failed' \subseteq Goroutines
      BY <2>2 DEF Panic, IInv, Typed
    <3>4. own \in BOOLEAN
      BY <1>4
    <3> QED
      BY <2>2, <3>2, <3>3, <3>4
  <2> HIDE DEF dest
  <2> QED
    BY <1>2, <2>1, <2>2 DEF dest
<1>7. /\ Threads'
      /\ alive' \subseteq OSThreads
      /\ ns' \in [OSThreads -> Namespaces]
      /\ ownFs' \in [OSThreads -> BOOLEAN]
      /\ on' \in [Goroutines -> OSThreads \union {NoThread}]
      /\ locks' \in [Goroutines -> Nat]
  BY <1>1, <1>6, LockStep DEF IInv
<1>8. Control'
  <2>1. /\ \A k \in Goroutines : Awaited(k)' <=> Awaited(k)
        /\ \A k \in Goroutines \ {h} : pc'[k] = pc[k]
        /\ pc'[h] = p
    BY <1>1, <1>6 DEF IInv, Awaited, Typed
  <2>2. \A k \in Goroutines : Awaited(k) => helper[k].boss \in Goroutines \ {h}
    BY <1>1 DEF IInv, Control, Typed, Errand
  <2> QED
    BY <1>1, <2>1, <2>2 DEF IInv, Control
<1>9. pc' \in [Goroutines -> PCs]
  BY <1>6 DEF IInv, Typed, PCs
<1> QED
  BY <1>1, <1>6, <1>7, <1>8, <1>9 DEF IInv, Typed

LEMMA SeparateReturnKeeps ==
    ASSUME IInv, NEW h \in Goroutines, SeparateReturn(h)
    PROVE  IInv'
<1> DEFINE b == helper[h].boss
<1>1. /\ pc[h] \in {"run", "panic"}
      /\ helper[h].role = "fn"
      /\ stack[h] = <<>>
      /\ Discard(on[h])
      /\ on' = [on EXCEPT ![h] = NoThread,
                          ![b] = IF locks[b] = 1 THEN NoThread ELSE @]
      /\ locks' = [locks EXCEPT ![h] = 0, ![b] = @ - 1]
      /\ Pop(b)
      /\ pc' = [pc EXCEPT ![h] = "off", ![b] = pc[h]]
      /\ failed' = (failed \ {h}) \union (IF pc[h] = "panic" THEN {b} ELSE {})
      /\ helper' = [helper EXCEPT ![h] = NoErrand(h)]
      /\ UNCHANGED <<made, cleanups>>
  BY DEF SeparateReturn
<1>2. b \in Goroutines /\ b # h /\ SeparateTop(stack[b])
  BY <1>1 DEF IInv, Control, Awaited, Typed, Errand
<1> HIDE DEF b
<1>3. stack[b] # <<>> /\ Top(b).op # "mnt" /\ DOMAIN Top(b).saved = {}
  BY <1>2 DEF SeparateTop, Top
<1>4. /\ Threads'
      /\ alive' \subseteq OSThreads
      /\ ns' \in [OSThreads -> Namespaces]
      /\ ownFs' \in [OSThreads -> BOOLEAN]
      /\ on' \in [Goroutines -> OSThreads \union {NoThread}]
      /\ locks' \in [Goroutines -> Nat]
      /\ stack' \in [Goroutines -> Seq(Frames)]
      /\ Keeps(b)
  BY <1>1, <1>2, <1>3, SeparateReturnStep DEF IInv, Keeps
<1>5. Control'
  BY <1>1, <1>2, <1>4, ReturnStepControl DEF IInv, b
<1>6. pc' \in [Goroutines -> PCs] /\ failed' \subseteq Goroutines
  BY <1>1, <1>2 DEF IInv, Typed, PCs
<1>7. helper' \in [Goroutines -> Errand]
  <2>1. NoErrand(h) \in Errand
    BY Constants DEF NoErrand, Errand, Roles
  <2> QED
    BY <1>1, <2>1 DEF IInv, Typed
<1> QED
  BY <1>1, <1>4, <1>5, <1>6, <1>7 DEF IInv, Typed

Reports(h) ==
    \E p \in {"idle", "done"}, q \in {"run", "panic"} :
        pc' = [pc EXCEPT ![h] = p, ![helper[h].boss] = q]

\* A helper that locks a thread, is done with its errand and reports.
LEMMA ReportKeeps ==
    ASSUME IInv, NEW h \in Goroutines, pc[h] = "setup", helper[h].role # "fn",
           NEW t \in Lockable(h), NEW n \in Namespaces, NEW own \in BOOLEAN,
           Lock(h, t, n, own), Reports(h),
           made' \in Namespaces, failed' \subseteq Goroutines,
           cleanups' \in [Goroutines -> Seq(Cleanups)],
           UNCHANGED <<stack, helper>>
    PROVE  IInv'
<1>1. /\ Threads'
      /\ alive' \subseteq OSThreads
      /\ ns' \in [OSThreads -> Namespaces]
      /\ ownFs' \in [OSThreads -> BOOLEAN]
      /\ on' \in [Goroutines -> OSThreads \union {NoThread}]
      /\ locks' \in [Goroutines -> Nat]
  BY LockStep DEF IInv
<1>2. PICK p \in {"idle", "done"}, q \in {"run", "panic"} :
         pc' = [pc EXCEPT ![h] = p, ![helper[h].boss] = q]
  BY DEF Reports
<1>3. Control'
  BY <1>2, ReportStep DEF IInv
<1>4. pc' \in [Goroutines -> PCs]
  BY <1>2 DEF IInv, Typed, PCs
<1> QED
  BY <1>1, <1>3, <1>4 DEF IInv, Typed, Cleanups

LEMMA IdlerSetupKeeps ==
    ASSUME IInv, NEW h \in Goroutines, IdlerSetup(h)
    PROVE  IInv'
<1> DEFINE b == helper[h].boss
           r == helper[h].root
<1>1. /\ pc[h] = "setup" /\ helper[h].role = "idler"
      /\ UNCHANGED <<stack, helper>>
  BY DEF IdlerSetup
<1>2. PICK t \in Lockable(h) :
        \/ /\ CanMake("mnt")
           /\ Lock(h, t, [ns[t] EXCEPT !["mnt"] = NextNs("mnt")], TRUE)
           /\ Made("mnt")
           /\ cleanups' = [cleanups EXCEPT ![r] = Append(@, <<"fd", h>>)]
           /\ pc' = [pc EXCEPT ![h] = "idle", ![b] = "run"]
           /\ UNCHANGED failed
        \/ /\ \/ /\ Lock(h, t, ns[t], ownFs[t])
                 /\ UNCHANGED made
              \/ /\ CanMake("mnt")
                 /\ Lock(h, t, [ns[t] EXCEPT !["mnt"] = NextNs("mnt")], TRUE)
                 /\ Made("mnt")
           /\ pc' = [pc EXCEPT ![h] = "done", ![b] = "panic"]
           /\ failed' = failed \union {b}
           /\ UNCHANGED cleanups
  BY DEF IdlerSetup
<1>3. /\ b \in Goroutines /\ r \in Goroutines
      /\ ns[t] \in Namespaces /\ ownFs[t] \in BOOLEAN
      /\ made \in Namespaces /\ "mnt" \in NsTypes
      /\ failed \subseteq Goroutines
      /\ cleanups \in [Goroutines -> Seq(Cleanups)]
  BY LockableThread, Constants DEF IInv, Typed, Errand, Cleanups
<1>4. CanMake("mnt") => /\ [ns[t] EXCEPT !["mnt"] = NextNs("mnt")] \in Namespaces
                        /\ Made("mnt") => made' \in Namespaces
  BY <1>3, NextNsType DEF Made
<1>5. [cleanups EXCEPT ![r] = Append(@, <<"fd", h>>)] \in [Goroutines -> Seq(Cleanups)]
  <2>1. <<"fd", h>> \in Cleanups
    BY DEF Cleanups
  <2>2. Append(cleanups[r], <<"fd", h>>) \in Seq(Cleanups)
    BY <1>3, <2>1, AppendProperties
  <2> QED
    BY <1>3, <2>2
<1> HIDE DEF b, r
<1>6. PICK n \in Namespaces, own \in BOOLEAN : Lock(h, t, n, own)
  BY <1>2, <1>3, <1>4
<1>7. /\ made' \in Namespaces /\ failed' \subseteq Goroutines
      /\ cleanups' \in [Goroutines -> Seq(Cleanups)]
  BY <1>2, <1>3, <1>4, <1>5
<1>8. Reports(h)
  BY <1>2 DEF Reports, b
<1>9. helper[h].role # "fn"
  BY <1>1
<1> QED
  BY <1>1, <1>6, <1>7, <1>8, <1>9, ReportKeeps

LEMMA NewNamespaceKeeps ==
    ASSUME IInv, NEW h \in Goroutines, NewNamespace(h)
    PROVE  IInv'
<1>1. /\ pc[h] = "setup" /\ helper[h].role = "maker"
      /\ pc' = [pc EXCEPT ![h] = "done", ![helper[h].boss] = "run"]
      /\ UNCHANGED <<stack, helper, cleanups, failed>>
  BY DEF NewNamespace
<1>2. PICK t \in Lockable(h), typ \in DOMAIN helper[h].want :
        \/ /\ \E own \in {ownFs[t], ownFs[t] \/ typ = "mnt"} : Lock(h, t, ns[t], own)
           /\ UNCHANGED made
        \/ /\ CanMake(typ)
           /\ \E n \in {ns[t], [ns[t] EXCEPT ![typ] = NextNs(typ)]} :
                Lock(h, t, n, ownFs[t] \/ typ = "mnt")
           /\ Made(typ)
  BY DEF NewNamespace
<1>3. typ \in NsTypes
  <2>1. helper[h].want \in Partial
    BY DEF IInv, Typed, Errand
  <2> QED
    BY <2>1 DEF Partial
<1>4. /\ ns[t] \in Namespaces /\ ownFs[t] \in BOOLEAN
      /\ made \in Namespaces
      /\ failed' \subseteq Goroutines
      /\ cleanups' \in [Goroutines -> Seq(Cleanups)]
  BY <1>1, LockableThread DEF IInv, Typed, Cleanups
<1>5. CanMake(typ) => /\ [ns[t] EXCEPT ![typ] = NextNs(typ)] \in Namespaces
                      /\ Made(typ) => made' \in Namespaces
  BY <1>3, <1>4, NextNsType DEF Made
<1>6. (ownFs[t] \/ typ = "mnt") \in BOOLEAN
  OBVIOUS
<1>7. PICK n \in Namespaces, own \in BOOLEAN : Lock(h, t, n, own)
  BY <1>2, <1>4, <1>5, <1>6
<1>8. made' \in Namespaces
  BY <1>2, <1>4, <1>5
<1>9. Reports(h) /\ helper[h].role # "fn"
  BY <1>1 DEF Reports
<1> QED
  BY <1>1, <1>4, <1>7, <1>8, <1>9, ReportKeeps

-----------------------------------------------------------------------------
(* The theorems.                                                           *)

LEMMA InitKeeps == Init => IInv
<1> SUFFICES ASSUME Init PROVE IInv
  OBVIOUS
<1>1. Typed
  <2>1. \A g \in Goroutines : NoErrand(g) \in Errand
    BY Constants DEF NoErrand, Errand, Roles
  <2> QED
    BY <2>1, Constants, EmptySeq DEF Init, Typed, PCs
<1>2. Threads
  BY Constants, EmptySeq DEF Init, Threads, Clean
<1>3. Control
  BY DEF Init, Control, Awaited, NoErrand
<1> QED
  BY <1>1, <1>2, <1>3 DEF IInv

LEMMA NextKeeps == IInv /\ [Next]_vars => IInv'
<1> SUFFICES ASSUME IInv, [Next]_vars PROVE IInv'
  OBVIOUS
<1>1. CASE UNCHANGED vars
  <2>1. UNCHANGED <<alive, ns, ownFs, on, locks, stack, pc, helper, made, cleanups, failed>>
    BY <1>1 DEF vars, threadVars
  <2>2. Typed' /\ Control'
    BY <2>1 DEF IInv, Typed, Control, Awaited
  <2>3. Threads'
    BY <2>1 DEF IInv, Threads, Clean
  <2> QED
    BY <2>2, <2>3 DEF IInv
<1>2. ASSUME NEW g \in Goroutines, CallStep(g)
      PROVE  IInv'
  BY <1>2, EnterTransientKeeps, NewTransientKeeps, GoInKeeps, GoSeparateKeeps,
     MntEnterTransientKeeps, MntNewTransientKeeps, RoomUnshareKeeps
     DEF CallStep
<1>3. ASSUME NEW g \in Goroutines, ReturnStep(g)
      PROVE  IInv'
  BY <1>3, LeaveTransientKeeps, GoOutKeeps, MntLeaveTransientKeeps DEF ReturnStep
<1>4. ASSUME NEW g \in Goroutines, NodeStep(g)
      PROVE  IInv'
  BY <1>4, StartNodeKeeps, NodeEndKeeps, CleanupStepKeeps, RecoverKeeps DEF NodeStep
<1>5. ASSUME NEW g \in Goroutines, HelperStep(g)
      PROVE  IInv'
  BY <1>5, SeparateSetupKeeps, SeparateReturnKeeps, IdlerSetupKeeps,
     NewNamespaceKeeps, HelperEndKeeps DEF HelperStep
<1> QED
  BY <1>1, <1>2, <1>3, <1>4, <1>5 DEF Next

\* The invariant holds in every state.
THEOREM Invariance == Spec => []IInv
BY InitKeeps, NextKeeps, PTL DEF Spec

LEMMA InvariantType == IInv => TypeOK
<1> SUFFICES ASSUME IInv PROVE TypeOK
  OBVIOUS
<1>1. \A g \in Goroutines : on[g] # NoThread <=> locks[g] > 0
  <2> SUFFICES ASSUME NEW g \in Goroutines
               PROVE  on[g] # NoThread <=> locks[g] > 0
    OBVIOUS
  <2>1. locks[g] \in Nat
    BY DEF IInv, Typed
  <2>2. locks[g] = 0 => on[g] = NoThread
    BY DEF IInv, Threads
  <2>3. locks[g] > 0 => on[g] \in OSThreads
    BY DEF IInv, Threads, Typed
  <2> QED
    BY <2>1, <2>2, <2>3, Constants
<1> QED
  BY <1>1 DEF IInv, Typed, TypeOK

LEMMA InvariantPool == IInv => PoolPristine
BY DEF IInv, Typed, Threads, Clean, Pool, PoolPristine

LEMMA InvariantInitial == IInv => InitialThreadPristine
<1> SUFFICES ASSUME IInv PROVE InitialThreadPristine
  OBVIOUS
<1>1. ASSUME NEW g \in Goroutines
      PROVE  on[g] # InitialThread
  <2>1. locks[g] \in Nat
    BY DEF IInv, Typed
  <2>2. locks[g] = 0 => on[g] = NoThread
    BY DEF IInv, Threads
  <2>3. locks[g] > 0 => on[g] # InitialThread
    BY DEF IInv, Threads
  <2> QED
    BY <2>1, <2>2, <2>3, Constants
<1> QED
  BY <1>1, Constants DEF IInv, Threads, Clean, InitialThreadPristine

\* Types, and that a goroutine has a thread of its own exactly while its calls
\* of LockOSThread are not all undone.
THEOREM TypeCorrect == Spec => []TypeOK
BY Invariance, InvariantType, PTL

\* No thread that a goroutine has switched and not restored is ever run
\* another goroutine on: EnterTransient, NewTransient, Execute, the functions
\* of mntns and newNamespace unlock only what they have restored, whatever the
\* nesting of calls and whatever fails.
THEOREM PoolStaysPristine == Spec => []PoolPristine
BY Invariance, InvariantPool, PTL

\* Nothing switches the thread that the main goroutine was locked to by the
\* init function of package spacetest.
THEOREM InitialThreadStaysPristine == Spec => []InitialThreadPristine
BY Invariance, InvariantInitial, PTL
=============================================================================
