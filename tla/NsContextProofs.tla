--------------------------- MODULE NsContextProofs ---------------------------
(***************************************************************************)
(* For any number of goroutines, threads, types of namespaces, nested      *)
(* calls and failures: a call that returns without a failure leaves its    *)
(* goroutine in the namespaces it was called in, and the function passed   *)
(* to Execute with a mount namespace runs in the ones it is to run in.     *)
(* PID namespaces are the exception: the code saves references to the PID  *)
(* namespace of the thread itself instead of the one for its children.     *)
(***************************************************************************)
EXTENDS NsThreadsProofs

-----------------------------------------------------------------------------
(* The inductive invariant.                                                *)

\* Equal namespaces, except for types in T and for PID namespaces.
SameBut(n, m, T) == \A typ \in NsTypes \ (T \union {"pid"}) : n[typ] = m[typ]

\* What the calls on a stack have switched, and no more, tells the namespaces
\* of their thread apart from those before the first one.
Accounts(n, st) ==
    /\ st # <<>> => SameBut(n, st[Len(st)].before, DOMAIN st[Len(st)].saved)
    /\ \A i \in 2..Len(st) :
         SameBut(st[i].before, st[i - 1].before, DOMAIN st[i - 1].saved)
    /\ \A i \in 1..Len(st), typ \in NsTypes \ {"pid"} :
         typ \in DOMAIN st[i].saved => st[i].saved[typ] = st[i].before[typ]

\* The namespaces of a goroutine once all its calls have returned.
Base(h) == IF stack[h] = <<>> THEN ns[on[h]] ELSE stack[h][1].before

\* A separate goroutine of Execute that has finished its setup.
Works(h) == helper[h].role = "fn" /\ pc[h] \in {"run", "panic", "blocked"}

Accounted == \A h \in Goroutines \ failed : Accounts(ns[on[h]], stack[h])

\* A separate goroutine has a lock no call of its own undoes.
Pinned == \A h \in Goroutines : Works(h) => locks[h] > Len(stack[h])

InContext ==
    \A h \in Goroutines \ failed :
        Works(h) =>
            SameBut(Base(h), Switch(ns[on[helper[h].boss]], helper[h].want), {})

CInv == Accounted /\ Pinned /\ InContext

-----------------------------------------------------------------------------
(* Calls and returns on a stack that accounts for its thread.              *)

LEMMA AccountsPush ==
    ASSUME NEW n, NEW m, NEW st \in Seq(Frames), NEW f \in Frames,
           Accounts(n, st), f.before = n, SameBut(m, n, DOMAIN f.saved),
           \A typ \in DOMAIN f.saved \ {"pid"} : f.saved[typ] = n[typ]
    PROVE  Accounts(m, Append(st, f))
<1> DEFINE new == Append(st, f)
<1>1. /\ Len(new) = Len(st) + 1
      /\ \A i \in 1..Len(st) : new[i] = st[i]
      /\ new[Len(st) + 1] = f
      /\ Len(st) \in Nat
      /\ st # <<>> => Len(st) > 0
  BY AppendProperties, LenProperties, EmptySeq
<1> HIDE DEF new
<1>2. SameBut(m, new[Len(new)].before, DOMAIN new[Len(new)].saved)
  BY <1>1
<1>3. ASSUME NEW i \in 2..Len(new)
      PROVE  SameBut(new[i].before, new[i - 1].before, DOMAIN new[i - 1].saved)
  <2>1. CASE i = Len(st) + 1
    <3>1. new[i].before = n /\ new[i - 1] = st[Len(st)] /\ st # <<>>
      BY <1>1, <2>1, EmptySeq
    <3> QED
      BY <3>1 DEF Accounts
  <2>2. CASE i # Len(st) + 1
    <3>1. i \in 2..Len(st) /\ new[i] = st[i] /\ new[i - 1] = st[i - 1]
      BY <1>1, <2>2
    <3> QED
      BY <3>1 DEF Accounts
  <2> QED
    BY <2>1, <2>2
<1>4. ASSUME NEW i \in 1..Len(new), NEW typ \in NsTypes \ {"pid"},
             typ \in DOMAIN new[i].saved
      PROVE  new[i].saved[typ] = new[i].before[typ]
  <2>1. CASE i = Len(st) + 1
    BY <1>1, <1>4, <2>1
  <2>2. CASE i # Len(st) + 1
    <3>1. i \in 1..Len(st) /\ new[i] = st[i]
      BY <1>1, <2>2
    <3> QED
      BY <1>4, <3>1 DEF Accounts
  <2> QED
    BY <2>1, <2>2
<1> QED
  BY <1>2, <1>3, <1>4 DEF Accounts, new

LEMMA AccountsPop ==
    ASSUME NEW n, NEW st \in Seq(Frames), st # <<>>, Accounts(n, st)
    PROVE  LET top == st[Len(st)]
           IN  /\ SameBut(Switch(n, top.saved), top.before, {})
               /\ Accounts(Switch(n, top.saved), SubSeq(st, 1, Len(st) - 1))
<1> DEFINE top == st[Len(st)]
           new == SubSeq(st, 1, Len(st) - 1)
           m   == Switch(n, top.saved)
<1>1. /\ Len(st) \in Nat \ {0}
      /\ Len(new) = Len(st) - 1
      /\ \A i \in 1..(Len(st) - 1) : new[i] = st[i]
      /\ new \in Seq(Frames)
  BY FrontProperties
<1>2. SameBut(m, top.before, {})
  <2> SUFFICES ASSUME NEW typ \in NsTypes \ {"pid"}
               PROVE  m[typ] = top.before[typ]
    BY DEF SameBut
  <2>1. CASE typ \in DOMAIN top.saved
    BY <1>1, <2>1 DEF Accounts, Switch
  <2>2. CASE typ \notin DOMAIN top.saved
    BY <1>1, <2>2 DEF Accounts, Switch, SameBut
  <2> QED
    BY <2>1, <2>2
<1> HIDE DEF new, m
<1>3. ASSUME new # <<>>
      PROVE  SameBut(m, new[Len(new)].before, DOMAIN new[Len(new)].saved)
  <2>1. Len(new) # 0
    BY <1>1, <1>3, EmptySeq
  <2>2. Len(st) \in 2..Len(st) /\ new[Len(new)] = st[Len(st) - 1]
    BY <1>1, <2>1
  <2>3. SameBut(top.before, new[Len(new)].before, DOMAIN new[Len(new)].saved)
    BY <2>2 DEF Accounts
  <2> QED
    BY <1>2, <2>3 DEF SameBut
<1>4. ASSUME NEW i \in 2..Len(new)
      PROVE  SameBut(new[i].before, new[i - 1].before, DOMAIN new[i - 1].saved)
  <2>1. i \in 2..Len(st) /\ new[i] = st[i] /\ new[i - 1] = st[i - 1]
    BY <1>1
  <2> QED
    BY <2>1 DEF Accounts
<1>5. ASSUME NEW i \in 1..Len(new), NEW typ \in NsTypes \ {"pid"},
             typ \in DOMAIN new[i].saved
      PROVE  new[i].saved[typ] = new[i].before[typ]
  <2>1. i \in 1..Len(st) /\ new[i] = st[i]
    BY <1>1
  <2> QED
    BY <1>5, <2>1 DEF Accounts
<1>6. Accounts(m, new)
  BY <1>3, <1>4, <1>5 DEF Accounts
<1> QED
  BY <1>2, <1>6 DEF m, new

-----------------------------------------------------------------------------
(* What a step is to one of the goroutines, and what follows from that.    *)

\* Nothing changes about its thread and its calls.
Still(k) ==
    /\ stack'[k] = stack[k]
    /\ locks'[k] = locks[k]
    /\ on'[k] = on[k]
    /\ locks[k] > 0 => ns'[on[k]] = ns[on[k]]

StaysFailed(k) == k \in failed => k \in failed'

Rests(k) == Still(k) /\ StaysFailed(k)

\* It fails, and has lost none of the locks that no call undoes.
Fails(k) ==
    /\ k \in failed'
    /\ locks[k] + Len(stack'[k]) <= locks'[k] + Len(stack[k])

\* It is in a call that has switched some types and saved what they were.
Enters(k) ==
    /\ StaysFailed(k)
    /\ locks'[k] = locks[k] + 1
    /\ \E t \in Lockable(k), f \in Frames :
         /\ on'[k] = t
         /\ stack'[k] = Append(stack[k], f)
         /\ f.before = ns[t]
         /\ SameBut(ns'[t], ns[t], DOMAIN f.saved)
         /\ \A typ \in DOMAIN f.saved \ {"pid"} : f.saved[typ] = ns[t][typ]

\* It is back from a call that has restored what it had saved.
Leaves(k) ==
    /\ StaysFailed(k)
    /\ stack[k] # <<>>
    /\ stack'[k] = Below(k)
    /\ locks'[k] \in {locks[k], locks[k] - 1}
    /\ locks'[k] > 0 => on'[k] = on[k]
    /\ ns'[on[k]] = Switch(ns[on[k]], Top(k).saved)

\* It gets to where nothing is to be said of it.
Stops(k) == stack[k] = <<>> /\ stack'[k] = <<>> /\ ~Works(k)'

\* A separate goroutine gets its thread ready, or fails.
SetsUp(k) ==
    /\ pc[k] = "setup"
    /\ stack[k] = <<>> /\ stack'[k] = <<>>
    /\ Works(k)'
    /\ locks'[k] > 0
    /\ \/ k \in failed'
       \/ SameBut(ns'[on'[k]],
                  Switch(ns[on[helper[k].boss]], helper[k].want), {})

Moves(k) ==
    Rests(k) \/ Fails(k) \/ Enters(k) \/ Leaves(k) \/ Stops(k) \/ SetsUp(k)

\* A separate goroutine goes on working for the one that waits for it.
GoesOn(k) ==
    Works(k)' => /\ helper'[k] = helper[k]
                 /\ Works(k) \/ SetsUp(k)
                 /\ Still(helper[k].boss)

\* What RestoresCaller says, for all types but "pid".
Restored(g) ==
    /\ Len(stack'[g]) < Len(stack[g])
    /\ g \notin failed'
    => SameBut(ns'[on[g]], Top(g).before, {})

LEMMA EntersAccounted ==
    ASSUME IInv, Accounted, NEW k \in Goroutines, Enters(k)
    PROVE  k \notin failed' => Accounts(ns'[on'[k]], stack'[k])
<1> SUFFICES ASSUME k \notin failed' PROVE Accounts(ns'[on'[k]], stack'[k])
  OBVIOUS
<1>1. PICK t \in Lockable(k), f \in Frames :
         /\ on'[k] = t
         /\ stack'[k] = Append(stack[k], f)
         /\ f.before = ns[t]
         /\ SameBut(ns'[t], ns[t], DOMAIN f.saved)
         /\ \A typ \in DOMAIN f.saved \ {"pid"} : f.saved[typ] = ns[t][typ]
  BY DEF Enters
<1>2. stack[k] \in Seq(Frames) /\ locks[k] \in Nat
  BY DEF IInv, Typed
<1>3. Accounts(ns[t], stack[k])
  <2>1. CASE locks[k] > 0
    <3>1. t = on[k]
      BY <2>1 DEF Lockable
    <3> QED
      BY <3>1 DEF Accounted, Enters, StaysFailed
  <2>2. CASE ~(locks[k] > 0)
    <3>1. Len(stack[k]) <= locks[k] /\ Len(stack[k]) \in Nat
      BY <1>2, LenProperties DEF IInv, Threads
    <3>2. stack[k] = <<>>
      BY <1>2, <2>2, <3>1, EmptySeq
    <3> QED
      BY <3>2, EmptySeq DEF Accounts
  <2> QED
    BY <2>1, <2>2
<1> QED
  BY <1>1, <1>2, <1>3, AccountsPush

LEMMA LeavesAccounted ==
    ASSUME IInv, Accounted, NEW k \in Goroutines, Leaves(k), k \notin failed'
    PROVE  /\ SameBut(ns'[on[k]], Top(k).before, {})
           /\ locks'[k] > 0 => Accounts(ns'[on'[k]], stack'[k])
<1> DEFINE st == stack[k]
<1>1. Accounts(ns[on[k]], st) /\ st \in Seq(Frames) /\ st # <<>>
  BY DEF Leaves, StaysFailed, Accounted, IInv, Typed
<1>2. /\ ns'[on[k]] = Switch(ns[on[k]], st[Len(st)].saved)
      /\ stack'[k] = SubSeq(st, 1, Len(st) - 1)
      /\ locks'[k] > 0 => on'[k] = on[k]
      /\ Top(k) = st[Len(st)]
  BY DEF Leaves, Below, Top
<1> HIDE DEF st
<1> QED
  BY <1>1, <1>2, AccountsPop

LEMMA AccountedKept ==
    ASSUME IInv, IInv', Accounted, \A k \in Goroutines : Moves(k)
    PROVE  Accounted'
<1> SUFFICES ASSUME NEW k \in Goroutines, k \notin failed'
             PROVE  Accounts(ns'[on'[k]], stack'[k])
  BY DEF Accounted
<1>1. stack'[k] = <<>> => Accounts(ns'[on'[k]], stack'[k])
  BY EmptySeq DEF Accounts
<1>2. CASE Rests(k)
  <2>1. CASE locks[k] > 0
    BY <1>2, <2>1 DEF Rests, Still, StaysFailed, Accounted
  <2>2. CASE ~(locks[k] > 0)
    <3>1. /\ Len(stack[k]) <= locks[k] /\ Len(stack[k]) \in Nat
          /\ stack[k] \in Seq(Frames) /\ locks[k] \in Nat
      BY LenProperties DEF IInv, Typed, Threads
    <3>2. stack[k] = <<>>
      BY <2>2, <3>1, EmptySeq
    <3> QED
      BY <1>1, <1>2, <3>2 DEF Rests, Still
  <2> QED
    BY <2>1, <2>2
<1>3. CASE Enters(k)
  BY <1>3, EntersAccounted
<1>4. CASE Leaves(k)
  <2>1. CASE locks'[k] > 0
    BY <1>4, <2>1, LeavesAccounted
  <2>2. CASE ~(locks'[k] > 0)
    <3>1. stack'[k] \in Seq(Frames) /\ locks'[k] \in Nat /\ Len(stack'[k]) <= locks'[k]
      BY DEF IInv, Typed, Threads
    <3>2. stack'[k] = <<>>
      <4> DEFINE st == stack'[k]
      <4> HIDE DEF st
      <4>1. st \in Seq(Frames) /\ Len(st) = 0
        BY <2>2, <3>1, LenProperties DEF st
      <4> QED
        BY <4>1, EmptySeq DEF st
    <3> QED
      BY <1>1, <3>2
  <2> QED
    BY <2>1, <2>2
<1> QED
  BY <1>1, <1>2, <1>3, <1>4 DEF Moves, Fails, Stops, SetsUp

\* How many locks it has that no call on its stack undoes.
LEMMA PinnedKept ==
    ASSUME IInv, IInv', Pinned, \A k \in Goroutines : Moves(k) /\ GoesOn(k)
    PROVE  Pinned'
<1> SUFFICES ASSUME NEW k \in Goroutines, Works(k)'
             PROVE  locks'[k] > Len(stack'[k])
  BY DEF Pinned
<1>1. /\ Len(stack[k]) \in Nat /\ locks[k] \in Nat /\ stack[k] \in Seq(Frames)
      /\ Len(stack'[k]) \in Nat /\ locks'[k] \in Nat
  BY LenProperties DEF IInv, Typed
<1>2. CASE SetsUp(k)
  BY <1>2, EmptySeq DEF SetsUp
<1>3. CASE Works(k)
  <2>1. locks[k] > Len(stack[k])
    BY <1>3 DEF Pinned
  <2>2. CASE Rests(k)
    BY <2>1, <2>2 DEF Rests, Still
  <2>3. CASE Fails(k)
    BY <1>1, <2>1, <2>3 DEF Fails
  <2>4. CASE Enters(k)
    <3>1. PICK f \in Frames : stack'[k] = Append(stack[k], f)
      BY <2>4 DEF Enters
    <3>2. Len(stack'[k]) = Len(stack[k]) + 1
      BY <1>1, <3>1, AppendProperties
    <3> QED
      BY <1>1, <2>1, <2>4, <3>2 DEF Enters
  <2>5. CASE Leaves(k)
    <3>1. Len(stack'[k]) = Len(stack[k]) - 1
      BY <2>5, FramesType DEF Leaves, IInv
    <3> QED
      BY <1>1, <2>1, <2>5, <3>1 DEF Leaves
  <2> QED
    BY <1>2, <2>2, <2>3, <2>4, <2>5 DEF Moves, Stops
<1> QED
  BY <1>2, <1>3 DEF GoesOn

LEMMA InContextKept ==
    ASSUME IInv, IInv', CInv, \A k \in Goroutines : Moves(k) /\ GoesOn(k)
    PROVE  InContext'
<1> SUFFICES ASSUME NEW k \in Goroutines, k \notin failed', Works(k)'
             PROVE  SameBut(Base(k)',
                            Switch(ns'[on'[helper'[k].boss]], helper'[k].want), {})
  BY DEF InContext
<1> DEFINE b    == helper[k].boss
           goal == Switch(ns[on[b]], helper[k].want)
<1>1. helper'[k] = helper[k] /\ Still(b) /\ (Works(k) \/ SetsUp(k))
  BY DEF GoesOn
<1>2. ns'[on'[b]] = ns[on[b]]
  <2>1. Awaited(k) /\ helper[k].role = "fn"
    <3>1. CASE Works(k)
      BY <3>1 DEF Works, Awaited
    <3>2. CASE SetsUp(k)
      BY <1>1, <3>2 DEF SetsUp, Works, Awaited, b
    <3> QED
      BY <1>1, <3>1, <3>2
  <2>2. SeparateTop(stack[b]) /\ b \in Goroutines
    BY <2>1 DEF IInv, Control, Typed, Errand
  <2>3. locks[b] > 0
    <3>1. /\ stack[b] \in Seq(Frames) /\ stack[b] # <<>>
          /\ Len(stack[b]) <= locks[b] /\ locks[b] \in Nat
      BY <2>2 DEF SeparateTop, IInv, Typed, Threads
    <3> QED
      BY <3>1, LenProperties, EmptySeq
  <2> QED
    BY <1>1, <2>3 DEF Still
<1> HIDE DEF b
<1>3. SUFFICES SameBut(Base(k)', goal, {})
  BY <1>1, <1>2 DEF b
<1> HIDE DEF goal
<1>4. CASE SetsUp(k)
  BY <1>4 DEF SetsUp, Base, goal, b
<1>5. CASE Works(k)
  <2>1. k \notin failed => SameBut(Base(k), goal, {})
    BY <1>5 DEF CInv, InContext, goal, b
  <2>2. /\ locks[k] > Len(stack[k]) /\ locks[k] \in Nat
        /\ stack[k] \in Seq(Frames) /\ Len(stack[k]) \in Nat
    BY <1>5, LenProperties DEF CInv, Pinned, IInv, Typed
  <2>3. CASE Rests(k)
    <3>1. Base(k)' = Base(k)
      BY <2>2, <2>3 DEF Rests, Still, Base
    <3> QED
      BY <2>1, <2>3, <3>1 DEF Rests, StaysFailed
  <2>4. CASE Enters(k)
    <3>1. PICK f \in Frames : stack'[k] = Append(stack[k], f) /\ f.before = ns[on[k]]
      BY <2>2, <2>4 DEF Enters, Lockable
    <3>2. /\ Len(stack'[k]) = Len(stack[k]) + 1
          /\ \A i \in 1..Len(stack[k]) : stack'[k][i] = stack[k][i]
          /\ stack'[k][Len(stack[k]) + 1] = f
          /\ stack'[k] # <<>>
      BY <2>2, <3>1, AppendProperties
    <3>3. Base(k)' = Base(k)
      <4>1. CASE stack[k] = <<>>
        BY <3>1, <3>2, <4>1, EmptySeq DEF Base
      <4>2. CASE stack[k] # <<>>
        <5>1. 1 \in 1..Len(stack[k])
          BY <2>2, <4>2, EmptySeq
        <5> QED
          BY <3>2, <4>2, <5>1 DEF Base
      <4> QED
        BY <4>1, <4>2
    <3> QED
      BY <2>1, <2>4, <3>3 DEF Enters, StaysFailed
  <2>5. CASE Leaves(k)
    <3>1. /\ stack[k] # <<>>
          /\ Len(stack[k]) \in Nat \ {0}
          /\ stack'[k] \in Seq(Frames)
          /\ Len(stack'[k]) = Len(stack[k]) - 1
          /\ \A i \in 1..(Len(stack[k]) - 1) : stack'[k][i] = stack[k][i]
      BY <2>2, <2>5, FrontProperties DEF Leaves, Below
    <3>2. on'[k] = on[k]
      BY <2>2, <2>5, <3>1 DEF Leaves
    <3>3. SameBut(Base(k)', Base(k), {})
      <4>1. CASE stack'[k] = <<>>
        <5>1. Len(stack[k]) = 1
          BY <3>1, <4>1, EmptySeq
        <5>2. SameBut(ns'[on[k]], stack[k][1].before, {})
          BY <2>5, <5>1, LeavesAccounted DEF CInv, Top
        <5> QED
          BY <3>1, <3>2, <4>1, <5>2 DEF Base
      <4>2. CASE stack'[k] # <<>>
        <5>1. 1 \in 1..(Len(stack[k]) - 1)
          BY <3>1, <4>2, EmptySeq
        <5>2. Base(k)' = Base(k)
          BY <3>1, <4>2, <5>1 DEF Base
        <5> QED
          BY <5>2 DEF SameBut
      <4> QED
        BY <4>1, <4>2
    <3> QED
      BY <2>1, <2>5, <3>3 DEF Leaves, StaysFailed, SameBut
  <2> QED
    BY <1>4, <2>3, <2>4, <2>5 DEF Moves, Fails, Stops
<1> QED
  BY <1>1, <1>4, <1>5

\* A step that consists of moves keeps the invariant, and what has returned
\* has restored its thread.
LEMMA MovesKeep ==
    ASSUME IInv, IInv', CInv, \A k \in Goroutines : Moves(k) /\ GoesOn(k)
    PROVE  CInv' /\ \A g \in Goroutines : Restored(g)
<1>1. CInv'
  BY AccountedKept, PinnedKept, InContextKept DEF CInv
<1>2. ASSUME NEW g \in Goroutines, Len(stack'[g]) < Len(stack[g]), g \notin failed'
      PROVE  SameBut(ns'[on[g]], Top(g).before, {})
  <2>1. /\ Len(stack[g]) \in Nat /\ Len(stack'[g]) \in Nat
        /\ stack[g] \in Seq(Frames)
    BY LenProperties DEF IInv, Typed
  <2>2. stack'[g] # stack[g]
    BY <1>2, <2>1
  <2>3. ~Enters(g)
    <3> SUFFICES ASSUME Enters(g) PROVE FALSE
      OBVIOUS
    <3>1. PICK f \in Frames : stack'[g] = Append(stack[g], f)
      BY DEF Enters
    <3> QED
      BY <1>2, <2>1, <3>1, AppendProperties
  <2>4. Leaves(g)
    BY <1>2, <2>2, <2>3 DEF Moves, Rests, Still, Fails, Stops, SetsUp
  <2> QED
    BY <1>2, <2>4, LeavesAccounted DEF CInv
<1> QED
  BY <1>1, <1>2 DEF Restored

-----------------------------------------------------------------------------
(* Each action consists of moves.                                          *)

\* What happens to an idler is done by others.
IdlersRest == \A k \in Goroutines : pc[k] = "idle" => Still(k)

\* Only one goroutine moves, which is not a waiting one.
Alone(g) ==
    /\ pc[g] \notin {"blocked", "idle"}
    /\ Moves(g)
    /\ \A k \in Goroutines \ {g} : Rests(k)
    /\ \A k \in Goroutines :
         Works(k)' => helper'[k] = helper[k] /\ (Works(k) \/ SetsUp(k))

LEMMA AloneMoves ==
    ASSUME IInv, NEW g \in Goroutines, Alone(g)
    PROVE  \A k \in Goroutines : Moves(k) /\ GoesOn(k)
<1> SUFFICES ASSUME NEW k \in Goroutines PROVE Moves(k) /\ GoesOn(k)
  OBVIOUS
<1>1. Moves(k)
  BY DEF Alone, Moves
<1>2. ASSUME Works(k)'
      PROVE  Still(helper[k].boss)
  <2>1. helper'[k] = helper[k] /\ (Works(k) \/ SetsUp(k))
    BY <1>2 DEF Alone
  <2>2. Awaited(k)
    BY <1>2, <2>1 DEF Awaited, Works, SetsUp
  <2>3. pc[helper[k].boss] = "blocked" /\ helper[k].boss \in Goroutines
    BY <2>2 DEF IInv, Control, Typed, Errand
  <2> QED
    BY <2>3 DEF Alone, Rests
<1> QED
  BY <1>1, <1>2 DEF GoesOn, Alone

\* Locking a thread concerns nobody else.
LEMMA LockConcernsOne ==
    ASSUME IInv, NEW g \in Goroutines, NEW t \in Lockable(g), NEW n, NEW own,
           Lock(g, t, n, own)
    PROVE  /\ locks'[g] = locks[g] + 1 /\ on'[g] = t /\ ns'[t] = n
           /\ locks[g] \in Nat
           /\ \A k \in Goroutines \ {g} :
                /\ locks'[k] = locks[k]
                /\ on'[k] = on[k]
                /\ locks[k] > 0 => ns'[on[k]] = ns[on[k]]
<1>1. /\ on' = [on EXCEPT ![g] = t]
      /\ locks' = [locks EXCEPT ![g] = @ + 1]
      /\ ns' = [ns EXCEPT ![t] = n]
  BY DEF Lock
<1>2. t \in OSThreads /\ \A k \in Goroutines \ {g} : on[k] # t
  BY LockableThread DEF IInv
<1>3. ASSUME NEW k \in Goroutines \ {g}, locks[k] > 0
      PROVE  ns'[on[k]] = ns[on[k]]
  <2>1. on[k] \in OSThreads /\ on[k] # t
    BY <1>2, <1>3 DEF IInv, Threads, Typed
  <2> QED
    BY <1>1, <2>1 DEF IInv, Typed
<1> QED
  BY <1>1, <1>2, <1>3 DEF IInv, Typed

\* A goroutine that is running goes on, or panics.
StaysRunning(g) ==
    /\ pc[g] \in {"run", "panic"}
    /\ \E p \in {"run", "panic"} : pc' = [pc EXCEPT ![g] = p]
    /\ helper' = helper
    /\ failed \subseteq failed'

LEMMA RunningAlone ==
    ASSUME IInv, NEW g \in Goroutines, StaysRunning(g), Moves(g),
           \A k \in Goroutines \ {g} : Still(k)
    PROVE  Alone(g)
<1>1. \A k \in Goroutines : Works(k)' => Works(k)
  BY DEF StaysRunning, Works, IInv, Typed
<1>2. \A k \in Goroutines : StaysFailed(k)
  BY DEF StaysRunning, StaysFailed
<1> QED
  BY <1>1, <1>2 DEF StaysRunning, Alone, Rests

\* A call has switched the types it has saved, or has failed.
LEMMA CallAlone ==
    ASSUME IInv, NEW g \in Goroutines, NEW t \in Lockable(g), NEW n, NEW own,
           Lock(g, t, n, own), StaysRunning(g),
           \/ stack' = stack /\ g \in failed'
           \/ \E op \in {"enter", "inout", "separate", "mnt"}, T \in SUBSET NsTypes :
                 /\ Push(g, op, CurrentOf(ns[t], T), ns[t])
                 /\ SameBut(n, ns[t], T)
    PROVE  Alone(g)
<1>1. /\ locks'[g] = locks[g] + 1 /\ on'[g] = t /\ ns'[t] = n
      /\ locks[g] \in Nat
      /\ \A k \in Goroutines \ {g} :
           /\ locks'[k] = locks[k]
           /\ on'[k] = on[k]
           /\ locks[k] > 0 => ns'[on[k]] = ns[on[k]]
  BY LockConcernsOne
<1>2. \A k \in Goroutines \ {g} : Still(k)
  BY <1>1 DEF Still, Push, IInv, Typed
<1>3. CASE stack' = stack /\ g \in failed'
  <2>1. Len(stack[g]) \in Nat
    BY LenProperties DEF IInv, Typed
  <2>2. Fails(g)
    BY <1>1, <1>3, <2>1 DEF Fails
  <2> QED
    BY <1>2, <2>2, RunningAlone DEF Moves
<1>4. ASSUME NEW op \in {"enter", "inout", "separate", "mnt"},
             NEW T \in SUBSET NsTypes,
             Push(g, op, CurrentOf(ns[t], T), ns[t]),
             SameBut(n, ns[t], T)
      PROVE  Alone(g)
  <2> DEFINE f == [op |-> op, saved |-> CurrentOf(ns[t], T), before |-> ns[t]]
  <2>1. ns[t] \in Namespaces
    BY LockableThread DEF IInv
  <2>2. f \in Frames /\ DOMAIN f.saved = T /\ f.before = ns[t]
    BY <2>1, FrameType
  <2>3. \A typ \in T \ {"pid"} : f.saved[typ] = ns[t][typ]
    BY DEF CurrentOf
  <2>4. stack'[g] = Append(stack[g], f)
    BY <1>4 DEF Push, IInv, Typed
  <2> HIDE DEF f
  <2>5. Enters(g)
    BY <1>1, <1>4, <2>2, <2>3, <2>4 DEF Enters, StaysFailed, StaysRunning
  <2> QED
    BY <1>2, <2>5, RunningAlone DEF Moves
<1> QED
  BY <1>3, <1>4

LEMMA PanicRuns ==
    ASSUME NEW g \in Goroutines, pc[g] \in {"run", "panic"}, Panic(g), helper' = helper
    PROVE  StaysRunning(g) /\ g \in failed'
BY DEF Panic, StaysRunning

LEMMA SameRuns ==
    ASSUME IInv, NEW g \in Goroutines, pc[g] \in {"run", "panic"},
           UNCHANGED <<pc, failed>>, helper' = helper
    PROVE  StaysRunning(g)
BY SamePc DEF IInv, StaysRunning

LEMMA EnterTransientMoves ==
    ASSUME IInv, NEW g \in Goroutines, EnterTransient(g)
    PROVE  Alone(g)
<1>1. pc[g] \in {"run", "panic"} /\ helper' = helper
  BY DEF EnterTransient, MayCall, Runs
<1>2. PICK typ \in Enterable, t \in Lockable(g) :
         \/ /\ Lock(g, t, [ns[t] EXCEPT ![typ] = NextNs(typ)], ownFs[t])
            /\ Push(g, "enter", CurrentOf(ns[t], {typ}), ns[t])
            /\ UNCHANGED <<pc, failed>>
         \/ /\ Lock(g, t, ns[t], ownFs[t])
            /\ Panic(g)
            /\ stack' = stack
  BY DEF EnterTransient
<1>3. ns[t] \in Namespaces /\ {typ} \in SUBSET NsTypes
  BY LockableThread DEF IInv, Enterable
<1>4. SameBut([ns[t] EXCEPT ![typ] = NextNs(typ)], ns[t], {typ})
  BY <1>3 DEF SameBut, Namespaces
<1>5. CASE /\ Lock(g, t, [ns[t] EXCEPT ![typ] = NextNs(typ)], ownFs[t])
           /\ Push(g, "enter", CurrentOf(ns[t], {typ}), ns[t])
           /\ UNCHANGED <<pc, failed>>
  <2>1. StaysRunning(g)
    BY <1>1, <1>5, SameRuns
  <2> QED
    BY <1>3, <1>4, <1>5, <2>1, CallAlone
<1>6. CASE Lock(g, t, ns[t], ownFs[t]) /\ Panic(g) /\ stack' = stack
  BY <1>1, <1>6, PanicRuns, CallAlone
<1> QED
  BY <1>2, <1>5, <1>6

LEMMA NewTransientMoves ==
    ASSUME IInv, NEW g \in Goroutines, NewTransient(g)
    PROVE  Alone(g)
<1>1. pc[g] \in {"run", "panic"} /\ helper' = helper /\ stack' = stack
  BY DEF NewTransient, MayCall, Runs
<1>2. CASE UNCHANGED <<threadVars, on, locks, pc, failed>>
  <2>1. StaysRunning(g)
    BY <1>1, <1>2, SameRuns
  <2>2. \A k \in Goroutines : Still(k)
    BY <1>1, <1>2 DEF Still, threadVars
  <2>3. Rests(g)
    BY <1>2, <2>2 DEF Rests, StaysFailed
  <2> QED
    BY <2>1, <2>2, <2>3, RunningAlone DEF Moves
<1>3. CASE (\E t \in Lockable(g) : \E n, own : Lock(g, t, n, own)) /\ Panic(g)
  BY <1>1, <1>3, PanicRuns, CallAlone
<1> QED
  BY <1>2, <1>3 DEF NewTransient

LEMMA GoInMoves ==
    ASSUME IInv, NEW g \in Goroutines, GoIn(g)
    PROVE  Alone(g)
<1>1. pc[g] \in {"run", "panic"} /\ helper' = helper
  BY DEF GoIn, MayCall, Runs
<1>2. PICK to \in Lists(NsTypes \ {"mnt"}), t \in Lockable(g) :
         \/ /\ Lock(g, t, Switch(ns[t], to), ownFs[t])
            /\ Push(g, "inout", CurrentOf(ns[t], DOMAIN to), ns[t])
            /\ UNCHANGED <<pc, failed>>
         \/ /\ \E S, R \in SUBSET DOMAIN to :
                  Lock(g, t,
                       Switch(Switch(ns[t], [typ \in S |-> to[typ]]),
                              CurrentOf(ns[t], R)),
                       ownFs[t])
            /\ Panic(g)
            /\ stack' = stack
  BY DEF GoIn
<1>3. CASE /\ Lock(g, t, Switch(ns[t], to), ownFs[t])
           /\ Push(g, "inout", CurrentOf(ns[t], DOMAIN to), ns[t])
           /\ UNCHANGED <<pc, failed>>
  <2>1. StaysRunning(g)
    BY <1>1, <1>3, SameRuns
  <2>2. DOMAIN to \in SUBSET NsTypes
    BY ListsType
  <2>3. SameBut(Switch(ns[t], to), ns[t], DOMAIN to)
    BY DEF SameBut, Switch
  <2> QED
    BY <1>3, <2>1, <2>2, <2>3, CallAlone
<1>4. CASE /\ \E n : Lock(g, t, n, ownFs[t])
           /\ Panic(g)
           /\ stack' = stack
  BY <1>1, <1>4, PanicRuns, CallAlone
<1> QED
  BY <1>2, <1>3, <1>4

LEMMA MntEnterTransientMoves ==
    ASSUME IInv, NEW g \in Goroutines, MntEnterTransient(g)
    PROVE  Alone(g)
<1>1. pc[g] \in {"run", "panic"} /\ helper' = helper
  BY DEF MntEnterTransient, MayCall, Runs
<1>2. PICK t \in Lockable(g) :
         \/ /\ Lock(g, t, [ns[t] EXCEPT !["mnt"] = NextNs("mnt")], TRUE)
            /\ Push(g, "mnt", CurrentOf(ns[t], {"mnt"}), ns[t])
            /\ UNCHANGED <<pc, failed>>
         \/ /\ \E n, own : Lock(g, t, n, own)
            /\ Panic(g)
            /\ stack' = stack
  BY DEF MntEnterTransient
<1>3. CASE /\ Lock(g, t, [ns[t] EXCEPT !["mnt"] = NextNs("mnt")], TRUE)
           /\ Push(g, "mnt", CurrentOf(ns[t], {"mnt"}), ns[t])
           /\ UNCHANGED <<pc, failed>>
  <2>1. StaysRunning(g)
    BY <1>1, <1>3, SameRuns
  <2>2. ns[t] \in Namespaces /\ {"mnt"} \in SUBSET NsTypes
    BY LockableThread, Constants DEF IInv
  <2>3. SameBut([ns[t] EXCEPT !["mnt"] = NextNs("mnt")], ns[t], {"mnt"})
    BY <2>2 DEF SameBut, Namespaces
  <2> QED
    BY <1>3, <2>1, <2>2, <2>3, CallAlone
<1>4. CASE /\ \E n, own : Lock(g, t, n, own)
           /\ Panic(g)
           /\ stack' = stack
  BY <1>1, <1>4, PanicRuns, CallAlone
<1> QED
  BY <1>2, <1>3, <1>4

\* Starting another goroutine and waiting for it.
LEMMA SpawnMoves ==
    ASSUME IInv, NEW g \in Goroutines, NEW h \in Goroutines, NEW role, NEW want,
           pc[g] = "run", Spawn(g, h, role, want), failed' = failed, Moves(g),
           \A k \in Goroutines \ {g} : Still(k)
    PROVE  Alone(g)
<1>1. /\ h # g
      /\ pc' = [pc EXCEPT ![g] = "blocked", ![h] = "setup"]
      /\ \A k \in Goroutines \ {h} : helper'[k] = helper[k]
  BY DEF Spawn, IInv, Typed
<1>2. ASSUME NEW k \in Goroutines, Works(k)'
      PROVE  helper'[k] = helper[k] /\ Works(k)
  <2>1. k # h
    BY <1>1, <1>2 DEF Works, IInv, Typed
  <2>2. helper'[k] = helper[k]
    BY <1>1, <2>1
  <2>3. k = g \/ pc'[k] = pc[k]
    BY <1>1, <2>1 DEF IInv, Typed
  <2> QED
    BY <1>2, <2>2, <2>3 DEF Works
<1> QED
  BY <1>2 DEF Alone, Rests, StaysFailed

LEMMA GoSeparateMoves ==
    ASSUME IInv, NEW g \in Goroutines, GoSeparate(g)
    PROVE  Alone(g)
<1>1. pc[g] = "run"
  BY DEF GoSeparate, MayCall, Runs
<1>2. PICK to \in Lists(NsTypes) :
         \/ \E t \in Lockable(g), h \in Goroutines :
              /\ Lock(g, t, ns[t], ownFs[t])
              /\ Push(g, "separate", CurrentOf(ns[t], {}), ns[t])
              /\ Spawn(g, h, "fn", to)
              /\ UNCHANGED failed
         \/ /\ Panic(g)
            /\ UNCHANGED <<threadVars, on, locks, stack, helper>>
  BY DEF GoSeparate
<1>3. ASSUME NEW t \in Lockable(g), NEW h \in Goroutines,
             Lock(g, t, ns[t], ownFs[t]),
             Push(g, "separate", CurrentOf(ns[t], {}), ns[t]),
             Spawn(g, h, "fn", to),
             UNCHANGED failed
      PROVE  Alone(g)
  <2> DEFINE f == [op |-> "separate", saved |-> CurrentOf(ns[t], {}), before |-> ns[t]]
  <2>1. /\ locks'[g] = locks[g] + 1 /\ on'[g] = t /\ ns'[t] = ns[t]
        /\ \A k \in Goroutines \ {g} :
             /\ locks'[k] = locks[k]
             /\ on'[k] = on[k]
             /\ locks[k] > 0 => ns'[on[k]] = ns[on[k]]
    BY <1>3, LockConcernsOne
  <2>2. \A k \in Goroutines \ {g} : Still(k)
    BY <1>3, <2>1 DEF Still, Push, IInv, Typed
  <2>3. ns[t] \in Namespaces
    BY LockableThread DEF IInv
  <2>4. f \in Frames /\ DOMAIN f.saved = {} /\ f.before = ns[t]
    BY <2>3, FrameType
  <2>5. stack'[g] = Append(stack[g], f)
    BY <1>3 DEF Push, IInv, Typed
  <2> HIDE DEF f
  <2>6. SameBut(ns'[t], ns[t], {})
    BY <2>1 DEF SameBut
  <2>7. StaysFailed(g)
    BY <1>3 DEF StaysFailed
  <2>8. Enters(g)
    BY <2>1, <2>4, <2>5, <2>6, <2>7 DEF Enters
  <2> QED
    BY <1>1, <1>3, <2>2, <2>8, SpawnMoves DEF Moves
<1>4. CASE /\ Panic(g)
           /\ UNCHANGED <<threadVars, on, locks, stack, helper>>
  <2>1. \A k \in Goroutines : Still(k)
    BY <1>4 DEF Still, threadVars
  <2>2. StaysRunning(g)
    BY <1>1, <1>4, PanicRuns
  <2>3. Rests(g)
    BY <2>1, <2>2 DEF Rests, StaysFailed, StaysRunning
  <2> QED
    BY <2>1, <2>2, <2>3, RunningAlone DEF Moves
<1> QED
  BY <1>2, <1>3, <1>4

LEMMA StillSpawnMoves ==
    ASSUME IInv, NEW g \in Goroutines, NEW h \in Goroutines, NEW role, NEW want,
           pc[g] = "run", Spawn(g, h, role, want),
           UNCHANGED <<threadVars, on, locks, stack, failed>>
    PROVE  Alone(g)
<1>1. \A k \in Goroutines : Still(k)
  BY DEF Still, threadVars
<1>2. Rests(g)
  BY <1>1 DEF Rests, StaysFailed
<1> QED
  BY <1>1, <1>2, SpawnMoves DEF Moves

LEMMA MntNewTransientMoves ==
    ASSUME IInv, NEW g \in Goroutines, MntNewTransient(g)
    PROVE  Alone(g)
BY StillSpawnMoves DEF MntNewTransient, Runs

LEMMA RoomUnshareMoves ==
    ASSUME IInv, NEW g \in Goroutines, RoomUnshare(g)
    PROVE  Alone(g)
BY StillSpawnMoves DEF RoomUnshare, Runs

\* A return that does not change what others are locked to.
LEMMA ReturnAlone ==
    ASSUME IInv, NEW g \in Goroutines, StaysRunning(g), stack[g] # <<>>, Pop(g),
           NEW n, ns' = [ns EXCEPT ![on[g]] = n],
           \/ UNCHANGED <<on, locks>> /\ g \in failed'
           \/ /\ n = Switch(ns[on[g]], Top(g).saved)
              /\ Unlock(g) \/ UNCHANGED <<on, locks>>
    PROVE  Alone(g)
<1>1. /\ locks[g] \in Nat /\ Len(stack[g]) \in Nat /\ Len(stack[g]) > 0
      /\ locks[g] > 0
      /\ stack'[g] = Below(g)
      /\ Len(stack'[g]) = Len(stack[g]) - 1
  <2>1. /\ Len(stack[g]) \in Nat \ {0} /\ Len(Below(g)) = Len(stack[g]) - 1
        /\ stack'[g] = Below(g)
    BY FramesType DEF IInv, Pop, Typed
  <2>2. locks[g] \in Nat /\ Len(stack[g]) <= locks[g]
    BY DEF IInv, Typed, Threads
  <2> QED
    BY <2>1, <2>2
<1>2. on[g] \in OSThreads /\ ns'[on[g]] = n
  BY OwnThread DEF IInv, Typed
<1>3. ASSUME NEW k \in Goroutines \ {g}
      PROVE  Still(k)
  <2>1. locks[k] > 0 => ns'[on[k]] = ns[on[k]]
    <3> SUFFICES ASSUME locks[k] > 0 PROVE ns'[on[k]] = ns[on[k]]
      OBVIOUS
    <3>1. on[k] \in OSThreads /\ on[k] # on[g]
      BY <1>2, Constants DEF IInv, Threads, Typed
    <3> QED
      BY <3>1 DEF IInv, Typed
  <2>2. stack'[k] = stack[k]
    BY DEF Pop, IInv, Typed
  <2>3. locks'[k] = locks[k] /\ on'[k] = on[k]
    BY DEF Unlock, IInv, Typed
  <2> QED
    BY <2>1, <2>2, <2>3 DEF Still
<1>4. Fails(g) \/ Leaves(g)
  <2>1. CASE UNCHANGED <<on, locks>> /\ g \in failed'
    BY <1>1, <2>1 DEF Fails
  <2>2. CASE n = Switch(ns[on[g]], Top(g).saved) /\ UNCHANGED <<on, locks>>
    BY <1>1, <1>2, <2>2 DEF Leaves, StaysRunning, StaysFailed
  <2>3. CASE n = Switch(ns[on[g]], Top(g).saved) /\ Unlock(g)
    <3>1. /\ locks'[g] = locks[g] - 1
          /\ on'[g] = IF locks[g] = 1 THEN NoThread ELSE on[g]
      BY <2>3 DEF Unlock, IInv, Typed
    <3>2. locks'[g] > 0 => on'[g] = on[g]
      BY <1>1, <3>1
    <3> QED
      BY <1>1, <1>2, <2>3, <3>1, <3>2 DEF Leaves, StaysRunning, StaysFailed
  <2> QED
    BY <2>1, <2>2, <2>3
<1> QED
  BY <1>3, <1>4, RunningAlone DEF Moves

LEMMA LeaveTransientMoves ==
    ASSUME IInv, NEW g \in Goroutines, LeaveTransient(g)
    PROVE  Alone(g)
<1>1. /\ pc[g] \in {"run", "panic"} /\ stack[g] # <<>>
      /\ Pop(g) /\ helper' = helper
  BY DEF LeaveTransient, Returns
<1>2. CASE /\ ns' = [ns EXCEPT ![on[g]] = Switch(@, Top(g).saved)]
           /\ Unlock(g)
           /\ UNCHANGED <<pc, failed>>
  <2>1. StaysRunning(g)
    BY <1>1, <1>2, SameRuns
  <2> QED
    BY <1>1, <1>2, <2>1, ReturnAlone
<1>3. CASE Panic(g) /\ UNCHANGED <<ns, on, locks>>
  <2>1. StaysRunning(g) /\ g \in failed'
    BY <1>1, <1>3, PanicRuns
  <2>2. ns' = [ns EXCEPT ![on[g]] = ns[on[g]]]
    BY <1>3 DEF IInv, Typed
  <2> QED
    BY <1>1, <1>3, <2>1, <2>2, ReturnAlone
<1> QED
  BY <1>2, <1>3 DEF LeaveTransient

LEMMA GoOutMoves ==
    ASSUME IInv, NEW g \in Goroutines, GoOut(g)
    PROVE  Alone(g)
<1>1. /\ pc[g] \in {"run", "panic"} /\ stack[g] # <<>>
      /\ Pop(g) /\ helper' = helper
  BY DEF GoOut, Returns
<1>2. CASE /\ ns' = [ns EXCEPT ![on[g]] = Switch(@, Top(g).saved)]
           /\ Unlock(g)
           /\ UNCHANGED <<pc, failed>>
  <2>1. StaysRunning(g)
    BY <1>1, <1>2, SameRuns
  <2> QED
    BY <1>1, <1>2, <2>1, ReturnAlone
<1>3. ASSUME NEW R \in SUBSET DOMAIN Top(g).saved,
             ns' = [ns EXCEPT ![on[g]] =
                      Switch(@, [typ \in R |-> Top(g).saved[typ]])],
             Panic(g), UNCHANGED <<on, locks>>
      PROVE  Alone(g)
  <2>1. StaysRunning(g) /\ g \in failed'
    BY <1>1, <1>3, PanicRuns
  <2> QED
    BY <1>1, <1>3, <2>1, ReturnAlone
<1> QED
  BY <1>2, <1>3 DEF GoOut

LEMMA MntLeaveTransientMoves ==
    ASSUME IInv, NEW g \in Goroutines, MntLeaveTransient(g)
    PROVE  Alone(g)
<1>1. /\ pc[g] \in {"run", "panic"} /\ stack[g] # <<>>
      /\ Pop(g) /\ UNCHANGED <<helper, on, locks>>
  BY DEF MntLeaveTransient, Returns
<1>2. CASE /\ ns' = [ns EXCEPT ![on[g]] = Switch(@, Top(g).saved)]
           /\ UNCHANGED <<pc, failed>>
  <2>1. StaysRunning(g)
    BY <1>1, <1>2, SameRuns
  <2> QED
    BY <1>1, <1>2, <2>1, ReturnAlone
<1>3. CASE Panic(g) /\ UNCHANGED ns
  <2>1. StaysRunning(g) /\ g \in failed'
    BY <1>1, <1>3, PanicRuns
  <2>2. ns' = [ns EXCEPT ![on[g]] = ns[on[g]]]
    BY <1>3 DEF IInv, Typed
  <2> QED
    BY <1>1, <2>1, <2>2, ReturnAlone
<1> QED
  BY <1>2, <1>3 DEF MntLeaveTransient

LEMMA RecoverMoves ==
    ASSUME IInv, NEW g \in Goroutines, Recover(g)
    PROVE  Alone(g)
<1>1. \A k \in Goroutines : Still(k)
  BY DEF Recover, Still, threadVars
<1>2. StaysRunning(g) /\ Rests(g)
  BY <1>1 DEF Recover, StaysRunning, Rests, StaysFailed
<1> QED
  BY <1>1, <1>2, RunningAlone DEF Moves

\* A goroutine whose calls have all returned, and that stops.
LEMMA StopAlone ==
    ASSUME IInv, NEW g \in Goroutines, pc[g] \notin {"blocked", "idle"},
           stack[g] = <<>>, stack' = stack,
           \A k \in Goroutines \ {g} : Rests(k),
           ~Works(g)',
           \A k \in Goroutines : Works(k)' => helper'[k] = helper[k] /\ Works(k)
    PROVE  Alone(g)
BY DEF Alone, Moves, Stops

\* A goroutine that ends gives up its own thread only.
LEMMA EndConcernsOne ==
    ASSUME IInv, NEW g \in Goroutines, End(g), stack' = stack
    PROVE  \A k \in Goroutines \ {g} : Still(k)
<1> SUFFICES ASSUME NEW k \in Goroutines \ {g} PROVE Still(k)
  OBVIOUS
<1>1. /\ ns' = [ns EXCEPT ![on[g]] = Pristine]
      /\ on' = [on EXCEPT ![g] = NoThread]
      /\ locks' = [locks EXCEPT ![g] = 0]
  BY DEF End, Discard
<1>2. ASSUME locks[k] > 0
      PROVE  ns'[on[k]] = ns[on[k]]
  <2>1. on[k] \in OSThreads /\ on[k] # on[g]
    BY <1>2, Constants DEF IInv, Threads, Typed
  <2> QED
    BY <1>1, <2>1 DEF IInv, Typed
<1> QED
  BY <1>1, <1>2 DEF Still, IInv, Typed

LEMMA StartNodeMoves ==
    ASSUME IInv, NEW g \in Goroutines, StartNode(g)
    PROVE  Alone(g)
<1>1. /\ pc[g] = "off" /\ pc' = [pc EXCEPT ![g] = "run"]
      /\ UNCHANGED <<ns, on, locks, stack, helper, failed>>
  BY DEF StartNode, threadVars
<1>2. stack[g] = <<>> /\ helper[g].role = "node"
  BY <1>1 DEF IInv, Control
<1>3. \A k \in Goroutines : Rests(k)
  BY <1>1 DEF Rests, Still, StaysFailed
<1>4. \A k \in Goroutines : Works(k)' => Works(k)
  BY <1>1, <1>2 DEF Works, IInv, Typed
<1>5. ~Works(g)'
  BY <1>1, <1>2 DEF Works
<1> QED
  BY <1>1, <1>2, <1>3, <1>4, <1>5, StopAlone

LEMMA NodeEndMoves ==
    ASSUME IInv, NEW g \in Goroutines, NodeEnd(g)
    PROVE  Alone(g)
<1>1. /\ pc[g] \in {"run", "panic"} /\ stack[g] = <<>>
      /\ pc' = [pc EXCEPT ![g] = "cleanup"]
      /\ failed' = failed \ {g}
      /\ UNCHANGED <<stack, helper>>
      /\ End(g) \/ UNCHANGED <<threadVars, on, locks>>
  BY DEF NodeEnd
<1>2. \A k \in Goroutines \ {g} : Still(k)
  <2>1. CASE End(g)
    BY <1>1, <2>1, EndConcernsOne
  <2>2. CASE UNCHANGED <<threadVars, on, locks>>
    BY <1>1, <2>2 DEF Still, threadVars
  <2> QED
    BY <1>1, <2>1, <2>2
<1>3. \A k \in Goroutines \ {g} : Rests(k)
  BY <1>1, <1>2 DEF Rests, StaysFailed
<1>4. \A k \in Goroutines : Works(k)' => Works(k)
  BY <1>1 DEF Works, IInv, Typed
<1>5. ~Works(g)'
  BY <1>1 DEF Works, IInv, Typed
<1> QED
  BY <1>1, <1>3, <1>4, <1>5, StopAlone

LEMMA CleanupStepMoves ==
    ASSUME IInv, NEW g \in Goroutines, CleanupStep(g)
    PROVE  Alone(g)
<1>1. /\ pc[g] = "cleanup"
      /\ UNCHANGED <<ns, on, locks, stack, helper, failed>>
      /\ \/ pc' = [pc EXCEPT ![g] = "off"]
         \/ pc' = pc
         \/ \E h : pc' = [pc EXCEPT ![h] = "done"]
  BY DEF CleanupStep, threadVars
<1>2. \A k \in Goroutines : Rests(k)
  BY <1>1 DEF Rests, Still, StaysFailed
<1>3. \A k \in Goroutines : Works(k)' => Works(k)
  BY <1>1 DEF Works, IInv, Typed
<1>4. stack[g] = <<>> /\ ~Works(g)
  BY <1>1 DEF IInv, Control, Works
<1> QED
  BY <1>1, <1>2, <1>3, <1>4, StopAlone

LEMMA HelperEndMoves ==
    ASSUME IInv, NEW h \in Goroutines, HelperEnd(h)
    PROVE  Alone(h)
<1>1. /\ pc[h] = "done" /\ pc' = [pc EXCEPT ![h] = "off"]
      /\ End(h)
      /\ helper' = [helper EXCEPT ![h] = NoErrand(h)]
      /\ UNCHANGED <<stack, failed>>
  BY DEF HelperEnd
<1>2. stack[h] = <<>> /\ pc'[h] = "off"
  BY <1>1 DEF IInv, Control, Typed
<1>3. \A k \in Goroutines \ {h} : Rests(k)
  BY <1>1, EndConcernsOne DEF Rests, StaysFailed
<1>4. ~Works(h)'
  BY <1>2 DEF Works
<1>5. \A k \in Goroutines \ {h} :
         helper'[k] = helper[k] /\ pc'[k] = pc[k]
  BY <1>1 DEF IInv, Typed
<1>6. \A k \in Goroutines : Works(k)' => helper'[k] = helper[k] /\ Works(k)
  BY <1>4, <1>5 DEF Works
<1> QED
  BY <1>1, <1>2, <1>3, <1>4, <1>6, StopAlone

\* A helper that locks a thread, is done with its errand and reports.
LEMMA ReportMoves ==
    ASSUME IInv, NEW h \in Goroutines, pc[h] = "setup", helper[h].role # "fn",
           \E t \in Lockable(h) : \E n, own : Lock(h, t, n, own),
           Reports(h), failed \subseteq failed', UNCHANGED <<stack, helper>>
    PROVE  Alone(h)
<1> DEFINE b == helper[h].boss
<1>1. PICK p \in {"idle", "done"}, q \in {"run", "panic"} :
        pc' = [pc EXCEPT ![h] = p, ![b] = q]
  BY DEF Reports
<1>2. b \in Goroutines /\ b # h /\ pc[b] = "blocked" /\ stack[h] = <<>>
  BY DEF IInv, Control, Awaited, Typed, Errand
<1> HIDE DEF b
<1>3. \A k \in Goroutines \ {h} : Rests(k)
  BY LockConcernsOne DEF Rests, Still, StaysFailed
<1>4. pc'[h] = p /\ pc'[b] = q /\ \A k \in Goroutines \ {h, b} : pc'[k] = pc[k]
  BY <1>1, <1>2 DEF IInv, Typed
<1>5. \A k \in Goroutines : Works(k)' => Works(k)
  BY <1>2, <1>4 DEF Works
<1> QED
  BY <1>2, <1>3, <1>4, <1>5, StopAlone DEF Works

LEMMA IdlerSetupMoves ==
    ASSUME IInv, NEW h \in Goroutines, IdlerSetup(h)
    PROVE  Alone(h)
<1>1. /\ pc[h] = "setup" /\ helper[h].role # "fn"
      /\ UNCHANGED <<stack, helper>>
      /\ (\E t \in Lockable(h) : \E n, own : Lock(h, t, n, own))
      /\ failed \subseteq failed'
  BY DEF IdlerSetup
<1>2. Reports(h)
  BY DEF IdlerSetup, Reports
<1> QED
  BY <1>1, <1>2, ReportMoves

LEMMA NewNamespaceMoves ==
    ASSUME IInv, NEW h \in Goroutines, NewNamespace(h)
    PROVE  Alone(h)
<1>1. /\ pc[h] = "setup" /\ helper[h].role # "fn"
      /\ UNCHANGED <<stack, helper>>
      /\ (\E t \in Lockable(h) : \E n, own : Lock(h, t, n, own))
      /\ failed \subseteq failed'
  BY DEF NewNamespace
<1>2. Reports(h)
  BY DEF NewNamespace, Reports
<1> QED
  BY <1>1, <1>2, ReportMoves

\* The destination of a separate goroutine is what its caller had and what
\* was passed.
LEMMA SeparateSetupMoves ==
    ASSUME IInv, NEW h \in Goroutines, SeparateSetup(h)
    PROVE  Alone(h)
<1> DEFINE caller == ns[on[helper[h].boss]]
           want   == helper[h].want
<1>1. /\ pc[h] = "setup" /\ helper[h].role = "fn"
      /\ UNCHANGED <<stack, helper>>
  BY DEF SeparateSetup
<1>2. PICK t \in Lockable(h) :
        \/ /\ Lock(h, t, Destination(ns[t], caller, want), TRUE)
           /\ pc' = [pc EXCEPT ![h] = "run"]
           /\ UNCHANGED failed
        \/ (\E n, own : Lock(h, t, n, own)) /\ Panic(h)
  BY DEF SeparateSetup
<1>3. PICK n, own : Lock(h, t, n, own)
  BY <1>2
<1>4. /\ locks'[h] = locks[h] + 1 /\ on'[h] = t
      /\ locks[h] \in Nat
      /\ \A k \in Goroutines \ {h} :
           /\ locks'[k] = locks[k]
           /\ on'[k] = on[k]
           /\ locks[k] > 0 => ns'[on[k]] = ns[on[k]]
  BY <1>3, LockConcernsOne
<1>5. SameBut(Destination(ns[t], caller, want), Switch(caller, want), {})
  BY DEF SameBut, Destination, Switch, CurrentOf
<1>6. h \in failed' \/ SameBut(ns'[on'[h]], Switch(caller, want), {})
  <2>1. CASE Lock(h, t, Destination(ns[t], caller, want), TRUE)
    <3>1. t \in OSThreads
      BY LockableThread DEF IInv
    <3>2. ns'[t] = Destination(ns[t], caller, want)
      BY <2>1, <3>1 DEF Lock, IInv, Typed
    <3> QED
      BY <1>4, <1>5, <3>2
  <2>2. CASE Panic(h)
    BY <2>2 DEF Panic
  <2> QED
    BY <1>2, <2>1, <2>2
<1>7. /\ pc'[h] \in {"run", "panic"}
      /\ \A k \in Goroutines \ {h} : pc'[k] = pc[k]
      /\ failed \subseteq failed'
  BY <1>2 DEF Panic, IInv, Typed
<1>8. stack[h] = <<>>
  BY <1>1 DEF IInv, Control
<1>9. SetsUp(h)
  BY <1>1, <1>4, <1>6, <1>7, <1>8 DEF SetsUp, Works
<1>10. \A k \in Goroutines \ {h} : Rests(k)
  BY <1>1, <1>4, <1>7 DEF Rests, Still, StaysFailed
<1>11. \A k \in Goroutines \ {h} : Works(k)' => Works(k)
  BY <1>1, <1>7 DEF Works
<1> QED
  BY <1>1, <1>9, <1>10, <1>11 DEF Alone, Moves

\* The caller of goSeparate has nothing to restore.
LEMMA SeparateReturnMoves ==
    ASSUME IInv, NEW h \in Goroutines, SeparateReturn(h)
    PROVE  IdlersRest /\ \A k \in Goroutines : Moves(k) /\ GoesOn(k)
<1> DEFINE b == helper[h].boss
<1>1. /\ pc[h] \in {"run", "panic"}
      /\ helper[h].role = "fn"
      /\ stack[h] = <<>>
      /\ ns' = [ns EXCEPT ![on[h]] = Pristine]
      /\ on' = [on EXCEPT ![h] = NoThread,
                          ![b] = IF locks[b] = 1 THEN NoThread ELSE @]
      /\ locks' = [locks EXCEPT ![h] = 0, ![b] = @ - 1]
      /\ Pop(b)
      /\ pc' = [pc EXCEPT ![h] = "off", ![b] = pc[h]]
      /\ failed' = (failed \ {h}) \union (IF pc[h] = "panic" THEN {b} ELSE {})
      /\ helper' = [helper EXCEPT ![h] = NoErrand(h)]
  BY DEF SeparateReturn, Discard
<1>2. /\ b \in Goroutines /\ b # h /\ pc[b] = "blocked"
      /\ SeparateTop(stack[b])
      /\ \A k \in Goroutines \ {h} : Awaited(k) => helper[k].boss # b
  BY <1>1 DEF IInv, Control, Awaited, Typed, Errand
<1> HIDE DEF b
<1>3. /\ stack[b] # <<>> /\ DOMAIN Top(b).saved = {}
      /\ Len(stack[b]) \in Nat \ {0}
      /\ locks[b] \in Nat /\ Len(stack[b]) <= locks[b]
  BY <1>2, FramesType DEF SeparateTop, Top, IInv, Typed, Threads
<1>4. \A k \in Goroutines \ {h} : locks[k] > 0 => ns'[on[k]] = ns[on[k]]
  <2> SUFFICES ASSUME NEW k \in Goroutines \ {h}, locks[k] > 0
               PROVE  ns'[on[k]] = ns[on[k]]
    OBVIOUS
  <2>1. on[k] \in OSThreads /\ on[k] # on[h]
    BY Constants DEF IInv, Threads, Typed
  <2> QED
    BY <1>1, <2>1 DEF IInv, Typed
<1>5. \A k \in Goroutines \ {h, b} : Still(k) /\ Rests(k)
  BY <1>1, <1>2, <1>4 DEF Rests, Still, StaysFailed, Pop, IInv, Typed
<1>6. Stops(h)
  BY <1>1, <1>2 DEF Stops, Works, Pop, IInv, Typed
<1>7. Leaves(b)
  <2>1. stack'[b] = Below(b) /\ locks'[b] = locks[b] - 1 /\ StaysFailed(b)
    BY <1>1, <1>2 DEF Pop, StaysFailed, IInv, Typed
  <2>2. on'[b] = IF locks[b] = 1 THEN NoThread ELSE on[b]
    BY <1>1, <1>2 DEF IInv, Typed
  <2>3. ns'[on[b]] = ns[on[b]]
    BY <1>2, <1>3, <1>4
  <2>4. ns[on[b]] \in Namespaces
    BY <1>2, <1>3, OwnThread
  <2>5. Switch(ns[on[b]], Top(b).saved) = ns[on[b]]
    BY <1>3, <2>4 DEF Switch, Namespaces
  <2> QED
    BY <1>3, <2>1, <2>2, <2>3, <2>5 DEF Leaves
<1>8. ASSUME NEW k \in Goroutines, Works(k)'
      PROVE  helper'[k] = helper[k] /\ Works(k) /\ Still(helper[k].boss)
  <2>1. k # h
    BY <1>1, <1>2, <1>8 DEF Works, IInv, Typed
  <2>2. helper'[k] = helper[k]
    BY <1>1, <2>1 DEF IInv, Typed
  <2>3. Works(k)
    BY <1>1, <1>2, <1>8, <2>1, <2>2 DEF Works, IInv, Typed
  <2>4. Awaited(k) /\ helper[k].boss \in Goroutines
    BY <2>3 DEF Awaited, Works, IInv, Typed, Errand
  <2>5. helper[k].boss # b
    BY <1>2, <2>1, <2>4
  <2>6. helper[k].boss # h
    BY <1>1, <2>4 DEF IInv, Control
  <2> QED
    BY <1>5, <2>2, <2>3, <2>4, <2>5, <2>6
<1>9. IdlersRest
  BY <1>1, <1>2, <1>5 DEF IdlersRest
<1> QED
  BY <1>5, <1>6, <1>7, <1>8, <1>9 DEF Moves, GoesOn

-----------------------------------------------------------------------------
(* The theorems.                                                           *)

\* Every step consists of moves.
LEMMA NextMoves ==
    ASSUME IInv, Next
    PROVE  IdlersRest /\ \A k \in Goroutines : Moves(k) /\ GoesOn(k)
<1>1. ASSUME NEW g \in Goroutines, CallStep(g)
      PROVE  Alone(g)
  BY <1>1, EnterTransientMoves, NewTransientMoves, GoInMoves, GoSeparateMoves,
     MntEnterTransientMoves, MntNewTransientMoves, RoomUnshareMoves DEF CallStep
<1>2. ASSUME NEW g \in Goroutines, ReturnStep(g)
      PROVE  Alone(g)
  BY <1>2, LeaveTransientMoves, GoOutMoves, MntLeaveTransientMoves DEF ReturnStep
<1>3. ASSUME NEW g \in Goroutines, NodeStep(g)
      PROVE  Alone(g)
  BY <1>3, StartNodeMoves, NodeEndMoves, CleanupStepMoves, RecoverMoves DEF NodeStep
<1>4. ASSUME NEW g \in Goroutines, HelperStep(g)
      PROVE  Alone(g) \/ SeparateReturn(g)
  BY <1>4, SeparateSetupMoves, IdlerSetupMoves, NewNamespaceMoves, HelperEndMoves
     DEF HelperStep
<1>5. ASSUME NEW g \in Goroutines, Alone(g)
      PROVE  IdlersRest
  BY <1>5 DEF IdlersRest, Alone, Rests
<1> QED
  BY <1>1, <1>2, <1>3, <1>4, <1>5, AloneMoves, SeparateReturnMoves DEF Next

LEMMA InitContext == Init => CInv
BY EmptySeq DEF Init, CInv, Accounted, Accounts, Pinned, InContext, Works

LEMMA NextContext == IInv /\ CInv /\ [Next]_vars => CInv'
<1>1. CASE IInv /\ CInv /\ Next
  <2>1. IInv'
    BY <1>1, NextKeeps
  <2> QED
    BY <1>1, <2>1, NextMoves, MovesKeep
<1>2. CASE CInv /\ UNCHANGED vars
  BY <1>2 DEF CInv, Accounted, Pinned, InContext, Works, Base, vars, threadVars
<1> QED
  BY <1>1, <1>2

\* In every state, the calls on a goroutine's stack account for the namespaces
\* of its thread, unless one has failed.
THEOREM ContextInvariance == Spec => []CInv
BY Invariance, InitContext, NextContext, PTL DEF Spec

\* What RestoresCaller says of all types but "pid".
RestoresAllButPid == [][\A g \in Goroutines : Restored(g)]_vars

LEMMA StepRestores ==
    IInv /\ CInv /\ [Next]_vars => [\A g \in Goroutines : Restored(g)]_vars
<1>1. CASE IInv /\ CInv /\ Next
  <2>1. IInv'
    BY <1>1, NextKeeps
  <2> QED
    BY <1>1, <2>1, NextMoves, MovesKeep
<1> QED
  BY <1>1

\* A call that returns without a failure has put its goroutine back into the
\* namespaces of each type, PID namespaces excepted, that it was in before:
\* the deferred functions of EnterTransient, goInAndOut and
\* mntns.EnterTransient, and goSeparate, however calls are nested and whatever
\* has failed in other goroutines.
THEOREM CallsRestoreAllButPid == Spec => RestoresAllButPid
BY Invariance, ContextInvariance, StepRestores, PTL DEF Spec, RestoresAllButPid

\* Namespaces that are the same in each type.
LEMMA SameNamespaces ==
    ASSUME "pid" \notin NsTypes, NEW n \in Namespaces, NEW m \in Namespaces,
           SameBut(n, m, {})
    PROVE  n = m
BY DEF SameBut, Namespaces

LEMMA StepRestoresCaller ==
    ASSUME "pid" \notin NsTypes
    PROVE  IInv /\ IInv' /\ [\A g \in Goroutines : Restored(g)]_vars
              => [RestoresCallerStep]_vars
<1> SUFFICES ASSUME IInv, IInv', \A k \in Goroutines : Restored(k),
                    NEW g \in Goroutines, Len(stack'[g]) < Len(stack[g]),
                    g \notin failed'
             PROVE  ns'[on[g]] = Top(g).before
  BY DEF RestoresCallerStep
<1>1. SameBut(ns'[on[g]], Top(g).before, {})
  BY DEF Restored
<1>2. stack[g] # <<>>
  <2>1. Len(stack'[g]) \in Nat
    BY LenProperties DEF IInv, Typed
  <2> QED
    BY <2>1, EmptySeq
<1>3. on[g] \in OSThreads /\ Top(g).before \in Namespaces
  BY <1>2, OwnThread, FramesType DEF IInv
<1>4. ns'[on[g]] \in Namespaces
  BY <1>3 DEF IInv, Typed
<1> QED
  BY <1>1, <1>3, <1>4, SameNamespaces

\* Without PID namespaces, a call that returns without a failure leaves its
\* goroutine attached to exactly the namespaces it was attached to before.
THEOREM CallsRestore ==
    ASSUME "pid" \notin NsTypes
    PROVE  Spec => RestoresCaller
<1>1. IInv /\ IInv' /\ [\A g \in Goroutines : Restored(g)]_vars
         => [RestoresCallerStep]_vars
  BY StepRestoresCaller
<1> QED
  BY <1>1, Invariance, CallsRestoreAllButPid, PTL DEF RestoresCaller, RestoresAllButPid

LEMMA InvariantContext ==
    ASSUME "pid" \notin NsTypes
    PROVE  IInv /\ CInv => FnContext
<1> SUFFICES ASSUME IInv, CInv, NEW h \in Goroutines, helper[h].role = "fn",
                    pc[h] = "run", h \notin failed, stack[h] = <<>>
             PROVE  ns[on[h]] = Switch(ns[on[helper[h].boss]], helper[h].want)
  BY DEF FnContext
<1> DEFINE b == helper[h].boss
<1>1. Works(h) /\ Awaited(h)
  BY DEF Works, Awaited
<1>2. SameBut(ns[on[h]], Switch(ns[on[b]], helper[h].want), {})
  BY <1>1 DEF CInv, InContext, Base
<1>3. ns[on[h]] \in Namespaces
  <2>1. locks[h] > 0
    BY <1>1, EmptySeq DEF CInv, Pinned
  <2> QED
    BY <2>1 DEF IInv, Threads, Typed
<1>4. Switch(ns[on[b]], helper[h].want) \in Namespaces
  <2>1. b \in Goroutines /\ helper[h].want \in Partial
    BY DEF IInv, Typed, Errand
  <2>2. stack[b] # <<>>
    BY <1>1 DEF IInv, Control, SeparateTop
  <2> QED
    BY <2>1, <2>2, OwnThread, SwitchType
<1> QED
  BY <1>2, <1>3, <1>4, SameNamespaces

\* What FnContext says of all types but "pid".
FnContextAllButPid ==
    \A h \in Goroutines :
        /\ helper[h].role = "fn"
        /\ pc[h] = "run"
        /\ h \notin failed
        /\ stack[h] = <<>>
        => SameBut(ns[on[h]], Switch(ns[on[helper[h].boss]], helper[h].want), {})

\* The function passed to Execute with a mount namespace runs attached to the
\* namespaces passed and otherwise to those of its caller, PID namespaces
\* excepted.
THEOREM FnInContextAllButPid == Spec => []FnContextAllButPid
<1>1. CInv => FnContextAllButPid
  BY DEF CInv, InContext, Works, Base, FnContextAllButPid
<1> QED
  BY <1>1, ContextInvariance, PTL

\* Without PID namespaces, the function passed to Execute with a mount
\* namespace runs attached to the namespaces passed and otherwise to those of
\* its caller, also after calls of its own.
THEOREM FnInContext ==
    ASSUME "pid" \notin NsTypes
    PROVE  Spec => []FnContext
<1>1. IInv /\ CInv => FnContext
  BY InvariantContext
<1> QED
  BY <1>1, Invariance, ContextInvariance, PTL
=============================================================================
