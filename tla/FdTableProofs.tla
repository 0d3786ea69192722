----------------------------- MODULE FdTableProofs -----------------------------
(***************************************************************************)
(* Proofs about FdTable, for descriptor tables of any size, any numbers of *)
(* files and nodes, and any number of references picked up.                *)
(***************************************************************************)
EXTENDS FdTable, FiniteSetTheorems, SequenceTheorems, TLAPS

-----------------------------------------------------------------------------
(* The inductive invariant.                                                *)

Cleanup == [fds : SUBSET Fds, handed : BOOLEAN]

Scheduled == UNION {cleanups[i].fds : i \in DOMAIN cleanups}
Handed == UNION {cleanups[i].fds : i \in {j \in DOMAIN cleanups : cleanups[j].handed}}

\* What is closed by whoever has it, and by no cleanup.
Kept == entered \union others

Known == Scheduled \union Kept \union lost

\* No file that anybody remembers is still to be opened.
Past ==
    /\ \A n \in Numbers : table[n] <= files
    /\ \A p \in Known \union picked : p[2] <= files

\* What is open will be closed by a cleanup, or belongs to somebody else, or
\* was left by a call that failed.
Owned == \A n \in Numbers : table[n] # Closed => <<n, table[n]>> \in Known

\* Nobody shares a descriptor with anybody else.
Apart ==
    /\ picked \cap Handed = {}
    /\ entered \cap others = {}
    /\ Kept \cap (picked \union Handed) = {}

\* What has an owner is open, as long as no cleanup has closed the wrong one.
Good == ~robbed => \A p \in Kept \union picked \union Handed : IsOpen(p)

\* The cleanups that run before the one of something handed out close other
\* numbers than this one: theirs was given out while this one was open.
EarlierSpared == ~robbed =>
    \A i, j \in DOMAIN cleanups : i < j /\ cleanups[i].handed =>
        \A p \in cleanups[i].fds, q \in cleanups[j].fds : p[1] # q[1]

IInv == TypeOK /\ Past /\ Owned /\ Apart /\ Good /\ EarlierSpared

-----------------------------------------------------------------------------
(* Opening descriptors.                                                    *)

LEMMA Places ==
    ASSUME NEW n \in Unused
    PROVE  /\ Place(n) \in Nat /\ Place(n) >= 1
           /\ \A m \in Unused : m < n => Place(m) < Place(n)
<1> DEFINE Up(m) == {u \in Unused : u <= m}
<1>1. IsFiniteSet(Numbers)
  BY FS_Interval, BoundsAssumption DEF Numbers
<1>2. \A m : IsFiniteSet(Up(m))
  BY <1>1, FS_Subset DEF Unused
<1>3. n \in Nat
  BY BoundsAssumption DEF Unused, Numbers
<1>4. Place(n) \in Nat /\ Place(n) # 0
  <2>1. n \in Up(n)
    BY <1>3
  <2>2. QED
    BY <1>2, <2>1, FS_CardinalityType, FS_EmptySet DEF Place
<1>5. ASSUME NEW m \in Unused, m < n PROVE Place(m) < Place(n)
  <2>1. Up(m) \subseteq Up(n) /\ n \in Up(n) /\ n \notin Up(m)
    BY <1>3, <1>5, BoundsAssumption DEF Unused, Numbers
  <2>2. Up(m) # Up(n)
    BY <2>1
  <2>3. /\ Cardinality(Up(m)) \in Nat /\ Cardinality(Up(n)) \in Nat
        /\ Cardinality(Up(m)) <= Cardinality(Up(n))
        /\ Cardinality(Up(m)) # Cardinality(Up(n))
    <3> HIDE DEF Up
    <3>1. QED
      BY <1>2, <2>1, <2>2, FS_Subset, FS_CardinalityType
  <2>4. QED
    BY <2>3 DEF Place
<1>6. QED
  BY <1>4, <1>5

\* The table has what has been opened since, and is otherwise the same.
Holding(t, fds) ==
    /\ t \in [Numbers -> 0..MaxFiles]
    /\ \A p \in fds : t[p[1]] = p[2]
    /\ \A n \in Numbers : (\A p \in fds : p[1] # n) => t[n] = table[n]

LEMMA Opened ==
    ASSUME TypeOK, NEW k \in Nat, CanOpen(k)
    PROVE  /\ Open(k) \subseteq Fds
           /\ \A p \in Open(k) : table[p[1]] = Closed /\ p[2] > files /\ p[2] <= files + k
           /\ Holding(With(Open(k)), Open(k))
<1>1. \A p \in Open(k) : /\ p = <<p[1], p[2]>> /\ p[1] \in Unused /\ p[1] \in Numbers
                         /\ p[2] = files + Place(p[1]) /\ Place(p[1]) <= k
  BY DEF Open, Unused
<1>2. files \in Nat /\ files + k <= MaxFiles /\ MaxFiles \in Nat
  BY BoundsAssumption DEF TypeOK, CanOpen
<1>3. \A p \in Open(k) : p[2] \in Nat /\ p[2] > files /\ p[2] <= files + k
  BY <1>1, <1>2, Places
<1>4. Open(k) \subseteq Fds
  BY <1>1, <1>2, <1>3 DEF Fds
<1>5. \A n \in Numbers : (\A p \in Open(k) : p[1] # n) => With(Open(k))[n] = table[n]
  BY DEF With
<1>6. \A p, q \in Open(k) : p[1] = q[1] => p[2] = q[2]
  BY <1>1
<1>7. \A p \in Open(k) : With(Open(k))[p[1]] = p[2]
  BY <1>1, <1>6 DEF With
<1>8. \A n \in Numbers : With(Open(k))[n] \in 0..MaxFiles
  <2>1. ASSUME NEW n \in Numbers, NEW p \in Open(k), p[1] = n
        PROVE  With(Open(k))[n] \in 0..MaxFiles
    BY <1>2, <1>3, <1>7, <2>1
  <2>2. ASSUME NEW n \in Numbers, \A p \in Open(k) : p[1] # n
        PROVE  With(Open(k))[n] \in 0..MaxFiles
    BY <1>5, <2>2 DEF TypeOK
  <2>3. QED
    BY <2>1, <2>2
<1>9. With(Open(k)) \in [Numbers -> 0..MaxFiles]
  BY <1>8 DEF With
<1>10. QED
  BY <1>1, <1>3, <1>4, <1>5, <1>7, <1>9 DEF Unused, Holding

\* Those that are closed again are as if they had not been opened.
LEMMA OpenedSome ==
    ASSUME TypeOK, NEW k \in Nat, CanOpen(k), NEW closed \in SUBSET Open(k)
    PROVE  Holding(Without(With(Open(k)), closed), Open(k) \ closed)
<1> DEFINE t == With(Open(k))
           u == Without(t, closed)
<1>1. /\ Open(k) \subseteq Fds /\ Holding(t, Open(k))
      /\ \A p \in Open(k) : table[p[1]] = Closed
  BY Opened
<1>2. \A p \in Open(k) : p[1] \in Numbers /\ p = <<p[1], t[p[1]]>>
  BY <1>1 DEF Holding, Fds
<1> HIDE DEF t
<1>3. \A n \in Numbers : u[n] = IF \E p \in closed : p[1] = n THEN Closed ELSE t[n]
  BY DEF Without
<1>4. u \in [Numbers -> 0..MaxFiles]
  BY <1>1, BoundsAssumption DEF Without, Holding, Closed
<1>5. ASSUME NEW p \in Open(k) \ closed PROVE u[p[1]] = p[2]
  <2>1. \A q \in closed : q[1] # p[1]
    BY <1>2, <1>5
  <2>2. QED
    BY <1>1, <1>2, <1>3, <2>1 DEF Holding
<1>6. ASSUME NEW n \in Numbers, \A p \in Open(k) \ closed : p[1] # n PROVE u[n] = table[n]
  <2>1. CASE \E p \in closed : p[1] = n
    BY <1>1, <1>3, <2>1
  <2>2. CASE \A p \in closed : p[1] # n
    <3>1. \A p \in Open(k) : p[1] # n
      BY <1>6, <2>2
    <3>2. QED
      BY <1>1, <1>3, <2>2, <3>1 DEF Holding
  <2>3. QED
    BY <2>1, <2>2
<1>7. QED
  BY <1>4, <1>5, <1>6 DEF Holding, t

\* Two descriptors are two.
LEMMA OpenedTwo ==
    ASSUME TypeOK, NEW old \in Open(2), NEW new \in Open(2), old[1] < new[1]
    PROVE  Open(2) = {old, new}
<1>1. \A p \in Open(2) : /\ p = <<p[1], files + Place(p[1])>> /\ p[1] \in Unused
                         /\ Place(p[1]) <= 2
  BY DEF Open
<1>2. \A n \in Unused : n \in Nat
  BY BoundsAssumption DEF Unused, Numbers
<1>3. \A p, q \in Open(2) : p[1] < q[1] => Place(p[1]) = 1 /\ Place(q[1]) = 2
  <2>1. ASSUME NEW p \in Open(2), NEW q \in Open(2), p[1] < q[1]
        PROVE  Place(p[1]) = 1 /\ Place(q[1]) = 2
    <3>1. Place(p[1]) \in Nat /\ Place(p[1]) >= 1 /\ Place(q[1]) \in Nat
      BY <1>1, Places
    <3>2. Place(p[1]) < Place(q[1])
      BY <1>1, <2>1, Places
    <3>3. QED
      BY <1>1, <3>1, <3>2
  <2>2. QED
    BY <2>1
<1>4. \A p \in Open(2) : p[1] = old[1] \/ p[1] = new[1]
  <2>1. ASSUME NEW p \in Open(2), p[1] # old[1], p[1] # new[1] PROVE FALSE
    <3>1. p[1] \in Nat /\ old[1] \in Nat /\ new[1] \in Nat
      BY <1>1, <1>2
    <3>2. CASE p[1] < old[1]
      BY <1>3, <3>2
    <3>3. CASE p[1] > old[1]
      <4>1. Place(p[1]) = 2 /\ Place(new[1]) = 2
        BY <1>3, <3>1, <3>3
      <4>2. p[1] < new[1] \/ new[1] < p[1]
        BY <2>1, <3>1
      <4>3. QED
        BY <1>3, <4>1, <4>2
    <3>4. QED
      BY <2>1, <3>1, <3>2, <3>3
  <2>2. QED
    BY <2>1
<1>5. QED
  BY <1>1, <1>4

-----------------------------------------------------------------------------
(* Scheduling and running cleanups.                                        *)

LEMMA Schedules ==
    ASSUME TypeOK, NEW fds \in SUBSET Fds, NEW h \in BOOLEAN, Schedule(fds, h)
    PROVE  /\ cleanups' \in Seq(Cleanup)
           /\ Scheduled' = Scheduled \union fds
           /\ Handed' = IF h THEN Handed \union fds ELSE Handed
<1> DEFINE new == [fds |-> fds, handed |-> h]
           last == Len(cleanups) + 1
<1>1. cleanups \in Seq(Cleanup) /\ new \in Cleanup /\ cleanups' = Append(cleanups, new)
  BY DEF TypeOK, Cleanup, Schedule
<1>2. /\ cleanups' \in Seq(Cleanup) /\ Len(cleanups) \in Nat
      /\ DOMAIN cleanups = 1..Len(cleanups) /\ DOMAIN cleanups' = 1..last
      /\ \A i \in DOMAIN cleanups : cleanups'[i] = cleanups[i]
      /\ cleanups'[last] = new
  BY <1>1, AppendProperties, LenProperties
<1>3. DOMAIN cleanups' = DOMAIN cleanups \union {last}
  BY <1>2
<1>4. Scheduled' = Scheduled \union fds
  BY <1>2, <1>3 DEF Scheduled
<1>5. Handed' = IF h THEN Handed \union fds ELSE Handed
  BY <1>2, <1>3 DEF Handed
<1>6. QED
  BY <1>2, <1>4, <1>5

\* What is scheduled was given a number that nothing handed out has.
LEMMA ScheduleSpares ==
    ASSUME IInv, NEW fds \in SUBSET Fds, NEW h \in BOOLEAN, Schedule(fds, h),
           \A p \in fds : table[p[1]] = Closed, UNCHANGED robbed
    PROVE  EarlierSpared'
<1> DEFINE new == [fds |-> fds, handed |-> h]
           last == Len(cleanups) + 1
<1>1. cleanups \in Seq(Cleanup) /\ new \in Cleanup /\ cleanups' = Append(cleanups, new)
  BY DEF IInv, TypeOK, Cleanup, Schedule
<1>2. /\ Len(cleanups) \in Nat
      /\ DOMAIN cleanups = 1..Len(cleanups) /\ DOMAIN cleanups' = 1..last
      /\ \A i \in DOMAIN cleanups : cleanups'[i] = cleanups[i]
      /\ cleanups'[last] = new
  BY <1>1, AppendProperties, LenProperties
<1>3. \A i \in DOMAIN cleanups : cleanups[i] \in Cleanup
  BY <1>1, <1>2, ElementOfSeq
<1> HIDE DEF last
<1>4. SUFFICES ASSUME ~robbed, NEW i \in DOMAIN cleanups', NEW j \in DOMAIN cleanups', i < j,
                      cleanups'[i].handed, NEW p \in cleanups'[i].fds, NEW q \in cleanups'[j].fds
               PROVE  p[1] # q[1]
  BY DEF EarlierSpared
<1>5. i \in DOMAIN cleanups /\ (j \in DOMAIN cleanups \/ j = last)
  BY <1>2, <1>4 DEF last
<1>6. cleanups[i].handed /\ p \in cleanups[i].fds
  BY <1>2, <1>4, <1>5
<1>7. CASE j \in DOMAIN cleanups
  <2>1. q \in cleanups[j].fds
    BY <1>2, <1>4, <1>7
  <2>2. QED
    BY <1>4, <1>5, <1>6, <1>7, <2>1 DEF IInv, EarlierSpared
<1>8. CASE j = last
  <2>1. q \in fds
    BY <1>2, <1>4, <1>8
  <2>2. p \in Handed /\ p \in Fds
    BY <1>3, <1>5, <1>6 DEF Handed, Cleanup
  <2>3. IsOpen(p) /\ p[2] # Closed
    BY <1>4, <2>2, BoundsAssumption DEF IInv, Good, Fds, Closed
  <2>4. QED
    BY <2>1, <2>3 DEF IsOpen
<1>9. QED
  BY <1>5, <1>7, <1>8

LEMMA Unschedules ==
    ASSUME TypeOK, CleanupStep
    PROVE  /\ cleanups' \in Seq(Cleanup)
           /\ \A p \in Scheduled : p \in Scheduled' \/ p \in cleanups[Len(cleanups)].fds
           /\ Scheduled' \subseteq Scheduled
           /\ Handed' \subseteq Handed
           /\ cleanups[Len(cleanups)].fds \subseteq Fds
           /\ cleanups[Len(cleanups)].handed => cleanups[Len(cleanups)].fds \subseteq Handed
           /\ EarlierSpared => \/ robbed
                               \/ /\ EarlierSpared'
                                  /\ \A p \in Handed', q \in cleanups[Len(cleanups)].fds : p[1] # q[1]
<1> DEFINE last == Len(cleanups)
<1>1. cleanups \in Seq(Cleanup) /\ cleanups # <<>> /\ cleanups' = SubSeq(cleanups, 1, last - 1)
  BY DEF TypeOK, Cleanup, CleanupStep
<1>2. last \in Nat /\ last # 0 /\ DOMAIN cleanups = 1..last
  BY <1>1, LenProperties, EmptySeq
<1>3. \A i \in 1..last : cleanups[i] \in Cleanup
  BY <1>1, <1>2, ElementOfSeq
<1>4. /\ cleanups' \in Seq(Cleanup) /\ Len(cleanups') = last - 1
      /\ \A i \in 1..(last - 1) : cleanups'[i] = cleanups[i]
  BY <1>1, <1>2, <1>3, SubSeqProperties
<1>5. DOMAIN cleanups' = 1..(last - 1)
  BY <1>4, LenProperties
<1>6. DOMAIN cleanups = DOMAIN cleanups' \union {last}
  BY <1>2, <1>5
<1>7. \A p \in Scheduled : p \in Scheduled' \/ p \in cleanups[last].fds
  BY <1>4, <1>5, <1>6 DEF Scheduled
<1>8. Scheduled' \subseteq Scheduled /\ Handed' \subseteq Handed
  BY <1>4, <1>5, <1>6 DEF Scheduled, Handed
<1>9. cleanups[last].fds \subseteq Fds
  BY <1>2, <1>3 DEF Cleanup
<1>10. cleanups[last].handed => cleanups[last].fds \subseteq Handed
  BY <1>2 DEF Handed
<1>11. ASSUME EarlierSpared, ~robbed
       PROVE  /\ EarlierSpared'
              /\ \A p \in Handed', q \in cleanups[last].fds : p[1] # q[1]
  <2>1. EarlierSpared'
    BY <1>4, <1>5, <1>6, <1>11 DEF EarlierSpared
  <2>2. ASSUME NEW p \in Handed', NEW q \in cleanups[last].fds PROVE p[1] # q[1]
    <3>1. PICK i \in DOMAIN cleanups' : cleanups'[i].handed /\ p \in cleanups'[i].fds
      BY <2>2 DEF Handed
    <3>2. /\ i \in DOMAIN cleanups /\ last \in DOMAIN cleanups /\ i < last
          /\ cleanups[i].handed /\ p \in cleanups[i].fds
      BY <1>2, <1>4, <1>5, <3>1
    <3>3. QED
      BY <1>11, <2>2, <3>2 DEF EarlierSpared
  <2>3. QED
    BY <2>1, <2>2
<1>12. QED
  BY <1>4, <1>7, <1>8, <1>9, <1>10, <1>11

\* Everything scheduled or handed out is a descriptor.
LEMMA ScheduledFds ==
    ASSUME TypeOK
    PROVE  Scheduled \subseteq Fds /\ Handed \subseteq Scheduled
<1>1. cleanups \in Seq(Cleanup)
  BY DEF TypeOK, Cleanup
<1>2. \A i \in DOMAIN cleanups : cleanups[i] \in Cleanup
  BY <1>1, LenProperties, ElementOfSeq
<1>3. QED
  BY <1>2 DEF Scheduled, Handed, Cleanup

-----------------------------------------------------------------------------
(* Every step keeps the invariant.                                         *)

\* A step that opens descriptors, of which those in new stay open.
LEMMA Opening ==
    ASSUME IInv, TypeOK', NEW k \in Nat, CanOpen(k), NEW new \in SUBSET Open(k),
           Holding(table', new), files' = files + k,
           Known' = Known \union new,
           picked' \subseteq picked \union new,
           Handed' \subseteq Handed \union new,
           Kept' \subseteq Kept \union new,
           Apart', EarlierSpared', UNCHANGED <<node, robbed>>
    PROVE  IInv'
<1>1. /\ new \subseteq Fds
      /\ \A p \in new : table[p[1]] = Closed /\ p[2] > files /\ p[2] <= files'
  BY Opened DEF IInv
<1>2. files \in Nat /\ files' \in Nat /\ files <= files' /\ MaxFiles \in Nat
  BY BoundsAssumption DEF IInv, TypeOK
<1>3. Known \union picked \subseteq Fds
  BY ScheduledFds DEF IInv, TypeOK, Known, Kept
<1>4. Past'
  <2>1. ASSUME NEW n \in Numbers PROVE table'[n] <= files'
    <3>1. table[n] <= files /\ table[n] \in Nat
      BY <1>2 DEF IInv, Past, TypeOK
    <3>2. CASE \A p \in new : p[1] # n
      BY <1>2, <3>1, <3>2 DEF Holding
    <3>3. ASSUME NEW p \in new, p[1] = n PROVE table'[n] <= files'
      BY <1>1, <3>3 DEF Holding
    <3>4. QED
      BY <3>2, <3>3
  <2>2. ASSUME NEW p \in (Known \union picked)' PROVE p[2] <= files'
    <3>1. p \in new \/ p \in Known \union picked
      OBVIOUS
    <3>2. CASE p \in new
      BY <1>1, <3>2
    <3>3. CASE p \in Known \union picked
      <4>1. p[2] <= files /\ p[2] \in Nat
        BY <1>2, <1>3, <3>3 DEF IInv, Past, Fds
      <4>2. QED
        BY <1>2, <4>1
    <3>4. QED
      BY <3>1, <3>2, <3>3
  <2>3. QED
    BY <2>1, <2>2 DEF Past
<1>5. Owned'
  <2>1. ASSUME NEW n \in Numbers, table'[n] # Closed
        PROVE  <<n, table'[n]>> \in Known'
    <3>1. CASE \A p \in new : p[1] # n
      BY <2>1, <3>1 DEF Holding, IInv, Owned
    <3>2. ASSUME NEW p \in new, p[1] = n PROVE <<n, table'[n]>> \in Known'
      <4>1. p = <<n, table'[n]>>
        BY <1>1, <3>2 DEF Holding, Fds
      <4>2. QED
        BY <4>1
    <3>3. QED
      BY <3>1, <3>2
  <2>2. QED
    BY <2>1 DEF Owned
<1>6. Good'
  <2>1. ASSUME NEW p \in Fds, IsOpen(p) \/ p \in new PROVE IsOpen(p)'
    <3>1. CASE p \in new
      BY <3>1 DEF IsOpen, Holding
    <3>2. CASE IsOpen(p) /\ p \notin new
      <4>1. p[1] \in Numbers /\ p[2] # Closed /\ table[p[1]] = p[2]
        BY <3>2, BoundsAssumption DEF Fds, IsOpen, Closed
      <4>2. \A q \in new : q[1] # p[1]
        BY <1>1, <4>1
      <4>3. QED
        BY <4>1, <4>2 DEF IsOpen, Holding
    <3>3. QED
      BY <2>1, <3>1, <3>2
  <2>2. picked \union Handed \union Kept \union new \subseteq Fds
    BY <1>1, <1>3, ScheduledFds DEF IInv, Known
  <2>3. \A p \in (Kept \union picked \union Handed)' :
            p \in Fds /\ (p \in Kept \union picked \union Handed \/ p \in new)
    BY <2>2
  <2>4. QED
    BY <2>1, <2>3 DEF IInv, Good
<1>7. QED
  BY <1>4, <1>5, <1>6 DEF IInv

\* What is opened now was not known before.
LEMMA Fresh ==
    ASSUME IInv, NEW k \in Nat, CanOpen(k), NEW p \in Open(k)
    PROVE  p \notin Known \union picked
<1>1. p[2] > files /\ p[2] \in Nat /\ files \in Nat
  BY Opened, BoundsAssumption DEF IInv, TypeOK, Fds
<1>2. QED
  BY <1>1 DEF IInv, Past

\* What a call returns is scheduled, or lost.
LEMMA HandsOut ==
    ASSUME IInv, NEW k \in Nat, CanOpen(k), NEW fds \in SUBSET Open(k), HandOut(fds),
           UNCHANGED robbed
    PROVE  /\ cleanups' \in Seq(Cleanup)
           /\ Scheduled' \union lost' = Scheduled \union lost \union fds
           /\ lost' \subseteq lost \union fds
           /\ Handed' \subseteq Handed \union fds
           /\ EarlierSpared'
<1>1. fds \subseteq Fds /\ \A p \in fds : table[p[1]] = Closed
  BY Opened DEF IInv
<1>2. CASE Schedule(fds, TRUE) /\ UNCHANGED lost
  <2>1. EarlierSpared'
    BY <1>1, <1>2, ScheduleSpares
  <2>2. QED
    BY <1>1, <1>2, <2>1, Schedules DEF IInv
<1>3. CASE lost' = lost \union fds /\ UNCHANGED cleanups
  BY <1>3 DEF IInv, TypeOK, EarlierSpared, Scheduled, Handed, Cleanup
<1>4. QED
  BY <1>2, <1>3 DEF HandOut

LEMMA CurrentKeeps ==
    ASSUME IInv, Current \/ Rooms
    PROVE  IInv'
<1>1. PICK k \in Nat : /\ CanOpen(k) /\ files' = files + k
                       /\ table' = With(Open(k))
                       /\ Schedule(Open(k), TRUE)
                       /\ UNCHANGED <<picked, entered, others, lost, nodes, node, robbed>>
  <2> DEFINE Opens(k) == /\ CanOpen(k) /\ files' = files + k
                         /\ table' = With(Open(k))
                         /\ Schedule(Open(k), TRUE)
                         /\ UNCHANGED <<picked, entered, others, lost, nodes, node, robbed>>
  <2>1. CASE Current
    <3>1. Opens(1)
      BY <2>1 DEF Current, Running
    <3>2. QED
      BY <3>1
  <2>2. CASE Rooms
    <3>1. PICK k \in 1..MaxSpaces : Opens(k)
      BY <2>2 DEF Rooms, Running
    <3>2. k \in Nat
      BY MaxSpacesAssumption
    <3>3. QED
      BY <3>1, <3>2
  <2>3. QED
    BY <2>1, <2>2
<1>2. /\ Open(k) \subseteq Fds
      /\ Holding(table', Open(k))
  BY <1>1, Opened DEF IInv
<1>3. /\ cleanups' \in Seq(Cleanup)
      /\ Scheduled' = Scheduled \union Open(k)
      /\ Handed' = Handed \union Open(k)
  BY <1>1, <1>2, Schedules DEF IInv
<1>4. TypeOK'
  BY <1>1, <1>2, <1>3, BoundsAssumption DEF IInv, TypeOK, CanOpen, Holding, Cleanup
<1>5. Apart' /\ Kept' = Kept /\ Known' = Known \union Open(k)
  BY <1>1, <1>3, Fresh DEF IInv, Apart, Kept, Known
<1>6. EarlierSpared'
  <2>1. \A p \in Open(k) : table[p[1]] = Closed
    BY <1>1, Opened DEF IInv
  <2>2. QED
    BY <1>1, <1>2, <2>1, ScheduleSpares
<1>7. QED
  BY <1>1, <1>2, <1>3, <1>4, <1>5, <1>6, Opening

LEMMA NewTransientKeeps ==
    ASSUME IInv, NewTransient
    PROVE  IInv'
<1>1. /\ CanOpen(2) /\ files' = files + 2
      /\ UNCHANGED <<picked, entered, others, nodes, node, robbed>>
  BY DEF NewTransient, Running
<1>2. PICK old \in Open(2), new \in Open(2) :
          /\ old[1] < new[1]
          /\ table' = Without(With(Open(2)), {old})
          /\ HandOut({new})
  BY DEF NewTransient
<1>3. Open(2) = {old, new} /\ Open(2) \subseteq Fds
  BY <1>1, <1>2, Opened, OpenedTwo DEF IInv
<1>4. Open(2) \ {old} = {new}
  BY <1>2, <1>3, BoundsAssumption DEF Fds, Numbers
<1>5. Holding(table', {new})
  BY <1>1, <1>2, <1>4, OpenedSome DEF IInv
<1>6. /\ cleanups' \in Seq(Cleanup)
      /\ Scheduled' \union lost' = Scheduled \union lost \union {new}
      /\ lost' \subseteq lost \union {new}
      /\ Handed' \subseteq Handed \union {new}
      /\ EarlierSpared'
  BY <1>1, <1>2, HandsOut
<1>7. TypeOK'
  BY <1>1, <1>3, <1>5, <1>6, BoundsAssumption DEF IInv, TypeOK, CanOpen, Holding, Cleanup
<1>8. Apart' /\ Kept' = Kept /\ Known' = Known \union {new}
  BY <1>1, <1>6, Fresh DEF IInv, Apart, Kept, Known
<1>9. QED
  BY <1>1, <1>5, <1>6, <1>7, <1>8, Opening

\* A restore function keeps what has been opened, or nobody does.
LEMMA EnterTransientKeeps ==
    ASSUME IInv, EnterTransient \/ ResponseLost
    PROVE  IInv'
<1>1. PICK k \in Nat : /\ CanOpen(k) /\ files' = files + k
                       /\ table' = With(Open(k))
                       /\ \/ entered' = entered \union Open(k) /\ UNCHANGED lost
                          \/ lost' = lost \union Open(k) /\ UNCHANGED entered
                       /\ node = "running"
                       /\ UNCHANGED <<cleanups, picked, others, nodes, node, robbed>>
  BY MaxSpacesAssumption DEF EnterTransient, ResponseLost, Running
<1>2. /\ Open(k) \subseteq Fds
      /\ Holding(table', Open(k))
  BY <1>1, Opened DEF IInv
<1>3. Scheduled' = Scheduled /\ Handed' = Handed
  BY <1>1 DEF Scheduled, Handed
<1>4. TypeOK'
  BY <1>1, <1>2, BoundsAssumption DEF IInv, TypeOK, CanOpen, Holding
<1>5. \A p \in Open(k) : p \notin Known \union picked
  BY <1>1, Fresh
<1>6. Apart' /\ Kept' \subseteq Kept \union Open(k) /\ Known' = Known \union Open(k)
  BY <1>1, <1>3, <1>5, ScheduledFds DEF IInv, Apart, Kept, Known
<1>7. EarlierSpared'
  BY <1>1 DEF IInv, EarlierSpared
<1>8. QED
  BY <1>1, <1>2, <1>3, <1>4, <1>6, <1>7, Opening

\* What is opened, but for the two descriptors that are closed at once, goes to
\* the new client and to its caller, if nothing fails.
LEMMA SubspaceKeeps ==
    ASSUME IInv, Subspace
    PROVE  IInv'
<1>1. PICK k \in 1..MaxSpaces :
          /\ CanOpen(k + 3) /\ files' = files + (k + 3)
          /\ \E conn, pidfd, dup \in Open(k + 3) :
                 LET spaces == Open(k + 3) \ {conn, pidfd, dup} IN
                 /\ conn[1] < pidfd[1] /\ pidfd[1] < dup[1]
                 /\ \A p \in spaces : pidfd[1] < p[1] /\ p[1] < dup[1]
                 /\ \/ /\ table' = Without(With(Open(k + 3)), {conn, pidfd})
                       /\ HandOut(spaces)
                       /\ others' = others \union {dup}
                    \/ /\ table' = Without(With(Open(k + 3)), {conn, pidfd, dup})
                       /\ lost' = lost \union spaces
                       /\ UNCHANGED <<cleanups, others>>
          /\ UNCHANGED <<picked, entered, nodes, node, robbed>>
  BY DEF Subspace, Running
<1> DEFINE m == k + 3
<1>2. m \in Nat
  BY MaxSpacesAssumption
<1>3. PICK conn \in Open(m), pidfd \in Open(m), dup \in Open(m) :
          /\ conn[1] < pidfd[1] /\ pidfd[1] < dup[1]
          /\ \/ /\ table' = Without(With(Open(m)), {conn, pidfd})
                /\ HandOut(Open(m) \ {conn, pidfd, dup})
                /\ others' = others \union {dup}
             \/ /\ table' = Without(With(Open(m)), {conn, pidfd, dup})
                /\ lost' = lost \union (Open(m) \ {conn, pidfd, dup})
                /\ UNCHANGED <<cleanups, others>>
  BY <1>1
<1>4. CanOpen(m) /\ files' = files + m /\ UNCHANGED <<picked, entered, nodes, node, robbed>>
  BY <1>1
<1> HIDE DEF m
<1> DEFINE spaces == Open(m) \ {conn, pidfd, dup}
<1>5. /\ Open(m) \subseteq Fds
      /\ \A p \in Open(m) : p \notin Known \union picked
  BY <1>2, <1>4, Opened, Fresh DEF IInv
<1>6. dup \notin {conn, pidfd}
  BY <1>3, <1>5, BoundsAssumption DEF Fds, Numbers
<1>7. CASE /\ table' = Without(With(Open(m)), {conn, pidfd})
           /\ HandOut(spaces)
           /\ others' = others \union {dup}
  <2>1. Open(m) \ {conn, pidfd} = spaces \union {dup}
    BY <1>3, <1>6
  <2>2. Holding(table', spaces \union {dup})
    BY <1>2, <1>4, <1>7, <2>1, OpenedSome DEF IInv
  <2>3. /\ cleanups' \in Seq(Cleanup)
        /\ Scheduled' \union lost' = Scheduled \union lost \union spaces
        /\ lost' \subseteq lost \union spaces
        /\ Handed' \subseteq Handed \union spaces
        /\ EarlierSpared'
    BY <1>2, <1>4, <1>7, HandsOut
  <2>4. TypeOK'
    <3>1. table' \in [Numbers -> 0..MaxFiles] /\ files' \in 0..MaxFiles
      BY <1>2, <1>4, <2>2, BoundsAssumption DEF IInv, TypeOK, CanOpen, Holding
    <3>2. others' \subseteq Fds /\ lost' \subseteq Fds
      BY <1>5, <1>7, <2>3 DEF IInv, TypeOK
    <3>3. QED
      BY <1>4, <2>3, <3>1, <3>2 DEF IInv, TypeOK, Cleanup
  <2>5. Kept' = Kept \union {dup} /\ Known' = Known \union (spaces \union {dup})
    BY <1>4, <1>7, <2>3 DEF Kept, Known
  <2>6. Apart'
    <3>1. dup \notin spaces
      OBVIOUS
    <3>2. Handed \subseteq Known
      BY ScheduledFds DEF IInv, Known
    <3>3. QED
      BY <1>4, <1>5, <1>7, <2>3, <3>1, <3>2 DEF IInv, Apart, Kept, Known
  <2>7. spaces \union {dup} \subseteq Open(m)
    OBVIOUS
  <2>8. QED
    BY <1>2, <1>4, <2>2, <2>3, <2>4, <2>5, <2>6, <2>7, Opening
<1>8. CASE /\ table' = Without(With(Open(m)), {conn, pidfd, dup})
           /\ lost' = lost \union spaces
           /\ UNCHANGED <<cleanups, others>>
  <2>1. Holding(table', spaces)
    BY <1>2, <1>4, <1>8, OpenedSome DEF IInv
  <2>2. Scheduled' = Scheduled /\ Handed' = Handed /\ Kept' = Kept
    BY <1>4, <1>8 DEF Scheduled, Handed, Kept
  <2>3. TypeOK'
    <3>1. table' \in [Numbers -> 0..MaxFiles] /\ files' \in 0..MaxFiles
      BY <1>2, <1>4, <2>1, BoundsAssumption DEF IInv, TypeOK, CanOpen, Holding
    <3>2. lost' \subseteq Fds
      BY <1>5, <1>8 DEF IInv, TypeOK
    <3>3. QED
      BY <1>4, <1>8, <3>1, <3>2 DEF IInv, TypeOK
  <2>4. Known' = Known \union spaces
    BY <1>8, <2>2 DEF Known
  <2>5. Apart'
    BY <1>4, <1>8, <2>2 DEF IInv, Apart
  <2>6. EarlierSpared'
    BY <1>4, <1>8 DEF IInv, EarlierSpared
  <2>7. QED
    BY <1>2, <1>4, <2>1, <2>2, <2>3, <2>4, <2>5, <2>6, Opening
<1>9. QED
  BY <1>3, <1>7, <1>8

\* The references picked up are scheduled, but not handed out.
LEMMA GoSeparateKeeps ==
    ASSUME IInv, GoSeparate
    PROVE  IInv'
<1>1. /\ Picked \in Nat /\ CanOpen(Picked) /\ files' = files + Picked
      /\ node = "running"
      /\ picked = {} /\ picked' = Open(Picked)
      /\ UNCHANGED <<entered, others, lost, nodes, node, robbed>>
  BY PickedAssumption DEF GoSeparate, Running
<1>2. /\ Open(Picked) \subseteq Fds
      /\ Holding(table', Open(Picked))
  BY <1>1, Opened DEF IInv, GoSeparate
<1>3. /\ cleanups' \in Seq(Cleanup)
      /\ Scheduled' = Scheduled \union Open(Picked)
      /\ Handed' = Handed
  BY <1>2, Schedules DEF IInv, GoSeparate
<1>4. TypeOK'
  BY <1>1, <1>2, <1>3, BoundsAssumption DEF IInv, TypeOK, CanOpen, Holding, Cleanup
<1>5. Apart' /\ Kept' = Kept /\ Known' = Known \union Open(Picked)
  BY <1>1, <1>3, Fresh, ScheduledFds DEF IInv, Apart, Kept, Known
<1>6. EarlierSpared'
  <2>1. Schedule(Open(Picked), FALSE)
    BY DEF GoSeparate
  <2>2. \A p \in Open(Picked) : table[p[1]] = Closed
    BY <1>1, Opened DEF IInv
  <2>3. QED
    BY <1>1, <1>2, <2>1, <2>2, ScheduleSpares
<1>7. QED
  BY <1>1, <1>2, <1>3, <1>4, <1>5, <1>6, Opening

LEMMA OtherOpensKeeps ==
    ASSUME IInv, OtherOpens
    PROVE  IInv'
<1>1. /\ CanOpen(1) /\ files' = files + 1 /\ others' = others \union Open(1)
      /\ UNCHANGED <<cleanups, picked, entered, lost, nodes, node, robbed>>
  BY DEF OtherOpens
<1>2. /\ Open(1) \subseteq Fds
      /\ Holding(table', Open(1))
  BY <1>1, Opened DEF IInv, OtherOpens
<1>3. Scheduled' = Scheduled /\ Handed' = Handed
  BY <1>1 DEF Scheduled, Handed
<1>4. TypeOK'
  BY <1>1, <1>2, BoundsAssumption DEF IInv, TypeOK, CanOpen, Holding
<1>5. Apart' /\ Kept' = Kept \union Open(1) /\ Known' = Known \union Open(1)
  <2>1. \A p \in Open(1) : p \notin Known \union picked
    BY <1>1, Fresh
  <2>2. QED
    BY <1>1, <1>3, <2>1, ScheduledFds DEF IInv, Apart, Kept, Known
<1>6. EarlierSpared'
  BY <1>1 DEF IInv, EarlierSpared
<1>7. QED
  BY <1>1, <1>2, <1>3, <1>4, <1>5, <1>6, Opening

\* A step that closes numbers.
LEMMA Closing ==
    ASSUME IInv, TypeOK', NEW fds \in SUBSET Fds, table' = Without(table, fds),
           UNCHANGED files,
           picked' \subseteq picked, entered' \subseteq entered, others' \subseteq others,
           Known' \subseteq Known, Handed' \subseteq Handed,
           \A p \in Known : p \in Known' \/ p \in fds,
           Good', EarlierSpared'
    PROVE  IInv'
<1>1. \A n \in Numbers : table'[n] = IF \E p \in fds : p[1] = n THEN Closed ELSE table[n]
  BY DEF Without
<1>2. files \in Nat
  BY BoundsAssumption DEF IInv, TypeOK
<1>3. Past'
  BY <1>1, <1>2 DEF IInv, Past, Closed
<1>4. Owned'
  BY <1>1 DEF IInv, Owned, Closed
<1>5. Apart'
  BY DEF IInv, Apart, Kept
<1>6. QED
  BY <1>3, <1>4, <1>5 DEF IInv

LEMMA WithoutType ==
    ASSUME TypeOK, NEW fds
    PROVE  Without(table, fds) \in [Numbers -> 0..MaxFiles]
  BY BoundsAssumption DEF TypeOK, Without, Closed

\* A number that is not closed keeps its file.
LEMMA WithoutOpen ==
    ASSUME NEW fds, table' = Without(table, fds), NEW p \in Fds, IsOpen(p),
           \A q \in fds : q[1] # p[1]
    PROVE  IsOpen(p)'
  BY DEF Without, IsOpen, Fds

LEMMA SeparateEndsKeeps ==
    ASSUME IInv, SeparateEnds
    PROVE  IInv'
<1>1. /\ table' = Without(table, picked) /\ picked' = {}
      /\ UNCHANGED <<files, cleanups, entered, others, lost, nodes, node, robbed>>
      /\ Handed' = Handed /\ Kept' = Kept /\ Known' = Known
  BY DEF SeparateEnds, Scheduled, Handed, Kept, Known
<1>2. TypeOK'
  BY <1>1, WithoutType DEF IInv, TypeOK
<1>3. EarlierSpared'
  BY <1>1 DEF IInv, EarlierSpared
<1>4. Good'
  <2>1. ASSUME ~robbed, NEW p \in Kept \union Handed PROVE IsOpen(p)'
    <3>1. p \in Fds /\ IsOpen(p) /\ p \notin picked
      BY <2>1, ScheduledFds DEF IInv, TypeOK, Good, Apart, Kept
    <3>2. \A q \in picked : IsOpen(q) /\ q \in Fds
      BY <2>1 DEF IInv, TypeOK, Good
    <3>3. \A q \in picked : q[1] # p[1]
      BY <3>1, <3>2 DEF IsOpen, Fds
    <3>4. QED
      BY <1>1, <3>1, <3>3, WithoutOpen
  <2>2. QED
    BY <1>1, <2>1 DEF Good
<1>5. QED
  BY <1>1, <1>2, <1>3, <1>4, Closing DEF IInv, TypeOK

\* One of those that are kept is closed, or left behind.
LEMMA KeptCloses ==
    ASSUME IInv, TypeOK', NEW o \in Kept, NEW fds \in SUBSET {o},
           table' = Without(table, fds),
           entered' \subseteq entered, others' \subseteq others,
           Kept' = Kept \ {o},
           lost' = IF fds = {} THEN lost \union {o} ELSE lost,
           UNCHANGED <<files, cleanups, picked, robbed>>
    PROVE  IInv'
<1>1. Scheduled' = Scheduled /\ Handed' = Handed
  BY DEF Scheduled, Handed
<1>2. o \in Fds /\ Kept \subseteq Fds
  BY DEF IInv, TypeOK, Kept
<1>3. ASSUME ~robbed, NEW p \in Fds, p # o, IsOpen(p) PROVE IsOpen(p)'
  <2>1. IsOpen(o)
    BY <1>3 DEF IInv, Good
  <2>2. \A q \in fds : q[1] # p[1]
    BY <1>2, <1>3, <2>1 DEF IsOpen, Fds
  <2>3. QED
    BY <1>3, <2>2, WithoutOpen
<1>4. Good'
  <2>1. ASSUME ~robbed, NEW p \in (Kept \union picked \union Handed)' PROVE IsOpen(p)'
    <3>1. p \in Kept \union picked \union Handed /\ p # o
      BY <1>1, <2>1 DEF IInv, Apart
    <3>2. p \in Fds
      BY <1>2, <3>1, ScheduledFds DEF IInv, TypeOK
    <3>3. QED
      BY <1>3, <2>1, <3>1, <3>2 DEF IInv, Good
  <2>2. QED
    BY <2>1 DEF Good
<1>5. EarlierSpared'
  BY DEF IInv, EarlierSpared
<1>6. Known' \subseteq Known /\ \A p \in Known : p \in Known' \/ p \in fds
  BY <1>1 DEF Known
<1>7. fds \in SUBSET Fds
  BY <1>2
<1>8. QED
  BY <1>1, <1>4, <1>5, <1>6, <1>7, Closing

LEMMA LeaveTransientKeeps ==
    ASSUME IInv, LeaveTransient
    PROVE  IInv'
<1>1. PICK o \in entered :
          /\ entered' = entered \ {o}
          /\ \/ table' = Without(table, {o}) /\ UNCHANGED lost
             \/ lost' = lost \union {o} /\ UNCHANGED table
          /\ UNCHANGED <<files, cleanups, picked, others, nodes, node, robbed>>
  BY DEF LeaveTransient
<1>2. o \in Kept /\ Kept' = Kept \ {o}
  BY <1>1 DEF IInv, Apart, Kept
<1>3. CASE table' = Without(table, {o}) /\ UNCHANGED lost
  <2>1. TypeOK'
    BY <1>1, <1>3, WithoutType DEF IInv, TypeOK
  <2>2. QED
    BY <1>1, <1>2, <1>3, <2>1, KeptCloses
<1>4. CASE lost' = lost \union {o} /\ UNCHANGED table
  <2>1. TypeOK'
    BY <1>1, <1>4 DEF IInv, TypeOK
  <2>2. table' = Without(table, {})
    BY <1>4 DEF IInv, TypeOK, Without
  <2>3. QED
    BY <1>1, <1>2, <1>4, <2>1, <2>2, KeptCloses
<1>5. QED
  BY <1>1, <1>3, <1>4

LEMMA OtherClosesKeeps ==
    ASSUME IInv, OtherCloses
    PROVE  IInv'
<1>1. PICK o \in others :
          /\ table' = Without(table, {o}) /\ others' = others \ {o}
          /\ UNCHANGED <<files, cleanups, picked, entered, lost, nodes, node, robbed>>
  BY DEF OtherCloses
<1>2. o \in Kept /\ Kept' = Kept \ {o}
  BY <1>1 DEF IInv, Apart, Kept
<1>3. TypeOK'
  BY <1>1, WithoutType DEF IInv, TypeOK
<1>4. QED
  BY <1>1, <1>2, <1>3, KeptCloses

LEMMA CleanupStepKeeps ==
    ASSUME IInv, CleanupStep
    PROVE  IInv'
<1> DEFINE last == cleanups[Len(cleanups)].fds
<1>1. /\ table' = Without(table, last) /\ node = "ending"
      /\ UNCHANGED <<files, picked, entered, others, lost, nodes, node>>
      /\ robbed' = (robbed \/ \E p \in others :
                       table[p[1]] = p[2] /\ table'[p[1]] = Closed)
  BY DEF CleanupStep
<1>2. /\ cleanups' \in Seq(Cleanup) /\ last \in SUBSET Fds
      /\ Scheduled' \subseteq Scheduled /\ Handed' \subseteq Handed
      /\ \A p \in Scheduled : p \in Scheduled' \/ p \in last
      /\ ~robbed => EarlierSpared' /\ \A p \in Handed', q \in last : p[1] # q[1]
  BY Unschedules DEF IInv
<1>3. robbed' \in BOOLEAN
  BY <1>1 DEF IInv, TypeOK
<1>4. TypeOK'
  BY <1>1, <1>2, <1>3, WithoutType DEF IInv, TypeOK, Cleanup
<1>5. ASSUME ~robbed', NEW p \in others PROVE IsOpen(p)'
  <2>1. ~robbed /\ IsOpen(p) /\ p \in Fds /\ table'[p[1]] # Closed
    BY <1>1, <1>5 DEF IInv, TypeOK, Good, IsOpen, Kept
  <2>2. p[1] \in Numbers
    BY <2>1 DEF Fds
  <2>3. QED
    BY <1>1, <2>1, <2>2 DEF IsOpen, Without
<1>6. ASSUME ~robbed', NEW p \in Handed' PROVE IsOpen(p)'
  <2>1. ~robbed /\ p \in Handed /\ p \in Fds
    BY <1>1, <1>2, <1>6, ScheduledFds DEF IInv
  <2>2. IsOpen(p) /\ \A q \in last : q[1] # p[1]
    BY <1>2, <1>6, <2>1 DEF IInv, Good
  <2>3. QED
    BY <1>1, <2>1, <2>2, WithoutOpen
<1>7. Kept' = Kept /\ Kept = others /\ picked' = {}
  BY <1>1 DEF IInv, TypeOK, Kept
<1>8. Good'
  BY <1>1, <1>5, <1>6, <1>7 DEF Good
<1>9. EarlierSpared'
  BY <1>1, <1>2 DEF EarlierSpared
<1>10. Known' \subseteq Known /\ \A p \in Known : p \in Known' \/ p \in last
  BY <1>1, <1>2, <1>7 DEF Known
<1>11. QED
  BY <1>1, <1>2, <1>4, <1>8, <1>9, <1>10, Closing

LEMMA NodeKeeps ==
    ASSUME IInv, NodeEnds \/ NextNode
    PROVE  IInv'
<1>1. /\ UNCHANGED <<table, files, cleanups, picked, entered, others, lost, robbed>>
      /\ nodes' \in Nat /\ node' \in {"running", "ending"}
      /\ node' = "ending" => picked = {} /\ entered = {}
  BY DEF IInv, TypeOK, NodeEnds, NextNode
<1>2. UNCHANGED <<Scheduled, Handed, Kept, Known>>
  BY <1>1 DEF Scheduled, Handed, Kept, Known
<1>3. \A p : IsOpen(p)' = IsOpen(p)
  BY <1>1 DEF IsOpen
<1>4. TypeOK'
  BY <1>1 DEF IInv, TypeOK
<1>5. Past' /\ Owned' /\ Apart' /\ EarlierSpared'
  BY <1>1, <1>2 DEF IInv, Past, Owned, Apart, EarlierSpared
<1>6. Good'
  BY <1>1, <1>2, <1>3 DEF IInv, Good
<1>7. QED
  BY <1>4, <1>5, <1>6 DEF IInv

LEMMA InitIInv == Init => IInv
<1> SUFFICES ASSUME Init PROVE IInv
  OBVIOUS
<1>1. Scheduled = {} /\ Handed = {} /\ Kept = {} /\ Known = {} /\ cleanups = <<>>
  BY DEF Init, Scheduled, Handed, Kept, Known
<1>2. TypeOK
  <2>1. 0 \in 0..MaxFiles
    BY BoundsAssumption
  <2>2. cleanups \in Seq([fds : SUBSET Fds, handed : BOOLEAN])
    BY <1>1, EmptySeq
  <2>3. QED
    BY <2>1, <2>2 DEF Init, TypeOK, Closed
<1>3. Past /\ Owned /\ Apart /\ Good /\ EarlierSpared
  BY <1>1 DEF Init, Past, Owned, Apart, Good, EarlierSpared, Closed
<1>4. QED
  BY <1>2, <1>3 DEF IInv

LEMMA NextIInv == IInv /\ [Next]_vars => IInv'
<1> SUFFICES ASSUME IInv, [Next]_vars PROVE IInv'
  OBVIOUS
<1>1. CASE Next
  BY <1>1, CurrentKeeps, NewTransientKeeps, EnterTransientKeeps, LeaveTransientKeeps, SubspaceKeeps,
     GoSeparateKeeps, SeparateEndsKeeps, NodeKeeps, CleanupStepKeeps, OtherOpensKeeps, OtherClosesKeeps DEF Next
<1>2. CASE UNCHANGED vars
  BY <1>2 DEF vars, IInv, TypeOK, Past, Owned, Apart, Good, EarlierSpared, IsOpen, Scheduled,
     Handed, Kept, Known
<1>3. QED
  BY <1>1, <1>2

\* Every open descriptor has one owner.
THEOREM Invariance == Spec => []IInv
<1>1. Init => IInv
  BY InitIInv
<1>2. IInv /\ [Next]_vars => IInv'
  BY NextIInv
<1>3. QED
  BY <1>1, <1>2, PTL DEF Spec

-----------------------------------------------------------------------------
(* What follows.                                                           *)

\* Every variable keeps its type, and no call goes on after its node.
THEOREM TypeCorrect == Spec => []TypeOK
<1>1. IInv => TypeOK
  BY DEF IInv
<1>2. QED
  BY <1>1, Invariance, PTL

\* As long as no cleanup has closed a descriptor of another goroutine, what a
\* test has got stays open until the cleanups of its node run, whatever
\* goSeparate and other goroutines close meanwhile.
THEOREM ReferencesAreGood == Spec => []ReferencesStayGood
<1>1. IInv => ReferencesStayGood
  BY DEF IInv, Good, Handed, Kept, ReferencesStayGood
<1>2. QED
  BY <1>1, Invariance, PTL

\* The cleanups of a node close everything it has opened, although some of it
\* was closed before and its numbers may belong to others by then. Only what
\* calls have left that failed halfway is open for good.
THEOREM NodesLeaveOnlyFailures == Spec => []OnlyFailuresLeak
<1>1. ASSUME IInv, cleanups = <<>> PROVE Scheduled = {}
  BY <1>1 DEF Scheduled
<1>2. IInv => OnlyFailuresLeak
  BY <1>1 DEF IInv, TypeOK, Owned, Known, Kept, OnlyFailuresLeak
<1>3. QED
  BY <1>2, Invariance, PTL

\* Nothing handed out takes a descriptor away from another goroutine: its
\* cleanup closes what was opened for it, which nobody else has.
LEMMA HandedOutRobsNobody ==
    ASSUME IInv, [Next]_vars, ~robbed, robbed'
    PROVE  ~cleanups[Len(cleanups)].handed
<1> DEFINE last == cleanups[Len(cleanups)].fds
<1>1. CleanupStep
  BY DEF Next, Current, NewTransient, EnterTransient, LeaveTransient, ResponseLost, Rooms,
     Subspace, GoSeparate, SeparateEnds, NodeEnds, NextNode,
     OtherOpens, OtherCloses, vars
<1>2. PICK p \in others : table[p[1]] = p[2] /\ table'[p[1]] = Closed
  BY <1>1 DEF CleanupStep
<1>3. p \in Fds /\ p[1] \in Numbers /\ p[2] # Closed
  BY <1>2, BoundsAssumption DEF IInv, TypeOK, Fds, Closed
<1>4. table' = Without(table, last)
  BY <1>1 DEF CleanupStep
<1>5. PICK q \in last : q[1] = p[1]
  BY <1>2, <1>3, <1>4 DEF Without
<1>6. last \subseteq Fds /\ (cleanups[Len(cleanups)].handed => last \subseteq Handed)
  BY <1>1, Unschedules DEF IInv
<1>7. SUFFICES ASSUME q \in Handed PROVE FALSE
  BY <1>5, <1>6
<1>8. table[q[1]] = q[2] /\ q \in Fds
  BY <1>5, <1>6, <1>7 DEF IInv, Good, IsOpen
<1>9. p = q
  <2>1. q[2] = p[2] /\ q[1] = p[1]
    BY <1>2, <1>5, <1>8
  <2>2. p = <<p[1], p[2]>> /\ q = <<q[1], q[2]>>
    BY <1>3, <1>8 DEF Fds
  <2>3. QED
    BY <2>1, <2>2
<1>10. QED
  BY <1>2, <1>7, <1>9 DEF IInv, Apart, Kept

\* The first cleanup that closes a descriptor of another goroutine is one of a
\* reference that goSeparate has picked up, and closed itself: never that of a
\* reference which Current, NewTransient or a client has handed out.
THEOREM OnlyPickedUpReferencesRob == Spec => OnlyPickedUpRobs
<1>1. IInv /\ [Next]_vars => [~robbed /\ robbed' => ~cleanups[Len(cleanups)].handed]_vars
  BY HandedOutRobsNobody
<1>2. QED
  BY <1>1, Invariance, PTL DEF Spec, OnlyPickedUpRobs

\* Everything scheduled was handed out, and nothing has been robbed.
OnlyHandedOut ==
    /\ IInv
    /\ ~robbed
    /\ \A i \in DOMAIN cleanups : cleanups[i].handed

LEMMA HandingOut ==
    ASSUME TypeOK, NEW fds, Schedule(fds, TRUE), \A i \in DOMAIN cleanups : cleanups[i].handed
    PROVE  \A i \in DOMAIN cleanups' : cleanups'[i].handed
<1> DEFINE new == [fds |-> fds, handed |-> TRUE]
<1>1. /\ cleanups' = Append(cleanups, new) /\ new.handed
      /\ Len(cleanups) \in Nat /\ DOMAIN cleanups = 1..Len(cleanups)
  BY LenProperties DEF Schedule, TypeOK
<1> HIDE DEF new
<1>2. /\ DOMAIN cleanups' = 1..(Len(cleanups) + 1)
      /\ \A i \in 1..(Len(cleanups) + 1) :
            cleanups'[i] = IF i = Len(cleanups) + 1 THEN new ELSE cleanups[i]
  BY <1>1
<1>3. QED
  BY <1>1, <1>2

LEMMA NextOnlyHandedOut ==
    ASSUME OnlyHandedOut, [Next]_vars, [~GoSeparate]_vars
    PROVE  OnlyHandedOut'
<1>1. IInv'
  BY NextIInv DEF OnlyHandedOut
<1>2. ~robbed'
  <2> SUFFICES ASSUME robbed' PROVE FALSE
    OBVIOUS
  <2>1. CleanupStep
    BY DEF Next, Current, NewTransient, EnterTransient, LeaveTransient, ResponseLost, Rooms,
       Subspace, GoSeparate, SeparateEnds, NodeEnds, NextNode,
       OtherOpens, OtherCloses, vars, OnlyHandedOut
  <2>2. /\ cleanups \in Seq(Cleanup) /\ cleanups # <<>>
    BY <2>1 DEF CleanupStep, OnlyHandedOut, IInv, TypeOK, Cleanup
  <2>3. Len(cleanups) \in DOMAIN cleanups
    BY <2>2, LenProperties, EmptySeq
  <2>4. QED
    BY <2>3, HandedOutRobsNobody DEF OnlyHandedOut
<1>3. \A i \in DOMAIN cleanups' : cleanups'[i].handed
  <2>1. CASE Current \/ NewTransient \/ Rooms \/ Subspace
    <3>1. CASE Current
      BY <3>1, HandingOut DEF Current, OnlyHandedOut, IInv
    <3>2. ASSUME NEW fds, HandOut(fds)
          PROVE  \A i \in DOMAIN cleanups' : cleanups'[i].handed
      BY <3>2, HandingOut DEF HandOut, OnlyHandedOut, IInv
    <3>3. CASE NewTransient
      BY <3>2, <3>3 DEF NewTransient
    <3>4. CASE Rooms
      BY <3>4, HandingOut DEF Rooms, OnlyHandedOut, IInv
    <3>5. CASE Subspace
      <4>1. (\E fds : HandOut(fds)) \/ UNCHANGED cleanups
        BY <3>5 DEF Subspace
      <4>2. QED
        BY <3>2, <4>1 DEF OnlyHandedOut
    <3>6. QED
      BY <2>1, <3>1, <3>3, <3>4, <3>5
  <2>2. CASE CleanupStep
    <3>1. /\ cleanups \in Seq(Cleanup) /\ cleanups # <<>>
          /\ cleanups' = SubSeq(cleanups, 1, Len(cleanups) - 1)
      BY <2>2 DEF CleanupStep, OnlyHandedOut, IInv, TypeOK, Cleanup
    <3>2. Len(cleanups) \in Nat /\ Len(cleanups) # 0 /\ DOMAIN cleanups = 1..Len(cleanups)
      BY <3>1, LenProperties, EmptySeq
    <3>3. /\ DOMAIN cleanups' = 1..(Len(cleanups) - 1)
          /\ \A i \in 1..(Len(cleanups) - 1) : cleanups'[i] = cleanups[i]
      BY <3>1, <3>2
    <3>4. QED
      BY <3>2, <3>3 DEF OnlyHandedOut
  <2>3. CASE UNCHANGED cleanups
    BY <2>3 DEF OnlyHandedOut
  <2>4. QED
    BY <2>1, <2>2, <2>3 DEF Next, EnterTransient, LeaveTransient, ResponseLost, SeparateEnds,
       NodeEnds, NextNode, OtherOpens, OtherCloses, vars
<1>4. QED
  BY <1>1, <1>2, <1>3 DEF OnlyHandedOut

\* As long as no Execute starts a goroutine of its own, what others have opened
\* stays open until they close it, in any order of opening, closing and ending
\* nodes: of all calls here only goSeparate makes OthersKeepTheirs fail.
THEOREM OthersAreSafeWithoutSeparate ==
    Spec /\ [][~GoSeparate]_vars => []OthersKeepTheirs
<1>1. Init => OnlyHandedOut
  <2>1. Init => ~robbed /\ \A i \in DOMAIN cleanups : cleanups[i].handed
    BY DEF Init
  <2>2. QED
    BY <2>1, InitIInv DEF OnlyHandedOut
<1>2. OnlyHandedOut /\ [Next]_vars /\ [~GoSeparate]_vars => OnlyHandedOut'
  BY NextOnlyHandedOut
<1>3. OnlyHandedOut => OthersKeepTheirs
  BY DEF OnlyHandedOut, IInv, Good, Kept, OthersKeepTheirs
<1>4. QED
  BY <1>1, <1>2, <1>3, PTL DEF Spec
=============================================================================
