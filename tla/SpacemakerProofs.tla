--------------------------- MODULE SpacemakerProofs ---------------------------
(***************************************************************************)
(* Proofs about Spacemaker, for any finite set of calls and any menu of    *)
(* requests, whatever fails.                                               *)
(***************************************************************************)
EXTENDS Spacemaker, FiniteSetTheorems, TLAPS

-----------------------------------------------------------------------------
(* The inductive invariant: what is open on behalf of a call follows from  *)
(* where its handler is.                                                   *)

Opens(c) == {s \in Slots : <<c, s>> \in open}

SubspacePCs == {"socketpair", "wrapDupond", "wrapDupont", "dupontFile", "start",
                "dupondFile", "dup", "user", "pid", "pidfd"}
RoomPCs == {"rooms", "newNamespace"}
Working == {"idle"} \union SubspacePCs \union RoomPCs
BeforeStart == {"idle", "socketpair", "wrapDupond", "wrapDupont", "dupontFile", "start"}

SubspaceRequests == [kind : {"subspace"}, spaces : (SUBSET {"user", "pid"}) \ {{}}]
RoomsRequests == [kind : {"rooms"}, spaces : SUBSET RoomFields]

\* What a handler of Subspace has open at each of its steps.
Pair == {"dupond", "dupont", "dupontf"}
Holds(c) ==
    CASE pc[c] = "socketpair" -> {}
      [] pc[c] = "wrapDupond" -> {"fdpair0", "fdpair1"}
      [] pc[c] = "wrapDupont" -> {"dupond", "fdpair1"}
      [] pc[c] = "dupontFile" -> {"dupond", "dupont"}
      [] pc[c] = "start" -> Pair
      [] pc[c] = "dupondFile" -> Pair
      [] pc[c] = "dup" -> Pair \union {"dupondf"}
      [] pc[c] = "user" -> Pair \union {"dupondf", "conn"}
      [] pc[c] = "pid" -> Pair \union {"dupondf", "conn"} \union (asked[c].spaces \ {"pid"})
      [] pc[c] = "pidfd" -> Pair \union {"dupondf", "conn"} \union asked[c].spaces

\* The request was looked at before anything is done for it.
Checked(c) ==
    /\ pc[c] = "idle" => asked[c] = NoRequest
    /\ pc[c] \in SubspacePCs => asked[c] \in SubspaceRequests
    /\ pc[c] = "user" => "user" \in asked[c].spaces
    /\ pc[c] = "pid" => "pid" \in asked[c].spaces
    /\ pc[c] \in RoomPCs => asked[c] \in RoomsRequests
    /\ pc[c] \in Working \ {"idle"} => asked[c] # NoRequest
    /\ answer[c] = "ok" => asked[c] \in SubspaceRequests \union RoomsRequests

Answered(c) == pc[c] # "panicked" => (answer[c] = "none" <=> pc[c] \in Working)

Held(c) ==
    /\ pc[c] \in SubspacePCs => Opens(c) = Holds(c)
    /\ pc[c] \in RoomPCs =>
          LET closed == asked[c].spaces \ todo[c]
              caller == IF pc[c] = "rooms" THEN {} ELSE {"callerns"}
          IN  /\ todo[c] \subseteq asked[c].spaces
              /\ Opens(c) \subseteq closed \union caller
              /\ ~spoilt[c] => Opens(c) = closed \union caller
    /\ pc[c] = "newNamespace" => todo[c] # {}
    /\ pc[c] \in {"answered", "sent"} =>
          Opens(c) = IF answer[c] = "ok" THEN OpenFields(asked[c]) ELSE {}
    /\ pc[c] \in {"idle", "done", "panicked"} => Opens(c) = {}

\* There is no child process before there is one, nor for a room.
ChildLater(c) == pc[c] \in BeforeStart \union RoomPCs => child[c] = "none"

CallOK(c) == Checked(c) /\ Answered(c) /\ Held(c) /\ ChildLater(c)

\* A descriptor refers to something else only for one of two reasons.
StrangeReasons == \A p \in strange : p[2] = "time" \/ child[p[1]] = "reused"

IInv == TypeOK /\ (\A c \in Calls : CallOK(c)) /\ StrangeReasons

-----------------------------------------------------------------------------
(* Lemmas.                                                                 *)

\* FieldOrder ranks the fields of a response to Room.
LEMMA RoomRanks ==
    /\ Rank("cgroup") = 5 /\ Rank("ipc") = 6 /\ Rank("mnt") = 7
    /\ Rank("net") = 8 /\ Rank("time") = 9 /\ Rank("uts") = 10
<1>1. /\ DOMAIN FieldOrder = 1..10
      /\ FieldOrder[1] = "conn" /\ FieldOrder[2] = "pidfd" /\ FieldOrder[3] = "user"
      /\ FieldOrder[4] = "pid" /\ FieldOrder[5] = "cgroup" /\ FieldOrder[6] = "ipc"
      /\ FieldOrder[7] = "mnt" /\ FieldOrder[8] = "net" /\ FieldOrder[9] = "time"
      /\ FieldOrder[10] = "uts"
  BY DEF FieldOrder
<1>2. \A i \in DOMAIN FieldOrder : i \in {1, 2, 3, 4, 5, 6, 7, 8, 9, 10}
  BY <1>1
<1>3. ASSUME NEW f, NEW n \in 1..10, FieldOrder[n] = f,
             \A i \in DOMAIN FieldOrder : FieldOrder[i] = f => i = n
      PROVE  Rank(f) = n
  BY <1>1, <1>3 DEF Rank
<1>4. QED
  BY <1>1, <1>2, <1>3

\* Room has a next type to try as long as there is one left.
LEMMA NextType ==
    ASSUME NEW c \in Calls, todo[c] \in SUBSET RoomFields, todo[c] # {}
    PROVE  TypeNow(c) \in todo[c]
<1>1. \E t \in todo[c] : \A u \in todo[c] : Rank(t) <= Rank(u)
  <2>1. CASE "cgroup" \in todo[c]
    BY <2>1, RoomRanks DEF RoomFields
  <2>2. CASE "cgroup" \notin todo[c] /\ "ipc" \in todo[c]
    BY <2>2, RoomRanks DEF RoomFields
  <2>3. CASE {"cgroup", "ipc"} \cap todo[c] = {} /\ "mnt" \in todo[c]
    BY <2>3, RoomRanks DEF RoomFields
  <2>4. CASE {"cgroup", "ipc", "mnt"} \cap todo[c] = {} /\ "net" \in todo[c]
    BY <2>4, RoomRanks DEF RoomFields
  <2>5. CASE {"cgroup", "ipc", "mnt", "net"} \cap todo[c] = {} /\ "time" \in todo[c]
    BY <2>5, RoomRanks DEF RoomFields
  <2>6. CASE {"cgroup", "ipc", "mnt", "net", "time"} \cap todo[c] = {}
    BY <2>6, RoomRanks DEF RoomFields
  <2>7. QED
    BY <2>1, <2>2, <2>3, <2>4, <2>5, <2>6
<1>2. QED
  BY <1>1 DEF TypeNow

\* What Go does to the descriptors of each call.
LEMMA GoOpens ==
    ASSUME NEW c \in Calls, NEW next, NEW opened \in SUBSET Slots, NEW closed,
           open \subseteq Calls \X Slots, Go(c, next, opened, closed)
    PROVE  /\ open' \subseteq Calls \X Slots
           /\ Opens(c)' = (Opens(c) \ closed) \union opened
           /\ \A d \in Calls \ {c} : Opens(d)' = Opens(d)
<1>1. open' = (open \ ({c} \X closed)) \union ({c} \X opened)
  BY DEF Go
<1>2. open' \subseteq Calls \X Slots
  BY <1>1
<1>3. \A d \in Calls, s \in Slots :
        <<d, s>> \in open' <=> \/ d = c /\ s \in opened
                               \/ <<d, s>> \in open /\ ~(d = c /\ s \in closed)
  BY <1>1
<1>4. QED
  BY <1>2, <1>3 DEF Opens

\* The invariant of a call is about nothing else.
Same(c) ==
    /\ asked'[c] = asked[c]
    /\ answer'[c] = answer[c]
    /\ todo'[c] = todo[c]
    /\ spoilt'[c] = spoilt[c]
    /\ child'[c] = child[c]

LEMMA CallFrame ==
    ASSUME NEW c \in Calls, CallOK(c), Same(c), pc'[c] = pc[c], Opens(c)' = Opens(c)
    PROVE  CallOK(c)'
<1> USE DEF CallOK, Same
<1>1. Checked(c)' /\ Answered(c)' /\ ChildLater(c)'
  BY DEF Checked, Answered, ChildLater
<1>2. Holds(c)' = Holds(c)
  BY DEF Holds
<1>3. Held(c)'
  BY <1>2 DEF Held
<1>4. QED
  BY <1>1, <1>3

\* What a step of a handler does to the other ones: nothing.
LEMMA GoKeeps ==
    ASSUME IInv, NEW c \in Calls, NEW next \in PCs, NEW opened \in SUBSET Slots, NEW closed,
           Go(c, next, opened, closed), \A d \in Calls \ {c} : Same(d)
    PROVE  /\ pc' \in [Calls -> PCs]
           /\ pc'[c] = next
           /\ open' \subseteq Calls \X Slots
           /\ Opens(c)' = (Opens(c) \ closed) \union opened
           /\ \A d \in Calls \ {c} : CallOK(d)'
<1>1. /\ open' \subseteq Calls \X Slots
      /\ Opens(c)' = (Opens(c) \ closed) \union opened
      /\ \A d \in Calls \ {c} : Opens(d)' = Opens(d)
  BY GoOpens DEF IInv, TypeOK
<1>2. /\ pc' \in [Calls -> PCs]
      /\ pc'[c] = next
      /\ \A d \in Calls \ {c} : pc'[d] = pc[d]
  BY DEF Go, IInv, TypeOK
<1>3. \A d \in Calls \ {c} : CallOK(d)'
  BY <1>1, <1>2, CallFrame DEF IInv
<1>4. QED
  BY <1>1, <1>2, <1>3

\* A handler of Subspace that fails closes all that it has opened.
LEMMA FailKeeps ==
    ASSUME IInv, NEW c \in Calls, NEW closed, Fail(c, closed), pc[c] \in SubspacePCs,
           Opens(c) \subseteq closed \union Deferred,
           UNCHANGED <<asked, todo, spoilt, child>>
    PROVE  /\ pc' \in [Calls -> PCs]
           /\ answer' \in [Calls -> {"none", "error", "ok"}]
           /\ open' \subseteq Calls \X Slots
           /\ Opens(c)' = {}
           /\ \A d \in Calls : CallOK(d)'
<1>1. /\ Go(c, "answered", {}, closed \union Deferred)
      /\ answer' = [answer EXCEPT ![c] = "error"]
  BY DEF Fail, Reply
<1>2. /\ answer' \in [Calls -> {"none", "error", "ok"}]
      /\ answer'[c] = "error"
      /\ \A d \in Calls \ {c} : Same(d)
  BY <1>1 DEF IInv, TypeOK, Same
<1>3. /\ pc' \in [Calls -> PCs]
      /\ pc'[c] = "answered"
      /\ open' \subseteq Calls \X Slots
      /\ Opens(c)' = {}
      /\ \A d \in Calls \ {c} : CallOK(d)'
  <2>1. "answered" \in PCs /\ {} \in SUBSET Slots
    BY DEF PCs
  <2>2. /\ pc' \in [Calls -> PCs]
        /\ pc'[c] = "answered"
        /\ open' \subseteq Calls \X Slots
        /\ Opens(c)' = (Opens(c) \ (closed \union Deferred)) \union {}
        /\ \A d \in Calls \ {c} : CallOK(d)'
    BY <1>1, <1>2, <2>1, GoKeeps
  <2>3. QED
    BY <2>2
<1>4. CallOK(c)'
  BY <1>2, <1>3 DEF CallOK, Checked, Answered, Held, ChildLater, Working, SubspacePCs,
     RoomPCs, BeforeStart
<1>5. QED
  BY <1>2, <1>3, <1>4

\* A handler of Subspace that gets on to another step, with what it should
\* have open there.
LEMMA AdvanceKeeps ==
    ASSUME IInv, NEW c \in Calls, NEW next \in SubspacePCs, NEW opened \in SUBSET Slots,
           NEW closed, Go(c, next, opened, closed), pc[c] \in SubspacePCs,
           (Opens(c) \ closed) \union opened = Holds(c)',
           next = "user" => "user" \in asked[c].spaces,
           next = "pid" => "pid" \in asked[c].spaces,
           next \in BeforeStart => child'[c] = "none",
           \A d \in Calls \ {c} : child'[d] = child[d],
           UNCHANGED <<asked, answer, todo, spoilt>>
    PROVE  /\ pc' \in [Calls -> PCs]
           /\ open' \subseteq Calls \X Slots
           /\ \A d \in Calls : CallOK(d)'
<1>1. next \in PCs /\ \A d \in Calls \ {c} : Same(d)
  BY DEF Same, PCs, SubspacePCs
<1>2. /\ pc' \in [Calls -> PCs]
      /\ pc'[c] = next
      /\ open' \subseteq Calls \X Slots
      /\ Opens(c)' = Holds(c)'
      /\ \A d \in Calls \ {c} : CallOK(d)'
  BY <1>1, GoKeeps
<1>3. CallOK(c)
  BY DEF IInv
<1>4. Checked(c)' /\ Answered(c)' /\ ChildLater(c)'
  BY <1>2, <1>3 DEF CallOK, Checked, Answered, ChildLater, Working, SubspacePCs, RoomPCs
<1>5. Held(c)'
  BY <1>2 DEF Held, SubspacePCs, RoomPCs
<1>6. QED
  BY <1>2, <1>4, <1>5 DEF CallOK
-----------------------------------------------------------------------------
(* What each step keeps.                                                   *)

Answers == {"none", "error", "ok"}
Clients == {"none", "open", "closed"}

LEMMA InitIInv == Init => IInv
<1> SUFFICES ASSUME Init PROVE IInv
  OBVIOUS
<1>1. TypeOK
  BY DEF Init, TypeOK, PCs, ChildStates
<1>2. ASSUME NEW c \in Calls PROVE CallOK(c)
  BY DEF Init, CallOK, Checked, Answered, Held, ChildLater, Working, SubspacePCs,
     RoomPCs, BeforeStart, Opens, NoRequest
<1>3. StrangeReasons
  BY DEF Init, StrangeReasons
<1>4. QED
  BY <1>1, <1>2, <1>3 DEF IInv

\* What is left to show of a step that starts or ends no process.
LEMMA StepKeeps ==
    ASSUME IInv, \A c \in Calls : CallOK(c)',
           pc' \in [Calls -> PCs], answer' \in [Calls -> Answers],
           open' \subseteq Calls \X Slots, client' \in [Calls -> Clients],
           strange' \subseteq Calls \X Fields, StrangeReasons',
           UNCHANGED <<settled, child>>
    PROVE  IInv'
  BY DEF IInv, TypeOK, settled, Answers, Clients

\* The process of the service dies.
LEMMA PanicKeeps ==
    ASSUME IInv, Panic, UNCHANGED <<settled, answer, strange, child>>
    PROVE  IInv'
<1>1. /\ pc' \in [Calls -> PCs]
      /\ client' \in [Calls -> Clients]
      /\ open' = {}
      /\ \A c \in Calls : pc'[c] = "panicked"
  BY DEF Panic, PCs, Clients, IInv, TypeOK
<1>2. ASSUME NEW c \in Calls PROVE CallOK(c)'
  <2>1. Opens(c)' = {}
    BY <1>1 DEF Opens
  <2>2. answer'[c] = answer[c] /\ asked'[c] = asked[c] /\ Checked(c)
    BY DEF settled, IInv, CallOK
  <2>3. QED
    BY <1>1, <2>1, <2>2 DEF CallOK, Checked, Answered, Held, ChildLater, Working,
       SubspacePCs, RoomPCs, BeforeStart
<1>3. /\ StrangeReasons'
      /\ strange' \subseteq Calls \X Fields
      /\ answer' \in [Calls -> Answers]
  BY DEF StrangeReasons, IInv, TypeOK, Answers
<1>4. QED
  BY <1>1, <1>2, <1>3, StepKeeps

\* What is found of the child is the child's, or its PID is another process's.
LEMMA FindsKeeps ==
    ASSUME IInv, NEW c \in Calls, NEW slot \in Fields, Finds(c, slot), UNCHANGED child
    PROVE  strange' \subseteq Calls \X Fields /\ StrangeReasons'
  BY DEF Finds, IInv, TypeOK, StrangeReasons

\* A step of Subspace that neither starts the child nor looks it up.
LEMMA PlainKeeps ==
    ASSUME IInv, NEW c \in Calls, NEW next \in SubspacePCs, NEW opened \in SUBSET Slots,
           NEW closed, Go(c, next, opened, closed), pc[c] \in SubspacePCs,
           (Opens(c) \ closed) \union opened = Holds(c)',
           next = "user" => "user" \in asked[c].spaces,
           next = "pid" => "pid" \in asked[c].spaces,
           next \in BeforeStart => child[c] = "none",
           UNCHANGED <<settled, child, answer, client>>,
           strange' \subseteq Calls \X Fields, StrangeReasons'
    PROVE  IInv'
<1>1. /\ \A d \in Calls : child'[d] = child[d]
      /\ UNCHANGED <<asked, answer, todo, spoilt>>
  BY DEF settled
<1>2. /\ pc' \in [Calls -> PCs]
      /\ open' \subseteq Calls \X Slots
      /\ \A d \in Calls : CallOK(d)'
  BY <1>1, AdvanceKeeps
<1>3. answer' \in [Calls -> Answers] /\ client' \in [Calls -> Clients]
  BY DEF IInv, TypeOK, Answers, Clients
<1>4. QED
  BY <1>2, <1>3, StepKeeps

\* A step of Subspace that fails.
LEMMA FailStepKeeps ==
    ASSUME IInv, NEW c \in Calls, NEW closed, Fail(c, closed), pc[c] \in SubspacePCs,
           Opens(c) \subseteq closed \union Deferred,
           UNCHANGED <<settled, strange, child, client>>
    PROVE  IInv'
<1>1. /\ pc' \in [Calls -> PCs]
      /\ answer' \in [Calls -> Answers]
      /\ open' \subseteq Calls \X Slots
      /\ \A d \in Calls : CallOK(d)'
  BY FailKeeps DEF settled, Answers
<1>2. /\ strange' \subseteq Calls \X Fields
      /\ StrangeReasons'
      /\ client' \in [Calls -> Clients]
  BY DEF IInv, TypeOK, StrangeReasons, Clients
<1>3. QED
  BY <1>1, <1>2, StepKeeps

LEMMA SocketpairKeeps ==
    ASSUME IInv, NEW c \in Calls, Socketpair(c)
    PROVE  IInv'
<1>1. /\ pc[c] = "socketpair" /\ pc[c] \in SubspacePCs /\ CallOK(c)
      /\ UNCHANGED <<settled, answer, strange, child>>
  BY DEF Socketpair, At, SubspacePCs, IInv
<1>2. Opens(c) = {}
  BY <1>1 DEF CallOK, Held, Holds
<1>3. CASE Go(c, "wrapDupond", {"fdpair0", "fdpair1"}, {}) /\ UNCHANGED client
  <2>1. pc'[c] = "wrapDupond"
    BY <1>3 DEF Go, IInv, TypeOK
  <2>2. Holds(c)' = {"fdpair0", "fdpair1"}
    BY <2>1 DEF Holds
  <2>3. (Opens(c) \ {}) \union {"fdpair0", "fdpair1"} = Holds(c)'
    BY <1>2, <2>2
  <2>4. {"fdpair0", "fdpair1"} \in SUBSET Slots /\ "wrapDupond" \in SubspacePCs
    BY DEF Slots, Locals, Fields, SubspacePCs
  <2>5. strange' \subseteq Calls \X Fields /\ StrangeReasons'
    BY <1>1 DEF IInv, TypeOK, StrangeReasons
  <2>6. "wrapDupond" \in BeforeStart => child[c] = "none"
    BY <1>1 DEF CallOK, ChildLater, BeforeStart
  <2>7. QED
    BY <1>1, <1>3, <2>3, <2>4, <2>5, <2>6, PlainKeeps
<1>4. CASE Panic
  BY <1>1, <1>4, PanicKeeps
<1>5. QED
  BY <1>3, <1>4 DEF Socketpair

LEMMA WrapDupondKeeps ==
    ASSUME IInv, NEW c \in Calls, WrapDupond(c)
    PROVE  IInv'
<1>1. /\ pc[c] = "wrapDupond" /\ pc[c] \in SubspacePCs /\ CallOK(c)
      /\ UNCHANGED <<settled, answer, strange, child>>
  BY DEF WrapDupond, At, SubspacePCs, IInv
<1>2. Opens(c) = {"fdpair0", "fdpair1"}
  BY <1>1 DEF CallOK, Held, Holds
<1>3. CASE Go(c, "wrapDupont", {"dupond"}, {"fdpair0"}) /\ UNCHANGED client
  <2>1. pc'[c] = "wrapDupont"
    BY <1>3 DEF Go, IInv, TypeOK
  <2>2. Holds(c)' = {"dupond", "fdpair1"}
    BY <2>1 DEF Holds
  <2>3. (Opens(c) \ {"fdpair0"}) \union {"dupond"} = Holds(c)'
    BY <1>2, <2>2
  <2>4. {"dupond"} \in SUBSET Slots /\ "wrapDupont" \in SubspacePCs
    BY DEF Slots, Locals, Fields, SubspacePCs
  <2>5. strange' \subseteq Calls \X Fields /\ StrangeReasons'
    BY <1>1 DEF IInv, TypeOK, StrangeReasons
  <2>6. "wrapDupont" \in BeforeStart => child[c] = "none"
    BY <1>1 DEF CallOK, ChildLater, BeforeStart
  <2>7. QED
    BY <1>1, <1>3, <2>3, <2>4, <2>5, <2>6, PlainKeeps
<1>4. CASE Panic
  BY <1>1, <1>4, PanicKeeps
<1>5. QED
  BY <1>3, <1>4 DEF WrapDupond

LEMMA WrapDupontKeeps ==
    ASSUME IInv, NEW c \in Calls, WrapDupont(c)
    PROVE  IInv'
<1>1. /\ pc[c] = "wrapDupont" /\ pc[c] \in SubspacePCs /\ CallOK(c)
      /\ UNCHANGED <<settled, answer, strange, child>>
  BY DEF WrapDupont, At, SubspacePCs, IInv
<1>2. Opens(c) = {"dupond", "fdpair1"}
  BY <1>1 DEF CallOK, Held, Holds
<1>3. CASE Go(c, "dupontFile", {"dupont"}, {"fdpair1"}) /\ UNCHANGED client
  <2>1. pc'[c] = "dupontFile"
    BY <1>3 DEF Go, IInv, TypeOK
  <2>2. Holds(c)' = {"dupond", "dupont"}
    BY <2>1 DEF Holds
  <2>3. (Opens(c) \ {"fdpair1"}) \union {"dupont"} = Holds(c)'
    BY <1>2, <2>2
  <2>4. {"dupont"} \in SUBSET Slots /\ "dupontFile" \in SubspacePCs
    BY DEF Slots, Locals, Fields, SubspacePCs
  <2>5. strange' \subseteq Calls \X Fields /\ StrangeReasons'
    BY <1>1 DEF IInv, TypeOK, StrangeReasons
  <2>6. "dupontFile" \in BeforeStart => child[c] = "none"
    BY <1>1 DEF CallOK, ChildLater, BeforeStart
  <2>7. QED
    BY <1>1, <1>3, <2>3, <2>4, <2>5, <2>6, PlainKeeps
<1>4. CASE Panic
  BY <1>1, <1>4, PanicKeeps
<1>5. QED
  BY <1>3, <1>4 DEF WrapDupont

LEMMA DupontFileKeeps ==
    ASSUME IInv, NEW c \in Calls, DupontFile(c)
    PROVE  IInv'
<1>1. /\ pc[c] = "dupontFile" /\ pc[c] \in SubspacePCs /\ CallOK(c)
      /\ UNCHANGED <<settled, strange, child, client>>
  BY DEF DupontFile, At, SubspacePCs, IInv
<1>2. Opens(c) = {"dupond", "dupont"}
  BY <1>1 DEF CallOK, Held, Holds
<1>3. CASE Go(c, "start", {"dupontf"}, {}) /\ UNCHANGED answer
  <2>1. pc'[c] = "start"
    BY <1>3 DEF Go, IInv, TypeOK
  <2>2. Holds(c)' = Pair
    BY <2>1 DEF Holds
  <2>3. (Opens(c) \ {}) \union {"dupontf"} = Holds(c)'
    BY <1>2, <2>2 DEF Pair
  <2>4. {"dupontf"} \in SUBSET Slots /\ "start" \in SubspacePCs
    BY DEF Slots, Locals, Fields, SubspacePCs
  <2>5. strange' \subseteq Calls \X Fields /\ StrangeReasons'
    BY <1>1 DEF IInv, TypeOK, StrangeReasons
  <2>6. "start" \in BeforeStart => child[c] = "none"
    BY <1>1 DEF CallOK, ChildLater, BeforeStart
  <2>7. QED
    BY <1>1, <1>3, <2>3, <2>4, <2>5, <2>6, PlainKeeps
<1>4. CASE Fail(c, {})
  <2>1. Opens(c) \subseteq {} \union Deferred
    BY <1>2 DEF Deferred, Pair
  <2>2. UNCHANGED <<settled, strange, child, client>>
    BY DEF DupontFile
  <2>3. QED
    BY <1>1, <1>4, <2>1, <2>2, FailStepKeeps
<1>5. QED
  BY <1>3, <1>4 DEF DupontFile

LEMMA DupondFileKeeps ==
    ASSUME IInv, NEW c \in Calls, DupondFile(c)
    PROVE  IInv'
<1>1. /\ pc[c] = "dupondFile" /\ pc[c] \in SubspacePCs /\ CallOK(c)
      /\ UNCHANGED <<settled, strange, child, client>>
  BY DEF DupondFile, At, SubspacePCs, IInv
<1>2. Opens(c) = Pair
  BY <1>1 DEF CallOK, Held, Holds
<1>3. CASE Go(c, "dup", {"dupondf"}, {}) /\ UNCHANGED answer
  <2>1. pc'[c] = "dup"
    BY <1>3 DEF Go, IInv, TypeOK
  <2>2. Holds(c)' = Pair \union {"dupondf"}
    BY <2>1 DEF Holds
  <2>3. (Opens(c) \ {}) \union {"dupondf"} = Holds(c)'
    BY <1>2, <2>2 DEF Pair
  <2>4. {"dupondf"} \in SUBSET Slots /\ "dup" \in SubspacePCs
    BY DEF Slots, Locals, Fields, SubspacePCs
  <2>5. strange' \subseteq Calls \X Fields /\ StrangeReasons'
    BY <1>1 DEF IInv, TypeOK, StrangeReasons
  <2>6. "dup" \in BeforeStart => child[c] = "none"
    BY <1>1 DEF CallOK, ChildLater, BeforeStart
  <2>7. QED
    BY <1>1, <1>3, <2>3, <2>4, <2>5, <2>6, PlainKeeps
<1>4. CASE Fail(c, {})
  <2>1. Opens(c) \subseteq {} \union Deferred
    BY <1>2 DEF Deferred, Pair
  <2>2. UNCHANGED <<settled, strange, child, client>>
    BY DEF DupondFile
  <2>3. QED
    BY <1>1, <1>4, <2>1, <2>2, FailStepKeeps
<1>5. QED
  BY <1>3, <1>4 DEF DupondFile
LEMMA StartKeeps ==
    ASSUME IInv, NEW c \in Calls, Start(c)
    PROVE  IInv'
<1>1. /\ pc[c] = "start" /\ pc[c] \in SubspacePCs /\ CallOK(c)
      /\ UNCHANGED <<asked, todo, spoilt, strange, client>>
  BY DEF Start, At, SubspacePCs, IInv
<1>2. Opens(c) = Pair
  BY <1>1 DEF CallOK, Held, Holds
<1>3. CASE /\ Go(c, "dupondFile", {}, {})
           /\ child' = [child EXCEPT ![c] = "running"]
           /\ inherited' = [inherited EXCEPT ![c] = {p \in open : p[2] \notin CloseOnExec}]
           /\ UNCHANGED answer
  <2>1. pc'[c] = "dupondFile"
    BY <1>3 DEF Go, IInv, TypeOK
  <2>2. (Opens(c) \ {}) \union {} = Holds(c)'
    BY <1>2, <2>1 DEF Holds
  <2>3. "dupondFile" \in SubspacePCs /\ "dupondFile" \notin BeforeStart
    BY DEF SubspacePCs, BeforeStart
  <2>4. \A d \in Calls \ {c} : child'[d] = child[d]
    BY <1>3 DEF IInv, TypeOK
  <2>5. UNCHANGED <<asked, answer, todo, spoilt>>
    BY <1>1, <1>3
  <2>6. {} \in SUBSET Slots
    OBVIOUS
  <2>7. /\ pc' \in [Calls -> PCs]
        /\ open' \subseteq Calls \X Slots
        /\ \A d \in Calls : CallOK(d)'
    BY <1>1, <1>3, <2>2, <2>3, <2>4, <2>5, <2>6, AdvanceKeeps
  <2>8. /\ child' \in [Calls -> ChildStates]
        /\ inherited' \in [Calls -> SUBSET (Calls \X Slots)]
    BY <1>3 DEF IInv, TypeOK, ChildStates
  <2>9. StrangeReasons'
    <3>1. child[c] = "none"
      BY <1>1 DEF CallOK, ChildLater, BeforeStart
    <3>2. QED
      BY <1>1, <1>3, <2>4, <3>1 DEF IInv, TypeOK, StrangeReasons
  <2>10. QED
    BY <1>1, <1>3, <2>7, <2>8, <2>9 DEF IInv, TypeOK
<1>4. CASE Fail(c, {}) /\ UNCHANGED <<child, inherited>>
  <2>1. Opens(c) \subseteq {} \union Deferred
    BY <1>2 DEF Deferred, Pair
  <2>2. UNCHANGED <<settled, strange, child, client>>
    BY <1>1, <1>4 DEF settled
  <2>3. QED
    BY <1>1, <1>4, <2>1, <2>2, FailStepKeeps
<1>5. QED
  BY <1>3, <1>4 DEF Start

\* Subspace is asked for a user namespace, a PID namespace, or both.
LEMMA SubspaceSpaces ==
    ASSUME NEW c \in Calls, CallOK(c), pc[c] \in SubspacePCs
    PROVE  /\ asked[c].kind = "subspace"
           /\ asked[c].spaces \subseteq {"user", "pid"}
           /\ asked[c].spaces # {}
  BY DEF CallOK, Checked, SubspaceRequests

LEMMA DupKeeps ==
    ASSUME IInv, NEW c \in Calls, Dup(c)
    PROVE  IInv'
<1> DEFINE next == IF "user" \in asked[c].spaces THEN "user" ELSE "pid"
<1>1. /\ pc[c] = "dup" /\ pc[c] \in SubspacePCs /\ CallOK(c)
      /\ UNCHANGED <<settled, strange, child, client>>
  BY DEF Dup, At, SubspacePCs, IInv
<1>2. Opens(c) = Pair \union {"dupondf"}
  BY <1>1 DEF CallOK, Held, Holds
<1>3. CASE Go(c, next, {"conn"}, {}) /\ UNCHANGED answer
  <2>1. pc'[c] = next /\ asked' = asked
    BY <1>1, <1>3 DEF Go, IInv, TypeOK, settled
  <2>2. (Opens(c) \ {}) \union {"conn"} = Holds(c)'
    <3>1. CASE "user" \in asked[c].spaces
      BY <1>2, <2>1, <3>1 DEF Holds
    <3>2. CASE "user" \notin asked[c].spaces
      <4>1. asked[c].spaces \ {"pid"} = {}
        BY <1>1, <3>2, SubspaceSpaces
      <4>2. Holds(c)' = Pair \union {"dupondf", "conn"} \union (asked[c].spaces \ {"pid"})
        BY <2>1, <3>2 DEF Holds
      <4>3. QED
        BY <1>2, <4>1, <4>2
    <3>3. QED
      BY <3>1, <3>2
  <2>3. {"conn"} \in SUBSET Slots /\ next \in SubspacePCs /\ next \notin BeforeStart
    BY DEF Slots, Locals, Fields, SubspaceFields, SubspacePCs, BeforeStart
  <2>4. strange' \subseteq Calls \X Fields /\ StrangeReasons'
    BY <1>1 DEF IInv, TypeOK, StrangeReasons
  <2>5. /\ next = "user" => "user" \in asked[c].spaces
        /\ next = "pid" => "pid" \in asked[c].spaces
    BY <1>1, SubspaceSpaces
  <2> HIDE DEF next
  <2>6. QED
    BY <1>1, <1>3, <2>2, <2>3, <2>4, <2>5, PlainKeeps
<1>4. CASE Fail(c, {})
  <2>1. Opens(c) \subseteq {} \union Deferred
    BY <1>2 DEF Deferred, Pair
  <2>2. QED
    BY <1>1, <1>4, <2>1, FailStepKeeps
<1>5. QED
  BY <1>3, <1>4 DEF Dup

LEMMA OpenUserKeeps ==
    ASSUME IInv, NEW c \in Calls, OpenUser(c)
    PROVE  IInv'
<1> DEFINE next == IF "pid" \in asked[c].spaces THEN "pid" ELSE "pidfd"
<1>1. /\ pc[c] = "user" /\ pc[c] \in SubspacePCs /\ CallOK(c)
      /\ UNCHANGED <<settled, child, client>>
  BY DEF OpenUser, At, SubspacePCs, IInv
<1>2. Opens(c) = Pair \union {"dupondf", "conn"}
  BY <1>1 DEF CallOK, Held, Holds
<1>3. CASE Finds(c, "user") /\ Go(c, next, {"user"}, {}) /\ UNCHANGED answer
  <2>1. pc'[c] = next /\ asked' = asked
    BY <1>1, <1>3 DEF Go, IInv, TypeOK, settled
  <2>2. "user" \in asked[c].spaces
    BY <1>1 DEF CallOK, Checked
  <2>3. (Opens(c) \ {}) \union {"user"} = Holds(c)'
    <3>1. CASE "pid" \in asked[c].spaces
      <4>1. asked[c].spaces \ {"pid"} = {"user"}
        BY <1>1, <2>2, SubspaceSpaces
      <4>2. Holds(c)' = Pair \union {"dupondf", "conn"} \union (asked[c].spaces \ {"pid"})
        BY <2>1, <3>1 DEF Holds
      <4>3. QED
        BY <1>2, <4>1, <4>2
    <3>2. CASE "pid" \notin asked[c].spaces
      <4>1. asked[c].spaces = {"user"}
        BY <1>1, <2>2, <3>2, SubspaceSpaces
      <4>2. Holds(c)' = Pair \union {"dupondf", "conn"} \union asked[c].spaces
        BY <2>1, <3>2 DEF Holds
      <4>3. QED
        BY <1>2, <4>1, <4>2
    <3>3. QED
      BY <3>1, <3>2
  <2>4. {"user"} \in SUBSET Slots /\ next \in SubspacePCs /\ next \notin BeforeStart
    BY DEF Slots, Locals, Fields, SubspaceFields, SubspacePCs, BeforeStart
  <2>5. strange' \subseteq Calls \X Fields /\ StrangeReasons'
    <3>1. "user" \in Fields
      BY DEF Fields, SubspaceFields
    <3>2. QED
      BY <1>1, <1>3, <3>1, FindsKeeps
  <2>6. next # "user" /\ (next = "pid" => "pid" \in asked[c].spaces)
    OBVIOUS
  <2> HIDE DEF next
  <2>7. QED
    BY <1>1, <1>3, <2>3, <2>4, <2>5, <2>6, PlainKeeps
<1>4. CASE Fail(c, {"conn"}) /\ UNCHANGED strange
  <2>1. Opens(c) \subseteq {"conn"} \union Deferred
    BY <1>2 DEF Deferred, Pair
  <2>2. UNCHANGED <<settled, strange, child, client>>
    BY <1>1, <1>4
  <2>3. QED
    BY <1>1, <1>4, <2>1, <2>2, FailStepKeeps
<1>5. QED
  BY <1>3, <1>4 DEF OpenUser

LEMMA OpenPidKeeps ==
    ASSUME IInv, NEW c \in Calls, OpenPid(c)
    PROVE  IInv'
<1>1. /\ pc[c] = "pid" /\ pc[c] \in SubspacePCs /\ CallOK(c)
      /\ UNCHANGED <<settled, child, client>>
  BY DEF OpenPid, At, SubspacePCs, IInv
<1>2. Opens(c) = Pair \union {"dupondf", "conn"} \union (asked[c].spaces \ {"pid"})
  BY <1>1 DEF CallOK, Held, Holds
<1>3. CASE Finds(c, "pid") /\ Go(c, "pidfd", {"pid"}, {}) /\ UNCHANGED answer
  <2>1. pc'[c] = "pidfd" /\ asked' = asked
    BY <1>1, <1>3 DEF Go, IInv, TypeOK, settled
  <2>2. "pid" \in asked[c].spaces
    BY <1>1 DEF CallOK, Checked
  <2>3. Holds(c)' = Pair \union {"dupondf", "conn"} \union asked[c].spaces
    BY <2>1 DEF Holds
  <2>4. (Opens(c) \ {}) \union {"pid"} = Holds(c)'
    BY <1>2, <2>2, <2>3
  <2>5. {"pid"} \in SUBSET Slots /\ "pidfd" \in SubspacePCs /\ "pidfd" \notin BeforeStart
    BY DEF Slots, Locals, Fields, SubspaceFields, SubspacePCs, BeforeStart
  <2>6. strange' \subseteq Calls \X Fields /\ StrangeReasons'
    <3>1. "pid" \in Fields
      BY DEF Fields, SubspaceFields
    <3>2. QED
      BY <1>1, <1>3, <3>1, FindsKeeps
  <2>7. QED
    BY <1>1, <1>3, <2>4, <2>5, <2>6, PlainKeeps
<1>4. CASE Fail(c, {"user", "conn"}) /\ UNCHANGED strange
  <2>1. Opens(c) \subseteq {"user", "conn"} \union Deferred
    BY <1>1, <1>2, SubspaceSpaces DEF Deferred, Pair
  <2>2. UNCHANGED <<settled, strange, child, client>>
    BY <1>1, <1>4
  <2>3. QED
    BY <1>1, <1>4, <2>1, <2>2, FailStepKeeps
<1>5. QED
  BY <1>3, <1>4 DEF OpenPid

\* What is open when Subspace has succeeded is what its response is to carry.
LEMMA PidfdOpenKeeps ==
    ASSUME IInv, NEW c \in Calls, PidfdOpen(c)
    PROVE  IInv'
<1>1. /\ pc[c] = "pidfd" /\ pc[c] \in SubspacePCs /\ CallOK(c)
      /\ UNCHANGED <<settled, child, client>>
  BY DEF PidfdOpen, At, SubspacePCs, IInv
<1>2. Opens(c) = Pair \union {"dupondf", "conn"} \union asked[c].spaces
  BY <1>1 DEF CallOK, Held, Holds
<1>3. CASE /\ Finds(c, "pidfd")
           /\ Go(c, "answered", {"pidfd"}, Deferred)
           /\ answer' = [answer EXCEPT ![c] = "ok"]
  <2>1. /\ answer' \in [Calls -> Answers]
        /\ answer'[c] = "ok"
        /\ \A d \in Calls \ {c} : Same(d)
        /\ asked' = asked
    BY <1>1, <1>3 DEF IInv, TypeOK, Answers, Same, settled
  <2>2. "answered" \in PCs /\ {"pidfd"} \in SUBSET Slots
    BY DEF PCs, Slots, Fields, SubspaceFields
  <2>3. /\ pc' \in [Calls -> PCs]
        /\ pc'[c] = "answered"
        /\ open' \subseteq Calls \X Slots
        /\ Opens(c)' = (Opens(c) \ Deferred) \union {"pidfd"}
        /\ \A d \in Calls \ {c} : CallOK(d)'
    BY <1>3, <2>1, <2>2, GoKeeps
  <2>4. Opens(c)' = OpenFields(asked[c])
    <3>1. (Pair \union {"dupondf"}) \subseteq Deferred
      BY DEF Pair, Deferred
    <3>2. Deferred \cap ({"conn"} \union asked[c].spaces) = {}
      BY <1>1, SubspaceSpaces DEF Deferred
    <3>3. QED
      BY <1>1, <1>2, <2>3, <3>1, <3>2, SubspaceSpaces DEF OpenFields
  <2>5. OpenFields(asked[c])' = OpenFields(asked[c])
    BY <2>1
  <2>6. CallOK(c)'
    <3>1. asked[c] \in SubspaceRequests
      BY <1>1 DEF CallOK, Checked
    <3>2. QED
      BY <2>1, <2>3, <2>4, <2>5, <3>1 DEF CallOK, Checked, Answered, Held, ChildLater,
         Working, SubspacePCs, RoomPCs, BeforeStart
  <2>7. strange' \subseteq Calls \X Fields /\ StrangeReasons'
    <3>1. "pidfd" \in Fields
      BY DEF Fields, SubspaceFields
    <3>2. QED
      BY <1>1, <1>3, <3>1, FindsKeeps
  <2>8. client' \in [Calls -> Clients]
    BY <1>1 DEF IInv, TypeOK, Clients
  <2>9. QED
    BY <1>1, <2>1, <2>3, <2>6, <2>7, <2>8, StepKeeps
<1>4. CASE Fail(c, {"pid", "user", "conn"}) /\ UNCHANGED strange
  <2>1. Opens(c) \subseteq {"pid", "user", "conn"} \union Deferred
    BY <1>1, <1>2, SubspaceSpaces DEF Deferred, Pair
  <2>2. UNCHANGED <<settled, strange, child, client>>
    BY <1>1, <1>4
  <2>3. QED
    BY <1>1, <1>4, <2>1, <2>2, FailStepKeeps
<1>5. QED
  BY <1>3, <1>4 DEF PidfdOpen
\* A handler that answers, and has nothing left open but what is handed over.
LEMMA ReplyKeeps ==
    ASSUME IInv, NEW c \in Calls, NEW a \in {"error", "ok"}, NEW closed,
           Reply(c, a, closed), \A d \in Calls \ {c} : asked'[d] = asked[d],
           asked'[c] # NoRequest,
           Opens(c) \ closed = IF a = "ok" THEN OpenFields(asked'[c]) ELSE {},
           a = "ok" => asked'[c] \in SubspaceRequests \union RoomsRequests,
           UNCHANGED <<todo, spoilt, child>>
    PROVE  /\ pc' \in [Calls -> PCs]
           /\ answer' \in [Calls -> Answers]
           /\ open' \subseteq Calls \X Slots
           /\ \A d \in Calls : CallOK(d)'
<1>1. Go(c, "answered", {}, closed) /\ answer' = [answer EXCEPT ![c] = a]
  BY DEF Reply
<1>2. /\ answer' \in [Calls -> Answers]
      /\ answer'[c] = a
      /\ \A d \in Calls \ {c} : Same(d)
  BY <1>1 DEF IInv, TypeOK, Answers, Same
<1>3. "answered" \in PCs /\ {} \in SUBSET Slots
  BY DEF PCs
<1>4. /\ pc' \in [Calls -> PCs]
      /\ pc'[c] = "answered"
      /\ open' \subseteq Calls \X Slots
      /\ Opens(c)' = (Opens(c) \ closed) \union {}
      /\ \A d \in Calls \ {c} : CallOK(d)'
  BY <1>1, <1>2, <1>3, GoKeeps
<1>5. OpenFields(asked[c])' = OpenFields(asked'[c])
  OBVIOUS
<1>6. CallOK(c)'
  BY <1>2, <1>4, <1>5 DEF CallOK, Checked, Answered, Held, ChildLater, Working,
     SubspacePCs, RoomPCs, BeforeStart
<1>7. QED
  BY <1>2, <1>4, <1>6

LEMMA RequestKeeps ==
    ASSUME IInv, NEW c \in Calls, Request(c)
    PROVE  IInv'
<1>1. PICK req \in Menu :
        /\ asked' = [asked EXCEPT ![c] = req]
        /\ \/ /\ Refused(req)
              /\ Reply(c, "error", {})
              /\ UNCHANGED todo
           \/ /\ ~Refused(req)
              /\ req.kind = "subspace"
              /\ Go(c, "socketpair", {}, {})
              /\ UNCHANGED <<answer, todo>>
           \/ /\ ~Refused(req)
              /\ req.kind = "rooms"
              /\ Go(c, "rooms", {}, {})
              /\ todo' = [todo EXCEPT ![c] = req.spaces]
              /\ UNCHANGED answer
  BY DEF Request
<1>2. /\ pc[c] = "idle" /\ CallOK(c)
      /\ UNCHANGED <<spoilt, strange, child, inherited, client>>
  BY DEF Request, At, IInv
<1>3. Opens(c) = {} /\ answer[c] = "none" /\ child[c] = "none"
  BY <1>2 DEF CallOK, Held, Answered, ChildLater, Working, BeforeStart
<1>4. req \in Masks /\ req # NoRequest
  BY MenuAssumption DEF Masks, NoRequest
<1>5. /\ asked' \in [Calls -> Masks \union {NoRequest}]
      /\ asked'[c] = req
      /\ \A d \in Calls \ {c} : asked'[d] = asked[d]
  BY <1>1, <1>4 DEF IInv, TypeOK
<1>6. StrangeReasons'
  BY <1>2 DEF IInv, StrangeReasons
<1>7. CASE Refused(req) /\ Reply(c, "error", {}) /\ UNCHANGED todo
  <2>1. /\ pc' \in [Calls -> PCs]
        /\ answer' \in [Calls -> Answers]
        /\ open' \subseteq Calls \X Slots
        /\ \A d \in Calls : CallOK(d)'
    BY <1>2, <1>3, <1>4, <1>5, <1>7, ReplyKeeps
  <2>2. QED
    BY <1>2, <1>5, <1>6, <1>7, <2>1 DEF IInv, TypeOK, Answers
<1>8. CASE /\ ~Refused(req)
           /\ req.kind = "subspace"
           /\ Go(c, "socketpair", {}, {})
           /\ UNCHANGED <<answer, todo>>
  <2>1. req \in SubspaceRequests
    BY <1>4, <1>8 DEF Refused, Masks, SubspaceRequests, ValidSpaces
  <2>2. "socketpair" \in PCs /\ {} \in SUBSET Slots /\ \A d \in Calls \ {c} : Same(d)
    BY <1>2, <1>5, <1>8 DEF PCs, Same
  <2>3. /\ pc' \in [Calls -> PCs]
        /\ pc'[c] = "socketpair"
        /\ open' \subseteq Calls \X Slots
        /\ Opens(c)' = (Opens(c) \ {}) \union {}
        /\ \A d \in Calls \ {c} : CallOK(d)'
    BY <1>8, <2>2, GoKeeps
  <2>4. Holds(c)' = {}
    BY <2>3 DEF Holds
  <2>5. CallOK(c)'
    BY <1>2, <1>3, <1>4, <1>5, <1>8, <2>1, <2>3, <2>4 DEF CallOK, Checked, Answered, Held,
       ChildLater, Working, SubspacePCs, RoomPCs, BeforeStart
  <2>6. QED
    BY <1>2, <1>5, <1>6, <1>8, <2>3, <2>5 DEF IInv, TypeOK
<1>9. CASE /\ ~Refused(req)
           /\ req.kind = "rooms"
           /\ Go(c, "rooms", {}, {})
           /\ todo' = [todo EXCEPT ![c] = req.spaces]
           /\ UNCHANGED answer
  <2>1. req \in RoomsRequests
    BY <1>4, <1>9 DEF Refused, Masks, RoomsRequests, ValidSpaces
  <2>2. req.spaces \in SUBSET RoomFields
    BY <2>1 DEF RoomsRequests
  <2>3. /\ todo' \in [Calls -> SUBSET RoomFields]
        /\ todo'[c] = req.spaces
        /\ \A d \in Calls \ {c} : Same(d)
    BY <1>2, <1>5, <1>9, <2>2 DEF IInv, TypeOK, Same
  <2>4. "rooms" \in PCs /\ {} \in SUBSET Slots
    BY DEF PCs
  <2>5. /\ pc' \in [Calls -> PCs]
        /\ pc'[c] = "rooms"
        /\ open' \subseteq Calls \X Slots
        /\ Opens(c)' = (Opens(c) \ {}) \union {}
        /\ \A d \in Calls \ {c} : CallOK(d)'
    BY <1>9, <2>3, <2>4, GoKeeps
  <2>6. CallOK(c)'
    <3>1. Checked(c)' /\ Answered(c)' /\ ChildLater(c)'
      BY <1>2, <1>3, <1>4, <1>5, <1>9, <2>1, <2>5 DEF Checked, Answered,
         ChildLater, Working, SubspacePCs, RoomPCs, BeforeStart
    <3>2. Held(c)'
      BY <1>3, <1>5, <2>3, <2>5 DEF Held, SubspacePCs, RoomPCs
    <3>3. QED
      BY <3>1, <3>2 DEF CallOK
  <2>7. QED
    BY <1>2, <1>5, <1>6, <1>9, <2>3, <2>5, <2>6 DEF IInv, TypeOK
<1>10. QED
  BY <1>1, <1>7, <1>8, <1>9

\* What is known of a handler of Room.
LEMMA RoomHolds ==
    ASSUME IInv, NEW c \in Calls, pc[c] \in RoomPCs
    PROVE  LET closed == asked[c].spaces \ todo[c]
               caller == IF pc[c] = "rooms" THEN {} ELSE {"callerns"}
           IN  /\ asked[c] \in RoomsRequests
               /\ asked[c].kind = "rooms"
               /\ asked[c].spaces \subseteq RoomFields
               /\ todo[c] \subseteq asked[c].spaces
               /\ answer[c] = "none"
               /\ child[c] = "none"
               /\ asked[c] # NoRequest
               /\ Opens(c) \subseteq closed \union caller
               /\ ~spoilt[c] => Opens(c) = closed \union caller
               /\ pc[c] = "newNamespace" => todo[c] # {}
<1>1. CallOK(c)
  BY DEF IInv
<1>2. asked[c] \in RoomsRequests /\ child[c] = "none"
  BY <1>1 DEF CallOK, Checked, ChildLater
<1>3. answer[c] = "none" /\ asked[c] # NoRequest
  BY <1>1 DEF CallOK, Checked, Answered, Working, RoomPCs
<1>4. asked[c].kind = "rooms" /\ asked[c].spaces \subseteq RoomFields
  BY <1>2 DEF RoomsRequests
<1>5. QED
  BY <1>1, <1>2, <1>3, <1>4 DEF CallOK, Held

\* A handler of Room that goes on with the same request.
LEMMA RoomStepKeeps ==
    ASSUME IInv, NEW c \in Calls, NEW next \in RoomPCs, pc[c] \in RoomPCs,
           pc' \in [Calls -> PCs], pc'[c] = next, open' \subseteq Calls \X Slots,
           todo' \in [Calls -> SUBSET RoomFields], spoilt' \in [Calls -> BOOLEAN],
           strange' \subseteq Calls \X Fields, StrangeReasons',
           \A d \in Calls \ {c} : CallOK(d)',
           todo'[c] \subseteq asked[c].spaces,
           next = "newNamespace" => todo'[c] # {},
           LET closed == asked[c].spaces \ todo'[c]
               caller == IF next = "rooms" THEN {} ELSE {"callerns"}
           IN  /\ Opens(c)' \subseteq closed \union caller
               /\ ~spoilt'[c] => Opens(c)' = closed \union caller,
           UNCHANGED <<asked, answer, child, inherited, client>>
    PROVE  IInv'
<1>1. /\ asked[c] \in RoomsRequests
      /\ answer[c] = "none"
      /\ child[c] = "none"
      /\ asked[c] # NoRequest
  BY RoomHolds
<1>2. Checked(c)' /\ Answered(c)' /\ ChildLater(c)'
  BY <1>1 DEF Checked, Answered, ChildLater, Working, SubspacePCs, RoomPCs, BeforeStart
<1>3. Held(c)'
  BY DEF Held, SubspacePCs, RoomPCs
<1>4. QED
  BY <1>2, <1>3 DEF IInv, TypeOK, CallOK

LEMMA OpenCallerKeeps ==
    ASSUME IInv, NEW c \in Calls, OpenCaller(c)
    PROVE  IInv'
<1>1. /\ pc[c] = "rooms" /\ pc[c] \in RoomPCs
      /\ todo[c] \in SUBSET RoomFields /\ todo[c] # {}
      /\ UNCHANGED <<asked, answer, strange, child, inherited, client>>
  BY DEF OpenCaller, At, RoomPCs, IInv, TypeOK
<1>2. strange' \subseteq Calls \X Fields /\ StrangeReasons'
  BY <1>1 DEF IInv, TypeOK, StrangeReasons
<1>3. /\ todo[c] \subseteq asked[c].spaces
      /\ Opens(c) \subseteq asked[c].spaces \ todo[c]
      /\ ~spoilt[c] => Opens(c) = asked[c].spaces \ todo[c]
  BY <1>1, RoomHolds
<1>4. CASE Go(c, "newNamespace", {"callerns"}, {}) /\ UNCHANGED <<todo, spoilt>>
  <2>1. /\ "newNamespace" \in PCs \cap RoomPCs
        /\ {"callerns"} \in SUBSET Slots
        /\ \A d \in Calls \ {c} : Same(d)
    BY <1>1, <1>4 DEF PCs, RoomPCs, Slots, Locals, Same
  <2>2. /\ pc' \in [Calls -> PCs]
        /\ pc'[c] = "newNamespace"
        /\ open' \subseteq Calls \X Slots
        /\ Opens(c)' = (Opens(c) \ {}) \union {"callerns"}
        /\ \A d \in Calls \ {c} : CallOK(d)'
    BY <1>4, <2>1, GoKeeps
  <2>3. /\ todo' \in [Calls -> SUBSET RoomFields]
        /\ spoilt' \in [Calls -> BOOLEAN]
    BY <1>4 DEF IInv, TypeOK
  <2>4. QED
    BY <1>1, <1>2, <1>3, <1>4, <2>1, <2>2, <2>3, RoomStepKeeps
<1>5. CASE Tried(c) /\ Spoil(c) /\ UNCHANGED <<pc, open>>
  <2>1. /\ todo' \in [Calls -> SUBSET RoomFields]
        /\ spoilt' \in [Calls -> BOOLEAN]
        /\ todo'[c] \subseteq todo[c]
        /\ spoilt'[c] = TRUE
        /\ \A d \in Calls \ {c} : Same(d)
    BY <1>1, <1>5 DEF Tried, Spoil, IInv, TypeOK, Same
  <2>2. \A d \in Calls : Opens(d)' = Opens(d)
    BY <1>5 DEF Opens
  <2>3. \A d \in Calls \ {c} : CallOK(d)'
    BY <1>5, <2>1, <2>2, CallFrame DEF IInv
  <2>4. /\ pc' \in [Calls -> PCs] /\ pc'[c] = "rooms" /\ "rooms" \in RoomPCs
        /\ open' \subseteq Calls \X Slots
    BY <1>1, <1>5 DEF IInv, TypeOK, RoomPCs
  <2>5. QED
    BY <1>1, <1>2, <1>3, <2>1, <2>2, <2>3, <2>4, RoomStepKeeps
<1>6. QED
  BY <1>4, <1>5 DEF OpenCaller

LEMMA NewNamespaceKeeps ==
    ASSUME IInv, NEW c \in Calls, NewNamespace(c)
    PROVE  IInv'
<1> DEFINE t == TypeNow(c)
<1>1. /\ pc[c] = "newNamespace" /\ pc[c] \in RoomPCs
      /\ todo[c] \in SUBSET RoomFields
      /\ todo' = [todo EXCEPT ![c] = @ \ {t}]
      /\ UNCHANGED <<asked, answer, child, inherited, client>>
  BY DEF NewNamespace, At, Tried, RoomPCs, IInv, TypeOK
<1>2. /\ todo[c] \subseteq asked[c].spaces
      /\ asked[c].spaces \subseteq RoomFields
      /\ Opens(c) \subseteq (asked[c].spaces \ todo[c]) \union {"callerns"}
      /\ ~spoilt[c] => Opens(c) = (asked[c].spaces \ todo[c]) \union {"callerns"}
      /\ todo[c] # {}
  BY <1>1, RoomHolds
<1>3. t \in todo[c] /\ t \in RoomFields
  BY <1>1, <1>2, NextType
<1> HIDE DEF t
<1>4. /\ todo' \in [Calls -> SUBSET RoomFields]
      /\ todo'[c] = todo[c] \ {t}
      /\ \A d \in Calls \ {c} : todo'[d] = todo[d]
  BY <1>1 DEF IInv, TypeOK
<1>5. "rooms" \in PCs \cap RoomPCs /\ "callerns" \notin RoomFields
  BY DEF PCs, RoomPCs, RoomFields
<1>6. CASE /\ Go(c, "rooms", {t}, {"callerns"})
           /\ strange' = IF EntersIt(t) THEN strange ELSE strange \union {<<c, t>>}
           /\ UNCHANGED spoilt
  <2>1. {t} \in SUBSET Slots /\ \A d \in Calls \ {c} : Same(d)
    BY <1>1, <1>3, <1>4, <1>6 DEF Slots, Fields, Same
  <2>2. /\ pc' \in [Calls -> PCs]
        /\ pc'[c] = "rooms"
        /\ open' \subseteq Calls \X Slots
        /\ Opens(c)' = (Opens(c) \ {"callerns"}) \union {t}
        /\ \A d \in Calls \ {c} : CallOK(d)'
    BY <1>5, <1>6, <2>1, GoKeeps
  <2>3. strange' \subseteq Calls \X Fields /\ StrangeReasons'
    BY <1>1, <1>3, <1>6 DEF EntersIt, Fields, IInv, TypeOK, StrangeReasons
  <2>4. spoilt' \in [Calls -> BOOLEAN] /\ spoilt'[c] = spoilt[c]
    BY <1>6 DEF IInv, TypeOK
  <2>5. /\ todo'[c] \subseteq asked[c].spaces
        /\ Opens(c)' \subseteq asked[c].spaces \ todo'[c]
        /\ ~spoilt'[c] => Opens(c)' = asked[c].spaces \ todo'[c]
    BY <1>2, <1>3, <1>4, <1>5, <2>2, <2>4
  <2>6. QED
    BY <1>1, <1>4, <1>5, <2>2, <2>3, <2>4, <2>5, RoomStepKeeps
<1>7. CASE Go(c, "rooms", {}, {"callerns"}) /\ Spoil(c) /\ UNCHANGED strange
  <2>1. /\ {} \in SUBSET Slots
        /\ \A d \in Calls \ {c} : Same(d)
        /\ spoilt' \in [Calls -> BOOLEAN] /\ spoilt'[c] = TRUE
    BY <1>1, <1>4, <1>7 DEF Spoil, Same, IInv, TypeOK
  <2>2. /\ pc' \in [Calls -> PCs]
        /\ pc'[c] = "rooms"
        /\ open' \subseteq Calls \X Slots
        /\ Opens(c)' = (Opens(c) \ {"callerns"}) \union {}
        /\ \A d \in Calls \ {c} : CallOK(d)'
    BY <1>5, <1>7, <2>1, GoKeeps
  <2>3. strange' \subseteq Calls \X Fields /\ StrangeReasons'
    BY <1>1, <1>7 DEF IInv, TypeOK, StrangeReasons
  <2>4. /\ todo'[c] \subseteq asked[c].spaces
        /\ Opens(c)' \subseteq asked[c].spaces \ todo'[c]
    BY <1>2, <1>4, <2>2
  <2>5. QED
    BY <1>1, <1>4, <1>5, <2>1, <2>2, <2>3, <2>4, RoomStepKeeps
<1>8. QED
  BY <1>6, <1>7 DEF NewNamespace, t
LEMMA RoomAnswerKeeps ==
    ASSUME IInv, NEW c \in Calls, RoomAnswer(c)
    PROVE  IInv'
<1>1. /\ pc[c] = "rooms" /\ pc[c] \in RoomPCs /\ todo[c] = {}
      /\ UNCHANGED <<asked, todo, spoilt, strange, child, inherited, client>>
  BY DEF RoomAnswer, At, RoomPCs
<1>2. /\ asked[c] \in RoomsRequests
      /\ asked[c].kind = "rooms"
      /\ asked[c].spaces \subseteq RoomFields
      /\ asked[c] # NoRequest
      /\ Opens(c) \subseteq asked[c].spaces
      /\ ~spoilt[c] => Opens(c) = asked[c].spaces
  BY <1>1, RoomHolds
<1>3. /\ strange' \subseteq Calls \X Fields /\ StrangeReasons'
      /\ client' \in [Calls -> Clients]
      /\ UNCHANGED <<settled, child>>
  BY <1>1 DEF IInv, TypeOK, StrangeReasons, Clients, settled
<1>4. CASE Reply(c, "error", RoomFields)
  <2>1. Opens(c) \ RoomFields = {}
    BY <1>2
  <2>2. /\ pc' \in [Calls -> PCs]
        /\ answer' \in [Calls -> Answers]
        /\ open' \subseteq Calls \X Slots
        /\ \A d \in Calls : CallOK(d)'
    BY <1>1, <1>2, <1>4, <2>1, ReplyKeeps
  <2>3. QED
    BY <1>3, <2>2, StepKeeps
<1>5. CASE ~spoilt[c] /\ Reply(c, "ok", {})
  <2>1. Opens(c) \ {} = OpenFields(asked'[c])
    BY <1>1, <1>2, <1>5 DEF OpenFields
  <2>2. /\ pc' \in [Calls -> PCs]
        /\ answer' \in [Calls -> Answers]
        /\ open' \subseteq Calls \X Slots
        /\ \A d \in Calls : CallOK(d)'
    BY <1>1, <1>2, <1>5, <2>1, ReplyKeeps
  <2>3. QED
    BY <1>3, <2>2, StepKeeps
<1>6. QED
  BY <1>4, <1>5 DEF RoomAnswer

\* The fields of a response are all that Release has to close.
LEMMA FieldsOfResponse ==
    ASSUME NEW c \in Calls, CallOK(c), answer[c] = "ok"
    PROVE  OpenFields(asked[c]) \subseteq Fields
<1>1. asked[c] \in SubspaceRequests \union RoomsRequests
  BY DEF CallOK, Checked
<1>2. QED
  BY <1>1 DEF SubspaceRequests, RoomsRequests, OpenFields, Fields, SubspaceFields

LEMMA SendKeeps ==
    ASSUME IInv, NEW c \in Calls, Send(c)
    PROVE  IInv'
<1>1. /\ pc[c] = "answered" /\ CallOK(c)
      /\ Go(c, "sent", {}, {})
      /\ UNCHANGED <<settled, answer, strange, child>>
  BY DEF Send, At, IInv
<1>2. /\ "sent" \in PCs /\ {} \in SUBSET Slots
      /\ \A d \in Calls \ {c} : Same(d)
  BY <1>1 DEF PCs, Same, settled
<1>3. /\ pc' \in [Calls -> PCs]
      /\ pc'[c] = "sent"
      /\ open' \subseteq Calls \X Slots
      /\ Opens(c)' = (Opens(c) \ {}) \union {}
      /\ \A d \in Calls \ {c} : CallOK(d)'
  BY <1>1, <1>2, GoKeeps
<1>4. Opens(c)' = Opens(c) /\ Opens(c) = IF answer[c] = "ok" THEN OpenFields(asked[c]) ELSE {}
  BY <1>1, <1>3 DEF CallOK, Held
<1>5. answer' = answer /\ asked' = asked
  BY <1>1 DEF settled
<1>6. CallOK(c)'
  BY <1>1, <1>3, <1>4, <1>5 DEF CallOK, Checked, Answered, Held, ChildLater,
     Working, SubspacePCs, RoomPCs, BeforeStart
<1>7. /\ client' \in [Calls -> Clients]
      /\ answer' \in [Calls -> Answers]
      /\ strange' \subseteq Calls \X Fields /\ StrangeReasons'
  <2>1. UNCHANGED client \/ client' = [client EXCEPT ![c] = "open"]
    BY DEF Send
  <2>2. QED
    BY <1>1, <2>1 DEF IInv, TypeOK, Clients, Answers, StrangeReasons
<1>8. QED
  BY <1>1, <1>3, <1>6, <1>7, StepKeeps

LEMMA ReleaseKeeps ==
    ASSUME IInv, NEW c \in Calls, Release(c)
    PROVE  IInv'
<1> DEFINE closed == IF answer[c] = "ok" THEN Fields ELSE {}
<1>1. /\ pc[c] = "sent" /\ CallOK(c)
      /\ Go(c, "done", {}, closed)
      /\ UNCHANGED <<settled, answer, strange, child, client>>
  BY DEF Release, At, IInv
<1>2. Opens(c) \subseteq closed
  BY <1>1, FieldsOfResponse DEF CallOK, Held
<1> HIDE DEF closed
<1>3. /\ "done" \in PCs /\ {} \in SUBSET Slots
      /\ \A d \in Calls \ {c} : Same(d)
  BY <1>1 DEF PCs, Same, settled
<1>4. /\ pc' \in [Calls -> PCs]
      /\ pc'[c] = "done"
      /\ open' \subseteq Calls \X Slots
      /\ Opens(c)' = (Opens(c) \ closed) \union {}
      /\ \A d \in Calls \ {c} : CallOK(d)'
  BY <1>1, <1>3, GoKeeps
<1>5. Opens(c)' = {} /\ answer' = answer /\ asked' = asked
  BY <1>1, <1>2, <1>4 DEF settled
<1>6. CallOK(c)'
  BY <1>1, <1>4, <1>5 DEF CallOK, Checked, Answered, Held, ChildLater,
     Working, SubspacePCs, RoomPCs, BeforeStart
<1>7. /\ client' \in [Calls -> Clients]
      /\ answer' \in [Calls -> Answers]
      /\ strange' \subseteq Calls \X Fields /\ StrangeReasons'
  BY <1>1 DEF IInv, TypeOK, Clients, Answers, StrangeReasons
<1>8. QED
  BY <1>1, <1>4, <1>6, <1>7, StepKeeps

LEMMA ClientClosesKeeps ==
    ASSUME IInv, NEW c \in Calls, ClientCloses(c)
    PROVE  IInv'
<1>1. UNCHANGED <<handler, strange, child, inherited>>
  BY DEF ClientCloses
<1>2. client' \in [Calls -> Clients]
  BY DEF ClientCloses, IInv, TypeOK, Clients
<1>3. ASSUME NEW d \in Calls PROVE CallOK(d)'
  BY <1>1, CallFrame DEF handler, Same, Opens, IInv
<1>4. /\ pc' \in [Calls -> PCs]
      /\ answer' \in [Calls -> Answers]
      /\ open' \subseteq Calls \X Slots
      /\ strange' \subseteq Calls \X Fields /\ StrangeReasons'
      /\ UNCHANGED <<settled, child>>
  BY <1>1 DEF handler, settled, IInv, TypeOK, Answers, StrangeReasons
<1>5. QED
  BY <1>2, <1>3, <1>4, StepKeeps

\* Nothing happens to a child process before it exists, and a PID that is
\* another process's remains so.
LEMMA ChildKeeps ==
    ASSUME IInv, NEW c \in Calls, NEW from \in {"running", "zombie", "reaped"},
           NEW to \in ChildStates, Becomes(c, from, to)
    PROVE  IInv'
<1>1. /\ child[c] = from
      /\ child' = [child EXCEPT ![c] = to]
      /\ UNCHANGED <<handler, strange, inherited, client>>
  BY DEF Becomes
<1>2. TypeOK'
  BY <1>1 DEF IInv, TypeOK, handler
<1>3. ASSUME NEW d \in Calls PROVE CallOK(d)'
  <2>1. CallOK(d) /\ Opens(d)' = Opens(d)
    BY <1>1 DEF IInv, handler, Opens
  <2>2. CASE d # c
    <3>1. Same(d) /\ pc'[d] = pc[d]
      BY <1>1, <2>2 DEF Same, handler, IInv, TypeOK
    <3>2. QED
      BY <2>1, <3>1, CallFrame
  <2>3. CASE d = c
    <3>1. Checked(c)' /\ Answered(c)'
      BY <1>1, <2>1, <2>3 DEF handler, CallOK, Checked, Answered
    <3>2. Holds(c)' = Holds(c)
      BY <1>1 DEF handler, Holds
    <3>3. Held(c)'
      BY <1>1, <2>1, <2>3, <3>2 DEF handler, CallOK, Held
    <3>4. ChildLater(c)'
      BY <1>1, <2>1, <2>3 DEF handler, CallOK, ChildLater
    <3>5. QED
      BY <2>3, <3>1, <3>3, <3>4 DEF CallOK
  <2>4. QED
    BY <2>2, <2>3
<1>4. StrangeReasons'
  BY <1>1 DEF IInv, TypeOK, StrangeReasons
<1>5. QED
  BY <1>2, <1>3, <1>4 DEF IInv

LEMMA NextIInv == IInv /\ [Next]_vars => IInv'
<1> SUFFICES ASSUME IInv, [Next]_vars PROVE IInv'
  OBVIOUS
<1>1. CASE UNCHANGED vars
  <2>1. /\ UNCHANGED <<pc, asked, answer, todo, spoilt, open>>
        /\ UNCHANGED <<strange, child, inherited, client>>
    BY <1>1 DEF vars, handler
  <2>2. ASSUME NEW d \in Calls PROVE CallOK(d)'
    BY <2>1, CallFrame DEF Same, Opens, IInv
  <2>3. QED
    BY <2>1, <2>2 DEF IInv, TypeOK, StrangeReasons
<1>2. ASSUME NEW c \in Calls, Subspace(c) PROVE IInv'
  BY <1>2, SocketpairKeeps, WrapDupondKeeps, WrapDupontKeeps, DupontFileKeeps, StartKeeps,
     DupondFileKeeps, DupKeeps, OpenUserKeeps, OpenPidKeeps, PidfdOpenKeeps DEF Subspace
<1>3. ASSUME NEW c \in Calls, Room(c) PROVE IInv'
  BY <1>3, OpenCallerKeeps, NewNamespaceKeeps, RoomAnswerKeeps DEF Room
<1>4. ASSUME NEW c \in Calls, ChildEnds(c) \/ ChildDies(c) \/ Reap(c) \/ ReusePID(c)
      PROVE  IInv'
  <2>1. {"zombie", "reaped", "reused"} \subseteq ChildStates
    BY DEF ChildStates
  <2>2. QED
    BY <1>4, <2>1, ChildKeeps DEF ChildEnds, ChildDies, Reap, ReusePID
<1>5. CASE Next
  BY <1>2, <1>3, <1>4, <1>5, RequestKeeps, SendKeeps, ReleaseKeeps, ClientClosesKeeps
     DEF Next, Serve
<1>6. QED
  BY <1>1, <1>5

\* What is open follows from where the handlers are.
THEOREM Invariance == Spec => []IInv
<1>1. Init => IInv
  BY InitIInv
<1>2. IInv /\ [Next]_vars => IInv'
  BY NextIInv
<1>3. QED
  BY <1>1, <1>2, PTL DEF Spec

-----------------------------------------------------------------------------
(* Types, and what descriptors refer to.                                   *)

\* Every variable keeps its type.
THEOREM TypeCorrect == Spec => []TypeOK
<1>1. IInv => TypeOK
  BY DEF IInv
<1>2. QED
  BY <1>1, Invariance, PTL

\* Once the response of Subspace is complete, a strange namespace comes with a
\* strange PID descriptor: the one that is opened last.
Vouched(c) ==
    answer[c] = "ok" =>
        \A s \in {"user", "pid"} : <<c, s>> \in strange => <<c, "pidfd">> \in strange

LEMMA VouchedKeeps ==
    ASSUME IInv, [Next]_vars, NEW c \in Calls, Vouched(c)
    PROVE  Vouched(c)'
<1>1. answer[c] = "none" \/ answer[c] = "error" \/ Vouched(c)
  OBVIOUS
<1>2. CASE UNCHANGED <<answer, strange>>
  BY <1>2 DEF Vouched
<1>3. answer \in [Calls -> Answers]
  BY DEF IInv, TypeOK, Answers
<1>4. ASSUME NEW d \in Calls, NEW closed, UNCHANGED strange,
             Reply(d, "error", closed)
      PROVE  Vouched(c)'
  BY <1>3, <1>4 DEF Reply, Vouched
<1>5. CASE \E d \in Calls : Request(d)
  <2>1. PICK d \in Calls : Request(d)
    BY <1>5
  <2>2. UNCHANGED strange /\ (UNCHANGED answer \/ Reply(d, "error", {}))
    BY <2>1 DEF Request
  <2>3. QED
    BY <1>2, <1>4, <2>2
<1>6. CASE \E d \in Calls : DupontFile(d) \/ Start(d) \/ DupondFile(d) \/ Dup(d)
  <2>1. PICK d \in Calls : DupontFile(d) \/ Start(d) \/ DupondFile(d) \/ Dup(d)
    BY <1>6
  <2>2. UNCHANGED strange /\ (UNCHANGED answer \/ Fail(d, {}))
    BY <2>1 DEF DupontFile, Start, DupondFile, Dup
  <2>3. QED
    BY <1>2, <1>4, <2>2 DEF Fail
<1>7. CASE \E d \in Calls : OpenUser(d) \/ OpenPid(d)
  <2>1. PICK d \in Calls : OpenUser(d) \/ OpenPid(d)
    BY <1>7
  <2>2. \/ /\ pc[d] \in {"user", "pid"} /\ UNCHANGED answer
           /\ \E s \in Fields : strange' \subseteq strange \union {<<d, s>>}
           /\ strange \subseteq strange'
        \/ UNCHANGED strange /\ \E closed : Reply(d, "error", closed)
    <3>1. \/ UNCHANGED strange /\ (Fail(d, {"conn"}) \/ Fail(d, {"user", "conn"}))
          \/ /\ pc[d] \in {"user", "pid"} /\ UNCHANGED answer
             /\ Finds(d, "user") \/ Finds(d, "pid")
      BY <2>1 DEF OpenUser, OpenPid, At
    <3>2. \A s \in {"user", "pid"} : Finds(d, s) =>
              strange \subseteq strange' /\ strange' \subseteq strange \union {<<d, s>>}
      BY DEF Finds
    <3>3. {"user", "pid"} \subseteq Fields
      BY DEF Fields, SubspaceFields
    <3>4. CASE UNCHANGED strange /\ (Fail(d, {"conn"}) \/ Fail(d, {"user", "conn"}))
      BY <3>4 DEF Fail
    <3>5. QED
      BY <3>1, <3>2, <3>3, <3>4
  <2>3. CASE UNCHANGED strange /\ \E closed : Reply(d, "error", closed)
    BY <1>4, <2>3
  <2>4. CASE /\ pc[d] \in {"user", "pid"} /\ UNCHANGED answer
             /\ \E s \in Fields : strange' \subseteq strange \union {<<d, s>>}
             /\ strange \subseteq strange'
    <3>1. answer[d] = "none"
      BY <2>4 DEF IInv, CallOK, Answered, Working, SubspacePCs, BeforeStart
    <3>2. CASE c = d
      BY <2>4, <3>1, <3>2 DEF Vouched
    <3>3. CASE c # d
      BY <2>4, <3>3 DEF Vouched
    <3>4. QED
      BY <3>2, <3>3
  <2>5. QED
    BY <2>2, <2>3, <2>4
<1>8. CASE \E d \in Calls : PidfdOpen(d)
  <2>1. PICK d \in Calls : PidfdOpen(d)
    BY <1>8
  <2>2. CASE Fail(d, {"pid", "user", "conn"}) /\ UNCHANGED strange
    BY <1>4, <2>2 DEF Fail
  <2>3. CASE Finds(d, "pidfd") /\ answer' = [answer EXCEPT ![d] = "ok"]
    <3>1. CASE c = d /\ child[c] = "reused"
      BY <2>3, <3>1 DEF Finds, Vouched
    <3>2. CASE c = d /\ child[c] # "reused"
      BY <2>3, <3>2 DEF Finds, Vouched, IInv, StrangeReasons
    <3>3. CASE c # d
      BY <1>3, <2>3, <3>3 DEF Finds, Vouched
    <3>4. QED
      BY <3>1, <3>2, <3>3
  <2>4. QED
    BY <2>1, <2>2, <2>3 DEF PidfdOpen
<1>9. CASE \E d \in Calls : Room(d)
  <2>1. PICK d \in Calls : Room(d)
    BY <1>9
  <2>2. pc[d] \in RoomPCs
    BY <2>1 DEF Room, OpenCaller, NewNamespace, RoomAnswer, At, RoomPCs
  <2>3. child[d] = "none" /\ \A s \in {"user", "pid"} : <<d, s>> \notin strange
    BY <2>2 DEF IInv, CallOK, ChildLater, StrangeReasons
  <2>4. CASE OpenCaller(d)
    BY <1>2, <2>4 DEF OpenCaller
  <2>5. CASE NewNamespace(d)
    <3>1. /\ UNCHANGED answer
          /\ \/ UNCHANGED strange
             \/ \E t : ~EntersIt(t) /\ strange' = strange \union {<<d, t>>}
      BY <2>5 DEF NewNamespace
    <3>2. QED
      BY <1>2, <3>1 DEF EntersIt, Vouched
  <2>6. CASE RoomAnswer(d)
    <3>1. UNCHANGED strange /\ \E a : answer' = [answer EXCEPT ![d] = a]
      BY <2>6 DEF RoomAnswer, Reply
    <3>2. QED
      BY <1>3, <2>3, <3>1 DEF Vouched
  <2>7. QED
    BY <2>1, <2>4, <2>5, <2>6 DEF Room
<1>10. CASE UNCHANGED vars
  BY <1>2, <1>10 DEF vars, handler
<1>11. ASSUME NEW d \in Calls,
              \/ Socketpair(d) \/ WrapDupond(d) \/ WrapDupont(d) \/ Send(d) \/ Release(d)
              \/ ClientCloses(d) \/ ChildEnds(d) \/ ChildDies(d) \/ Reap(d) \/ ReusePID(d)
       PROVE  UNCHANGED <<answer, strange>>
  BY <1>11 DEF Socketpair, WrapDupond, WrapDupont, Send, Release, ClientCloses, ChildEnds,
     ChildDies, Reap, ReusePID, Becomes, handler
<1>12. QED
  BY <1>2, <1>5, <1>6, <1>7, <1>8, <1>9, <1>10, <1>11 DEF Next, Serve, Subspace

\* Whatever ends, is reaped or gets a PID that was in use, between any two
\* look-ups: if the PID descriptor of a response is that of the child which was
\* started for it, so are the namespaces.
THEOREM ThePidfdVouches == Spec => []PidfdVouches
<1>1. Init => \A c \in Calls : Vouched(c)
  BY DEF Init, Vouched
<1>2. IInv /\ (\A c \in Calls : Vouched(c)) /\ [Next]_vars => (\A c \in Calls : Vouched(c))'
  BY VouchedKeeps
<1>3. (\A c \in Calls : Vouched(c)) => PidfdVouches
  BY DEF Vouched, PidfdVouches
<1>4. QED
  BY <1>1, <1>2, <1>3, Invariance, PTL DEF Spec
-----------------------------------------------------------------------------
(* The handlers implement AllOrNothing.                                    *)

Handed == {p \in open : answer[p[1]] # "none"}

HandedFor(d) == IF answer[d] = "none" THEN {} ELSE Opens(d)

LEMMA HandedIs ==
    ASSUME TypeOK
    PROVE  /\ Handed \subseteq Calls \X Slots
           /\ \A d \in Calls, s \in Slots : <<d, s>> \in Handed <=> s \in HandedFor(d)
  BY DEF TypeOK, Handed, HandedFor, Opens

LEMMA HandedWillBe ==
    ASSUME TypeOK'
    PROVE  /\ Handed' \subseteq Calls \X Slots
           /\ \A d \in Calls, s \in Slots : <<d, s>> \in Handed' <=> s \in HandedFor(d)'
  BY DEF TypeOK, Handed, HandedFor, Opens

\* What is handed over changes as it does for each of the calls.
LEMMA HandedFrame ==
    ASSUME TypeOK, TypeOK', \A d \in Calls : HandedFor(d)' = HandedFor(d)
    PROVE  Handed' = Handed
<1>1. \A d \in Calls, s \in Slots : <<d, s>> \in Handed' <=> <<d, s>> \in Handed
  BY HandedIs, HandedWillBe
<1>2. Handed \subseteq Calls \X Slots /\ Handed' \subseteq Calls \X Slots
  BY HandedIs, HandedWillBe
<1>3. QED
  BY <1>1, <1>2

PromiseStep == Promise!Next \/ UNCHANGED Promise!vars

\* A step of a handler that answers nothing.
LEMMA QuietStep ==
    ASSUME IInv, IInv', NEW c \in Calls, UNCHANGED <<asked, answer>>,
           \A d \in Calls \ {c} : Opens(d)' = Opens(d),
           answer[c] = "none" \/ Opens(c)' = Opens(c)
    PROVE  PromiseStep
<1>1. \A d \in Calls : HandedFor(d)' = HandedFor(d)
  BY DEF HandedFor
<1>2. Handed' = Handed
  BY <1>1, HandedFrame DEF IInv
<1>3. QED
  BY <1>2 DEF PromiseStep, Promise!vars, Handed

\* An error is answered, and nothing is open of what had been opened.
LEMMA ErrorStep ==
    ASSUME IInv, IInv', NEW c \in Calls, NEW closed, Reply(c, "error", closed),
           pc[c] \in Working \ {"idle"}, UNCHANGED asked
    PROVE  PromiseStep
<1>1. /\ Go(c, "answered", {}, closed)
      /\ answer' = [answer EXCEPT ![c] = "error"]
      /\ CallOK(c) /\ CallOK(c)'
  BY DEF Reply, IInv
<1>2. answer[c] = "none" /\ asked[c] # NoRequest
  BY <1>1 DEF CallOK, Checked, Answered, Working, SubspacePCs, RoomPCs
<1>3. answer'[c] = "error" /\ \A d \in Calls \ {c} : answer'[d] = answer[d]
  BY <1>1 DEF IInv, TypeOK
<1>4. pc'[c] = "answered"
  BY <1>1 DEF Go, IInv, TypeOK
<1>5. Opens(c)' = {}
  BY <1>1, <1>3, <1>4 DEF CallOK, Held
<1>6. \A d \in Calls \ {c} : Opens(d)' = Opens(d)
  BY <1>1, GoOpens DEF IInv, TypeOK
<1>7. Handed' = Handed
  <2>1. \A d \in Calls : HandedFor(d)' = HandedFor(d)
    BY <1>2, <1>3, <1>5, <1>6 DEF HandedFor
  <2>2. QED
    BY <2>1, HandedFrame DEF IInv
<1>8. Promise!Refuse(c)
  BY <1>1, <1>2, <1>7 DEF Promise!Refuse, Promise!NoRequest, NoRequest, Handed
<1>9. QED
  BY <1>8 DEF PromiseStep, Promise!Next

\* A successful response is answered, with all its fields open.
LEMMA OkStep ==
    ASSUME IInv, IInv', NEW c \in Calls, NEW opened \in SUBSET Slots, NEW closed,
           Go(c, "answered", opened, closed), answer' = [answer EXCEPT ![c] = "ok"],
           pc[c] \in Working \ {"idle"}, UNCHANGED asked
    PROVE  PromiseStep
<1>1. CallOK(c) /\ CallOK(c)'
  BY DEF IInv
<1>2. answer[c] = "none" /\ asked[c] # NoRequest
  BY <1>1 DEF CallOK, Checked, Answered, Working, SubspacePCs, RoomPCs
<1>3. answer'[c] = "ok" /\ \A d \in Calls \ {c} : answer'[d] = answer[d]
  BY DEF IInv, TypeOK
<1>4. pc'[c] = "answered"
  BY DEF Go, IInv, TypeOK
<1>5. Opens(c)' = OpenFields(asked[c])
  BY <1>1, <1>3, <1>4 DEF CallOK, Held
<1>6. \A d \in Calls \ {c} : Opens(d)' = Opens(d)
  BY GoOpens DEF IInv, TypeOK
<1> DEFINE fields == OpenFields(asked[c])
<1>7. fields \subseteq Slots
  BY <1>5 DEF Opens
<1>8. HandedFor(c) = {} /\ HandedFor(c)' = fields
  BY <1>2, <1>3, <1>5 DEF HandedFor
<1>9. \A d \in Calls \ {c} : HandedFor(d)' = HandedFor(d)
  BY <1>3, <1>6 DEF HandedFor
<1> HIDE DEF fields
<1>10. Handed' = Handed \union ({c} \X fields)
  <2>1. \A d \in Calls, s \in Slots :
          <<d, s>> \in Handed' <=> <<d, s>> \in Handed \/ (d = c /\ s \in fields)
    <3> SUFFICES ASSUME NEW d \in Calls, NEW s \in Slots
                 PROVE  <<d, s>> \in Handed' <=> <<d, s>> \in Handed \/ (d = c /\ s \in fields)
      OBVIOUS
    <3>1. /\ <<d, s>> \in Handed <=> s \in HandedFor(d)
          /\ <<d, s>> \in Handed' <=> s \in HandedFor(d)'
      BY HandedIs, HandedWillBe DEF IInv
    <3>2. CASE d = c
      BY <1>8, <3>1, <3>2
    <3>3. CASE d # c
      BY <1>9, <3>1, <3>3
    <3>4. QED
      BY <3>2, <3>3
  <2>2. Handed' \subseteq Calls \X Slots /\ Handed \subseteq Calls \X Slots
    BY HandedIs, HandedWillBe DEF IInv
  <2>3. QED
    BY <1>7, <2>1, <2>2
<1>11. Promise!OpenFields(asked[c]) = fields
  BY DEF fields, OpenFields, Promise!OpenFields
<1>12. Promise!Grant(c)
  BY <1>2, <1>10, <1>11 DEF Promise!Grant, Promise!NoRequest, NoRequest, Handed
<1>13. QED
  BY <1>12 DEF PromiseStep, Promise!Next

LEMMA RequestPromise ==
    ASSUME IInv, IInv', NEW c \in Calls, Request(c)
    PROVE  PromiseStep
<1>1. PICK req \in Menu :
        /\ asked' = [asked EXCEPT ![c] = req]
        /\ \/ Reply(c, "error", {})
           \/ (\E next \in RoomPCs \union SubspacePCs : Go(c, next, {}, {})) /\ UNCHANGED answer
  <2>1. "rooms" \in RoomPCs /\ "socketpair" \in SubspacePCs
    BY DEF RoomPCs, SubspacePCs
  <2>2. QED
    BY <2>1 DEF Request
<1>2. req \in [kind : {"rooms", "subspace"}, spaces : SUBSET Fields]
  BY MenuAssumption DEF Masks
<1>3. asked[c] = NoRequest /\ Opens(c) = {} /\ answer[c] = "none"
  BY DEF Request, At, IInv, CallOK, Checked, Held, Answered, Working
<1>4. PICK next : Go(c, next, {}, {})
  BY <1>1 DEF Reply
<1>5. \A d \in Calls : Opens(d)' = Opens(d)
  <2>1. /\ Opens(c)' = (Opens(c) \ {}) \union {}
        /\ \A d \in Calls \ {c} : Opens(d)' = Opens(d)
    BY <1>4, GoOpens DEF IInv, TypeOK
  <2>2. QED
    BY <2>1
<1>6. UNCHANGED answer \/ answer' = [answer EXCEPT ![c] = "error"]
  BY <1>1 DEF Reply
<1>7. \A d \in Calls : HandedFor(d)' = HandedFor(d)
  BY <1>3, <1>5, <1>6 DEF HandedFor, IInv, TypeOK
<1>8. Handed' = Handed
  BY <1>7, HandedFrame DEF IInv
<1>9. req \in [kind : {"rooms", "subspace"}, spaces : SUBSET Promise!Fields]
  BY <1>2 DEF Fields, RoomFields, SubspaceFields,
     Promise!Fields, Promise!RoomFields, Promise!SubspaceFields
<1>10. Promise!Ask(c)
  <2>1. \E kind \in {"rooms", "subspace"}, spaces \in SUBSET Promise!Fields :
          asked' = [asked EXCEPT ![c] = [kind |-> kind, spaces |-> spaces]]
    BY <1>1, <1>9
  <2>2. QED
    BY <1>3, <1>6, <1>8, <2>1 DEF Promise!Ask, Promise!NoRequest, NoRequest, Handed
<1>11. QED
  BY <1>10 DEF PromiseStep, Promise!Next

LEMMA ReleasePromise ==
    ASSUME IInv, IInv', NEW c \in Calls, Release(c)
    PROVE  PromiseStep
<1> DEFINE closed == IF answer[c] = "ok" THEN Fields ELSE {}
<1>1. /\ pc[c] = "sent" /\ CallOK(c) /\ CallOK(c)'
      /\ Go(c, "done", {}, closed)
      /\ UNCHANGED <<asked, answer>>
  BY DEF Release, At, IInv, settled
<1>2. answer[c] # "none"
  BY <1>1 DEF CallOK, Answered, Working, SubspacePCs, RoomPCs
<1>3. Opens(c) \subseteq Fields
  BY <1>1, FieldsOfResponse DEF CallOK, Held
<1>4. \A d \in Calls \ {c} : Opens(d)' = Opens(d)
  BY <1>1, GoOpens DEF IInv, TypeOK
<1>5. Opens(c)' = {}
  <2>1. pc'[c] = "done"
    BY <1>1 DEF Go, IInv, TypeOK
  <2>2. QED
    BY <1>1, <2>1 DEF CallOK, Held
<1>6. Handed' = Handed \ ({c} \X Fields)
  <2>1. HandedFor(c)' = {} /\ \A d \in Calls \ {c} : HandedFor(d)' = HandedFor(d)
    BY <1>1, <1>4, <1>5 DEF HandedFor
  <2>2. HandedFor(c) \subseteq Fields
    BY <1>3 DEF HandedFor
  <2>3. \A d \in Calls, s \in Slots :
          <<d, s>> \in Handed' <=> <<d, s>> \in Handed /\ ~(d = c /\ s \in Fields)
    BY <2>1, <2>2, HandedIs, HandedWillBe DEF IInv
  <2>4. Handed' \subseteq Calls \X Slots /\ Handed \subseteq Calls \X Slots
    BY HandedIs, HandedWillBe DEF IInv
  <2>5. QED
    BY <2>3, <2>4
<1>7. Promise!Fields = Fields
  BY DEF Fields, RoomFields, SubspaceFields,
     Promise!Fields, Promise!RoomFields, Promise!SubspaceFields
<1>8. Promise!Release(c)
  BY <1>1, <1>2, <1>6, <1>7 DEF Promise!Release, Handed
<1>9. QED
  BY <1>8 DEF PromiseStep, Promise!Next

LEMMA PanicPromise ==
    ASSUME Panic, UNCHANGED <<asked, answer>>
    PROVE  PromiseStep
<1>1. Handed' = {}
  BY DEF Panic, Handed
<1>2. Promise!Die
  BY <1>1 DEF Promise!Die, Handed
<1>3. QED
  BY <1>2 DEF PromiseStep, Promise!Next
\* The descriptors of other calls are left alone.
LEMMA GoOthers ==
    ASSUME NEW c \in Calls, NEW next, NEW opened, NEW closed, Go(c, next, opened, closed)
    PROVE  \A d \in Calls \ {c} : Opens(d)' = Opens(d)
<1>1. open' = (open \ ({c} \X closed)) \union ({c} \X opened)
  BY DEF Go
<1>2. \A d \in Calls \ {c}, s \in Slots : <<d, s>> \in open' <=> <<d, s>> \in open
  BY <1>1
<1>3. QED
  BY <1>2 DEF Opens

LEMMA GoPromise ==
    ASSUME IInv, IInv', NEW c \in Calls, \A d \in Calls \ {c} : Opens(d)' = Opens(d),
           UNCHANGED <<asked, answer>>, pc[c] \in Working
    PROVE  PromiseStep
<1>1. CallOK(c) /\ pc[c] \notin {"answered", "sent", "done", "panicked"}
  BY DEF IInv, Working, SubspacePCs, RoomPCs
<1>2. answer[c] = "none"
  BY <1>1 DEF CallOK, Answered
<1>3. QED
  BY <1>2, QuietStep

LEMMA SubspacePromise ==
    ASSUME IInv, IInv', NEW c \in Calls, Subspace(c)
    PROVE  PromiseStep
<1>1. pc[c] \in SubspacePCs /\ pc[c] \in Working \ {"idle"} /\ pc[c] \in Working
  BY DEF Subspace, At, SubspacePCs, Working, Socketpair, WrapDupond, WrapDupont, DupontFile,
     Start, DupondFile, Dup, OpenUser, OpenPid, PidfdOpen
<1>2. UNCHANGED asked
  BY DEF Subspace, settled, Socketpair, WrapDupond, WrapDupont, DupontFile,
     Start, DupondFile, Dup, OpenUser, OpenPid, PidfdOpen
<1>3. \/ Panic /\ UNCHANGED answer
      \/ \/ Fail(c, {}) \/ Fail(c, {"conn"}) \/ Fail(c, {"user", "conn"})
         \/ Fail(c, {"pid", "user", "conn"})
      \/ Go(c, "answered", {"pidfd"}, Deferred) /\ answer' = [answer EXCEPT ![c] = "ok"]
      \/ UNCHANGED answer /\ \A d \in Calls \ {c} : Opens(d)' = Opens(d)
  <2>1. CASE Socketpair(c)
    BY <2>1, GoOthers DEF Socketpair
  <2>2. CASE WrapDupond(c)
    BY <2>2, GoOthers DEF WrapDupond
  <2>3. CASE WrapDupont(c)
    BY <2>3, GoOthers DEF WrapDupont
  <2>4. CASE DupontFile(c)
    BY <2>4, GoOthers DEF DupontFile
  <2>5. CASE Start(c)
    BY <2>5, GoOthers DEF Start
  <2>6. CASE DupondFile(c)
    BY <2>6, GoOthers DEF DupondFile
  <2>7. CASE Dup(c)
    BY <2>7, GoOthers DEF Dup
  <2>8. CASE OpenUser(c)
    BY <2>8, GoOthers DEF OpenUser
  <2>9. CASE OpenPid(c)
    BY <2>9, GoOthers DEF OpenPid
  <2>10. CASE PidfdOpen(c)
    BY <2>10, GoOthers DEF PidfdOpen
  <2>11. QED
    BY <2>1, <2>2, <2>3, <2>4, <2>5, <2>6, <2>7, <2>8, <2>9, <2>10 DEF Subspace
<1>4. CASE Panic /\ UNCHANGED answer
  BY <1>2, <1>4, PanicPromise
<1>5. CASE \/ Fail(c, {}) \/ Fail(c, {"conn"}) \/ Fail(c, {"user", "conn"})
           \/ Fail(c, {"pid", "user", "conn"})
  BY <1>1, <1>2, <1>5, ErrorStep DEF Fail
<1>6. CASE Go(c, "answered", {"pidfd"}, Deferred) /\ answer' = [answer EXCEPT ![c] = "ok"]
  <2>1. {"pidfd"} \in SUBSET Slots
    BY DEF Slots, Fields, SubspaceFields
  <2>2. QED
    BY <1>1, <1>2, <1>6, <2>1, OkStep
<1>7. CASE UNCHANGED answer /\ \A d \in Calls \ {c} : Opens(d)' = Opens(d)
  BY <1>1, <1>2, <1>7, GoPromise
<1>8. QED
  BY <1>3, <1>4, <1>5, <1>6, <1>7

LEMMA RoomPromise ==
    ASSUME IInv, IInv', NEW c \in Calls, Room(c)
    PROVE  PromiseStep
<1>1. pc[c] \in RoomPCs /\ pc[c] \in Working \ {"idle"} /\ pc[c] \in Working
  BY DEF Room, At, RoomPCs, Working, OpenCaller, NewNamespace, RoomAnswer
<1>2. UNCHANGED asked
  BY DEF Room, OpenCaller, NewNamespace, RoomAnswer
<1>3. CASE OpenCaller(c)
  <2>1. UNCHANGED answer /\ \A d \in Calls \ {c} : Opens(d)' = Opens(d)
    <3>1. CASE Go(c, "newNamespace", {"callerns"}, {})
      BY <1>3, <3>1, GoOthers DEF OpenCaller
    <3>2. CASE UNCHANGED open
      BY <1>3, <3>2 DEF OpenCaller, Opens
    <3>3. QED
      BY <1>3, <3>1, <3>2 DEF OpenCaller
  <2>2. QED
    BY <1>1, <1>2, <2>1, GoPromise
<1>4. CASE NewNamespace(c)
  <2>1. UNCHANGED answer /\ \A d \in Calls \ {c} : Opens(d)' = Opens(d)
    BY <1>4, GoOthers DEF NewNamespace
  <2>2. QED
    BY <1>1, <1>2, <2>1, GoPromise
<1>5. CASE RoomAnswer(c)
  <2>1. CASE Reply(c, "error", RoomFields)
    BY <1>1, <1>2, <2>1, ErrorStep
  <2>2. CASE Reply(c, "ok", {})
    <3>1. Go(c, "answered", {}, {}) /\ answer' = [answer EXCEPT ![c] = "ok"]
      BY <2>2 DEF Reply
    <3>2. {} \in SUBSET Slots
      OBVIOUS
    <3>3. QED
      BY <1>1, <1>2, <3>1, <3>2, OkStep
  <2>3. QED
    BY <1>5, <2>1, <2>2 DEF RoomAnswer
<1>6. QED
  BY <1>3, <1>4, <1>5 DEF Room

\* What the kernel and the clients do, and sending, opens and answers nothing.
LEMMA RestPromise ==
    ASSUME IInv, IInv', NEW c \in Calls,
           Send(c) \/ ClientCloses(c) \/ ChildEnds(c) \/ ChildDies(c) \/ Reap(c) \/ ReusePID(c)
    PROVE  PromiseStep
<1>1. UNCHANGED <<asked, answer>> /\ \A d \in Calls : Opens(d)' = Opens(d)
  <2>1. CASE Send(c)
    <3>1. Go(c, "sent", {}, {}) /\ UNCHANGED <<asked, answer>>
      BY <2>1 DEF Send, settled
    <3>2. open' = open
      BY <3>1 DEF Go
    <3>3. QED
      BY <3>1, <3>2 DEF Opens
  <2>2. CASE ~Send(c)
    <3>1. UNCHANGED handler
      BY <2>2 DEF ClientCloses, ChildEnds, ChildDies, Reap, ReusePID, Becomes
    <3>2. QED
      BY <3>1 DEF handler, Opens
  <2>3. QED
    BY <2>1, <2>2
<1>2. QED
  BY <1>1, QuietStep

LEMMA NextPromise == IInv /\ IInv' /\ [Next]_vars => PromiseStep
<1> SUFFICES ASSUME IInv, IInv', [Next]_vars PROVE PromiseStep
  OBVIOUS
<1>1. CASE UNCHANGED vars
  BY <1>1 DEF vars, handler, PromiseStep, Promise!vars
<1>2. CASE Next
  BY <1>2, RequestPromise, SubspacePromise, RoomPromise, ReleasePromise, RestPromise
     DEF Next, Serve
<1>3. QED
  BY <1>1, <1>2

\* Whichever step of a handler fails, a request is answered with everything
\* it asked for or with an error and nothing, and nothing stays open.
THEOREM PromiseKept == Spec => KeepsPromise
<1>1. Init => Promise!Init
  BY DEF Init, Promise!Init, NoRequest, Promise!NoRequest
<1>2. IInv /\ IInv' /\ [Next]_vars => [Promise!Next]_Promise!vars
  BY NextPromise DEF PromiseStep
<1>3. QED
  BY <1>1, <1>2, Invariance, PTL DEF Spec, KeepsPromise, Promise!Spec

-----------------------------------------------------------------------------
(* What the child processes inherit.                                       *)

\* A handler goes on from where it is served, alone or with the process dying,
\* and it is only to its own child that it passes what is open.
GoesOn(c) ==
    /\ Serving(c)
    /\ \/ \A d \in Calls \ {c} : pc'[d] = pc[d]
       \/ \A d \in Calls : pc'[d] = "panicked"
    /\ \/ UNCHANGED inherited
       \/ /\ At(c, "start")
          /\ inherited' = [inherited EXCEPT ![c] = {p \in open : p[2] \notin CloseOnExec}]

LEMMA ServeGoesOn ==
    ASSUME IInv, NEW c \in Calls, Serve(c)
    PROVE  GoesOn(c)
<1>1. pc \in [Calls -> PCs]
  BY DEF IInv, TypeOK
<1>2. CASE Socketpair(c) \/ WrapDupond(c) \/ WrapDupont(c)
  BY <1>1, <1>2 DEF GoesOn, Serving, At, Socketpair, WrapDupond, WrapDupont, Go, Panic,
     settled
<1>3. CASE DupontFile(c) \/ DupondFile(c) \/ Dup(c)
  BY <1>1, <1>3 DEF GoesOn, Serving, At, DupontFile, DupondFile, Dup, Go, Fail, Reply,
     settled
<1>4. CASE Start(c)
  BY <1>1, <1>4 DEF GoesOn, Serving, At, Start, Go, Fail, Reply
<1>5. CASE OpenUser(c) \/ OpenPid(c) \/ PidfdOpen(c)
  BY <1>1, <1>5 DEF GoesOn, Serving, At, OpenUser, OpenPid, PidfdOpen, Go, Fail, Reply,
     settled
<1>6. CASE Room(c)
  BY <1>1, <1>6 DEF GoesOn, Serving, At, Room, OpenCaller, NewNamespace, RoomAnswer, Go,
     Reply
<1>7. CASE Send(c) \/ Release(c)
  BY <1>1, <1>7 DEF GoesOn, Serving, At, Send, Release, Go, settled
<1>8. QED
  BY <1>2, <1>3, <1>4, <1>5, <1>6, <1>7 DEF Serve, Subspace

\* No child has got a descriptor of its own call, all of which are
\* close-on-exec when it starts, nor a close-on-exec one of any other.
InheritedOK == \A d \in Calls : \A p \in inherited[d] : p[1] # d /\ p[2] \notin CloseOnExec

LEMMA NextInheritedOK ==
    ASSUME IInv, InheritedOK, [Next]_vars
    PROVE  InheritedOK'
<1>1. ASSUME UNCHANGED inherited PROVE InheritedOK'
  BY <1>1 DEF InheritedOK
<1>2. ASSUME NEW c \in Calls, Serve(c) PROVE InheritedOK'
  <2>1. CASE UNCHANGED inherited
    BY <1>1, <2>1
  <2>2. CASE /\ pc[c] = "start"
             /\ inherited' = [inherited EXCEPT ![c] = {p \in open : p[2] \notin CloseOnExec}]
    <3>1. Opens(c) \subseteq CloseOnExec
      <4>1. Opens(c) = Holds(c)
        BY <2>2 DEF IInv, CallOK, Held, SubspacePCs
      <4>2. Holds(c) = Pair
        BY <2>2 DEF Holds
      <4>3. QED
        BY <4>1, <4>2 DEF Pair, CloseOnExec
    <3>2. ASSUME NEW p \in open, p[2] \notin CloseOnExec PROVE p[1] # c
      <4>1. p = <<p[1], p[2]>> /\ p[2] \in Slots
        BY DEF IInv, TypeOK
      <4>2. QED
        BY <3>1, <3>2, <4>1 DEF Opens
    <3>3. inherited \in [Calls -> SUBSET (Calls \X Slots)]
      BY DEF IInv, TypeOK
    <3>4. inherited'[c] = {p \in open : p[2] \notin CloseOnExec}
      BY <2>2, <3>3
    <3>5. \A d \in Calls \ {c} : inherited'[d] = inherited[d]
      BY <2>2, <3>3
    <3>6. QED
      BY <3>2, <3>4, <3>5 DEF InheritedOK
  <2>3. QED
    BY <1>2, <2>1, <2>2, ServeGoesOn DEF GoesOn, At
<1>3. CASE UNCHANGED vars
  BY <1>1, <1>3 DEF vars
<1>4. ASSUME NEW c \in Calls,
             \/ Request(c) \/ ClientCloses(c)
             \/ ChildEnds(c) \/ ChildDies(c) \/ Reap(c) \/ ReusePID(c)
      PROVE  InheritedOK'
  BY <1>1, <1>4 DEF Request, ClientCloses, ChildEnds, ChildDies, Reap, ReusePID, Becomes
<1>5. QED
  BY <1>2, <1>3, <1>4 DEF Next

THEOREM InheritedInvariance == Spec => []InheritedOK
<1>1. Init => InheritedOK
  BY DEF Init, InheritedOK
<1>2. QED
  BY <1>1, NextInheritedOK, Invariance, PTL DEF Spec

\* The client's end of a connection that is over, with the call failed, or
\* served and the client's descriptor closed.
ConnectionOver(c) == client[c] # "open" /\ (answer[c] = "error" \/ ~Serving(c))

\* Then the only ones to keep that end open are children of other calls that
\* still run, and have got one of the two descriptors not close-on-exec.
OnlyOthersHoldOn ==
    \A c \in Calls : ConnectionOver(c) /\ ~Disconnected(c) =>
        \E d \in Calls \ {c} :
            Running(d) /\ {<<c, "fdpair0">>, <<c, "conn">>} \cap inherited[d] # {}

LEMMA OverIsClosed ==
    ASSUME IInv, NEW c \in Calls, ConnectionOver(c)
    PROVE  \A s \in ClientEnd : <<c, s>> \notin open
<1>1. CallOK(c) /\ pc[c] \in PCs
  BY DEF IInv, TypeOK
<1>2. Opens(c) = {}
  <2>1. CASE ~Serving(c)
    BY <1>1, <2>1 DEF Serving, CallOK, Held
  <2>2. CASE answer[c] = "error" /\ Serving(c)
    <3>1. pc[c] \notin Working /\ pc[c] # "done"
      BY <1>1, <2>2 DEF CallOK, Answered, Serving
    <3>2. pc[c] \in {"answered", "sent"}
      BY <1>1, <2>2, <3>1 DEF PCs, Working, SubspacePCs, RoomPCs, Serving
    <3>3. QED
      BY <1>1, <2>2, <3>2 DEF CallOK, Held
  <2>3. QED
    BY <2>1, <2>2 DEF ConnectionOver
<1>3. ClientEnd \subseteq Slots
  BY DEF ClientEnd, Slots, Locals, Fields, SubspaceFields
<1>4. QED
  BY <1>2, <1>3 DEF Opens

LEMMA HoldersAreOthers ==
    ASSUME IInv, InheritedOK
    PROVE  OnlyOthersHoldOn
<1> SUFFICES ASSUME NEW c \in Calls, ConnectionOver(c), ~Disconnected(c)
             PROVE  \E d \in Calls \ {c} :
                        /\ Running(d)
                        /\ {<<c, "fdpair0">>, <<c, "conn">>} \cap inherited[d] # {}
  BY DEF OnlyOthersHoldOn
<1>1. PICK d \in Calls : Running(d) /\ \E s \in ClientEnd : <<c, s>> \in inherited[d]
  BY OverIsClosed DEF Disconnected, ConnectionOver
<1>2. PICK s \in ClientEnd : <<c, s>> \in inherited[d]
  BY <1>1
<1>3. d # c /\ s \notin CloseOnExec
  BY <1>2 DEF InheritedOK
<1>4. s \in {"fdpair0", "conn"}
  BY <1>2, <1>3 DEF ClientEnd, CloseOnExec
<1>5. QED
  BY <1>1, <1>2, <1>3, <1>4

\* However many calls are served at the same time, a child whose connection is
\* over fails to see that only because of what another child has inherited:
\* no step of Subspace that fails leaves the client's end open in the service,
\* and no child ever holds the client's end of its own connection.
THEOREM OnlyInheritanceHoldsOn == Spec => []OnlyOthersHoldOn
<1>1. IInv /\ InheritedOK => OnlyOthersHoldOn
  BY HoldersAreOthers
<1>2. QED
  BY <1>1, Invariance, InheritedInvariance, PTL

-----------------------------------------------------------------------------
(* Calls that are served one at a time.                                    *)

\* Only one handler is at work, and children have got only its descriptors.
OneAtATime == \A c, d \in Calls : Serving(c) /\ Serving(d) => c = d

AloneInv == OneAtATime /\ NoStrangers

\* What is open belongs to a call that is being served.
LEMMA OpensAreServed ==
    ASSUME IInv, NEW p \in open
    PROVE  p[1] \in Calls /\ p[2] \in Slots /\ Serving(p[1])
<1>1. p[1] \in Calls /\ p[2] \in Slots /\ p = <<p[1], p[2]>>
  BY DEF IInv, TypeOK
<1>2. p[2] \in Opens(p[1])
  BY <1>1 DEF Opens
<1>3. QED
  BY <1>1, <1>2 DEF IInv, CallOK, Held, Serving

\* Such a step keeps the handlers apart and gives a child nothing strange.
LEMMA GoesOnAlone ==
    ASSUME IInv, AloneInv, NEW c \in Calls, GoesOn(c)
    PROVE  AloneInv'
<1>1. OneAtATime'
  BY DEF AloneInv, OneAtATime, GoesOn, Serving
<1>2. \A p \in open : p[1] = c
  BY OpensAreServed DEF AloneInv, OneAtATime, GoesOn
<1>3. NoStrangers'
  <2>1. CASE UNCHANGED inherited
    BY <2>1 DEF AloneInv, NoStrangers
  <2>2. CASE inherited' = [inherited EXCEPT ![c] = {p \in open : p[2] \notin CloseOnExec}]
    <3>1. inherited \in [Calls -> SUBSET (Calls \X Slots)]
      BY DEF IInv, TypeOK
    <3>2. \A d \in Calls \ {c} : inherited'[d] = inherited[d]
      BY <2>2, <3>1
    <3>3. \A p \in inherited'[c] : p[1] = c
      BY <1>2, <2>2, <3>1
    <3>4. QED
      BY <3>2, <3>3 DEF AloneInv, NoStrangers
  <2>3. QED
    BY <2>1, <2>2 DEF GoesOn
<1>4. QED
  BY <1>1, <1>3 DEF AloneInv

\* With Busy = 1 a call is taken up only when no other one is being served.
LEMMA RequestAlone ==
    ASSUME Busy = 1, IInv, AloneInv, NEW c \in Calls, Request(c)
    PROVE  AloneInv'
<1> DEFINE S == {d \in Calls : Serving(d)}
<1>1. IsFiniteSet(S)
  BY CallsAssumption, FS_Subset
<1>2. Cardinality(S) \in Nat /\ Cardinality(S) < 1
  BY <1>1, FS_CardinalityType DEF Request
<1>3. Cardinality(S) = 0
  BY <1>2
<1>4. S = {}
  BY <1>1, <1>3, FS_EmptySet
<1>5. \A d \in Calls : ~Serving(d)
  BY <1>4
<1>6. pc \in [Calls -> PCs]
  BY DEF IInv, TypeOK
<1>7. \A d \in Calls \ {c} : pc'[d] = pc[d]
  BY <1>6 DEF Request, Go, Reply
<1>8. OneAtATime'
  BY <1>5, <1>7 DEF OneAtATime, Serving
<1>9. NoStrangers'
  BY DEF Request, AloneInv, NoStrangers
<1>10. QED
  BY <1>8, <1>9 DEF AloneInv

LEMMA NextAlone ==
    ASSUME Busy = 1, IInv, AloneInv, [Next]_vars
    PROVE  AloneInv'
<1>1. ASSUME UNCHANGED <<pc, inherited>> PROVE AloneInv'
  BY <1>1 DEF AloneInv, OneAtATime, Serving, NoStrangers
<1>2. CASE UNCHANGED vars
  BY <1>1, <1>2 DEF vars, handler
<1>3. ASSUME NEW c \in Calls,
             ClientCloses(c) \/ ChildEnds(c) \/ ChildDies(c) \/ Reap(c) \/ ReusePID(c)
      PROVE  AloneInv'
  BY <1>1, <1>3 DEF ClientCloses, ChildEnds, ChildDies, Reap, ReusePID, Becomes, handler
<1>4. CASE Next
  BY <1>3, <1>4, RequestAlone, ServeGoesOn, GoesOnAlone DEF Next
<1>5. QED
  BY <1>2, <1>4

\* As long as calls are served one at a time, the child process of a call has
\* got no descriptor of another one.
THEOREM ChildrenGetNoStrangers ==
    ASSUME Busy = 1
    PROVE  Spec => []NoStrangers
<1>1. Init => AloneInv
  BY DEF Init, AloneInv, OneAtATime, Serving, NoStrangers
<1>2. IInv /\ AloneInv /\ [Next]_vars => AloneInv'
  BY NextAlone
<1>3. AloneInv => NoStrangers
  BY DEF AloneInv
<1>4. QED
  BY <1>1, <1>2, <1>3, Invariance, PTL DEF Spec

\* As long as calls are served one at a time, a child whose call has failed, or
\* whose client has closed the connection, finds the other end closed: it is up
\* to nobody but itself to end (AbandonedChildEnds and ClosedChildEnds, which
\* need fairness).
THEOREM ChildrenSeeTheEnd ==
    ASSUME Busy = 1
    PROVE  Spec => []StreamsEnd
<1>1. OnlyOthersHoldOn /\ NoStrangers => StreamsEnd
  <2> SUFFICES ASSUME OnlyOthersHoldOn, NoStrangers, NEW c \in Calls,
                      ConnectionOver(c), ~Disconnected(c)
               PROVE  FALSE
    BY DEF StreamsEnd, ConnectionOver
  <2>1. PICK d \in Calls \ {c} : {<<c, "fdpair0">>, <<c, "conn">>} \cap inherited[d] # {}
    BY DEF OnlyOthersHoldOn
  <2>2. QED
    BY <2>1 DEF NoStrangers
<1>2. QED
  BY <1>1, OnlyInheritanceHoldsOn, ChildrenGetNoStrangers, PTL
=============================================================================
