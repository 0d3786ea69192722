-------------------------------- MODULE Wire --------------------------------
(***************************************************************************)
(* What one message of the spacer protocol carries.  A message is gob data *)
(* (in-band) plus open file descriptors in one SCM_RIGHTS control message  *)
(* (out-of-band).  Descriptor numbers are abstracted to the name of the    *)
(* response field they belong to; a field that is 0 is absent from a set   *)
(* of fields.                                                              *)
(***************************************************************************)
EXTENDS Naturals, Sequences, FiniteSets

CONSTANT
    WordSize,   \* unsafe.Sizeof(uintptr(0)): the alignment of control messages
    MaxFds      \* the descriptors ReceiveWithFds is told to make room for

ASSUME WordSizeAssumption == WordSize \in {4, 8}
ASSUME MaxFdsAssumption == MaxFds \in Nat

-----------------------------------------------------------------------------
(* The fields of the responses, and what a request may ask for.            *)

RoomFields == {"cgroup", "ipc", "mnt", "net", "time", "uts"}
SubspaceFields == {"conn", "pidfd", "user", "pid"}
Fields == RoomFields \union SubspaceFields

\* The types of namespaces each service accepts in its request mask.
ValidSpaces(kind) ==
    IF kind = "rooms" THEN RoomFields ELSE {"user", "pid"}

\* A request as a client can make one: any mask of the kind's types,
\* including the empty one.
Requests == [kind : {"rooms"}, spaces : SUBSET ValidSpaces("rooms")]
              \union [kind : {"subspace"}, spaces : SUBSET ValidSpaces("subspace")]

\* The fields that are open (>0) in a successful response to a request.
OpenFields(req) ==
    IF req.kind = "rooms" THEN req.spaces
                          ELSE {"conn", "pidfd"} \union req.spaces

-----------------------------------------------------------------------------
(* EncodeFds borrows the open fields in this order.                        *)

FieldOrder == <<"conn", "pidfd", "user", "pid",
                "cgroup", "ipc", "mnt", "net", "time", "uts">>

Rank(f) == CHOOSE i \in DOMAIN FieldOrder : FieldOrder[i] = f

\* How many descriptors a control buffer of ReceiveWithFds really holds: the
\* buffer is CmsgSpace(4*MaxFds) bytes long, which rounds up to whole words,
\* and the kernel fills what the header leaves of it.
SizeofCmsghdr == WordSize + 8
CmsgAlign(n) == ((n + WordSize - 1) \div WordSize) * WordSize
CmsgSpace(n) == CmsgAlign(SizeofCmsghdr) + CmsgAlign(n)

\* Mutant: a buffer of CmsgLen(4*MaxFds) bytes.
FdCapacityExact == MaxFds

FdCapacity == (CmsgSpace(4 * MaxFds) - SizeofCmsghdr) \div 4

\* Mutant: one descriptor less than fits.
ReceivedOffByOne(open) ==
    {f \in open : Cardinality({g \in open : Rank(g) <= Rank(f)}) < FdCapacity}

\* The open fields whose descriptors arrive: the first FdCapacity ones in
\* FieldOrder. The kernel drops its references to the others.
Received(open) ==
    {f \in open : Cardinality({g \in open : Rank(g) <= Rank(f)}) <= FdCapacity}

\* The fields that the gob data carries with their sender's numbers. Serve
\* encodes the response first and calls EncodeFds, which zeroes the fields,
\* only afterwards, so these are all the open ones.
InBand(open) == open
=============================================================================
