---------------------------- MODULE MC_SpacerRPC ----------------------------
(* Small instances of SpacerRPC for TLC.                                   *)
EXTENDS SpacerRPC

RoomsOf(S) == [kind |-> "rooms", spaces |-> S]
SubspaceOf(S) == [kind |-> "subspace", spaces |-> S]

\* As many rooms as fit in one answer, a single other one, the largest
\* subspace, and a request that is refused.
SmallMenu == {RoomsOf({"cgroup", "mnt", "net", "uts"}), RoomsOf({"ipc"}),
              SubspaceOf({"user", "pid"}), RoomsOf({})}

\* All namespaces Rooms can create.
WideMenu == {RoomsOf(RoomFields)}
=============================================================================
