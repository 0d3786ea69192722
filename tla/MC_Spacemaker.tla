---------------------------- MODULE MC_Spacemaker ----------------------------
(* Small instances of Spacemaker for TLC.                                  *)
EXTENDS Spacemaker

RoomsOf(S) == [kind |-> "rooms", spaces |-> S]
SubspaceOf(S) == [kind |-> "subspace", spaces |-> S]

\* Both kinds of subspaces alone and together, rooms one of which is of a type
\* that unshare does not enter, and two requests that are refused.
FullMenu == {SubspaceOf({"user", "pid"}), SubspaceOf({"user"}), SubspaceOf({"pid"}),
             RoomsOf({"mnt", "time"}), RoomsOf({"net", "user"}), SubspaceOf({})}

SmallSubspace == {SubspaceOf({"user"})}
=============================================================================
