---------------------------- MODULE MC_ServiceTree ----------------------------
(* Small instances of ServiceTree for TLC.                                 *)
EXTENDS ServiceTree, TLC

AllSpaces == {{"user"}, {"pid"}, {"user", "pid"}}
PIDSpaces == {{"pid"}}

ServiceSymmetry == Permutations(Services)
===============================================================================
