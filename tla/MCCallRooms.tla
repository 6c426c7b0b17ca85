---------------------------- MODULE MCCallRooms ----------------------------
(***************************************************************************)
(* Instances of CallRooms for TLC.                                         *)
(***************************************************************************)
EXTENDS CallRooms, TLC

\* Devices, rooms and goroutines are only compared for equality.
Symmetry == Permutations(Devices) \cup Permutations(Rooms) \cup Permutations(Workers)
=============================================================================
