----------------------------- MODULE MCRoomPeers -----------------------------
(***************************************************************************)
(* Instances of RoomPeers for TLC: which control calls the host's user may *)
(* make in a run.                                                          *)
(***************************************************************************)
EXTENDS RoomPeers, TLC

Generations == 1 .. MaxGeneration

NoControls == {}
Removals == [op : {"remove"}, secret : {TRUE}, member : Member]
Locking == [op : {"lock"}, secret : {TRUE}, locked : {TRUE}]
LockAndUnlock == [op : {"lock"}, secret : {TRUE}, locked : BOOLEAN]
LockAndRemove == Removals \cup Locking

=============================================================================
