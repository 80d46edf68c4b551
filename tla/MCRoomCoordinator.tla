-------------------------- MODULE MCRoomCoordinator --------------------------
(***************************************************************************)
(* Instances of RoomCoordinator for TLC.  The sets of calls name which part *)
(* of RoomService a run exercises.                                         *)
(***************************************************************************)
EXTENDS RoomCoordinator, TLC

\* Joins racing with the host's controls.
SeatCalls ==
       [op : {"join"}, secret : {TRUE}]
  \cup [op : {"lock"}, secret : {TRUE}, locked : BOOLEAN]
  \cup [op : {"remove"}, secret : {TRUE}, member : Member]

CONSTANTS
  Guest,  \* the member the calls of OneGuestCalls are about
  First   \* the generation its signals carry; it may announce others

\* Every operation of RoomService around one guest's seat, and one wrong secret.
OneGuestCalls ==
       {c \in Call : c.secret /\ ("member" \in DOMAIN c => c.member = Guest)
                              /\ ("locked" \in DOMAIN c => c.locked)
                              /\ (c.op \in SignalOps => c.generation = First)}
  \cup [op : {"join"}, secret : {FALSE}]

Symmetry == Permutations(Request) \cup Permutations(Member)

=============================================================================
