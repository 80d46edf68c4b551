------------------------------ MODULE RoomRules ------------------------------
(***************************************************************************)
(* The rules of a chat room as RoomService states them: what a stored room *)
(* holds, which calls exist, when a call is refused and what an accepted   *)
(* call writes.  Everything here is a function of one copy of the room, so *)
(* the same rules serve the atomic specification (AtomicRoom) and the      *)
(* optimistic one that runs on a shared store (RoomCoordinator).           *)
(*                                                                         *)
(* A secret is abstracted to whether its hash matches the stored one, a    *)
(* member record to one entry in each of the per-member functions.         *)
(***************************************************************************)
EXTENDS Integers, FiniteSets

CONSTANTS
  Member,          \* the member identifiers newToken(16) can draw
  Generation,      \* the connection generations guests announce
  MaxRoomMembers,  \* host included
  RoomTTL,         \* ROOM_TTL_MS: idle time after which a room is gone
  PresenceTimeout, \* PRESENCE_TIMEOUT_MS
  NoRoom,          \* the store has no record under the room's key
  NoMember,
  NoGeneration

ASSUME LimitsAssumption ==
  /\ MaxRoomMembers \in Nat \ {0}
  /\ RoomTTL \in Nat \ {0}
  /\ PresenceTimeout \in Nat

Room ==
  [locked          : BOOLEAN,
   joined          : SUBSET Member,
   removed         : SUBSET Member,
   label           : [Member -> Nat],
   lastSeenAt      : [Member -> Nat],
   generation      : [Member -> Generation \cup {NoGeneration}],
   nextGuestNumber : Nat,
   revision        : Nat,
   lastActivityAt  : Nat]

ASSUME SentinelAssumption ==
  /\ NoRoom \notin Room
  /\ NoMember \notin Member
  /\ NoGeneration \notin Generation

\* The record createRoom writes.
NewRoom(at) ==
  [locked          |-> FALSE,
   joined          |-> {},
   removed         |-> {},
   label           |-> [m \in Member |-> 0],
   lastSeenAt      |-> [m \in Member |-> 0],
   generation      |-> [m \in Member |-> NoGeneration],
   nextGuestNumber |-> 1,
   revision        |-> 1,
   lastActivityAt  |-> at]

Active(room) == room.joined \ room.removed

-----------------------------------------------------------------------------
(***************************************************************************)
(* Calls.  "secret" says whether the secret presented is the right one.    *)
(***************************************************************************)
HostOps    == {"hostState", "lock", "remove", "publishOffer", "readAnswer"}
GuestOps   == {"resume", "guestState", "announce", "publishAnswer", "readOffer"}
PublishOps == {"publishOffer", "publishAnswer"}
ReadOps    == {"readOffer", "readAnswer"}
SignalOps  == PublishOps \cup ReadOps

Call ==
       [op : {"join", "hostState"}, secret : BOOLEAN]
  \cup [op : {"lock"}, secret : BOOLEAN, locked : BOOLEAN]
  \cup [op : {"resume", "guestState", "remove"}, secret : BOOLEAN, member : Member]
  \cup [op : {"announce"} \cup SignalOps, secret : BOOLEAN,
        member : Member, generation : Generation]

\* The key a signal is stored under; offers and answers never share one.
SignalKey == [member : Member, generation : Generation, kind : {"offer", "answer"}]

KeyOf(c) ==
  [member     |-> c.member,
   generation |-> c.generation,
   kind       |-> IF c.op \in {"publishOffer", "readOffer"} THEN "offer" ELSE "answer"]

-----------------------------------------------------------------------------
(***************************************************************************)
(* Refusals, in the order the code tests them.                             *)
(***************************************************************************)
Gone(room, at) ==
  \/ room = NoRoom
  \/ at - room.lastActivityAt >= RoomTTL

\* hashesEqual on the secret and, for a guest, the member lookup before it.
Authentic(c, room) == c.secret /\ (c.op \in GuestOps => c.member \in room.joined)

\* requireGuest: the secret is tested first, the removal second.
\* Mutant: the resume path of join forgets the second test.
ExpelledUnlessResuming(c, room) ==
  c.op \in GuestOps \ {"resume"} /\ c.member \in room.removed
Expelled(c, room) == c.op \in GuestOps /\ c.member \in room.removed

\* Mutant: the host's own seat is forgotten.
FullTooLate(room) == Cardinality(Active(room)) >= MaxRoomMembers
Full(room) == Cardinality(Active(room)) >= MaxRoomMembers - 1

\* Mutant: any generation will do.
CurrentMember(c, room) == c.member \in Active(room)
\* assertCurrentSignal, and the same test in readSignal.
Current(c, room) ==
  c.member \in Active(room) /\ room.generation[c.member] = c.generation

Verdict(c, room, at) ==
  IF Gone(room, at) THEN "room_not_found"
  ELSE IF ~Authentic(c, room) THEN "invalid_credentials"
  ELSE IF Expelled(c, room) THEN "member_removed"
  ELSE IF c.op = "join" /\ room.locked THEN "room_locked"
  ELSE IF c.op = "join" /\ Full(room) THEN "room_full"
  ELSE IF c.op = "remove" /\ c.member \notin room.joined THEN "member_not_found"
  ELSE IF c.op \in SignalOps /\ ~Current(c, room) THEN "stale_generation"
  ELSE "ok"

Refusals ==
  {"room_not_found", "invalid_credentials", "member_removed", "room_locked",
   "room_full", "member_not_found", "stale_generation"}

-----------------------------------------------------------------------------
(***************************************************************************)
(* What an accepted mutating call writes; m is the identifier a join draws.*)
(***************************************************************************)
\* Mutant: a label is the number of guests seated.
LabelByCount(room) == Cardinality(Active(room)) + 1
NextLabel(room) == room.nextGuestNumber

Mutated(c, room, at, m) ==
  CASE c.op = "join" ->
         [room EXCEPT !.joined = @ \cup {m},
                      !.label = [@ EXCEPT ![m] = NextLabel(room)],
                      !.lastSeenAt = [@ EXCEPT ![m] = at],
                      !.nextGuestNumber = @ + 1]
    [] c.op \in {"resume", "guestState"} ->
         [room EXCEPT !.lastSeenAt = [@ EXCEPT ![c.member] = at]]
    [] c.op = "announce" ->
         [room EXCEPT !.generation = [@ EXCEPT ![c.member] = c.generation],
                      !.lastSeenAt = [@ EXCEPT ![c.member] = at]]
    [] c.op = "lock" ->
         [room EXCEPT !.locked = c.locked]
    [] c.op = "remove" ->
         [room EXCEPT !.removed = @ \cup {c.member},
                      !.generation = [@ EXCEPT ![c.member] = NoGeneration],
                      !.lastSeenAt = [@ EXCEPT ![c.member] = 0]]
    [] OTHER -> room

\* Mutant: the revision is not advanced.
EffectKeepsRevision(c, room, at, m) ==
  [Mutated(c, room, at, m) EXCEPT !.lastActivityAt = at]
\* The record mutateRoom hands to saveRoom.
Effect(c, room, at, m) ==
  [Mutated(c, room, at, m) EXCEPT !.revision = @ + 1, !.lastActivityAt = at]

\* The members toState shows as present (memberView).
Present(room, at) ==
  {m \in Active(room) : at - room.lastSeenAt[m] <= PresenceTimeout}

=============================================================================
