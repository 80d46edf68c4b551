---------------------------- MODULE AuthorityModel ----------------------------
(***************************************************************************)
(* The pure rules of src/networking/poc/hostAuthorityModel.ts and          *)
(* hostAuthorityHostMessage.ts: what the host's canonical state is, what a  *)
(* mutation writes, what a synchronisation carries, and how a guest's       *)
(* replica takes it in.                                                     *)
(*                                                                         *)
(* A guest is identified with its credential and with the member it        *)
(* becomes: authenticateMember makes one member per credential and never a  *)
(* second. A label is the member's place in the list. A text is a number.   *)
(***************************************************************************)
EXTENDS Integers, Sequences, FiniteSets, SequencesExt, Filter

CONSTANTS
    Guest,          \* credentials
    MaxGuests,      \* MAX_GUESTS, 7 in the code
    HistoryLimit,   \* POC_HISTORY_LIMIT, 24 in the code
    ForceSnapshot   \* FORCE_SNAPSHOT_SEQUENCE: above every sequence

Host == "host"

ASSUME AuthorityAssumption ==
    /\ IsFiniteSet(Guest)
    /\ Host \notin Guest
    /\ MaxGuests \in Nat \ {0}
    /\ HistoryLimit \in Nat \ {0}
    /\ ForceSnapshot \in Nat \ {0}

EventType == {"admitted", "removed", "locked", "unlocked", "chat"}

InitialState ==
    [seq |-> 0, locked |-> FALSE, members |-> << >>, removed |-> {},
     last |-> [g \in Guest |-> 0], events |-> << >>]

Members(s) == Range(s.members)

(***************************************************************************)
(* Mutations: the event a mutation appends, and the state it leaves.        *)
(***************************************************************************)
Event(s, type, who, client, text) ==
    [seq |-> s.seq + 1, type |-> type, who |-> who, client |-> client, text |-> text]

Window(events) ==
    SubSeq(events, IF Len(events) > HistoryLimit THEN Len(events) - HistoryLimit + 1 ELSE 1,
           Len(events))

AppendEvent(s, e) == [s EXCEPT !.seq = e.seq, !.events = Window(Append(@, e))]

AuthVerdict(s, g) ==
    IF g \in Members(s)
    THEN IF g \in s.removed THEN "member-removed" ELSE "resumed"
    ELSE IF s.locked THEN "party-locked"
    ELSE IF Cardinality(Members(s) \ s.removed) >= MaxGuests THEN "party-full"
    ELSE "admitted"

ChatVerdictByOrder(s, g, client) ==                                \* mutant
    IF g \notin Members(s) THEN "unknown-member"
    ELSE IF g \in s.removed THEN "member-removed"
    ELSE IF client < s.last[g] THEN "duplicate-or-replay"
    ELSE "accepted"

ChatVerdict(s, g, client) ==
    IF g \notin Members(s) THEN "unknown-member"
    ELSE IF g \in s.removed THEN "member-removed"
    ELSE IF client <= s.last[g] THEN "duplicate-or-replay"
    ELSE IF client # s.last[g] + 1 THEN "sequence-gap"
    ELSE "accepted"

\* The state after an event; the caller has checked that the event is due.
Applied(s, e) ==
    AppendEvent(
        CASE e.type = "admitted" -> [s EXCEPT !.members = Append(@, e.who)]
          [] e.type = "removed"  -> [s EXCEPT !.removed = @ \cup {e.who}]
          [] e.type = "locked"   -> [s EXCEPT !.locked = TRUE]
          [] e.type = "unlocked" -> [s EXCEPT !.locked = FALSE]
          [] e.type = "chat" /\ e.who # Host -> [s EXCEPT !.last[e.who] = e.client]
          [] OTHER -> s,
        e)

(***************************************************************************)
(* isHostAuthorityState: what restore() accepts from the store.             *)
(***************************************************************************)
Restorable(s) ==
    /\ Len(s.events) <= HistoryLimit
    /\ IF s.events = << >>
       THEN s.seq = 0
       ELSE /\ \A i \in 2 .. Len(s.events) : s.events[i].seq = s.events[i - 1].seq + 1
            /\ s.events[Len(s.events)].seq = s.seq

(***************************************************************************)
(* Synchronisation.                                                        *)
(***************************************************************************)
Chats(events) == Only(events, {e \in Range(events) : e.type = "chat"})

RetainedFrom(s) == IF s.events = << >> THEN s.seq + 1 ELSE s.events[1].seq

SnapshotFor(s) ==
    [seq |-> s.seq, locked |-> s.locked, members |-> s.members, removed |-> s.removed,
     messages |-> Chats(s.events)]

NoSnapshot == [seq |-> 0, locked |-> FALSE, members |-> << >>, removed |-> {}, messages |-> << >>]

CanDelta(s, cursor) == cursor <= s.seq /\ cursor >= RetainedFrom(s) - 1

SyncResponse(s, g, cursor) ==
    IF CanDelta(s, cursor)
    THEN [mode |-> "delta", seq |-> s.seq, accepted |-> s.last[g],
          events |-> Only(s.events, {e \in Range(s.events) : e.seq > cursor}), snapshot |-> NoSnapshot]
    ELSE [mode |-> "snapshot", seq |-> s.seq, accepted |-> s.last[g],
          events |-> << >>, snapshot |-> SnapshotFor(s)]

(***************************************************************************)
(* A guest's replica. Gone stands for the exception applyEvent and          *)
(* applySyncToGuestReplica throw.                                           *)
(***************************************************************************)
EmptyReplica == NoSnapshot
Gone == [EmptyReplica EXCEPT !.seq = -1]

WithoutMember(members, g) == Only(members, Guest \ {g})

ApplyEvent(r, e) ==
    IF r = Gone \/ e.seq <= r.seq THEN r
    ELSE IF e.seq # r.seq + 1 THEN Gone
    ELSE [(CASE e.type = "admitted" -> [r EXCEPT !.members = Append(WithoutMember(@, e.who), e.who),
                                                 !.removed = @ \ {e.who}]
             [] e.type = "removed"  -> [r EXCEPT !.removed = @ \cup ({e.who} \cap Range(r.members))]
             [] e.type = "locked"   -> [r EXCEPT !.locked = TRUE]
             [] e.type = "unlocked" -> [r EXCEPT !.locked = FALSE]
             [] OTHER               -> [r EXCEPT !.messages = Window(Append(@, e))])
          EXCEPT !.seq = e.seq]

ApplySyncLoosely(r, sync) ==                                        \* mutant
    IF sync.mode = "snapshot" THEN sync.snapshot
    ELSE FoldLeft(LAMBDA q, e : [ApplyEvent([q EXCEPT !.seq = e.seq - 1], e) EXCEPT !.seq = e.seq],
                  r, sync.events)

Replayed(r, events) ==
    LET upTo[n \in 0 .. Len(events)] ==
            IF n = 0 THEN r ELSE ApplyEvent(upTo[n - 1], events[n])
    IN  upTo[Len(events)]

ApplySync(r, sync) ==
    IF sync.mode = "snapshot" THEN sync.snapshot
    ELSE LET next == Replayed(r, sync.events)
         IN IF next.seq = sync.seq THEN next ELSE Gone

===============================================================================
