--------------------------- MODULE RoomCoordinator ---------------------------
(***************************************************************************)
(* RoomService over a shared RoomStore.  Each request runs in a serverless *)
(* instance of its own; the store is the only state they share.            *)
(*                                                                         *)
(* A mutating call loads the room, applies the rules to its own copy and   *)
(* saves the copy with a compare-and-set on the revision, at most          *)
(* MaxAttempts times.  A signal call loads the room, checks it and then    *)
(* stores or reads the signal, which is a second, separate store command.  *)
(* Between any two commands every other request may run.  A command may    *)
(* fail before or after the store has executed it.                         *)
(*                                                                         *)
(* GET, the clock() calls and the rules that follow are one step: nothing  *)
(* another request does is visible between them.                           *)
(***************************************************************************)
EXTENDS RoomRules

CONSTANTS
  Request,       \* the HTTP calls clients make; each is made at most once
  Calls,         \* the calls considered, a subset of Call
  MaxAttempts,   \* MAX_MUTATION_ATTEMPTS
  MaxClock,      \* bound on the clock
  NoCall

ASSUME CoordinatorAssumption ==
  /\ Calls \subseteq Call
  /\ MaxAttempts \in Nat \ {0}
  /\ MaxClock \in Nat
  /\ NoCall \notin Call

VARIABLES
  created,   \* createRoom's SET NX has succeeded
  store,     \* the record under the room's key
  signals,   \* the signal keys that hold a record
  clock,     \* the instances' clock
  pc,        \* "idle", "load", "save", "put", "get" or "done"
  call,      \* what the request asks for
  base,      \* the copy of the room the request has loaded
  now,       \* the time read after loading it
  seat,      \* the member identifier a join has drawn
  attempt,   \* completed attempts of mutateRoom
  reply,     \* the answer its caller gets
  seenFirst, \* auxiliary: the revision its first attempt loaded
  outBefore  \* auxiliary: members already removed when the call was made

local == <<call, base, now, seat, attempt>>
vars  == <<created, store, signals, clock, pc, local, reply, seenFirst, outBefore>>

Reply ==
  [status   : {"none", "ok", "no_signal", "conflict", "unavailable"} \cup Refusals,
   revision : Nat,
   seat     : Member \cup {NoMember},
   present  : SUBSET Member]

Bare(s) == [status |-> s, revision |-> 0, seat |-> NoMember, present |-> {}]

Init ==
  /\ created = FALSE
  /\ store = NoRoom
  /\ signals = {}
  /\ clock = 0
  /\ pc = [r \in Request |-> "idle"]
  /\ call = [r \in Request |-> NoCall]
  /\ base = [r \in Request |-> NoRoom]
  /\ now = [r \in Request |-> 0]
  /\ seat = [r \in Request |-> NoMember]
  /\ attempt = [r \in Request |-> 0]
  /\ reply = [r \in Request |-> Bare("none")]
  /\ seenFirst = [r \in Request |-> 0]
  /\ outBefore = [r \in Request |-> {}]

GoTo(r, where) == pc' = [pc EXCEPT ![r] = where]

\* Mutant: the copy outlives the request.
AnswerKeepingCopy(r, a) ==
  /\ GoTo(r, "done")
  /\ reply' = [reply EXCEPT ![r] = a]
  /\ UNCHANGED <<local, seenFirst, outBefore>>
\* The request ends; its instance forgets the copy it worked on.
Answer(r, a) ==
  /\ GoTo(r, "done")
  /\ reply' = [reply EXCEPT ![r] = a]
  /\ base' = [base EXCEPT ![r] = NoRoom]
  /\ now' = [now EXCEPT ![r] = 0]
  /\ UNCHANGED <<call, seat, attempt, seenFirst, outBefore>>

-----------------------------------------------------------------------------
(***************************************************************************)
(* Clients.                                                                *)
(***************************************************************************)

\* Members whose credentials a client holds: those a join has answered with.
Issued == {reply[r].seat : r \in Request} \ {NoMember}

Create ==
  /\ ~created
  /\ created' = TRUE
  /\ store' = NewRoom(clock)
  /\ UNCHANGED <<signals, clock, pc, local, reply, seenFirst, outBefore>>

\* A client makes a call.  A guest names itself by credentials it was given.
Invoke(r, c) ==
  /\ created
  /\ pc[r] = "idle"
  /\ c.op \in GuestOps => c.member \in Issued
  /\ call' = [call EXCEPT ![r] = c]
  /\ GoTo(r, "load")
  /\ outBefore' = [outBefore EXCEPT ![r] = IF store = NoRoom THEN {} ELSE store.removed]
  /\ UNCHANGED <<created, store, signals, clock, base, now, seat, attempt,
                 reply, seenFirst>>

-----------------------------------------------------------------------------
(***************************************************************************)
(* RoomService.                                                            *)
(***************************************************************************)

\* loadActiveRoom or the rule of the call throws: the copy is dropped.
LoadAndRefuse(r) ==
  /\ pc[r] = "load"
  /\ Verdict(call[r], store, clock) # "ok"
  /\ Answer(r, Bare(Verdict(call[r], store, clock)))
  /\ UNCHANGED <<created, store, signals, clock>>

\* What newToken(16) can return: 128 random bits never repeat.
Undrawn == Member \ ({seat[q] : q \in Request} \cup (IF store = NoRoom THEN {} ELSE store.joined))

\* One attempt of mutateRoom, up to its saveRoom.
LoadAndMutate(r) ==
  /\ pc[r] = "load"
  /\ call[r].op \notin SignalOps
  /\ Verdict(call[r], store, clock) = "ok"
  /\ base' = [base EXCEPT ![r] = store]
  /\ now' = [now EXCEPT ![r] = clock]
  /\ \E m \in Member \cup {NoMember} :
       /\ IF call[r].op = "join" THEN m \in Undrawn ELSE m = NoMember
       /\ seat' = [seat EXCEPT ![r] = m]
  /\ seenFirst' = [seenFirst EXCEPT ![r] = IF attempt[r] = 0 THEN store.revision ELSE @]
  /\ GoTo(r, "save")
  /\ UNCHANGED <<created, store, signals, clock, call, attempt, reply, outBefore>>

\* Mutant: the script only tests that the key exists.
CasOnKeyOnly(r) == store # NoRoom
\* The test CAS_SCRIPT makes inside the store.
CasMatches(r) == store # NoRoom /\ store.revision = base[r].revision

Draft(r) == Effect(call[r], base[r], now[r], seat[r])

\* What the call was applied to and what it gave.  The code tells a join its
\* seat and the state calls the rest; revision is the one read, not the one saved
\* (toState runs before mutateRoom advances it).
Accepted(r) ==
  [status   |-> "ok",
   revision |-> base[r].revision,
   seat     |-> seat[r],
   present  |-> Present(Draft(r), now[r])]

\* Mutant: a lost answer counts as a failed compare-and-set.
SaveRetryingLostAnswer(r) ==
  /\ pc[r] = "save"
  /\ CasMatches(r)
  /\ store' = Draft(r)
  /\ \/ Answer(r, Accepted(r))
     \/ /\ GoTo(r, "load")
        /\ base' = [base EXCEPT ![r] = NoRoom]
        /\ UNCHANGED <<call, now, seat, attempt, reply, seenFirst, outBefore>>
  /\ UNCHANGED <<created, signals, clock>>
\* saveRoom returns true, or it saved the room and its answer got lost.
Save(r) ==
  /\ pc[r] = "save"
  /\ CasMatches(r)
  /\ store' = Draft(r)
  /\ \/ Answer(r, Accepted(r))
     \/ Answer(r, Bare("unavailable"))
  /\ UNCHANGED <<created, signals, clock>>

\* Mutant: the same copy is saved again and again.
RetryWithoutReload(r) ==
  /\ pc[r] = "save"
  /\ ~CasMatches(r)
  /\ attempt[r] + 1 < MaxAttempts
  /\ UNCHANGED vars
\* saveRoom returns false and there are attempts left.
Retry(r) ==
  /\ pc[r] = "save"
  /\ ~CasMatches(r)
  /\ attempt[r] + 1 < MaxAttempts
  /\ attempt' = [attempt EXCEPT ![r] = @ + 1]
  /\ base' = [base EXCEPT ![r] = NoRoom]
  /\ now' = [now EXCEPT ![r] = 0]
  /\ seat' = [seat EXCEPT ![r] = NoMember]
  /\ GoTo(r, "load")
  /\ UNCHANGED <<created, store, signals, clock, call, reply, seenFirst, outBefore>>

\* Mutant: the last attempt is never made.
GiveUpEarly(r) ==
  /\ pc[r] = "save"
  /\ ~CasMatches(r)
  /\ attempt[r] + 2 >= MaxAttempts
  /\ Answer(r, Bare("conflict"))
  /\ UNCHANGED <<created, store, signals, clock>>
\* saveRoom returns false for the last time.
GiveUp(r) ==
  /\ pc[r] = "save"
  /\ ~CasMatches(r)
  /\ attempt[r] + 1 >= MaxAttempts
  /\ Answer(r, Bare("conflict"))
  /\ UNCHANGED <<created, store, signals, clock>>

\* publishOffer, publishAnswer and readSignal, up to their second command.
LoadForSignal(r) ==
  /\ pc[r] = "load"
  /\ call[r].op \in SignalOps
  /\ Verdict(call[r], store, clock) = "ok"
  /\ GoTo(r, IF call[r].op \in PublishOps THEN "put" ELSE "get")
  /\ UNCHANGED <<created, store, signals, clock, local, reply, seenFirst, outBefore>>

PutSignal(r) ==
  /\ pc[r] = "put"
  /\ signals' = signals \cup {KeyOf(call[r])}
  /\ \E s \in {"ok", "unavailable"} : Answer(r, Bare(s))
  /\ UNCHANGED <<created, store, clock>>

GetSignal(r) ==
  /\ pc[r] = "get"
  /\ Answer(r, Bare(IF KeyOf(call[r]) \in signals THEN "ok" ELSE "no_signal"))
  /\ UNCHANGED <<created, store, signals, clock>>

\* CoordinatorUnavailableError from a command the store did not execute.
StoreFails(r) ==
  /\ pc[r] \in {"load", "save", "put", "get"}
  /\ Answer(r, Bare("unavailable"))
  /\ UNCHANGED <<created, store, signals, clock>>

-----------------------------------------------------------------------------
(***************************************************************************)
(* Redis and time.  SET ... EX ROOM_TTL_SECONDS is issued after "now" was  *)
(* read, so the key outlives the idle time loadActiveRoom tests.  A signal *)
(* may expire at any moment: SIGNAL_TTL_SECONDS is short and a publish may *)
(* be arbitrarily late.                                                    *)
(***************************************************************************)
Expire ==
  /\ store # NoRoom
  /\ clock - store.lastActivityAt >= RoomTTL
  /\ store' = NoRoom
  /\ UNCHANGED <<created, signals, clock, pc, local, reply, seenFirst, outBefore>>

ExpireSignal ==
  /\ \E k \in signals : signals' = signals \ {k}
  /\ UNCHANGED <<created, store, clock, pc, local, reply, seenFirst, outBefore>>

Tick ==
  /\ clock < MaxClock
  /\ clock' = clock + 1
  /\ UNCHANGED <<created, store, signals, pc, local, reply, seenFirst, outBefore>>

-----------------------------------------------------------------------------
Serve(r) ==
  \/ LoadAndRefuse(r) \/ LoadAndMutate(r) \/ Save(r) \/ Retry(r) \/ GiveUp(r)
  \/ LoadForSignal(r) \/ PutSignal(r) \/ GetSignal(r)

Next ==
  \/ Create
  \/ \E r \in Request, c \in Calls : Invoke(r, c)
  \/ \E r \in Request : Serve(r) \/ StoreFails(r)
  \/ Expire \/ ExpireSignal \/ Tick

Spec == Init /\ [][Next]_vars

\* Every store command settles: the instance goes on with its result, unless the
\* command throws (StoreFails), which nothing obliges it to do.
FairSpec == Spec /\ \A r \in Request : WF_vars(Serve(r))

-----------------------------------------------------------------------------
(***************************************************************************)
(* Properties.                                                             *)
(***************************************************************************)

\* Every variable stays within its type; a request that waits for saveRoom
\* holds a copy of the room, any other request holds none.
TypeOK ==
  /\ created \in BOOLEAN
  /\ store \in Room \cup {NoRoom}
  /\ signals \subseteq SignalKey
  /\ clock \in Nat
  /\ pc \in [Request -> {"idle", "load", "save", "put", "get", "done"}]
  /\ call \in [Request -> Call \cup {NoCall}]
  /\ base \in [Request -> Room \cup {NoRoom}]
  /\ now \in [Request -> Nat]
  /\ seat \in [Request -> Member \cup {NoMember}]
  /\ attempt \in [Request -> Nat]
  /\ reply \in [Request -> Reply]
  /\ seenFirst \in [Request -> Nat]
  /\ outBefore \in [Request -> SUBSET Member]
  /\ \A r \in Request : pc[r] = "save" <=> base[r] # NoRoom

\* Concurrent joins never overfill the room, although each of them counts the
\* seats on a copy of its own (join, the room_full test).
SeatsWithinLimit ==
  store # NoRoom => Cardinality(Active(store)) <= MaxRoomMembers - 1

\* Concurrent joins never hand out one "Guest n" label twice (join,
\* nextGuestNumber).
LabelsDistinct ==
  store # NoRoom =>
    \A m, n \in store.joined : store.label[m] = store.label[n] => m = n

\* A join takes at most one seat however often it is retried, and a seat whose
\* caller was not told of it belongs to a join answered "unavailable": the
\* seats no client can resume are exactly as many as such joins.
OneSeatPerJoin ==
  store # NoRoom =>
    \A m \in store.joined :
      \E r \in Request :
        /\ call[r] # NoCall /\ call[r].op = "join"
        /\ pc[r] = "done" /\ seat[r] = m
        /\ reply[r].status \in {"ok", "unavailable"}
        /\ reply[r].status = "ok" => reply[r].seat = m
        /\ \A q \in Request \ {r} : pc[q] = "done" => seat[q] # m

Served(r) == reply[r].status \in {"ok", "no_signal"}

\* Once a member is removed, no call made later with its credentials is served,
\* be it a room or a signal call, and no state answered later shows it present.
RemovedStaysOut ==
  \A r \in Request :
    /\ Served(r) /\ call[r].op \in GuestOps => call[r].member \notin outBefore[r]
    /\ reply[r].present \cap outBefore[r] = {}

\* No update is lost: two accepted mutating calls never report one revision.
RevisionsDistinct ==
  \A q, r \in Request :
    /\ q # r
    /\ reply[q].status = "ok" /\ call[q].op \notin SignalOps
    /\ reply[r].status = "ok" /\ call[r].op \notin SignalOps
    => reply[q].revision # reply[r].revision

\* "conflict" is only ever answered under contention: while the call ran, at
\* least MaxAttempts other calls were committed, or the room has expired.
ConflictMeansContention ==
  \A r \in Request :
    reply[r].status = "conflict" /\ store # NoRoom =>
      store.revision >= seenFirst[r] + MaxAttempts

\* A signal is stored only under a generation that its guest has announced
\* (assertCurrentSignal), even though the check and the write are two commands.
SignalsWereAnnounced ==
  \A k \in signals :
    \E r \in Request :
      /\ call[r] # NoCall /\ call[r].op = "announce"
      /\ call[r].member = k.member /\ call[r].generation = k.generation
      /\ reply[r].status \in {"ok", "unavailable"}

\* No step seats a guest in a room that is locked at that step, although join
\* tests the lock on a copy (join, the room_locked test).
NoSeatWhileLocked ==
  [][store # NoRoom /\ store' # NoRoom /\ store'.joined # store.joined
       => ~store.locked]_store

\* Every interleaving of loads, compare-and-sets and failures looks to the
\* callers as if each call took effect at one instant, or not at all.
Phase(r) ==
  IF pc[r] \in {"load", "save"} THEN "pending"
  ELSE IF pc[r] \in {"put", "get"} THEN "admitted"
  ELSE pc[r]

Atomic == INSTANCE AtomicRoom WITH status <- [r \in Request |-> Phase(r)]

ImplementsAtomicRoom == Atomic!Spec

\* Every call is answered: contention ends after MaxAttempts attempts.
EveryCallAnswered ==
  \A r \in Request : pc[r] = "load" ~> pc[r] = "done"

=============================================================================
