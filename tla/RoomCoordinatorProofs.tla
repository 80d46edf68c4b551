------------------------ MODULE RoomCoordinatorProofs ------------------------
(***************************************************************************)
(* Proofs about RoomCoordinator for any number of requests, members,       *)
(* seats and attempts.                                                     *)
(***************************************************************************)
EXTENDS RoomCoordinator, FiniteSetTheorems, TLAPS

-----------------------------------------------------------------------------
(***************************************************************************)
(* The rules.                                                              *)
(***************************************************************************)

\* What the fields of a call are, by its operation.
LEMMA CallFields ==
  ASSUME NEW c \in Call
  PROVE  /\ c.op \in {"join"} \cup HostOps \cup GuestOps
         /\ c.op \in GuestOps \cup SignalOps \cup {"remove"} => c.member \in Member
         /\ c.op \in SignalOps \cup {"announce"} => c.generation \in Generation
         /\ c.op = "lock" => c.locked \in BOOLEAN
BY DEF Call, HostOps, GuestOps, SignalOps, PublishOps, ReadOps

\* A call is accepted or refused for one of the listed reasons.
LEMMA VerdictType ==
  ASSUME NEW c, NEW room, NEW t
  PROVE  Verdict(c, room, t) \in Refusals \cup {"ok"}
BY DEF Verdict, Refusals

\* A fresh room is a room.
LEMMA NewRoomType == \A t \in Nat : NewRoom(t) \in Room
BY DEF NewRoom, Room

\* An accepted call turns a room into a room (the mutate callbacks).
LEMMA MutatedType ==
  ASSUME NEW c \in Call, NEW room \in Room, NEW t \in Nat, NEW m,
         c.op = "join" => m \in Member
  PROVE  Mutated(c, room, t, m) \in Room
<1>1. CASE c.op = "join"
  <2> DEFINE label == [room.label EXCEPT ![m] = room.nextGuestNumber]
             seen  == [room.lastSeenAt EXCEPT ![m] = t]
             after == room.nextGuestNumber + 1
  <2>1. Mutated(c, room, t, m) =
          [room EXCEPT !.joined = @ \cup {m}, !.label = label,
                       !.lastSeenAt = seen, !.nextGuestNumber = after]
    BY <1>1 DEF Mutated, NextLabel
  <2>2. m \in Member
    BY <1>1
  <2>3. after \in Nat
    BY DEF Room
  <2>4. label \in [Member -> Nat]
    BY <2>2 DEF Room
  <2>5. seen \in [Member -> Nat]
    BY <2>2 DEF Room
  <2>6. room.joined \cup {m} \in SUBSET Member
    BY <2>2 DEF Room
  <2> HIDE DEF label, seen, after
  <2>7. QED
    BY <2>1, <2>3, <2>4, <2>5, <2>6 DEF Room
<1>2. CASE c.op \in {"resume", "guestState"}
  BY <1>2, CallFields DEF Mutated, Room, GuestOps
<1>3. CASE c.op = "announce"
  BY <1>3, CallFields DEF Mutated, Room, GuestOps
<1>4. CASE c.op = "lock"
  BY <1>4, CallFields DEF Mutated, Room
<1>5. CASE c.op = "remove"
  BY <1>5, CallFields DEF Mutated, Room
<1>6. CASE c.op \notin {"join", "resume", "guestState", "announce", "lock", "remove"}
  BY <1>6 DEF Mutated
<1>7. QED
  BY <1>1, <1>2, <1>3, <1>4, <1>5, <1>6

\* What mutateRoom saves is a room too.
LEMMA EffectType ==
  ASSUME NEW c \in Call, NEW room \in Room, NEW t \in Nat, NEW m,
         c.op = "join" => m \in Member
  PROVE  Effect(c, room, t, m) \in Room
<1> DEFINE next == Mutated(c, room, t, m)
           rev  == next.revision + 1
<1>1. Effect(c, room, t, m) = [next EXCEPT !.revision = rev, !.lastActivityAt = t]
  BY DEF Effect
<1>2. next \in Room
  BY MutatedType
<1> HIDE DEF next
<1>3. rev \in Nat
  BY <1>2 DEF Room
<1> HIDE DEF rev
<1>4. QED
  BY <1>1, <1>2, <1>3 DEF Room

-----------------------------------------------------------------------------
(***************************************************************************)
(* Type correctness.                                                       *)
(***************************************************************************)

\* What a request in progress may rely on about its own local state.
CallsOK ==
  \A r \in Request :
    /\ pc[r] # "idle" => call[r] \in Call
    /\ pc[r] = "save" /\ call[r].op = "join" => seat[r] \in Member
    /\ pc[r] = "put" => call[r].op \in PublishOps
    /\ pc[r] = "get" => call[r].op \in ReadOps

\* A request that waits for saveRoom drafts a proper room.
LEMMA DraftType ==
  ASSUME TypeOK, CallsOK, NEW r \in Request, pc[r] = "save"
  PROVE  Draft(r) \in Room
<1>1. call[r] \in Call /\ base[r] \in Room /\ now[r] \in Nat
  BY DEF TypeOK, CallsOK
<1>2. call[r].op = "join" => seat[r] \in Member
  BY DEF CallsOK
<1>3. QED
  BY <1>1, <1>2, EffectType DEF Draft

\* Bare answers and the answers of accepted calls are replies.
LEMMA BareType ==
  \A s \in {"none", "ok", "no_signal", "conflict", "unavailable"} \cup Refusals :
    Bare(s) \in Reply
BY DEF Bare, Reply

LEMMA AcceptedType ==
  ASSUME TypeOK, CallsOK, NEW r \in Request, pc[r] = "save"
  PROVE  Accepted(r) \in Reply
<1>1. Draft(r) \in Room /\ base[r] \in Room
  BY DraftType DEF TypeOK
<1>2. Present(Draft(r), now[r]) \subseteq Member /\ base[r].revision \in Nat
  BY <1>1 DEF Room, Present, Active
<1>3. seat[r] \in Member \cup {NoMember}
  BY DEF TypeOK
<1>4. QED
  BY <1>2, <1>3 DEF Accepted, Reply

\* Ending a request with a reply keeps every local variable within its type.
LEMMA AnswerType ==
  ASSUME TypeOK, CallsOK, NEW r \in Request, NEW a \in Reply, call[r] \in Call,
         Answer(r, a)
  PROVE  /\ pc' \in [Request -> {"idle", "load", "save", "put", "get", "done"}]
         /\ call' \in [Request -> Call \cup {NoCall}]
         /\ base' \in [Request -> Room \cup {NoRoom}]
         /\ now' \in [Request -> Nat]
         /\ seat' \in [Request -> Member \cup {NoMember}]
         /\ attempt' \in [Request -> Nat]
         /\ reply' \in [Request -> Reply]
         /\ seenFirst' \in [Request -> Nat]
         /\ outBefore' \in [Request -> SUBSET Member]
         /\ \A q \in Request : pc'[q] = "save" <=> base'[q] # NoRoom
         /\ CallsOK'
BY DEF Answer, GoTo, TypeOK, CallsOK

\* Every step keeps the types and the local facts.
LEMMA TypeStep == TypeOK /\ CallsOK /\ [Next]_vars => TypeOK' /\ CallsOK'
<1> SUFFICES ASSUME TypeOK, CallsOK, [Next]_vars
             PROVE  TypeOK' /\ CallsOK'
  OBVIOUS
<1>1. CASE Create
  BY <1>1, NewRoomType DEF Create, TypeOK, CallsOK, local
<1>2. ASSUME NEW r \in Request, NEW c \in Calls, Invoke(r, c)
      PROVE  TypeOK' /\ CallsOK'
  <2>1. c \in Call
    BY CoordinatorAssumption
  <2>2. (IF store = NoRoom THEN {} ELSE store.removed) \in SUBSET Member
    BY DEF TypeOK, Room
  <2>3. QED
    BY <1>2, <2>1, <2>2 DEF Invoke, GoTo, TypeOK, CallsOK
<1>3. ASSUME NEW r \in Request, LoadAndRefuse(r)
      PROVE  TypeOK' /\ CallsOK'
  <2>1. Bare(Verdict(call[r], store, clock)) \in Reply
    BY VerdictType, BareType
  <2>2. call[r] \in Call
    BY <1>3 DEF LoadAndRefuse, CallsOK
  <2>3. QED
    BY <1>3, <2>1, <2>2, AnswerType DEF LoadAndRefuse, TypeOK
<1>4. ASSUME NEW r \in Request, LoadAndMutate(r)
      PROVE  TypeOK' /\ CallsOK'
  <2>1. store \in Room /\ store # NoRoom
    BY <1>4 DEF LoadAndMutate, Verdict, Gone, TypeOK
  <2>2. store.revision \in Nat
    BY <2>1 DEF Room
  <2>3. QED
    BY <1>4, <2>1, <2>2 DEF LoadAndMutate, GoTo, TypeOK, CallsOK, Undrawn
<1>5. ASSUME NEW r \in Request, Save(r)
      PROVE  TypeOK' /\ CallsOK'
  <2>1. pc[r] = "save" /\ call[r] \in Call
    BY <1>5 DEF Save, CallsOK
  <2>2. Draft(r) \in Room /\ Accepted(r) \in Reply /\ Bare("unavailable") \in Reply
    BY <2>1, DraftType, AcceptedType, BareType
  <2>3. \E a \in Reply : Answer(r, a)
    BY <1>5, <2>2 DEF Save
  <2>4. QED
    BY <1>5, <2>1, <2>2, <2>3, AnswerType DEF Save, TypeOK
<1>6. ASSUME NEW r \in Request, Retry(r)
      PROVE  TypeOK' /\ CallsOK'
  BY <1>6 DEF Retry, GoTo, TypeOK, CallsOK
<1>7. ASSUME NEW r \in Request, GiveUp(r) \/ StoreFails(r)
      PROVE  TypeOK' /\ CallsOK'
  <2>1. call[r] \in Call
    BY <1>7 DEF GiveUp, StoreFails, CallsOK
  <2>2. \E a \in Reply : Answer(r, a)
    BY <1>7, BareType DEF GiveUp, StoreFails
  <2>3. QED
    BY <1>7, <2>1, <2>2, AnswerType DEF GiveUp, StoreFails, TypeOK
<1>8. ASSUME NEW r \in Request, LoadForSignal(r)
      PROVE  TypeOK' /\ CallsOK'
  BY <1>8 DEF LoadForSignal, GoTo, TypeOK, CallsOK, local, SignalOps
<1>9. ASSUME NEW r \in Request, PutSignal(r)
      PROVE  TypeOK' /\ CallsOK'
  <2>1. call[r] \in Call /\ call[r].op \in SignalOps
    BY <1>9 DEF PutSignal, CallsOK, SignalOps
  <2>2. KeyOf(call[r]) \in SignalKey
    BY <2>1, CallFields DEF KeyOf, SignalKey
  <2>3. \E a \in Reply : Answer(r, a)
    BY <1>9, BareType DEF PutSignal
  <2>4. QED
    BY <1>9, <2>1, <2>2, <2>3, AnswerType DEF PutSignal, TypeOK
<1>10. ASSUME NEW r \in Request, GetSignal(r)
       PROVE  TypeOK' /\ CallsOK'
  <2>1. call[r] \in Call
    BY <1>10 DEF GetSignal, CallsOK
  <2>2. \E a \in Reply : Answer(r, a)
    BY <1>10, BareType DEF GetSignal
  <2>3. QED
    BY <1>10, <2>1, <2>2, AnswerType DEF GetSignal, TypeOK
<1>11. CASE Expire \/ ExpireSignal \/ Tick
  BY <1>11 DEF Expire, ExpireSignal, Tick, TypeOK, CallsOK, local
<1>12. CASE UNCHANGED vars
  BY <1>12 DEF vars, local, TypeOK, CallsOK
<1>13. QED
  BY <1>1, <1>2, <1>3, <1>4, <1>5, <1>6, <1>7, <1>8, <1>9, <1>10, <1>11, <1>12
     DEF Next, Serve

\* The initial state is well typed.
LEMMA InitTypes == Init => TypeOK /\ CallsOK
<1>1. Bare("none") \in Reply
  BY BareType
<1> DEFINE nothing == Bare("none")
<1> HIDE DEF nothing
<1>2. Init => reply = [r \in Request |-> nothing]
  BY DEF Init, nothing
<1>3. Init => reply \in [Request -> Reply]
  BY <1>1, <1>2 DEF nothing
<1>4. Init => CallsOK
  BY DEF Init, CallsOK
<1>5. ASSUME Init
      PROVE  TypeOK
  <2>1. created \in BOOLEAN /\ store \in Room \cup {NoRoom} /\ signals \subseteq SignalKey
    BY <1>5 DEF Init
  <2>2. clock \in Nat /\ now \in [Request -> Nat] /\ attempt \in [Request -> Nat]
        /\ seenFirst \in [Request -> Nat] /\ outBefore \in [Request -> SUBSET Member]
    BY <1>5 DEF Init
  <2>3. /\ pc \in [Request -> {"idle", "load", "save", "put", "get", "done"}]
        /\ call \in [Request -> Call \cup {NoCall}]
        /\ base \in [Request -> Room \cup {NoRoom}]
        /\ seat \in [Request -> Member \cup {NoMember}]
        /\ \A r \in Request : pc[r] = "save" <=> base[r] # NoRoom
    BY <1>5 DEF Init
  <2>4. QED
    BY <1>3, <1>5, <2>1, <2>2, <2>3 DEF TypeOK
<1>6. QED
  BY <1>4, <1>5

\* Every variable of the coordinator keeps its type, and a request holds a copy
\* of the room exactly while it waits for saveRoom.
THEOREM TypeCorrect == Spec => []TypeOK
BY InitTypes, TypeStep, PTL DEF Spec

-----------------------------------------------------------------------------
(***************************************************************************)
(* The room a compare-and-set leaves behind.                               *)
(***************************************************************************)

\* What a room satisfies after any sequence of calls.
RoomSound(room) ==
  /\ IsFiniteSet(room.joined)
  /\ room.removed \subseteq room.joined
  /\ Cardinality(Active(room)) <= MaxRoomMembers - 1
  /\ \A m \in room.joined : room.label[m] < room.nextGuestNumber
  /\ \A m, n \in room.joined : room.label[m] = room.label[n] => m = n

\* What the tests passed by an accepted call say of the copy it read.
LEMMA Accepts ==
  ASSUME NEW c, NEW room, NEW t, Verdict(c, room, t) = "ok"
  PROVE  /\ ~Gone(room, t)
         /\ Authentic(c, room)
         /\ ~Expelled(c, room)
         /\ c.op = "join" => ~room.locked /\ ~Full(room)
         /\ c.op = "remove" => c.member \in room.joined
BY DEF Verdict

\* The fields of the room that a mutating call changes, one call at a time.
LEMMA EffectFields ==
  ASSUME NEW c \in Call, NEW room \in Room, NEW t \in Nat, NEW m,
         c.op = "join" => m \in Member
  PROVE  LET next == Effect(c, room, t, m) IN
         /\ next.revision = room.revision + 1
         /\ next.lastActivityAt = t
         /\ c.op = "join" =>
              /\ next.joined = room.joined \cup {m}
              /\ \A n \in Member : next.label[n] =
                   IF n = m THEN room.nextGuestNumber ELSE room.label[n]
              /\ next.nextGuestNumber = room.nextGuestNumber + 1
         /\ c.op # "join" =>
              /\ next.joined = room.joined
              /\ next.label = room.label
              /\ next.nextGuestNumber = room.nextGuestNumber
         /\ c.op = "remove" => next.removed = room.removed \cup {c.member}
         /\ c.op # "remove" => next.removed = room.removed
<1> DEFINE next == Mutated(c, room, t, m)
           rev  == next.revision + 1
<1>1. Effect(c, room, t, m) = [next EXCEPT !.revision = rev, !.lastActivityAt = t]
  BY DEF Effect
<1>2. /\ next.revision = room.revision
      /\ c.op = "join" =>
           /\ next.joined = room.joined \cup {m}
           /\ \A n \in Member : next.label[n] =
                   IF n = m THEN room.nextGuestNumber ELSE room.label[n]
           /\ next.nextGuestNumber = room.nextGuestNumber + 1
      /\ c.op # "join" =>
           /\ next.joined = room.joined
           /\ next.label = room.label
           /\ next.nextGuestNumber = room.nextGuestNumber
      /\ c.op = "remove" => next.removed = room.removed \cup {c.member}
      /\ c.op # "remove" => next.removed = room.removed
  <2>1. CASE c.op = "join"
    BY <2>1 DEF Mutated, NextLabel, Room
  <2>2. CASE c.op \in {"resume", "guestState"}
    BY <2>2 DEF Mutated, Room
  <2>3. CASE c.op = "announce"
    BY <2>3 DEF Mutated, Room
  <2>4. CASE c.op = "lock"
    BY <2>4 DEF Mutated, Room
  <2>5. CASE c.op = "remove"
    BY <2>5 DEF Mutated, Room
  <2>6. CASE c.op \notin {"join", "resume", "guestState", "announce", "lock", "remove"}
    BY <2>6 DEF Mutated
  <2>7. QED
    BY <2>1, <2>2, <2>3, <2>4, <2>5, <2>6
<1>3. next \in Room
  BY MutatedType
<1> HIDE DEF next
<1>4. QED
  BY <1>1, <1>2, <1>3 DEF Room

\* A new room is sound, and an accepted call keeps a sound room sound: the seat
\* count, the label counter and the removals are respected.
LEMMA NewRoomSound == \A t \in Nat : RoomSound(NewRoom(t))
<1>1. IsFiniteSet({}) /\ Cardinality({}) = 0
  BY FS_EmptySet
<1>2. \A t \in Nat : Active(NewRoom(t)) = {}
  BY DEF Active, NewRoom
<1>3. QED
  BY <1>1, <1>2, LimitsAssumption DEF RoomSound, NewRoom

LEMMA EffectSound ==
  ASSUME NEW c \in Call, NEW room \in Room, NEW t \in Nat, NEW m,
         c.op = "join" => m \in Member \ room.joined,
         RoomSound(room),
         Verdict(c, room, t) = "ok"
  PROVE  RoomSound(Effect(c, room, t, m))
<1> DEFINE next == Effect(c, room, t, m)
<1> SUFFICES RoomSound(next)
  OBVIOUS
<1>1. c.op = "join" => m \in Member
  OBVIOUS
<1>2. /\ c.op = "join" =>
           /\ next.joined = room.joined \cup {m}
           /\ \A n \in Member : next.label[n] =
                   IF n = m THEN room.nextGuestNumber ELSE room.label[n]
           /\ next.nextGuestNumber = room.nextGuestNumber + 1
      /\ c.op # "join" =>
           /\ next.joined = room.joined
           /\ next.label = room.label
           /\ next.nextGuestNumber = room.nextGuestNumber
      /\ c.op = "remove" => next.removed = room.removed \cup {c.member}
      /\ c.op # "remove" => next.removed = room.removed
  BY <1>1, EffectFields
<1>3. /\ c.op = "join" => ~Full(room)
      /\ c.op = "remove" => c.member \in room.joined
  BY Accepts
<1>4. IsFiniteSet(Active(room)) /\ Cardinality(Active(room)) \in Nat
  BY FS_Subset, FS_CardinalityType DEF Active, RoomSound
<1> HIDE DEF next
<1>5. CASE c.op = "join"
  <2>1. m \in Member \ room.joined /\ m \notin room.removed
    BY <1>5 DEF RoomSound
  <2>2. Active(next) = Active(room) \cup {m}
    BY <1>2, <1>5, <2>1 DEF Active
  <2>3. Cardinality(Active(next)) = Cardinality(Active(room)) + 1
    BY <1>4, <2>1, <2>2, FS_AddElement DEF Active
  <2>4. Cardinality(Active(next)) <= MaxRoomMembers - 1
    BY <1>3, <1>4, <1>5, <2>3, LimitsAssumption DEF Full
  <2>5. IsFiniteSet(next.joined)
    BY <1>2, <1>5, FS_AddElement DEF RoomSound
  <2>6. next.removed \subseteq next.joined
    BY <1>2, <1>5 DEF RoomSound
  <2>7. room.label \in [Member -> Nat] /\ room.nextGuestNumber \in Nat
        /\ room.joined \subseteq Member
    BY DEF Room
  <2>8. \A n \in room.joined : next.label[n] = room.label[n]
    BY <1>2, <1>5, <2>1, <2>7
  <2>9. next.label[m] = room.nextGuestNumber
    BY <1>2, <1>5, <2>1
  <2>10. \A n \in next.joined : next.label[n] < next.nextGuestNumber
    BY <1>2, <1>5, <2>7, <2>8, <2>9 DEF RoomSound
  <2>11. \A n, k \in next.joined : next.label[n] = next.label[k] => n = k
    <3>1. \A n \in room.joined : room.label[n] \in Nat /\ room.label[n] < room.nextGuestNumber
      BY <2>7 DEF RoomSound
    <3>2. QED
      BY <1>2, <1>5, <2>7, <2>8, <2>9, <3>1 DEF RoomSound
  <2>12. QED
    BY <2>4, <2>5, <2>6, <2>10, <2>11 DEF RoomSound
<1>6. CASE c.op # "join"
  <2>1. Active(next) \subseteq Active(room)
    BY <1>2, <1>6 DEF Active
  <2>2. Cardinality(Active(next)) <= Cardinality(Active(room))
    BY <1>4, <2>1, FS_Subset
  <2>3. Cardinality(Active(next)) \in Nat
    BY <1>4, <2>1, FS_Subset, FS_CardinalityType
  <2>4. Cardinality(Active(next)) <= MaxRoomMembers - 1
    BY <1>4, <2>2, <2>3, LimitsAssumption DEF RoomSound
  <2>5. next.removed \subseteq next.joined
    BY <1>2, <1>3, <1>6 DEF RoomSound
  <2>6. QED
    BY <1>2, <1>6, <2>4, <2>5 DEF RoomSound
<1>7. QED
  BY <1>5, <1>6

-----------------------------------------------------------------------------
(***************************************************************************)
(* The inductive invariant.  What makes optimistic concurrency sound is    *)
(* that a revision names one content of the room: a copy whose revision is *)
(* still the stored one IS the stored room, so the tests its call passed   *)
(* on the copy hold of the stored room at the moment of the write.         *)
(***************************************************************************)

\* What holds of the copy a request is about to save.
CopyOK(r) ==
  /\ call[r].op \notin SignalOps
  /\ Verdict(call[r], base[r], now[r]) = "ok"
  /\ IF call[r].op = "join" THEN seat[r] \in Member \ base[r].joined
                            ELSE seat[r] = NoMember
  /\ base[r].lastActivityAt <= now[r] /\ now[r] <= clock
  /\ seenFirst[r] + attempt[r] <= base[r].revision
  /\ store # NoRoom =>
       /\ base[r].revision <= store.revision
       /\ base[r].revision = store.revision => base[r] = store

\* How far the store has moved on while a request retried or gave up.
ContentionOK(r) ==
  /\ pc[r] = "idle" => attempt[r] = 0
  /\ pc[r] \in {"load", "save"} => attempt[r] < MaxAttempts
  /\ pc[r] # "done" => reply[r].status = "none"
  /\ pc[r] = "load" /\ attempt[r] > 0 /\ store # NoRoom =>
       seenFirst[r] + attempt[r] <= store.revision
  /\ reply[r].status = "conflict" /\ store # NoRoom =>
       seenFirst[r] + MaxAttempts <= store.revision

StoreOK == store # NoRoom => RoomSound(store) /\ store.lastActivityAt <= clock

IInv ==
  /\ ~created => store = NoRoom /\ \A r \in Request : pc[r] = "idle"
  /\ StoreOK
  /\ \A r \in Request : pc[r] = "save" => CopyOK(r)
  /\ \A r \in Request : ContentionOK(r)

\* A compare-and-set that matches writes the effect of the call on the stored
\* room: the copy is the room.
LEMMA CasIsFresh ==
  ASSUME IInv, NEW r \in Request, pc[r] = "save", CasMatches(r)
  PROVE  base[r] = store /\ Draft(r) = Effect(call[r], store, now[r], seat[r])
BY DEF IInv, CopyOK, CasMatches, Draft

\* A step that ends request r and leaves the shared state alone keeps IInv, if r
\* gives up only after its last attempt.
LEMMA AnswerKeepsInv ==
  ASSUME TypeOK, CallsOK, IInv, NEW r \in Request, NEW a,
         Answer(r, a), pc[r] # "idle",
         UNCHANGED <<created, store, clock>>,
         a.status = "conflict" /\ store # NoRoom =>
           seenFirst[r] + MaxAttempts <= store.revision
  PROVE  IInv'
<1>1. created
  BY DEF IInv
<1>2. ASSUME NEW q \in Request, pc'[q] = "save"
      PROVE  CopyOK(q)'
  <2>1. q # r /\ pc[q] = "save"
    BY <1>2 DEF Answer, GoTo, TypeOK
  <2>2. CopyOK(q)
    BY <2>1 DEF IInv
  <2>3. QED
    BY <2>1, <2>2 DEF Answer, TypeOK, CopyOK
<1>3. ASSUME NEW q \in Request
      PROVE  ContentionOK(q)'
  <2>1. ContentionOK(q)
    BY DEF IInv
  <2>2. CASE q = r
    <3>1. pc'[q] = "done" /\ reply'[q] = a /\ UNCHANGED <<seenFirst, attempt, store>>
      BY <2>2 DEF Answer, GoTo, TypeOK
    <3>2. QED
      BY <2>2, <3>1 DEF ContentionOK
  <2>3. CASE q # r
    <3>1. pc'[q] = pc[q] /\ reply'[q] = reply[q] /\ UNCHANGED <<seenFirst, attempt, store>>
      BY <2>3 DEF Answer, GoTo, TypeOK
    <3>2. QED
      BY <2>1, <3>1 DEF ContentionOK
  <2>4. QED
    BY <2>2, <2>3
<1>4. QED
  BY <1>1, <1>2, <1>3 DEF IInv, StoreOK

\* A step that changes only the local state of request r keeps IInv, if it keeps
\* the two facts about r.
LEMMA LocalStepKeepsInv ==
  ASSUME TypeOK, CallsOK, IInv, NEW r \in Request, created,
         UNCHANGED <<created, store, clock>>,
         \A q \in Request \ {r} :
           /\ pc'[q] = pc[q] /\ call'[q] = call[q] /\ base'[q] = base[q]
           /\ now'[q] = now[q] /\ seat'[q] = seat[q] /\ attempt'[q] = attempt[q]
           /\ reply'[q] = reply[q] /\ seenFirst'[q] = seenFirst[q],
         pc'[r] = "save" => CopyOK(r)',
         ContentionOK(r)'
  PROVE  IInv'
<1>1. ASSUME NEW q \in Request \ {r}, pc'[q] = "save"
      PROVE  CopyOK(q)'
  <2>1. CopyOK(q)
    BY <1>1 DEF IInv
  <2>2. QED
    BY <2>1 DEF CopyOK
<1>2. ASSUME NEW q \in Request \ {r}
      PROVE  ContentionOK(q)'
  <2>1. ContentionOK(q)
    BY DEF IInv
  <2>2. QED
    BY <2>1 DEF ContentionOK
<1>3. QED
  BY <1>1, <1>2 DEF IInv, StoreOK

\* The write: the stored room stays sound, every other copy falls behind.
LEMMA SaveKeepsInv ==
  ASSUME TypeOK, CallsOK, IInv, NEW r \in Request, Save(r)
  PROVE  IInv'
<1>1. /\ pc[r] = "save" /\ CasMatches(r) /\ store' = Draft(r)
      /\ UNCHANGED <<created, clock>>
      /\ created
      /\ call[r] \in Call /\ base[r] \in Room /\ now[r] \in Nat
  BY DEF Save, IInv, TypeOK, CallsOK
<1>2. CopyOK(r) /\ store # NoRoom /\ store \in Room
  BY <1>1 DEF IInv, CasMatches, TypeOK
<1>3. base[r] = store /\ store' = Effect(call[r], store, now[r], seat[r])
  BY <1>1, CasIsFresh
<1>4. call[r].op = "join" => seat[r] \in Member \ store.joined
  BY <1>2, <1>3 DEF CopyOK
<1>5. store' \in Room /\ store' # NoRoom
  BY <1>1, DraftType, SentinelAssumption
<1>6. /\ store'.revision = store.revision + 1
      /\ store'.lastActivityAt = now[r]
      /\ store.revision \in Nat
  <2>1. call[r].op = "join" => seat[r] \in Member
    BY <1>4
  <2>2. QED
    BY <1>1, <1>2, <1>3, <2>1, EffectFields DEF Room
<1>7. StoreOK'
  <2>1. Verdict(call[r], store, now[r]) = "ok" /\ now[r] <= clock
    BY <1>2, <1>3 DEF CopyOK
  <2>2. RoomSound(store)
    BY <1>2 DEF IInv, StoreOK
  <2>3. RoomSound(store')
    BY <1>1, <1>2, <1>3, <1>4, <2>1, <2>2, EffectSound
  <2>4. QED
    BY <1>1, <1>6, <2>1, <2>3 DEF StoreOK
<1>8. \E a : Answer(r, a) /\ a.status \in {"ok", "unavailable"}
  BY DEF Save, Accepted, Bare
<1>9. ASSUME NEW q \in Request, pc'[q] = "save"
      PROVE  CopyOK(q)'
  <2>1. q # r /\ pc[q] = "save"
    BY <1>8, <1>9 DEF Answer, GoTo, TypeOK
  <2>2. CopyOK(q) /\ base[q] \in Room /\ base[q].revision \in Nat
    BY <2>1 DEF IInv, TypeOK, Room
  <2>3. base[q].revision < store'.revision
    BY <1>2, <1>6, <2>2 DEF CopyOK
  <2>4. UNCHANGED <<call, seat, attempt, seenFirst, clock>> /\ base'[q] = base[q] /\ now'[q] = now[q]
    BY <1>1, <1>8, <2>1 DEF Answer, TypeOK
  <2>5. QED
    BY <1>5, <1>6, <2>2, <2>3, <2>4 DEF CopyOK
<1>10. ASSUME NEW q \in Request
       PROVE  ContentionOK(q)'
  <2>1. ContentionOK(q) /\ attempt[q] \in Nat /\ seenFirst[q] \in Nat /\ MaxAttempts \in Nat
    BY CoordinatorAssumption DEF IInv, TypeOK
  <2>2. UNCHANGED <<attempt, seenFirst>>
    BY <1>8 DEF Answer
  <2>3. CASE q = r
    <3>1. pc'[q] = "done" /\ reply'[q].status # "conflict"
      BY <1>8, <2>3 DEF Answer, GoTo, TypeOK
    <3>2. QED
      BY <3>1 DEF ContentionOK
  <2>4. CASE q # r
    <3>1. pc'[q] = pc[q] /\ reply'[q] = reply[q]
      BY <1>8, <2>4 DEF Answer, GoTo, TypeOK
    <3>2. QED
      BY <1>2, <1>6, <2>1, <2>2, <3>1 DEF ContentionOK
  <2>5. QED
    BY <2>3, <2>4
<1>11. QED
  BY <1>1, <1>7, <1>9, <1>10 DEF IInv

\* Every step keeps the invariant.
LEMMA InvStep == TypeOK /\ CallsOK /\ IInv /\ [Next]_vars => IInv'
<1> SUFFICES ASSUME TypeOK, CallsOK, IInv, [Next]_vars
             PROVE  IInv'
  OBVIOUS
<1> USE CoordinatorAssumption
<1>1. CASE Create
  <2>1. store' = NewRoom(clock) /\ clock \in Nat /\ RoomSound(store')
        /\ store'.lastActivityAt = clock
    BY <1>1, NewRoomSound DEF Create, TypeOK, NewRoom
  <2>2. \A r \in Request : pc[r] = "idle" /\ reply[r].status = "none"
    BY <1>1 DEF Create, IInv, ContentionOK
  <2>3. \A r \in Request : ContentionOK(r)'
    BY <1>1, <2>2 DEF Create, local, IInv, ContentionOK
  <2>4. QED
    BY <1>1, <2>1, <2>2, <2>3 DEF Create, IInv, StoreOK
<1>2. ASSUME NEW r \in Request, NEW c \in Calls, Invoke(r, c)
      PROVE  IInv'
  <2>1. pc'[r] = "load" /\ created /\ UNCHANGED <<created, store, clock>>
    BY <1>2 DEF Invoke, GoTo, TypeOK
  <2>2. ContentionOK(r)'
    BY <1>2, <2>1 DEF Invoke, IInv, ContentionOK
  <2>3. \A q \in Request \ {r} :
          /\ pc'[q] = pc[q] /\ call'[q] = call[q] /\ base'[q] = base[q]
          /\ now'[q] = now[q] /\ seat'[q] = seat[q] /\ attempt'[q] = attempt[q]
          /\ reply'[q] = reply[q] /\ seenFirst'[q] = seenFirst[q]
    BY <1>2 DEF Invoke, GoTo, TypeOK
  <2>4. QED
    BY <2>1, <2>2, <2>3, LocalStepKeepsInv
<1>3. ASSUME NEW r \in Request, LoadAndRefuse(r)
      PROVE  IInv'
  <2>1. Verdict(call[r], store, clock) # "conflict"
    BY VerdictType DEF Refusals
  <2>2. QED
    BY <1>3, <2>1, AnswerKeepsInv DEF LoadAndRefuse, Bare
<1>4. ASSUME NEW r \in Request, LoadAndMutate(r)
      PROVE  IInv'
  <2>1. /\ created /\ UNCHANGED <<created, store, clock>>
        /\ pc[r] = "load" /\ pc'[r] = "save"
        /\ base'[r] = store /\ now'[r] = clock /\ call'[r] = call[r]
        /\ attempt'[r] = attempt[r] /\ reply'[r] = reply[r]
        /\ seenFirst'[r] = IF attempt[r] = 0 THEN store.revision ELSE seenFirst[r]
    BY <1>4 DEF LoadAndMutate, GoTo, TypeOK, IInv
  <2>2. store \in Room /\ store # NoRoom /\ store.revision \in Nat
    BY <1>4 DEF LoadAndMutate, Verdict, Gone, TypeOK, Room
  <2>3. IF call[r].op = "join" THEN seat'[r] \in Member \ store.joined
                               ELSE seat'[r] = NoMember
    BY <1>4, <2>2 DEF LoadAndMutate, Undrawn, TypeOK
  <2>4. ContentionOK(r) /\ attempt[r] \in Nat /\ seenFirst[r] \in Nat
    BY DEF IInv, TypeOK
  <2>5. seenFirst'[r] + attempt'[r] <= store.revision
    BY <2>1, <2>2, <2>4 DEF ContentionOK
  <2>6. store.lastActivityAt <= clock /\ clock \in Nat
    BY <2>2 DEF IInv, StoreOK, TypeOK
  <2>7. CopyOK(r)'
    BY <1>4, <2>1, <2>2, <2>3, <2>5, <2>6 DEF LoadAndMutate, CopyOK
  <2>8. ContentionOK(r)'
    BY <2>1, <2>4 DEF ContentionOK
  <2>9. \A q \in Request \ {r} :
          /\ pc'[q] = pc[q] /\ call'[q] = call[q] /\ base'[q] = base[q]
          /\ now'[q] = now[q] /\ seat'[q] = seat[q] /\ attempt'[q] = attempt[q]
          /\ reply'[q] = reply[q] /\ seenFirst'[q] = seenFirst[q]
    BY <1>4 DEF LoadAndMutate, GoTo, TypeOK
  <2>10. QED
    BY <2>1, <2>7, <2>8, <2>9, LocalStepKeepsInv
<1>5. ASSUME NEW r \in Request, Save(r)
      PROVE  IInv'
  BY <1>5, SaveKeepsInv
<1>6. ASSUME NEW r \in Request, pc[r] = "save", ~CasMatches(r), store # NoRoom
      PROVE  seenFirst[r] + attempt[r] + 1 <= store.revision
  <2>1. CopyOK(r) /\ base[r] \in Room /\ store \in Room
    BY <1>6 DEF IInv, TypeOK
  <2>2. base[r].revision \in Nat /\ store.revision \in Nat
        /\ attempt[r] \in Nat /\ seenFirst[r] \in Nat
    BY <2>1 DEF Room, TypeOK
  <2>3. base[r].revision < store.revision
    BY <1>6, <2>1, <2>2 DEF CopyOK, CasMatches
  <2>4. QED
    BY <2>1, <2>2, <2>3 DEF CopyOK
<1>7. ASSUME NEW r \in Request, Retry(r)
      PROVE  IInv'
  <2>1. /\ created /\ UNCHANGED <<created, store, clock>>
        /\ pc'[r] = "load" /\ attempt'[r] = attempt[r] + 1
        /\ reply'[r] = reply[r] /\ seenFirst'[r] = seenFirst[r]
    BY <1>7 DEF Retry, GoTo, TypeOK, IInv
  <2>2. ContentionOK(r)'
    <3>1. ContentionOK(r) /\ attempt[r] \in Nat /\ seenFirst[r] \in Nat
      BY DEF IInv, TypeOK
    <3>2. store # NoRoom => seenFirst[r] + attempt[r] + 1 <= store.revision
      BY <1>6, <1>7 DEF Retry
    <3>3. reply[r].status = "none" /\ attempt[r] + 1 < MaxAttempts
      BY <1>7, <3>1 DEF Retry, ContentionOK
    <3>4. store # NoRoom => seenFirst'[r] + attempt'[r] <= store'.revision
      <4>1. (store \in Room /\ store.revision \in Nat) \/ store = NoRoom
        BY DEF TypeOK, Room
      <4>2. QED
        BY <2>1, <3>1, <3>2, <4>1
    <3>5. QED
      BY <2>1, <3>3, <3>4 DEF ContentionOK
  <2>3. \A q \in Request \ {r} :
          /\ pc'[q] = pc[q] /\ call'[q] = call[q] /\ base'[q] = base[q]
          /\ now'[q] = now[q] /\ seat'[q] = seat[q] /\ attempt'[q] = attempt[q]
          /\ reply'[q] = reply[q] /\ seenFirst'[q] = seenFirst[q]
    BY <1>7 DEF Retry, GoTo, TypeOK
  <2>4. QED
    BY <2>1, <2>2, <2>3, LocalStepKeepsInv
<1>8. ASSUME NEW r \in Request, GiveUp(r)
      PROVE  IInv'
  <2>1. store # NoRoom => seenFirst[r] + MaxAttempts <= store.revision
    <3>1. store # NoRoom => seenFirst[r] + attempt[r] + 1 <= store.revision
      BY <1>6, <1>8 DEF GiveUp
    <3>2. attempt[r] \in Nat /\ seenFirst[r] \in Nat /\ attempt[r] + 1 >= MaxAttempts
      BY <1>8 DEF GiveUp, TypeOK
    <3>3. store # NoRoom => store.revision \in Nat
      BY DEF TypeOK, Room
    <3>4. QED
      BY <3>1, <3>2, <3>3
  <2>2. QED
    BY <1>8, <2>1, AnswerKeepsInv DEF GiveUp, Bare
<1>9. ASSUME NEW r \in Request, LoadForSignal(r)
      PROVE  IInv'
  <2>1. /\ created /\ UNCHANGED <<created, store, clock>>
        /\ pc[r] = "load" /\ pc'[r] \in {"put", "get"}
        /\ UNCHANGED <<call, base, now, seat, attempt, reply, seenFirst>>
    BY <1>9 DEF LoadForSignal, GoTo, TypeOK, IInv, local
  <2>2. ContentionOK(r)'
    BY <2>1 DEF IInv, ContentionOK
  <2>3. \A q \in Request \ {r} : pc'[q] = pc[q]
    BY <1>9 DEF LoadForSignal, GoTo, TypeOK
  <2>4. QED
    BY <2>1, <2>2, <2>3, LocalStepKeepsInv
<1>10. ASSUME NEW r \in Request, PutSignal(r) \/ GetSignal(r) \/ StoreFails(r)
       PROVE  IInv'
  <2>1. \E a : Answer(r, a) /\ a.status # "conflict"
    BY <1>10 DEF PutSignal, GetSignal, StoreFails, Bare
  <2>2. pc[r] # "idle" /\ UNCHANGED <<created, store, clock>>
    BY <1>10 DEF PutSignal, GetSignal, StoreFails
  <2>3. QED
    BY <2>1, <2>2, AnswerKeepsInv
<1>11. CASE Expire \/ ExpireSignal \/ Tick \/ UNCHANGED vars
  <2>1. /\ UNCHANGED <<created, pc, call, base, now, seat, attempt, reply, seenFirst>>
        /\ store' = store \/ store' = NoRoom
        /\ clock \in Nat /\ clock' \in Nat /\ clock <= clock'
    BY <1>11 DEF Expire, ExpireSignal, Tick, vars, local, TypeOK
  <2>2. StoreOK'
    <3>1. store # NoRoom => store.lastActivityAt \in Nat
      BY DEF TypeOK, Room
    <3>2. QED
      BY <2>1, <3>1 DEF IInv, StoreOK
  <2>3. ASSUME NEW r \in Request, pc'[r] = "save"
        PROVE  CopyOK(r)'
    <3>1. CopyOK(r) /\ now[r] \in Nat
      BY <2>1, <2>3 DEF IInv, TypeOK
    <3>2. QED
      BY <2>1, <3>1 DEF CopyOK
  <2>4. \A r \in Request : ContentionOK(r)'
    BY <2>1 DEF IInv, ContentionOK
  <2>5. QED
    BY <2>1, <2>2, <2>3, <2>4 DEF IInv
<1>12. QED
  BY <1>1, <1>2, <1>3, <1>4, <1>5, <1>7, <1>8, <1>9, <1>10, <1>11 DEF Next, Serve

\* Init establishes it.
LEMMA InvInit == Init => IInv
BY CoordinatorAssumption DEF Init, IInv, StoreOK, ContentionOK, Bare

\* The invariant holds in every reachable state.
THEOREM Invariance == Spec => [](TypeOK /\ CallsOK /\ IInv)
<1>1. Init => TypeOK /\ CallsOK /\ IInv
  BY InitTypes, InvInit
<1>2. TypeOK /\ CallsOK /\ IInv /\ [Next]_vars => (TypeOK /\ CallsOK /\ IInv)'
  BY TypeStep, InvStep
<1>3. QED
  BY <1>1, <1>2, PTL DEF Spec

-----------------------------------------------------------------------------
(***************************************************************************)
(* What the invariant says to the users of the room.                       *)
(***************************************************************************)

\* No interleaving of joins fills more than the guest seats of the room.
THEOREM SeatsNeverOverfilled == Spec => []SeatsWithinLimit
<1>1. IInv => SeatsWithinLimit
  BY DEF IInv, StoreOK, RoomSound, SeatsWithinLimit
<1>2. QED
  BY <1>1, Invariance, PTL

\* No two members of a room are given the same label.
THEOREM LabelsNeverRepeat == Spec => []LabelsDistinct
<1>1. IInv => LabelsDistinct
  BY DEF IInv, StoreOK, RoomSound, LabelsDistinct
<1>2. QED
  BY <1>1, Invariance, PTL

\* A call that is told "conflict" has met MaxAttempts committed calls.
THEOREM ConflictNeedsContention == Spec => []ConflictMeansContention
<1>1. TypeOK /\ IInv => ConflictMeansContention
  <2> SUFFICES ASSUME TypeOK, IInv, NEW r \in Request,
                      reply[r].status = "conflict", store # NoRoom
               PROVE  store.revision >= seenFirst[r] + MaxAttempts
    BY DEF ConflictMeansContention
  <2>1. seenFirst[r] + MaxAttempts <= store.revision
    BY DEF IInv, ContentionOK
  <2>2. seenFirst[r] \in Nat /\ MaxAttempts \in Nat /\ store.revision \in Nat
    BY CoordinatorAssumption DEF TypeOK, Room
  <2>3. QED
    BY <2>1, <2>2
<1>2. QED
  BY <1>1, Invariance, PTL

\* The stored room changes hands only by creation, a compare-and-set or expiry.
LEMMA WhoWritesTheRoom ==
  ASSUME [Next]_vars, store' # store
  PROVE  Create \/ Expire \/ \E r \in Request : Save(r)
BY DEF Next, Serve, Invoke, LoadAndRefuse, LoadAndMutate, Retry, GiveUp,
       LoadForSignal, PutSignal, GetSignal, StoreFails, ExpireSignal, Tick, vars

\* A guest is seated only by a step that finds the stored room unlocked, although
\* the lock was tested on a copy.
THEOREM LockKeepsGuestsOut == Spec => NoSeatWhileLocked
<1> DEFINE Unlocked == store # NoRoom /\ store' # NoRoom /\ store'.joined # store.joined
                         => ~store.locked
<1>1. TypeOK /\ CallsOK /\ IInv /\ [Next]_vars => [Unlocked]_store
  <2> SUFFICES ASSUME TypeOK, CallsOK, IInv, [Next]_vars,
                      store # NoRoom, store' # NoRoom, store'.joined # store.joined
               PROVE  ~store.locked
    OBVIOUS
  <2>1. store' # store
    OBVIOUS
  <2>2. created
    BY DEF IInv
  <2>3. PICK r \in Request : Save(r)
    BY <2>1, <2>2, WhoWritesTheRoom DEF Create, Expire
  <2>4. /\ pc[r] = "save" /\ CasMatches(r) /\ call[r] \in Call
        /\ now[r] \in Nat /\ store \in Room
    BY <2>3 DEF Save, TypeOK, CallsOK
  <2>5. store' = Effect(call[r], store, now[r], seat[r]) /\ base[r] = store
    BY <2>3, <2>4, CasIsFresh DEF Save
  <2>6. CopyOK(r)
    BY <2>4 DEF IInv
  <2>7. call[r].op = "join"
    <3>1. call[r].op = "join" => seat[r] \in Member
      BY <2>6 DEF CopyOK
    <3>2. QED
      BY <2>4, <2>5, <3>1, EffectFields
  <2>8. QED
    BY <2>5, <2>6, <2>7, Accepts DEF CopyOK
<1>2. QED
  BY <1>1, Invariance, PTL DEF Spec, NoSeatWhileLocked

-----------------------------------------------------------------------------
(***************************************************************************)
(* RoomCoordinator implements AtomicRoom, for any number of requests,      *)
(* members and attempts: a call takes effect at the compare-and-set that   *)
(* matches, and every other step of it is a stutter, a refusal or a        *)
(* failure without effect.                                                 *)
(***************************************************************************)
\* The rules are the same on both sides of the mapping.
LEMMA SameCardinality == \A S : Atomic!Cardinality(S) = Cardinality(S)
BY DEF Atomic!Cardinality, Cardinality

LEMMA SameVerdict == \A c, room, t : Atomic!Verdict(c, room, t) = Verdict(c, room, t)
BY SameCardinality
   DEF Atomic!Verdict, Verdict, Atomic!Gone, Gone, Atomic!Authentic, Authentic,
       Atomic!Expelled, Expelled, Atomic!Full, Full, Atomic!Current, Current,
       Atomic!Active, Active, Atomic!GuestOps, GuestOps, Atomic!SignalOps,
       SignalOps, Atomic!PublishOps, PublishOps, Atomic!ReadOps, ReadOps

LEMMA SameEffect ==
  \A c, room, t, m : Atomic!Effect(c, room, t, m) = Effect(c, room, t, m)
BY DEF Atomic!Effect, Effect, Atomic!Mutated, Mutated, Atomic!NextLabel, NextLabel

LEMMA SamePresent == \A room, t : Atomic!Present(room, t) = Present(room, t)
BY DEF Atomic!Present, Present, Atomic!Active, Active

LEMMA SameRest ==
  /\ \A t : Atomic!NewRoom(t) = NewRoom(t)
  /\ \A c : Atomic!KeyOf(c) = KeyOf(c)
  /\ \A s : Atomic!Bare(s) = Bare(s)
  /\ Atomic!Call = Call
  /\ Atomic!SignalOps = SignalOps
  /\ Atomic!PublishOps = PublishOps
  /\ Atomic!ReadOps = ReadOps
BY DEF Atomic!NewRoom, NewRoom, Atomic!KeyOf, KeyOf, Atomic!Bare, Bare,
       Atomic!Call, Call, Atomic!SignalOps, SignalOps, Atomic!PublishOps,
       PublishOps, Atomic!ReadOps, ReadOps

-----------------------------------------------------------------------------
(***************************************************************************)
(* How the mapped status moves.                                            *)
(***************************************************************************)
Status == [r \in Request |-> Phase(r)]

\* A step that moves only request r moves only its status.
LEMMA StatusMoves ==
  ASSUME TypeOK, NEW r \in Request, NEW where, GoTo(r, where)
  PROVE  /\ Phase(r)' = IF where \in {"load", "save"} THEN "pending"
                        ELSE IF where \in {"put", "get"} THEN "admitted"
                        ELSE where
         /\ Status' = [Status EXCEPT ![r] = Phase(r)']
<1>1. pc'[r] = where
  BY DEF GoTo, TypeOK
<1>2. \A q \in Request \ {r} : pc'[q] = pc[q]
  BY DEF GoTo, TypeOK
<1>3. \A q \in Request \ {r} : Phase(q)' = Phase(q)
  BY <1>2 DEF Phase
<1>4. Status' = [Status EXCEPT ![r] = Phase(r)']
  BY <1>3 DEF Status
<1>5. QED
  BY <1>1, <1>4 DEF Phase

\* A step that leaves every request where it is leaves every status alone.
LEMMA StatusStays ==
  ASSUME UNCHANGED pc
  PROVE  Status' = Status
BY DEF Status, Phase

\* Answering a request answers the abstract call.
LEMMA AnswerMaps ==
  ASSUME TypeOK, NEW r \in Request, NEW a, Answer(r, a)
  PROVE  Atomic!Answer(r, a) /\ UNCHANGED call
<1>1. GoTo(r, "done")
  BY DEF Answer
<1>2. Phase(r)' = "done"
  BY <1>1, StatusMoves
<1>3. Status' = [Status EXCEPT ![r] = "done"]
  BY <1>1, <1>2, StatusMoves
<1>4. QED
  BY <1>3 DEF Atomic!Answer, Answer, Status

-----------------------------------------------------------------------------
(***************************************************************************)
(* Initial states and steps.                                               *)
(***************************************************************************)
LEMMA RefinementInit == Init => Atomic!Init
<1> SUFFICES ASSUME Init
             PROVE  Atomic!Init
  OBVIOUS
<1>1. \A r \in Request : Phase(r) = "idle"
  BY DEF Init, Phase
<1>2. [r \in Request |-> Phase(r)] = [r \in Request |-> "idle"]
  BY <1>1
<1>3. reply = [r \in Request |-> Atomic!Bare("none")]
  BY DEF Init, Atomic!Bare, Bare
<1>4. QED
  BY <1>2, <1>3 DEF Init, Atomic!Init

\* The write of a matching compare-and-set is the whole call at that instant.
LEMMA SaveCommits ==
  ASSUME TypeOK, CallsOK, IInv, NEW r \in Request, Save(r)
  PROVE  Atomic!Commit(r)
<1>1. /\ pc[r] = "save" /\ CasMatches(r) /\ store # NoRoom
      /\ store' = Effect(call[r], store, now[r], seat[r])
      /\ base[r] = store
  BY CasIsFresh DEF Save, CasMatches
<1>2. /\ call[r].op \notin SignalOps
      /\ Verdict(call[r], store, now[r]) = "ok"
      /\ IF call[r].op = "join" THEN seat[r] \in Member \ store.joined
                                ELSE seat[r] = NoMember
      /\ store.lastActivityAt <= now[r] /\ now[r] <= clock
  BY <1>1 DEF IInv, CopyOK
<1>3. now[r] \in store.lastActivityAt .. clock
  BY <1>1, <1>2 DEF TypeOK, Room
<1>4. seat[r] \in Member \cup {NoMember}
  BY DEF TypeOK
<1>5. Phase(r) = "pending"
  BY <1>1 DEF Phase
<1>6. \/ Answer(r, Accepted(r))
      \/ Answer(r, Bare("unavailable"))
  BY DEF Save
<1>7. Accepted(r) = [status |-> "ok", revision |-> store.revision, seat |-> seat[r],
                     present |-> Atomic!Present(store', now[r])]
  BY <1>1, SamePresent DEF Accepted, Save
<1>8. /\ \/ Atomic!Answer(r, [status |-> "ok", revision |-> store.revision,
                             seat |-> seat[r],
                             present |-> Atomic!Present(store', now[r])])
         \/ Atomic!Answer(r, Atomic!Bare("unavailable"))
      /\ UNCHANGED call
  BY <1>6, <1>7, AnswerMaps, SameRest
<1>9. UNCHANGED <<created, signals, clock>>
  BY DEF Save
<1>10. QED
  BY <1>1, <1>2, <1>3, <1>4, <1>5, <1>8, <1>9, SameVerdict, SameEffect, SameRest
     DEF Atomic!Commit

\* Every step of the coordinator is a step of the atomic room or a stutter.
LEMMA RefinementStep ==
  TypeOK /\ CallsOK /\ IInv /\ [Next]_vars => [Atomic!Next]_(Atomic!vars)
<1> SUFFICES ASSUME TypeOK, CallsOK, IInv, [Next]_vars
             PROVE  Atomic!Next \/ UNCHANGED Atomic!vars
  OBVIOUS
<1>1. CASE Create
  <2>1. Status' = Status
    BY <1>1, StatusStays DEF Create
  <2>2. Atomic!Create
    BY <1>1, <2>1, SameRest DEF Create, Atomic!Create, Status, local
  <2>3. QED
    BY <2>2 DEF Atomic!Next
<1>2. ASSUME NEW r \in Request, NEW c \in Calls, Invoke(r, c)
      PROVE  Atomic!Next
  <2>1. Phase(r) = "idle"
    BY <1>2 DEF Invoke, Phase
  <2>2. GoTo(r, "load")
    BY <1>2 DEF Invoke
  <2>3. Phase(r)' = "pending" /\ Status' = [Status EXCEPT ![r] = "pending"]
    BY <2>2, StatusMoves
  <2>4. c \in Atomic!Call
    BY CoordinatorAssumption, SameRest
  <2>5. Atomic!Invoke(r)
    BY <1>2, <2>1, <2>3, <2>4 DEF Invoke, Atomic!Invoke, Status
  <2>6. QED
    BY <2>5 DEF Atomic!Next
<1>3. ASSUME NEW r \in Request, LoadAndRefuse(r)
      PROVE  Atomic!Next
  <2>1. Phase(r) = "pending"
    BY <1>3 DEF LoadAndRefuse, Phase
  <2>2. Atomic!Answer(r, Bare(Verdict(call[r], store, clock))) /\ UNCHANGED call
    BY <1>3, AnswerMaps DEF LoadAndRefuse
  <2>3. Atomic!Refuse(r)
    BY <1>3, <2>1, <2>2, SameVerdict, SameRest DEF LoadAndRefuse, Atomic!Refuse
  <2>4. QED
    BY <2>3 DEF Atomic!Next
<1>4. ASSUME NEW r \in Request, LoadAndMutate(r) \/ Retry(r)
      PROVE  UNCHANGED Atomic!vars
  <2>1. \E where \in {"load", "save"} : GoTo(r, where)
    BY <1>4 DEF LoadAndMutate, Retry
  <2>2. Phase(r)' = "pending" /\ Phase(r) = "pending"
    BY <1>4, <2>1, StatusMoves DEF LoadAndMutate, Retry, Phase
  <2>3. Status' = [Status EXCEPT ![r] = "pending"]
    BY <2>1, <2>2, StatusMoves
  <2>4. Status' = Status
    BY <2>2, <2>3 DEF Status
  <2>5. QED
    BY <1>4, <2>4 DEF LoadAndMutate, Retry, Atomic!vars, Status
<1>5. ASSUME NEW r \in Request, Save(r)
      PROVE  Atomic!Next
  BY <1>5, SaveCommits DEF Atomic!Next
<1>6. ASSUME NEW r \in Request, GiveUp(r) \/ StoreFails(r)
      PROVE  Atomic!Next
  <2>1. Phase(r) \in {"pending", "admitted"}
    BY <1>6 DEF GiveUp, StoreFails, Phase
  <2>2. \E s \in {"conflict", "unavailable"} : Atomic!Answer(r, Atomic!Bare(s))
    BY <1>6, AnswerMaps, SameRest DEF GiveUp, StoreFails
  <2>3. UNCHANGED call
    BY <1>6, AnswerMaps DEF GiveUp, StoreFails
  <2>4. Atomic!Abandon(r)
    BY <1>6, <2>1, <2>2, <2>3 DEF GiveUp, StoreFails, Atomic!Abandon
  <2>5. QED
    BY <2>4 DEF Atomic!Next
<1>7. ASSUME NEW r \in Request, LoadForSignal(r)
      PROVE  Atomic!Next
  <2>1. \E where \in {"put", "get"} : GoTo(r, where)
    BY <1>7 DEF LoadForSignal
  <2>2. Phase(r)' = "admitted" /\ Phase(r) = "pending"
    BY <1>7, <2>1, StatusMoves DEF LoadForSignal, Phase
  <2>3. Status' = [Status EXCEPT ![r] = "admitted"]
    BY <2>1, <2>2, StatusMoves
  <2>4. Atomic!Admit(r)
    BY <1>7, <2>2, <2>3, SameVerdict, SameRest
       DEF LoadForSignal, Atomic!Admit, Status, local
  <2>5. QED
    BY <2>4 DEF Atomic!Next
<1>8. ASSUME NEW r \in Request, PutSignal(r)
      PROVE  Atomic!Next
  <2>1. Phase(r) = "admitted" /\ call[r].op \in PublishOps
    BY <1>8 DEF PutSignal, Phase, CallsOK
  <2>2. (\E s \in {"ok", "unavailable"} : Atomic!Answer(r, Atomic!Bare(s)))
        /\ UNCHANGED call
    BY <1>8, AnswerMaps, SameRest DEF PutSignal
  <2>3. Atomic!Publish(r)
    BY <1>8, <2>1, <2>2, SameRest DEF PutSignal, Atomic!Publish
  <2>4. QED
    BY <2>3 DEF Atomic!Next
<1>9. ASSUME NEW r \in Request, GetSignal(r)
      PROVE  Atomic!Next
  <2>1. Phase(r) = "admitted" /\ call[r].op \in ReadOps
    BY <1>9 DEF GetSignal, Phase, CallsOK
  <2>2. /\ Atomic!Answer(r, Bare(IF KeyOf(call[r]) \in signals THEN "ok" ELSE "no_signal"))
        /\ UNCHANGED call
    BY <1>9, AnswerMaps DEF GetSignal
  <2>3. Atomic!Read(r)
    BY <1>9, <2>1, <2>2, SameRest DEF GetSignal, Atomic!Read
  <2>4. QED
    BY <2>3 DEF Atomic!Next
<1>10. CASE Expire \/ ExpireSignal \/ Tick \/ UNCHANGED vars
  <2>1. UNCHANGED <<pc, call, reply, created>>
    BY <1>10 DEF Expire, ExpireSignal, Tick, vars, local
  <2>2. Status' = Status
    BY <2>1, StatusStays
  <2>3. QED
    BY <1>10, <2>1, <2>2
       DEF Expire, ExpireSignal, Tick, vars, Atomic!Expire, Atomic!ExpireSignal,
           Atomic!Tick, Atomic!Next, Atomic!vars, Status
<1>11. QED
  BY <1>1, <1>2, <1>3, <1>4, <1>5, <1>6, <1>7, <1>8, <1>9, <1>10 DEF Next, Serve

\* The coordinator's callers cannot tell it from a room on which every call takes
\* effect at one instant, or not at all.
THEOREM CoordinatorIsAtomic == Spec => ImplementsAtomicRoom
<1>1. Init => Atomic!Init
  BY RefinementInit
<1>2. TypeOK /\ CallsOK /\ IInv /\ [Next]_vars => [Atomic!Next]_(Atomic!vars)
  BY RefinementStep
<1>3. QED
  BY <1>1, <1>2, Invariance, PTL DEF Spec, Atomic!Spec, ImplementsAtomicRoom

=============================================================================
