--------------------------- MODULE RoomHistoryProofs ---------------------------
(***************************************************************************)
(* Proofs about RoomCoordinator that relate what the store holds to the     *)
(* answers given so far: who was seated by which call, which revisions were *)
(* reported, whom a removal keeps out, which generations were announced.    *)
(***************************************************************************)
EXTENDS RoomCoordinatorProofs

-------------------------------------------------------------------------------
(***************************************************************************)
(* The invariants. Each says of the store, of the copies and of what was    *)
(* answered what the property says of the answers alone.                    *)
(***************************************************************************)

\* A revision that was reported is behind the stored one.
ReportedOK ==
  /\ RevisionsDistinct
  /\ \A r \in Request :
       reply[r].status = "ok" /\ call[r].op \notin SignalOps /\ store # NoRoom =>
         reply[r].revision < store.revision

\* Identifiers are drawn once, and whoever is in the room was put there by a join
\* that has ended.
SeatedBy(m, r) ==
  /\ pc[r] = "done" /\ call[r].op = "join" /\ seat[r] = m
  /\ reply[r].status \in {"ok", "unavailable"}
  /\ reply[r].status = "ok" => reply[r].seat = m

SeatsOK ==
  /\ \A q, r \in Request : seat[q] = seat[r] /\ seat[q] # NoMember => q = r
  /\ store # NoRoom => \A m \in store.joined : \E r \in Request : SeatedBy(m, r)

\* Whoever was out when a call was made is out in the store and in the call's copy.
OutOK ==
  \A r \in Request :
    /\ pc[r] = "idle" => outBefore[r] = {}
    /\ pc[r] # "done" => reply[r].present = {}
    /\ store # NoRoom => outBefore[r] \subseteq store.removed
    /\ pc[r] = "save" => outBefore[r] \subseteq base[r].removed
    /\ pc[r] \in {"put", "get"} /\ call[r].op \in GuestOps => call[r].member \notin outBefore[r]

\* A generation that the store holds, or under which a signal is about to be
\* stored, was announced by a call that has ended.
Announced(m, g) ==
  \E r \in Request :
    /\ call[r] # NoCall /\ call[r].op = "announce"
    /\ call[r].member = m /\ call[r].generation = g
    /\ pc[r] = "done" /\ reply[r].status \in {"ok", "unavailable"}

AnnouncedOK ==
  /\ store # NoRoom =>
       \A m \in Member : store.generation[m] # NoGeneration => Announced(m, store.generation[m])
  /\ \A r \in Request : pc[r] = "put" => Announced(call[r].member, call[r].generation)
  /\ \A k \in signals : Announced(k.member, k.generation)

-------------------------------------------------------------------------------
(***************************************************************************)
(* What a step leaves alone.                                               *)
(***************************************************************************)
Settled(r) ==
  /\ pc'[r] = pc[r] /\ call'[r] = call[r] /\ base'[r] = base[r] /\ seat'[r] = seat[r]
  /\ reply'[r] = reply[r] /\ outBefore'[r] = outBefore[r]

\* A step of one request leaves every other request as it was.
LEMMA OthersSettled ==
  ASSUME TypeOK, NEW r \in Request,
         (\E c \in Calls : Invoke(r, c)) \/ Serve(r) \/ StoreFails(r)
  PROVE  \A q \in Request \ {r} : Settled(q)
BY DEF Serve, Invoke, LoadAndRefuse, LoadAndMutate, Save, Retry, GiveUp, LoadForSignal, PutSignal,
       GetSignal, StoreFails, Answer, GoTo, TypeOK, local, Settled

\* Nothing happens to a request that has been answered.
LEMMA DoneIsSettled ==
  ASSUME TypeOK, [Next]_vars, NEW r \in Request, pc[r] = "done"
  PROVE  Settled(r)
<1>1. CASE Create \/ Expire \/ ExpireSignal \/ Tick \/ UNCHANGED vars
  BY <1>1 DEF Create, Expire, ExpireSignal, Tick, vars, local, Settled
<1>2. ASSUME NEW q \in Request, (\E c \in Calls : Invoke(q, c)) \/ Serve(q) \/ StoreFails(q)
      PROVE  Settled(r)
  <2>1. q # r
    BY <1>2 DEF Serve, Invoke, LoadAndRefuse, LoadAndMutate, Save, Retry, GiveUp, LoadForSignal,
                PutSignal, GetSignal, StoreFails
  <2>2. QED
    BY <1>2, <2>1, OthersSettled
<1>3. QED
  BY <1>1, <1>2 DEF Next

\* A write replaces the stored room by the effect of a call that its tests let
\* through, and ends that call.
LEMMA SaveWrites ==
  ASSUME TypeOK, CallsOK, IInv, NEW r \in Request, Save(r)
  PROVE  /\ store \in Room /\ store # NoRoom /\ base[r] = store /\ call[r] \in Call
         /\ pc[r] = "save" /\ pc'[r] = "done" /\ call'[r] = call[r] /\ seat'[r] = seat[r]
         /\ outBefore'[r] = outBefore[r] /\ call[r].op \notin SignalOps
         /\ now[r] \in Nat /\ (call[r].op = "join" => seat[r] \in Member \ store.joined)
         /\ Verdict(call[r], store, now[r]) = "ok"
         /\ store' = Effect(call[r], store, now[r], seat[r]) /\ store' \in Room
         /\ reply'[r] \in {Accepted(r), Bare("unavailable")}
         /\ UNCHANGED signals
<1>1. pc[r] = "save" /\ CasMatches(r) /\ store' = Draft(r) /\ UNCHANGED signals
  BY DEF Save
<1>2. base[r] = store /\ store' = Effect(call[r], store, now[r], seat[r]) /\ store # NoRoom
  BY <1>1, CasIsFresh DEF CasMatches
<1>3. CopyOK(r)
  BY <1>1 DEF IInv
<1>4. /\ call[r].op \notin SignalOps /\ Verdict(call[r], store, now[r]) = "ok"
      /\ call[r].op = "join" => seat[r] \in Member \ store.joined
  BY <1>2, <1>3 DEF CopyOK
<1>5. store \in Room /\ call[r] \in Call /\ now[r] \in Nat
  BY <1>1, <1>2 DEF TypeOK, CallsOK
<1>6. Draft(r) \in Room
  BY <1>1, DraftType
<1>7. pc'[r] = "done" /\ call'[r] = call[r] /\ seat'[r] = seat[r] /\ outBefore'[r] = outBefore[r]
      /\ reply'[r] \in {Accepted(r), Bare("unavailable")}
  BY DEF Save, Answer, GoTo, TypeOK
<1>8. QED
  BY <1>1, <1>2, <1>4, <1>5, <1>6, <1>7

\* What a call does to the announced generations.
LEMMA EffectGeneration ==
  ASSUME NEW c \in Call, NEW room \in Room, NEW t \in Nat, NEW m,
         c.op = "join" => m \in Member
  PROVE  \A n \in Member :
           Effect(c, room, t, m).generation[n] =
             IF c.op = "announce" /\ c.member = n THEN c.generation
             ELSE IF c.op = "remove" /\ c.member = n THEN NoGeneration
             ELSE room.generation[n]
<1> DEFINE next == Mutated(c, room, t, m)
           rev  == next.revision + 1
<1>1. Effect(c, room, t, m) = [next EXCEPT !.revision = rev, !.lastActivityAt = t]
  BY DEF Effect
<1>2. \A n \in Member :
        next.generation[n] =
          IF c.op = "announce" /\ c.member = n THEN c.generation
          ELSE IF c.op = "remove" /\ c.member = n THEN NoGeneration
          ELSE room.generation[n]
  <2>1. CASE c.op = "join"
    BY <2>1 DEF Mutated, Room
  <2>2. CASE c.op \in {"resume", "guestState"}
    BY <2>2 DEF Mutated, Room
  <2>3. CASE c.op = "announce"
    BY <2>3 DEF Mutated, Room
  <2>4. CASE c.op = "lock"
    BY <2>4 DEF Mutated, Room
  <2>5. CASE c.op = "remove"
    BY <2>5 DEF Mutated, Room
  <2>6. CASE c.op \notin {"join", "resume", "guestState", "announce", "lock", "remove"}
    BY <2>6 DEF Mutated
  <2>7. QED
    BY <2>1, <2>2, <2>3, <2>4, <2>5, <2>6
<1>3. next \in Room
  BY MutatedType
<1> HIDE DEF next
<1>4. QED
  BY <1>1, <1>2, <1>3 DEF Room

\* What a write does to the fields of the stored room.
LEMMA SaveFields ==
  ASSUME TypeOK, CallsOK, IInv, NEW r \in Request, Save(r)
  PROVE  /\ store' # NoRoom /\ store.revision \in Nat /\ store'.revision = store.revision + 1
         /\ call[r].op = "join" => store'.joined = store.joined \cup {seat[r]}
         /\ call[r].op # "join" => store'.joined = store.joined
         /\ call[r].op = "remove" => store'.removed = store.removed \cup {call[r].member}
         /\ call[r].op # "remove" => store'.removed = store.removed
         /\ \A n \in Member :
              store'.generation[n] =
                IF call[r].op = "announce" /\ call[r].member = n THEN call[r].generation
                ELSE IF call[r].op = "remove" /\ call[r].member = n THEN NoGeneration
                ELSE store.generation[n]
<1> DEFINE c == call[r]
           room == store
           t == now[r]
           m == seat[r]
           next == Effect(c, room, t, m)
<1>1. c \in Call /\ room \in Room /\ t \in Nat /\ (c.op = "join" => m \in Member)
      /\ store' = next /\ store' \in Room
  BY SaveWrites
<1> HIDE DEF c, room, t, m
<1>2. /\ next.revision = room.revision + 1
      /\ c.op = "join" => next.joined = room.joined \cup {m}
      /\ c.op # "join" => next.joined = room.joined
      /\ c.op = "remove" => next.removed = room.removed \cup {c.member}
      /\ c.op # "remove" => next.removed = room.removed
  BY <1>1, EffectFields
<1>3. \A n \in Member :
        next.generation[n] =
          IF c.op = "announce" /\ c.member = n THEN c.generation
          ELSE IF c.op = "remove" /\ c.member = n THEN NoGeneration
          ELSE room.generation[n]
  BY <1>1, EffectGeneration
<1>4. room.revision \in Nat /\ store' # NoRoom
  BY <1>1, SentinelAssumption DEF Room
<1> HIDE DEF next
<1>5. QED
  BY <1>1, <1>2, <1>3, <1>4 DEF c, room, m

-------------------------------------------------------------------------------
(***************************************************************************)
(* Reported revisions.                                                     *)
(***************************************************************************)

\* Only a write reports a revision: any other step of a mutating call answers
\* nothing or an error.
LEMMA OnlyWritesReport ==
  ASSUME TypeOK, CallsOK, IInv, [Next]_vars, NEW q \in Request, ~Save(q),
         reply'[q].status = "ok", call'[q].op \notin SignalOps
  PROVE  reply'[q] = reply[q] /\ call'[q] = call[q]
<1>1. CASE Create \/ Expire \/ ExpireSignal \/ Tick \/ UNCHANGED vars
  BY <1>1 DEF Create, Expire, ExpireSignal, Tick, vars, local
<1>2. ASSUME NEW r \in Request, (\E c \in Calls : Invoke(r, c)) \/ Serve(r) \/ StoreFails(r)
      PROVE  reply'[q] = reply[q] /\ call'[q] = call[q]
  <2>1. CASE q # r
    BY <1>2, <2>1, OthersSettled DEF Settled
  <2>2. CASE q = r
    <3>1. pc[q] # "done" => reply[q].status = "none"
      BY DEF IInv, ContentionOK
    <3>2. CASE (\E c \in Calls : Invoke(r, c)) \/ LoadAndMutate(r) \/ Retry(r) \/ LoadForSignal(r)
      BY <2>2, <3>1, <3>2 DEF Invoke, LoadAndMutate, Retry, LoadForSignal
    <3>3. CASE LoadAndRefuse(r)
      <4>1. reply'[q].status = Verdict(call[r], store, clock)
        BY <2>2, <3>3 DEF LoadAndRefuse, Answer, Bare, TypeOK
      <4>2. QED
        BY <3>3, <4>1 DEF LoadAndRefuse
    <3>4. CASE GiveUp(r) \/ StoreFails(r)
      BY <2>2, <3>4 DEF GiveUp, StoreFails, Answer, Bare, TypeOK
    <3>5. CASE PutSignal(r) \/ GetSignal(r)
      BY <2>2, <3>5 DEF PutSignal, GetSignal, Answer, CallsOK, SignalOps
    <3>6. QED
      BY <1>2, <2>2, <3>2, <3>3, <3>4, <3>5 DEF Serve
  <2>3. QED
    BY <2>1, <2>2
<1>3. QED
  BY <1>1, <1>2 DEF Next

\* Every step keeps reported revisions apart and behind the store's.
LEMMA ReportedStep == TypeOK /\ CallsOK /\ IInv /\ ReportedOK /\ [Next]_vars => ReportedOK'
<1> SUFFICES ASSUME TypeOK, CallsOK, IInv, ReportedOK, [Next]_vars
             PROVE  ReportedOK'
  OBVIOUS
<1>1. CASE ~created
  <2>1. \A q \in Request : reply'[q].status = "none"
    <3>1. \A q \in Request : reply[q].status = "none" /\ pc[q] = "idle"
      BY <1>1 DEF IInv, ContentionOK
    <3>2. reply' = reply
      BY <1>1, <3>1 DEF Next, Create, Expire, ExpireSignal, Tick, vars, Invoke, Serve, LoadAndRefuse,
         LoadAndMutate, Save, Retry, GiveUp, LoadForSignal, PutSignal, GetSignal, StoreFails
    <3>3. QED
      BY <3>1, <3>2
  <2>2. QED
    BY <2>1 DEF ReportedOK, RevisionsDistinct
<1>2. ASSUME created, NEW r \in Request, Save(r)
      PROVE  ReportedOK'
  <2>1. /\ store \in Room /\ store # NoRoom /\ base[r] = store
        /\ reply'[r] \in {Accepted(r), Bare("unavailable")}
    BY <1>2, SaveWrites
  <2>2. store'.revision = store.revision + 1 /\ store.revision \in Nat /\ store' # NoRoom
    BY <1>2, SaveFields
  <2>3. ASSUME NEW q \in Request, reply'[q].status = "ok", call'[q].op \notin SignalOps, q # r
        PROVE  /\ reply[q].status = "ok" /\ call[q].op \notin SignalOps
               /\ reply'[q].revision = reply[q].revision /\ reply[q].revision < store.revision
               /\ reply[q].revision \in Nat
    <3>1. Settled(q)
      BY <1>2, <2>3, OthersSettled DEF Serve
    <3>2. QED
      BY <2>1, <2>3, <3>1 DEF Settled, ReportedOK, TypeOK, Reply
  <2>4. reply'[r].status = "ok" => reply'[r].revision = store.revision
    BY <2>1 DEF Accepted, Bare
  <2>5. QED
    BY <2>2, <2>3, <2>4 DEF ReportedOK, RevisionsDistinct
<1>3. ASSUME created, \A r \in Request : ~Save(r)
      PROVE  ReportedOK'
  <2>1. store' = store \/ store' = NoRoom
    BY <1>3, WhoWritesTheRoom DEF Create, Expire
  <2>2. ASSUME NEW q \in Request, reply'[q].status = "ok", call'[q].op \notin SignalOps
        PROVE  reply'[q] = reply[q] /\ call'[q] = call[q]
    BY <1>3, <2>2, OnlyWritesReport
  <2>3. QED
    BY <2>1, <2>2 DEF ReportedOK, RevisionsDistinct
<1>4. QED
  BY <1>1, <1>2, <1>3

-------------------------------------------------------------------------------
(***************************************************************************)
(* Seats.                                                                  *)
(***************************************************************************)

\* A request that has been answered goes on being the one that seated a member.
LEMMA SeatedStays ==
  ASSUME TypeOK, [Next]_vars, NEW m, NEW r \in Request, SeatedBy(m, r)
  PROVE  SeatedBy(m, r)'
BY DoneIsSettled DEF SeatedBy, Settled

\* Identifiers drawn by different requests stay different.
LEMMA DrawnOnce ==
  ASSUME TypeOK, SeatsOK, [Next]_vars
  PROVE  \A q, r \in Request : seat'[q] = seat'[r] /\ seat'[q] # NoMember => q = r
<1>1. CASE seat' = seat
  BY <1>1 DEF SeatsOK
<1>2. ASSUME NEW r \in Request, LoadAndMutate(r)
      PROVE  \A p, q \in Request : seat'[p] = seat'[q] /\ seat'[p] # NoMember => p = q
  <2>1. PICK m \in Member \cup {NoMember} :
          /\ IF call[r].op = "join" THEN m \in Undrawn ELSE m = NoMember
          /\ seat' = [seat EXCEPT ![r] = m]
    BY <1>2 DEF LoadAndMutate
  <2>2. m = NoMember \/ \A q \in Request : seat[q] # m
    BY <2>1 DEF Undrawn
  <2>3. QED
    BY <2>1, <2>2 DEF SeatsOK, TypeOK
<1>3. ASSUME NEW r \in Request, Retry(r)
      PROVE  \A p, q \in Request : seat'[p] = seat'[q] /\ seat'[p] # NoMember => p = q
  BY <1>3 DEF Retry, SeatsOK, TypeOK
<1>4. seat' = seat \/ \E r \in Request : LoadAndMutate(r) \/ Retry(r)
  BY DEF Next, Serve, Create, Invoke, LoadAndRefuse, Save, GiveUp, LoadForSignal, PutSignal,
         GetSignal, StoreFails, Answer, Expire, ExpireSignal, Tick, vars, local
<1>5. QED
  BY <1>1, <1>2, <1>3, <1>4

\* Every step keeps each seat with the join that took it.
LEMMA SeatsStep == TypeOK /\ CallsOK /\ IInv /\ SeatsOK /\ [Next]_vars => SeatsOK'
<1> SUFFICES ASSUME TypeOK, CallsOK, IInv, SeatsOK, [Next]_vars
             PROVE  SeatsOK'
  OBVIOUS
<1>1. ASSUME store' # NoRoom, NEW m \in store'.joined
      PROVE  \E r \in Request : SeatedBy(m, r)'
  <2>1. CASE store' = store
    BY <1>1, <2>1, SeatedStays DEF SeatsOK
  <2>2. CASE Create
    BY <1>1, <2>2 DEF Create, NewRoom
  <2>3. ASSUME NEW r \in Request, Save(r)
        PROVE  \E q \in Request : SeatedBy(m, q)'
    <3>1. /\ store \in Room /\ store # NoRoom
          /\ pc'[r] = "done" /\ call'[r] = call[r] /\ seat'[r] = seat[r]
          /\ reply'[r] \in {Accepted(r), Bare("unavailable")}
      BY <2>3, SaveWrites
    <3>2. /\ call[r].op = "join" => store'.joined = store.joined \cup {seat[r]}
          /\ call[r].op # "join" => store'.joined = store.joined
      BY <2>3, SaveFields
    <3>3. CASE m \in store.joined
      BY <3>1, <3>3, SeatedStays DEF SeatsOK
    <3>4. CASE m \notin store.joined
      <4>1. call[r].op = "join" /\ m = seat[r]
        BY <1>1, <3>2, <3>4
      <4>2. QED
        BY <3>1, <4>1 DEF SeatedBy, Accepted, Bare
    <3>5. QED
      BY <3>3, <3>4
  <2>4. QED
    BY <1>1, <2>1, <2>2, <2>3, WhoWritesTheRoom DEF Expire
<1>2. QED
  BY <1>1, DrawnOnce DEF SeatsOK

-------------------------------------------------------------------------------
(***************************************************************************)
(* Removals.                                                               *)
(***************************************************************************)

\* What the property says of one request.
StaysOut(r) ==
  /\ Served(r) /\ call[r].op \in GuestOps => call[r].member \notin outBefore[r]
  /\ reply[r].present \cap outBefore[r] = {}

\* What OutOK says of one request.
OutOKOf(r) ==
  /\ pc[r] = "idle" => outBefore[r] = {}
  /\ pc[r] # "done" => reply[r].present = {}
  /\ store # NoRoom => outBefore[r] \subseteq store.removed
  /\ pc[r] = "save" => outBefore[r] \subseteq base[r].removed
  /\ pc[r] \in {"put", "get"} /\ call[r].op \in GuestOps => call[r].member \notin outBefore[r]

\* Nobody who is out comes back: a removal is never undone while the room exists.
LEMMA RemovedGrows ==
  ASSUME TypeOK, CallsOK, IInv, [Next]_vars, created, store' # NoRoom
  PROVE  store # NoRoom /\ store.removed \subseteq store'.removed
<1>1. CASE store' = store
  BY <1>1
<1>2. ASSUME NEW r \in Request, Save(r)
      PROVE  store # NoRoom /\ store.removed \subseteq store'.removed
  BY <1>2, SaveWrites, SaveFields
<1>3. QED
  BY <1>1, <1>2, WhoWritesTheRoom DEF Create, Expire

\* An answer that is bare and serves nobody, or serves a call that is let in,
\* keeps its request out of the property's reach.
LEMMA BareKeepsOut ==
  ASSUME TypeOK, CallsOK, NEW r \in Request, NEW s, Answer(r, Bare(s)),
         s \in {"ok", "no_signal"} /\ call[r].op \in GuestOps => call[r].member \notin outBefore[r]
  PROVE  StaysOut(r)' /\ pc'[r] = "done" /\ outBefore'[r] = outBefore[r]
BY DEF Answer, GoTo, Bare, StaysOut, Served, TypeOK

\* A step of a request keeps its own part.
LEMMA OutStepOfCaller ==
  ASSUME TypeOK, CallsOK, IInv, NEW r \in Request, OutOKOf(r), StaysOut(r),
         (\E c \in Calls : Invoke(r, c)) \/ Serve(r) \/ StoreFails(r)
  PROVE  /\ StaysOut(r)'
         /\ pc'[r] # "idle"
         /\ pc'[r] # "done" => reply'[r].present = {}
         /\ store # NoRoom => outBefore'[r] \subseteq store.removed
         /\ pc'[r] = "save" => outBefore'[r] \subseteq base'[r].removed
         /\ pc'[r] \in {"put", "get"} /\ call'[r].op \in GuestOps =>
              call'[r].member \notin outBefore'[r]
<1> DEFINE Goal ==
         /\ StaysOut(r)'
         /\ pc'[r] # "idle"
         /\ pc'[r] # "done" => reply'[r].present = {}
         /\ store # NoRoom => outBefore'[r] \subseteq store.removed
         /\ pc'[r] = "save" => outBefore'[r] \subseteq base'[r].removed
         /\ pc'[r] \in {"put", "get"} /\ call'[r].op \in GuestOps =>
              call'[r].member \notin outBefore'[r]
<1>0. pc[r] # "done" => reply[r].status = "none" /\ reply[r].present = {}
  BY DEF IInv, ContentionOK, OutOKOf
<1>1. ASSUME NEW c \in Calls, Invoke(r, c)
      PROVE  Goal
  <2>1. pc'[r] = "load" /\ reply' = reply /\ pc[r] = "idle"
        /\ outBefore'[r] = IF store = NoRoom THEN {} ELSE store.removed
    BY <1>1 DEF Invoke, GoTo, TypeOK
  <2>2. QED
    BY <1>0, <2>1 DEF StaysOut, Served
<1>2. ASSUME NEW s, Answer(r, Bare(s)),
             s \in {"ok", "no_signal"} /\ call[r].op \in GuestOps =>
               call[r].member \notin outBefore[r]
      PROVE  Goal
  BY <1>2, BareKeepsOut DEF OutOKOf
<1>3. CASE LoadAndRefuse(r)
  <2>1. Verdict(call[r], store, clock) \notin {"ok", "no_signal"}
    BY <1>3, VerdictType DEF LoadAndRefuse, Refusals
  <2>2. QED
    BY <1>2, <1>3, <2>1 DEF LoadAndRefuse
<1>4. CASE GiveUp(r) \/ StoreFails(r)
  BY <1>2, <1>4 DEF GiveUp, StoreFails
<1>5. CASE PutSignal(r) \/ GetSignal(r)
  <2>1. call[r].op \in GuestOps => call[r].member \notin outBefore[r]
    BY <1>5 DEF PutSignal, GetSignal, OutOKOf
  <2>2. QED
    BY <1>2, <1>5, <2>1 DEF PutSignal, GetSignal
<1>6. CASE LoadAndMutate(r)
  <2>1. /\ pc[r] = "load" /\ pc'[r] = "save" /\ base'[r] = store /\ store # NoRoom
        /\ UNCHANGED <<call, reply, outBefore>>
    BY <1>6 DEF LoadAndMutate, GoTo, TypeOK, Verdict, Gone
  <2>2. QED
    BY <1>0, <2>1 DEF StaysOut, Served, OutOKOf
<1>7. CASE Retry(r)
  <2>1. pc[r] = "save" /\ pc'[r] = "load" /\ UNCHANGED <<call, reply, outBefore>>
    BY <1>7 DEF Retry, GoTo, TypeOK
  <2>2. QED
    BY <1>0, <2>1 DEF StaysOut, Served, OutOKOf
<1>8. CASE LoadForSignal(r)
  <2>1. /\ pc[r] = "load" /\ pc'[r] \in {"put", "get"}
        /\ UNCHANGED <<call, reply, outBefore>>
    BY <1>8 DEF LoadForSignal, GoTo, TypeOK, local
  <2>2. Verdict(call[r], store, clock) = "ok"
    BY <1>8 DEF LoadForSignal
  <2>3. store # NoRoom /\ (call[r].op \in GuestOps => call[r].member \notin store.removed)
    BY <2>2, Accepts DEF Gone, Expelled
  <2>4. QED
    BY <1>0, <2>1, <2>3 DEF StaysOut, Served, OutOKOf
<1>9. CASE Save(r)
  <2>1. /\ pc[r] = "save" /\ pc'[r] = "done" /\ base[r] = store /\ store # NoRoom
        /\ call'[r] = call[r] /\ outBefore'[r] = outBefore[r]
        /\ Verdict(call[r], store, now[r]) = "ok"
        /\ reply'[r] \in {Accepted(r), Bare("unavailable")}
    BY <1>9, SaveWrites
  <2>2. outBefore[r] \subseteq store.removed
    BY <2>1 DEF OutOKOf
  <2>3. call[r].op \in GuestOps => call[r].member \notin store.removed
    BY <2>1, Accepts DEF Expelled
  <2>4. Accepted(r).present \cap store.removed = {}
    <3>1. Draft(r) = store' /\ store.removed \subseteq store'.removed
      BY <1>9, SaveFields DEF Save
    <3>2. Present(Draft(r), now[r]) \cap Draft(r).removed = {}
      BY DEF Present, Active
    <3>3. Accepted(r).present = Present(Draft(r), now[r])
      BY DEF Accepted
    <3>4. QED
      BY <3>1, <3>2, <3>3
  <2>5. reply'[r].present \cap outBefore[r] = {}
    BY <2>1, <2>2, <2>4 DEF Bare
  <2>6. QED
    BY <2>1, <2>2, <2>3, <2>5 DEF StaysOut, Served
<1>10. QED
  BY <1>1, <1>3, <1>4, <1>5, <1>6, <1>7, <1>8, <1>9 DEF Serve

\* Every step keeps the removed out.
LEMMA OutStep ==
  TypeOK /\ CallsOK /\ IInv /\ OutOK /\ RemovedStaysOut /\ [Next]_vars
    => OutOK' /\ RemovedStaysOut'
<1> SUFFICES ASSUME TypeOK, CallsOK, IInv, OutOK, RemovedStaysOut, [Next]_vars,
                    NEW q \in Request
             PROVE  OutOKOf(q)' /\ StaysOut(q)'
  BY DEF OutOK, OutOKOf, RemovedStaysOut, StaysOut
<1>1. OutOKOf(q) /\ StaysOut(q)
  BY DEF OutOK, OutOKOf, RemovedStaysOut, StaysOut
<1>2. CASE Create
  <2>1. outBefore[q] = {} /\ UNCHANGED <<pc, call, base, reply, outBefore>>
    BY <1>1, <1>2 DEF Create, local, IInv, OutOKOf
  <2>2. QED
    BY <1>1, <2>1 DEF OutOKOf, StaysOut, Served
<1>3. CASE Expire \/ ExpireSignal \/ Tick \/ UNCHANGED vars
  <2>1. UNCHANGED <<pc, call, base, reply, outBefore>> /\ (store' = store \/ store' = NoRoom)
    BY <1>3 DEF Expire, ExpireSignal, Tick, vars, local
  <2>2. QED
    BY <1>1, <2>1 DEF OutOKOf, StaysOut, Served
<1>4. ASSUME NEW r \in Request, (\E c \in Calls : Invoke(r, c)) \/ Serve(r) \/ StoreFails(r)
      PROVE  OutOKOf(q)' /\ StaysOut(q)'
  <2>1. created
    BY <1>4 DEF IInv, Invoke, Serve, LoadAndRefuse, LoadAndMutate, Save, Retry, GiveUp,
                LoadForSignal, PutSignal, GetSignal, StoreFails
  <2>2. store' # NoRoom => store # NoRoom /\ store.removed \subseteq store'.removed
    BY <2>1, RemovedGrows
  <2>3. CASE q = r
    BY <1>1, <1>4, <2>2, <2>3, OutStepOfCaller DEF OutOKOf
  <2>4. CASE q # r
    <3>1. Settled(q)
      BY <1>4, <2>4, OthersSettled
    <3>2. QED
      BY <1>1, <2>2, <3>1 DEF Settled, OutOKOf, StaysOut, Served
  <2>5. QED
    BY <2>3, <2>4
<1>5. QED
  BY <1>2, <1>3, <1>4 DEF Next

-------------------------------------------------------------------------------
(***************************************************************************)
(* Announced generations.                                                  *)
(***************************************************************************)

\* What was announced stays announced.
LEMMA AnnouncedStays ==
  ASSUME TypeOK, [Next]_vars, NEW m, NEW g, Announced(m, g)
  PROVE  Announced(m, g)'
BY DoneIsSettled DEF Announced, Settled

\* Every step keeps the store, the calls that were let in and the signals under
\* generations that were announced.
LEMMA AnnouncedStep == TypeOK /\ CallsOK /\ IInv /\ AnnouncedOK /\ [Next]_vars => AnnouncedOK'
<1> SUFFICES ASSUME TypeOK, CallsOK, IInv, AnnouncedOK, [Next]_vars
             PROVE  AnnouncedOK'
  OBVIOUS
<1>1. ASSUME store' # NoRoom, NEW m \in Member, NEW g, g = store'.generation[m], g # NoGeneration
      PROVE  Announced(m, g)'
  <2>1. CASE store' = store
    <3>1. Announced(m, g)
      BY <1>1, <2>1 DEF AnnouncedOK
    <3>2. QED
      BY <3>1, AnnouncedStays
  <2>2. CASE Create
    BY <1>1, <2>2 DEF Create, NewRoom
  <2>3. ASSUME NEW r \in Request, Save(r)
        PROVE  Announced(m, g)'
    <3>1. /\ store # NoRoom /\ call[r] \in Call /\ pc'[r] = "done" /\ call'[r] = call[r]
          /\ reply'[r] \in {Accepted(r), Bare("unavailable")}
      BY <2>3, SaveWrites
    <3>2. store'.generation[m] =
            IF call[r].op = "announce" /\ call[r].member = m THEN call[r].generation
            ELSE IF call[r].op = "remove" /\ call[r].member = m THEN NoGeneration
            ELSE store.generation[m]
      BY <2>3, SaveFields
    <3>3. CASE call[r].op = "announce" /\ call[r].member = m
      <4>1. reply'[r].status \in {"ok", "unavailable"}
        BY <3>1 DEF Accepted, Bare
      <4>2. call'[r] # NoCall
        BY <3>1, CoordinatorAssumption
      <4>3. QED
        BY <1>1, <3>1, <3>2, <3>3, <4>1, <4>2 DEF Announced
    <3>4. CASE ~(call[r].op = "announce" /\ call[r].member = m)
      <4>1. g = store.generation[m]
        BY <1>1, <3>2, <3>4
      <4>2. Announced(m, g)
        BY <1>1, <3>1, <4>1 DEF AnnouncedOK
      <4>3. QED
        BY <4>2, AnnouncedStays
    <3>5. QED
      BY <3>3, <3>4
  <2>4. QED
    BY <1>1, <2>1, <2>2, <2>3, WhoWritesTheRoom DEF Expire
<1>2. ASSUME NEW q \in Request, pc'[q] = "put"
      PROVE  Announced(call[q].member, call[q].generation) /\ call'[q] = call[q]
  <2>1. CASE pc[q] = "put"
    <3>1. call'[q] = call[q]
      BY <1>2, <2>1 DEF Next, Serve, Create, Invoke, LoadAndRefuse, LoadAndMutate, Save, Retry,
         GiveUp, LoadForSignal, PutSignal, GetSignal, StoreFails, Answer, Expire, ExpireSignal, Tick,
         vars, local, TypeOK
    <3>2. QED
      BY <2>1, <3>1 DEF AnnouncedOK
  <2>2. CASE pc[q] # "put"
    <3>1. LoadForSignal(q)
      BY <1>2, <2>2 DEF Next, Serve, Create, Invoke, LoadAndRefuse, LoadAndMutate, Save, Retry,
         GiveUp, LoadForSignal, PutSignal, GetSignal, StoreFails, Answer, GoTo, Expire, ExpireSignal,
         Tick, vars, local, TypeOK
    <3>2. /\ Verdict(call[q], store, clock) = "ok" /\ call[q].op \in SignalOps
          /\ call'[q] = call[q] /\ call[q] \in Call
      BY <3>1 DEF LoadForSignal, CallsOK, local
    <3>3. store # NoRoom /\ Current(call[q], store)
      BY <3>2 DEF Verdict, Gone
    <3>4. call[q].member \in Member /\ call[q].generation # NoGeneration
      BY <3>2, CallFields, SentinelAssumption
    <3>5. QED
      BY <3>2, <3>3, <3>4 DEF Current, AnnouncedOK
  <2>3. QED
    BY <2>1, <2>2
<1>3. ASSUME NEW k \in signals'
      PROVE  Announced(k.member, k.generation)
  <2>1. CASE k \in signals
    BY <2>1 DEF AnnouncedOK
  <2>2. CASE k \notin signals
    <3>1. PICK r \in Request : PutSignal(r)
      BY <1>3, <2>2 DEF Next, Serve, Create, Invoke, LoadAndRefuse, LoadAndMutate, Save, Retry,
         GiveUp, LoadForSignal, GetSignal, StoreFails, Expire, ExpireSignal, Tick, vars
    <3>2. k = KeyOf(call[r]) /\ pc[r] = "put"
      BY <1>3, <2>2, <3>1 DEF PutSignal
    <3>3. QED
      BY <3>2 DEF KeyOf, AnnouncedOK
  <2>3. QED
    BY <2>1, <2>2
<1>4. ASSUME NEW q \in Request, pc'[q] = "put", NEW c, c = call'[q]
      PROVE  Announced(c.member, c.generation)'
  BY <1>2, <1>4, AnnouncedStays
<1>5. ASSUME NEW k \in signals'
      PROVE  Announced(k.member, k.generation)'
  BY <1>3, <1>5, AnnouncedStays
<1>6. QED
  BY <1>1, <1>4, <1>5 DEF AnnouncedOK, Announced

-------------------------------------------------------------------------------
(***************************************************************************)
(* The theorems.                                                           *)
(***************************************************************************)
HistoryOK == ReportedOK /\ SeatsOK /\ OutOK /\ RemovedStaysOut /\ AnnouncedOK

LEMMA HistoryInit == Init => HistoryOK
BY DEF Init, HistoryOK, ReportedOK, RevisionsDistinct, SeatsOK, OutOK, RemovedStaysOut, Served,
       AnnouncedOK, Bare

\* The store, the copies and the answers agree about the past in every reachable
\* state.
THEOREM HistoryInvariance == Spec => [](TypeOK /\ CallsOK /\ IInv /\ HistoryOK)
<1>1. TypeOK /\ CallsOK /\ IInv /\ HistoryOK /\ [Next]_vars => HistoryOK'
  BY ReportedStep, SeatsStep, OutStep, AnnouncedStep DEF HistoryOK
<1>2. QED
  BY <1>1, HistoryInit, Invariance, PTL DEF Spec

\* Two accepted mutating calls never report one revision: no update is lost.
THEOREM RevisionsNeverRepeat == Spec => []RevisionsDistinct
<1>1. HistoryOK => RevisionsDistinct
  BY DEF HistoryOK, ReportedOK
<1>2. QED
  BY <1>1, HistoryInvariance, PTL

\* A join takes at most one seat, and every seat belongs to one join, which was
\* told of it or answered "unavailable".
THEOREM EverySeatHasItsJoin == Spec => []OneSeatPerJoin
<1>1. TypeOK /\ CallsOK /\ HistoryOK => OneSeatPerJoin
  <2> SUFFICES ASSUME TypeOK, CallsOK, HistoryOK, store # NoRoom, NEW m \in store.joined
               PROVE  \E r \in Request :
                        /\ SeatedBy(m, r) /\ call[r] # NoCall
                        /\ \A q \in Request \ {r} : pc[q] = "done" => seat[q] # m
    BY DEF OneSeatPerJoin, SeatedBy
  <2>1. PICK r \in Request : SeatedBy(m, r)
    BY DEF HistoryOK, SeatsOK
  <2>2. m # NoMember
    BY SentinelAssumption DEF TypeOK, Room
  <2>3. call[r] # NoCall
    BY <2>1, CoordinatorAssumption DEF SeatedBy, CallsOK
  <2>4. \A q \in Request \ {r} : seat[q] # m
    BY <2>1, <2>2 DEF HistoryOK, SeatsOK, SeatedBy
  <2>5. QED
    BY <2>1, <2>3, <2>4
<1>2. QED
  BY <1>1, HistoryInvariance, PTL

\* No call made with the credentials of a member who was already out is served,
\* and no state answered later shows it.
THEOREM RemovalIsFinal == Spec => []RemovedStaysOut
<1>1. HistoryOK => RemovedStaysOut
  BY DEF HistoryOK
<1>2. QED
  BY <1>1, HistoryInvariance, PTL

\* A signal is stored only under a generation that its guest has announced.
THEOREM SignalsFollowAnnouncements == Spec => []SignalsWereAnnounced
<1>1. HistoryOK => SignalsWereAnnounced
  BY DEF HistoryOK, AnnouncedOK, Announced, SignalsWereAnnounced
<1>2. QED
  BY <1>1, HistoryInvariance, PTL

===============================================================================
