--------------------------- MODULE RoomPeersProofs ---------------------------
(***************************************************************************)
(* Proofs about RoomPeers for any number of guests, generations, sessions, *)
(* polling loops and faults, and any set of control calls.                 *)
(***************************************************************************)
EXTENDS RoomPeers, WellFoundedInduction, TLAPS

-----------------------------------------------------------------------------
(***************************************************************************)
(* The inductive invariant.                                                *)
(***************************************************************************)
Frames(places) == [at : places, gen : 0 .. MaxGeneration, ref : 0 .. MaxSession]

Pollers(places) ==
  [on : BOOLEAN, timer : 0 .. MaxLoops, loop : [Loop -> Frames({"none", "timer"} \cup places)]]

HostPlaces  == {"state", "read", "ensure"}
GuestPlaces == {"announce", "state", "get", "got", "accept", "publish", "hung"}

PollersOK ==
  /\ hostPoll \in Pollers(HostPlaces)
  /\ guestPoll \in [Member -> Pollers(GuestPlaces)]

\* The coordinator's room, and what the host's user asks of it: a removal is dismissed only
\* after the coordinator has executed it.
RoomOK ==
  /\ room \in Room
  /\ control \in [at : {"idle"}] \cup [at : {"sent", "answered"}, call : Controls]
  /\ control.at = "answered" /\ control.call.op = "remove" => control.call.member \in room.removed
  /\ dismissed \subseteq room.removed

Views ==
  [locked : BOOLEAN, removed : SUBSET Member, present : SUBSET Member,
   generation : [Member -> Generation \cup {NoGeneration}]]

HostSessions ==
  [gen : 0 .. MaxGeneration,
   state : {"new", "offering", "awaiting", "connecting", "connected", "broken", "closed"},
   offered : BOOLEAN, remote : 0 .. MaxSession, applied : BOOLEAN]

Ensures ==
  [at : {"offer", "publish", "ask", "answer", "apply", "hung", "done"},
   session : 0 .. MaxSession, got : 0 .. MaxSession]

\* The session s has been created for m.
Known(m, s) == s \in Session /\ hostSession[m][s].state # "new"

\* The host's sessions: each has a generation, those held are alive.
SessionsOK ==
  /\ hostPeers \in [Member -> 0 .. MaxSession]
  /\ hostSession \in [Member -> [Session -> HostSessions]]
  /\ \A m \in Member, s \in Session : Known(m, s) => hostSession[m][s].gen \in Generation
  /\ \A m \in Member : Held(hostSession[m], hostPeers[m])

\* ensureHostPeer works on sessions that exist.
EnsuresOK ==
  /\ ensure \in [Loop -> [Member -> Ensures]]
  /\ \A l \in Loop, m \in Member :
       ensure[l][m].at \notin {"hung", "done"} => Known(m, ensure[l][m].session)

ReadsOK ==
  /\ hostRead \in [Loop -> Views]
  /\ latest \in [known : BOOLEAN, locked : BOOLEAN, removed : SUBSET Member]

HostOK == SessionsOK /\ EnsuresOK /\ ReadsOK

\* A session the host holds for a guest it has dismissed was made by a tick in flight. It has
\* no answer and nothing is about to give it one.
Unanswered(m) ==
  hostPeers[m] # 0 =>
    /\ HostSide(m).state \in {"offering", "awaiting"}
    /\ HostSide(m).remote = 0 /\ ~HostSide(m).applied
    /\ \A l \in Loop : ensure[l][m].at \in {"answer", "apply"} => ensure[l][m].session # hostPeers[m]

DismissedOK == \A m \in dismissed : Unanswered(m)

\* The session s was created for m and for the generation g.
MadeFor(m, s, g) == Known(m, s) /\ hostSession[m][s].gen = g

\* What a task of the guest m has captured: its generation, and the offer it is about to use or
\* the session that answers it.
FrameOK(m, f) ==
  /\ f.at \in GuestPlaces => f.gen \in Generation
  /\ f.at = "got" => MadeFor(m, f.ref, f.gen)
  /\ f.at \in {"accept", "publish"} => f.ref \in Session

StoredOK == \A m \in Member, g \in Generation : offers[m][g] # 0 => MadeFor(m, offers[m][g], g)

FramesOK == \A m \in Member, l \in Loop : FrameOK(m, guestPoll[m].loop[l])

\* A stored offer is stored under the generation of the session it describes, and so is the
\* one that a guest is about to use or has used.
OffersOK ==
  /\ offers \in [Member -> [Generation -> 0 .. MaxSession]]
  /\ answers \in [Member -> [Generation -> 0 .. MaxSession]]
  /\ StoredOK
  /\ FramesOK

GuestSessions ==
  [state : {"new", "answering", "connecting", "connected", "closed"}, offer : 0 .. MaxSession]

\* A session a guest holds is open and answers an offer made for its generation.
GuestHolds(m) ==
  guestPeer[m] # 0 =>
    /\ guestSession[m][guestPeer[m]].state \notin {"new", "closed"}
    /\ MadeFor(m, GuestSide(m).offer, guestGeneration[m])

GuestsOK ==
  /\ guestGeneration \in [Member -> Generation]
  /\ announced \in [Member -> BOOLEAN]
  /\ guestPeer \in [Member -> 0 .. MaxSession]
  /\ guestSession \in [Member -> [Session -> GuestSessions]]
  /\ told \subseteq Member
  /\ \A m \in Member : GuestHolds(m)

FaultsOK == faults \in 0 .. MaxFaults

IInv == PollersOK /\ RoomOK /\ HostOK /\ DismissedOK /\ OffersOK /\ GuestsOK /\ FaultsOK


-----------------------------------------------------------------------------
(***************************************************************************)
(* The poller.                                                             *)
(***************************************************************************)
\* The loops of q are those of p, except that some have come to rest or run a frame of F.
LoopsFrom(p, q, F) == \A l \in Loop : q.loop[l] \in F \cup {p.loop[l], NoTask, Waiting}

LEMMA RestingFrames ==
  /\ \A P : NoTask \in Frames({"none", "timer"} \cup P) /\ Waiting \in Frames({"none", "timer"} \cup P)
  /\ NoTask.at = "none" /\ Waiting.at = "timer"
BY PeersAssumption DEF Frames, NoTask, Waiting, Frame

\* Every operation of the poller turns a poller into one, and starts no frame but the given one.
LEMMA PollerType ==
  ASSUME NEW P, NEW p \in Pollers(P), NEW f \in Frames({"none", "timer"} \cup P), NEW l \in Loop
  PROVE  /\ Stop(p) \in Pollers(P) /\ LoopsFrom(p, Stop(p), {})
         /\ Start(p, f) \in Pollers(P) /\ LoopsFrom(p, Start(p, f), {f})
         /\ Fire(p, l, f) \in Pollers(P) /\ LoopsFrom(p, Fire(p, l, f), {f})
         /\ Settle(p, l) \in Pollers(P) /\ LoopsFrom(p, Settle(p, l), {})
         /\ [p EXCEPT !.loop[l] = f] \in Pollers(P) /\ LoopsFrom(p, [p EXCEPT !.loop[l] = f], {f})
<1> DEFINE F == Frames({"none", "timer"} \cup P)
<1>0. PICK on, t, loop : /\ on \in BOOLEAN /\ t \in 0 .. MaxLoops /\ loop \in [Loop -> F]
                        /\ p = [on |-> on, timer |-> t, loop |-> loop]
  BY DEF Pollers
<1>1. p = [on |-> on, timer |-> t, loop |-> loop]
  BY <1>0
<1>2. NoTask \in F /\ Waiting \in F /\ f \in F /\ l \in 0 .. MaxLoops /\ 0 \in 0 .. MaxLoops
  <2>1. NoTask \in F /\ Waiting \in F
    BY RestingFrames
  <2>2. l \in 0 .. MaxLoops /\ 0 \in 0 .. MaxLoops
    BY PeersAssumption DEF Loop
  <2>3. QED
    BY <2>1, <2>2
<1> HIDE DEF F
<1>3. ASSUME NEW b \in BOOLEAN, NEW n \in 0 .. MaxLoops, NEW g \in [Loop -> F]
      PROVE  [on |-> b, timer |-> n, loop |-> g] \in Pollers(P)
  BY DEF Pollers, F
<1>4. ASSUME NEW x, NEW h \in F
      PROVE  /\ [loop EXCEPT ![x] = h] \in [Loop -> F]
             /\ \A k \in Loop : [loop EXCEPT ![x] = h][k] \in {h, loop[k]}
  BY <1>0
<1>5. Stop(p) \in Pollers(P) /\ LoopsFrom(p, Stop(p), {})
  <2> DEFINE still == [k \in Loop |-> IF k = t /\ loop[k] = Waiting THEN NoTask ELSE loop[k]]
  <2>1. Stop(p) = [on |-> FALSE, timer |-> 0, loop |-> still]
    <3>1. p.timer = t /\ p.loop = loop
      BY <1>1
    <3>2. Stop(p) = [p EXCEPT !.on = FALSE, !.timer = 0, !.loop = still]
      BY <3>1, Zenon DEF Stop
    <3> HIDE DEF still
    <3>3. QED
      BY <1>1, <3>2
  <2>2. still \in [Loop -> F]
    BY <1>0, <1>2
  <2>3. \A k \in Loop : still[k] \in {loop[k], NoTask}
    OBVIOUS
  <2> HIDE DEF still
  <2>4. Stop(p) \in Pollers(P)
    BY <1>0, <1>2, <1>3, <2>1, <2>2
  <2>5. p.loop = loop /\ Stop(p).loop = still
    BY <1>1, <2>1
  <2>6. QED
    BY <2>3, <2>4, <2>5 DEF LoopsFrom
<1>6. Start(p, f) \in Pollers(P) /\ LoopsFrom(p, Start(p, f), {f})
  <2>0. PICK x : x = FreeLoop(p)
    OBVIOUS
  <2> DEFINE more == [loop EXCEPT ![x] = f]
  <2>1. Start(p, f) = p \/ Start(p, f) = [on |-> TRUE, timer |-> t, loop |-> more]
    <3>1. Start(p, f) = p \/ Start(p, f) = [p EXCEPT !.on = TRUE, !.loop[x] = f]
      BY <2>0 DEF Start
    <3>2. [p EXCEPT !.on = TRUE, !.loop[x] = f] = [on |-> TRUE, timer |-> t, loop |-> more]
      <4>1. PICK q : q = [p EXCEPT !.on = TRUE, !.loop[x] = f]
        OBVIOUS
      <4>2. p.loop = loop
        BY <1>1
      <4>3. q = [p EXCEPT !.on = TRUE, !.loop = more]
        BY <4>1, <4>2, Zenon
      <4> HIDE DEF more
      <4>4. q = [on |-> TRUE, timer |-> t, loop |-> more]
        BY <1>1, <4>3
      <4>5. QED
        BY <4>1, <4>4
    <3>3. QED
      BY <3>1, <3>2
  <2>2. more \in [Loop -> F] /\ \A k \in Loop : more[k] \in {f, loop[k]}
    BY <1>0, <1>2, <1>4
  <2> HIDE DEF more
  <2>3. QED
    <3>1. [on |-> TRUE, timer |-> t, loop |-> more] \in Pollers(P) /\ p.loop = loop
      <4>1. TRUE \in BOOLEAN /\ t \in 0 .. MaxLoops /\ more \in [Loop -> F] /\ p.loop = loop
        BY <1>0, <1>1, <2>2
      <4>2. QED
        BY <1>3, <4>1
    <3>2. Start(p, f).loop = loop \/ Start(p, f).loop = more
      BY <2>1, <3>1
    <3>3. QED
      BY <2>1, <2>2, <3>1, <3>2 DEF LoopsFrom
<1>7. Fire(p, l, f) \in Pollers(P) /\ LoopsFrom(p, Fire(p, l, f), {f})
  <2> DEFINE h == IF on THEN f ELSE NoTask
             fired == [loop EXCEPT ![l] = h]
  <2>1. Fire(p, l, f) = [on |-> on, timer |-> t, loop |-> fired]
    BY <1>1 DEF Fire
  <2>2. h \in F /\ h \in {f, NoTask}
    BY <1>0, <1>2
  <2>3. fired \in [Loop -> F] /\ \A k \in Loop : fired[k] \in {h, loop[k]}
    BY <1>0, <1>4, <2>2
  <2> HIDE DEF fired, h
  <2>4. QED
    BY <1>0, <1>1, <1>3, <2>1, <2>2, <2>3 DEF LoopsFrom
<1>8. Settle(p, l) \in Pollers(P) /\ LoopsFrom(p, Settle(p, l), {})
  <2> DEFINE h == IF on THEN Waiting ELSE NoTask
             n == IF on THEN l ELSE t
             rest == [loop EXCEPT ![l] = h]
  <2>1. Settle(p, l) = [on |-> on, timer |-> n, loop |-> rest]
    BY <1>1 DEF Settle
  <2>2. h \in F /\ h \in {Waiting, NoTask} /\ n \in 0 .. MaxLoops
    BY <1>0, <1>2
  <2>3. rest \in [Loop -> F] /\ \A k \in Loop : rest[k] \in {h, loop[k]}
    BY <1>0, <1>4, <2>2
  <2> HIDE DEF rest, h, n
  <2>4. QED
    BY <1>0, <1>1, <1>3, <2>1, <2>2, <2>3 DEF LoopsFrom
<1>9. [p EXCEPT !.loop[l] = f] \in Pollers(P) /\ LoopsFrom(p, [p EXCEPT !.loop[l] = f], {f})
  <2> DEFINE next == [loop EXCEPT ![l] = f]
  <2>1. [p EXCEPT !.loop[l] = f] = [on |-> on, timer |-> t, loop |-> next]
    BY <1>1
  <2>2. next \in [Loop -> F] /\ \A k \in Loop : next[k] \in {f, loop[k]}
    BY <1>0, <1>2, <1>4
  <2> HIDE DEF next
  <2>3. QED
    BY <1>0, <1>1, <1>3, <2>1, <2>2 DEF LoopsFrom
<1>10. QED
  BY <1>5, <1>6, <1>7, <1>8, <1>9

LEMMA UnstartedType == \A P : Unstarted \in Pollers(P)
<1>1. [l \in Loop |-> NoTask] \in [Loop -> Frames({"none", "timer"})]
  BY RestingFrames
<1>2. \A P : [l \in Loop |-> NoTask] \in [Loop -> Frames({"none", "timer"} \cup P)]
  BY RestingFrames
<1>3. 0 \in 0 .. MaxLoops
  BY PeersAssumption
<1>4. QED
  BY <1>2, <1>3 DEF Pollers, Unstarted


-----------------------------------------------------------------------------
(***************************************************************************)
(* The coordinator's room and the host's user.                             *)
(***************************************************************************)
\* The calls the model makes that write the room.
Writing ==
       [op : {"announce"}, secret : {TRUE}, member : Member, generation : Generation]
  \cup [op : {"resume", "guestState"}, secret : {TRUE}, member : Member]
  \cup Controls

LEMMA ControlFields ==
  ASSUME NEW c \in Controls
  PROVE  \/ c.op = "lock" /\ c.locked \in BOOLEAN
         \/ c.op = "remove" /\ c.member \in Member
<1>1. c \in Call /\ c.op \in {"lock", "remove"}
  BY PeersAssumption
<1>2. c.op \notin {"join", "hostState", "resume", "guestState", "announce"} \cup SignalOps
  BY <1>1 DEF SignalOps, PublishOps, ReadOps
<1>3. c \in [op : {"lock"}, secret : BOOLEAN, locked : BOOLEAN]
      \/ c \in [op : {"resume", "guestState", "remove"}, secret : BOOLEAN, member : Member]
  BY <1>1, <1>2 DEF Call
<1>4. QED
  BY <1>1, <1>3

\* An accepted call turns a room into a room, brings nobody back, and expels whom it removes.
LEMMA AcceptsType ==
  ASSUME room \in Room, NEW c \in Writing, Accepts(c)
  PROVE  /\ room' \in Room /\ room.removed \subseteq room'.removed
         /\ c.op = "remove" => c.member \in room'.removed
<1>1. room' = Mutated(c, room, Now, NoMember)
  BY DEF Accepts
<1>2. Now \in Nat
  BY DEF Now
<1>3. CASE c.op = "announce"
  <2>1. c.member \in Member /\ c.generation \in Generation
    BY <1>3, ControlFields DEF Writing
  <2>2. room' = [room EXCEPT !.generation = [@ EXCEPT ![c.member] = c.generation],
                             !.lastSeenAt = [@ EXCEPT ![c.member] = Now]]
    BY <1>1, <1>3 DEF Mutated
  <2>3. QED
    BY <1>2, <1>3, <2>1, <2>2 DEF Room
<1>4. CASE c.op \in {"resume", "guestState"}
  <2>1. c.member \in Member
    BY <1>4, ControlFields DEF Writing
  <2>2. room' = [room EXCEPT !.lastSeenAt = [@ EXCEPT ![c.member] = Now]]
    BY <1>1, <1>4 DEF Mutated
  <2>3. QED
    BY <1>2, <1>4, <2>1, <2>2 DEF Room
<1>5. CASE c.op = "lock"
  <2>1. c.locked \in BOOLEAN
    BY <1>5, ControlFields DEF Writing
  <2>2. room' = [room EXCEPT !.locked = c.locked]
    BY <1>1, <1>5 DEF Mutated
  <2>3. QED
    BY <1>5, <2>1, <2>2 DEF Room
<1>6. CASE c.op = "remove"
  <2>1. c.member \in Member
    BY <1>6, ControlFields DEF Writing
  <2>2. room' = [room EXCEPT !.removed = @ \cup {c.member},
                             !.generation = [@ EXCEPT ![c.member] = NoGeneration],
                             !.lastSeenAt = [@ EXCEPT ![c.member] = 0]]
    BY <1>1, <1>6 DEF Mutated
  <2>3. QED
    BY <1>6, <2>1, <2>2 DEF Room
<1>7. QED
  BY <1>3, <1>4, <1>5, <1>6, ControlFields DEF Writing

\* Who writes the room.
LEMMA RoomWrites ==
  ASSUME IInv, [Next]_vars
  PROVE  \/ UNCHANGED room
         \/ \E c \in Writing : Accepts(c)
         \/ \E m \in Member : room' = [room EXCEPT !.lastSeenAt[m] = Now - 1]
<1>1. ASSUME NEW m \in Member
      PROVE  /\ GuestCall("resume", m) \in Writing /\ GuestCall("guestState", m) \in Writing
             /\ \A g \in Generation : GuestSignal("announce", m, g) \in Writing
  BY DEF GuestCall, GuestSignal, Writing
<1>2. ASSUME NEW m \in Member, NEW l \in Loop, GuestAt(m, l, "announce")
      PROVE  GenOf(m, l) \in Generation
  BY <1>2 DEF IInv, OffersOK, FramesOK, FrameOK, GuestAt, GenOf, GuestPlaces
<1>3. ASSUME NEW m \in Member, NEW l \in Loop, Announce(m, l) \/ GuestRequestFails(m, l)
      PROVE  UNCHANGED room \/ \E c \in Writing : Accepts(c)
  BY <1>1, <1>2, <1>3 DEF Announce, GuestRequestFails, GuestRefused, coordinator
<1>4. ASSUME NEW m \in Member, NEW l \in Loop, GuestState(m, l)
      PROVE  UNCHANGED room \/ \E c \in Writing : Accepts(c)
  BY <1>1, <1>4 DEF GuestState, GuestRefused, coordinator
<1>5. ASSUME NEW m \in Member, GuestRefreshes(m)
      PROVE  UNCHANGED room \/ \E c \in Writing : Accepts(c)
  BY <1>1, <1>5 DEF GuestRefreshes
<1>6. CASE ControlExecuted \/ ControlFails
  <2>1. control.at = "sent"
    BY <1>6 DEF ControlExecuted, ControlFails
  <2>2. control.call \in Writing
    BY <2>1 DEF IInv, RoomOK, Writing
  <2>3. QED
    BY <1>6, <2>2 DEF ControlExecuted, ControlFails
<1>7. ASSUME NEW m \in Member, PresenceLapses(m)
      PROVE  room' = [room EXCEPT !.lastSeenAt[m] = Now - 1]
  BY <1>7 DEF PresenceLapses
<1>8. ASSUME NEW l \in Loop, HostLoop(l) \/ HostReadFails(l)
      PROVE  UNCHANGED room
  BY <1>8 DEF HostLoop, HostTimer, HostReads, HostUses, HostTickEnds, HostReadFails, coordinator
<1>9. ASSUME NEW l \in Loop, NEW m \in Member,
             Ensure(l, m) \/ OfferPublishFails(l, m) \/ AnswerReadFails(l, m)
      PROVE  UNCHANGED room
  BY <1>9 DEF Ensure, OfferCreated, OfferPublished, AnswerRead, AnswerUsed, AnswerApplied,
              OfferPublishFails, AnswerReadFails, coordinator
<1>10. ASSUME NEW l \in Loop, NEW m \in Member,
              \/ GuestTimer(m, l) \/ OfferRead(m, l) \/ OfferUsed(m, l)
              \/ OfferAccepted(m, l) \/ AnswerPublished(m, l)
       PROVE  UNCHANGED room
  BY <1>10 DEF GuestTimer, OfferRead, OfferUsed, OfferAccepted, AnswerPublished, GuestRefused, coordinator
<1>11. ASSUME NEW m \in Member,
              \/ HostOpens(m) \/ GuestOpens(m) \/ HostNotices(m) \/ GuestNotices(m)
              \/ HostLoses(m) \/ GuestLoses(m)
       PROVE  UNCHANGED room
  BY <1>11 DEF HostOpens, GuestOpens, HostNotices, GuestNotices, HostLoses, GuestLoses, HostBreaks,
               GuestBreaks, coordinator
<1>12. CASE \/ \E c \in Controls : Ask(c)
            \/ ControlUsed \/ HostRefreshes
            \/ \E m \in Member, g \in Generation : SignalExpires(m, g)
            \/ UNCHANGED vars
  BY <1>12 DEF Ask, ControlUsed, HostRefreshes, SignalExpires, coordinator, vars
<1>14. QED
  BY <1>3, <1>4, <1>5, <1>6, <1>7, <1>8, <1>9, <1>10, <1>11, <1>12
     DEF Next, Environment, GuestLoop

LEMMA RoomStep == IInv /\ [Next]_vars => RoomOK'
<1> SUFFICES ASSUME IInv, [Next]_vars
             PROVE  RoomOK'
  OBVIOUS
<1>1. RoomOK
  BY DEF IInv
<1>2. room' \in Room /\ room.removed \subseteq room'.removed
  <2>1. ASSUME NEW m \in Member, room' = [room EXCEPT !.lastSeenAt[m] = Now - 1]
        PROVE  room' \in Room /\ room.removed \subseteq room'.removed
    <3>1. Now - 1 \in Nat
      BY DEF Now
    <3>2. QED
      BY <1>1, <2>1, <3>1 DEF RoomOK, Room
  <2>2. QED
    BY <1>1, <2>1, RoomWrites, AcceptsType DEF RoomOK
<1>3. ASSUME UNCHANGED <<control, dismissed>>
      PROVE  RoomOK'
  BY <1>1, <1>2, <1>3 DEF RoomOK
<1>4. ASSUME NEW c \in Controls, Ask(c)
      PROVE  RoomOK'
  BY <1>1, <1>2, <1>4 DEF RoomOK, Ask
<1>5. CASE ControlExecuted
  <2>1. /\ control.at = "sent" /\ Accepts(control.call) /\ control' = [control EXCEPT !.at = "answered"]
        /\ UNCHANGED dismissed
    BY <1>5 DEF ControlExecuted
  <2>2. PICK c \in Controls : control = [at |-> "sent", call |-> c]
    BY <1>1, <2>1 DEF RoomOK
  <2>3. control' = [at |-> "answered", call |-> c] /\ control.call = c
    BY <2>1, <2>2
  <2>4. c.op = "remove" => c.member \in room'.removed
    BY <1>1, <2>1, <2>3, AcceptsType DEF RoomOK, Writing
  <2>5. QED
    BY <1>1, <1>2, <2>1, <2>3, <2>4 DEF RoomOK
<1>6. CASE ControlFails \/ HostRefreshes
  BY <1>1, <1>2, <1>6 DEF RoomOK, ControlFails, HostRefreshes
<1>7. CASE ControlUsed
  <2>1. /\ control.at = "answered" /\ control' = [at |-> "idle"]
        /\ \/ UNCHANGED dismissed
           \/ control.call.op # "lock" /\ dismissed' = dismissed \cup {control.call.member}
    BY <1>7 DEF ControlUsed
  <2>2. control.call.op \in {"lock", "remove"}
    BY <1>1, <2>1, ControlFields DEF RoomOK
  <2>3. QED
    BY <1>1, <1>2, <2>1, <2>2 DEF RoomOK
<1>8. ASSUME NEW l \in Loop, HostLoop(l) \/ HostReadFails(l)
      PROVE  RoomOK'
  BY <1>3, <1>8 DEF HostLoop, HostTimer, HostReads, HostUses, HostTickEnds, HostReadFails, user
<1>9. ASSUME NEW l \in Loop, NEW m \in Member,
             Ensure(l, m) \/ OfferPublishFails(l, m) \/ AnswerReadFails(l, m)
      PROVE  RoomOK'
  BY <1>3, <1>9 DEF Ensure, OfferCreated, OfferPublished, AnswerRead, AnswerUsed, AnswerApplied,
                    OfferPublishFails, AnswerReadFails, user
<1>10. ASSUME NEW l \in Loop, NEW m \in Member, GuestLoop(m, l) \/ GuestRequestFails(m, l)
       PROVE  RoomOK'
  BY <1>3, <1>10 DEF GuestLoop, GuestTimer, Announce, GuestState, OfferRead, OfferUsed,
                     OfferAccepted, AnswerPublished, GuestRequestFails, user
<1>11. ASSUME NEW m \in Member,
              \/ HostOpens(m) \/ GuestOpens(m) \/ HostNotices(m) \/ GuestNotices(m)
              \/ HostLoses(m) \/ GuestLoses(m) \/ GuestRefreshes(m) \/ PresenceLapses(m)
              \/ \E g \in Generation : SignalExpires(m, g)
       PROVE  RoomOK'
  BY <1>3, <1>11 DEF HostOpens, GuestOpens, HostNotices, GuestNotices, HostLoses, GuestLoses,
                     HostBreaks, GuestBreaks, GuestRefreshes, PresenceLapses, SignalExpires, user
<1>12. CASE UNCHANGED vars
  BY <1>3, <1>12 DEF vars, user
<1>14. QED
  BY <1>4, <1>5, <1>6, <1>7, <1>8, <1>9, <1>10, <1>11, <1>12 DEF Next, Environment


-----------------------------------------------------------------------------
(***************************************************************************)
(* Sessions.                                                               *)
(***************************************************************************)
\* Every set of natural numbers that is not empty has a least element.
LEMMA LeastNatural ==
  ASSUME NEW T, T \subseteq Nat, T # {}
  PROVE  \E n \in T : \A m \in T : n <= m
<1> DEFINE Before == {ss \in Nat \X Nat : ss[1] < ss[2]}
<1>1. IsWellFoundedOn(Before, Nat)
  BY NatLessThanWellFounded DEF OpToRel
<1>2. PICK n \in T : \A m \in T : ~(<<m, n>> \in Before)
  <2> HIDE DEF Before
  <2>1. QED
    BY <1>1, WFMin
<1>3. ASSUME NEW m \in T, m < n
      PROVE  FALSE
  <2>1. <<m, n>> \in Nat \X Nat /\ <<m, n>>[1] < <<m, n>>[2]
    BY <1>3
  <2>2. <<m, n>> \in Before
    BY ONLY <2>1
  <2>3. QED
    BY <1>2, <2>2
<1>4. QED
  BY <1>3

\* As long as a session number is unused, the next one can be drawn.
LEMMA FreshIsNew ==
  ASSUME NEW f, \E s \in Session : f[s].state = "new"
  PROVE  Fresh(f) \in Session /\ f[Fresh(f)].state = "new"
<1> DEFINE Unused == {s \in Session : f[s].state = "new"}
<1>1. Unused \subseteq Nat /\ Unused # {}
  BY DEF Session
<1>2. PICK s \in Unused : \A k \in Unused : s <= k
  <2> HIDE DEF Unused
  <2>1. QED
    BY <1>1, LeastNatural
<1>3. \A k \in 1 .. (s - 1) : f[k].state # "new"
  BY <1>2, PeersAssumption DEF Session
<1>4. \E n \in Session : f[n].state = "new" /\ \A k \in 1 .. (n - 1) : f[k].state # "new"
  BY <1>2, <1>3
<1>5. QED
  BY <1>4 DEF Fresh

\* Closing a session, and opening another.
LEMMA CloseKeeps ==
  ASSUME NEW S, NEW f \in [Session -> S], NEW s \in 0 .. MaxSession,
         \A x \in S : [x EXCEPT !.state = "closed"] \in S
  PROVE  /\ Close(f, s) \in [Session -> S]
         /\ \A t \in Session : Close(f, s)[t] = IF t = s THEN [f[t] EXCEPT !.state = "closed"] ELSE f[t]
<1>1. CASE s = 0
  <2>1. \A t \in Session : t # 0
    BY PeersAssumption DEF Session
  <2>2. QED
    BY <1>1, <2>1 DEF Close
<1>2. CASE s # 0
  <2>1. s \in Session
    BY <1>2, PeersAssumption DEF Session
  <2>2. PICK x : x = [f[s] EXCEPT !.state = "closed"]
    OBVIOUS
  <2>3. Close(f, s) = [f EXCEPT ![s] = x]
    BY <1>2, <2>2 DEF Close
  <2>4. x \in S
    BY <2>1, <2>2
  <2>5. QED
    BY <2>1, <2>2, <2>3, <2>4
<1>3. QED
  BY <1>1, <1>2

\* A session keeps its generation, whatever state it enters.
LEMMA HostSessionEdits ==
  ASSUME NEW x \in HostSessions,
         NEW v \in {"offering", "awaiting", "connecting", "connected", "broken", "closed"}
  PROVE  /\ [x EXCEPT !.state = v] \in HostSessions
         /\ [x EXCEPT !.state = v].gen = x.gen /\ [x EXCEPT !.state = v].state = v
         /\ [x EXCEPT !.state = v].remote = x.remote /\ [x EXCEPT !.state = v].applied = x.applied
BY DEF HostSessions

\* Sessions are created and never forgotten, and keep their generation.
HostGrows ==
  \A m \in Member, s \in Session :
    Known(m, s) => Known(m, s)' /\ hostSession'[m][s].gen = hostSession[m][s].gen

LEMMA GrowsWhenUnchanged == ASSUME UNCHANGED hostSession PROVE HostGrows
BY DEF HostGrows, Known

LEMMA SessionsUnchanged ==
  ASSUME SessionsOK, UNCHANGED <<hostSession, hostPeers>>
  PROVE  SessionsOK' /\ HostGrows
BY GrowsWhenUnchanged DEF SessionsOK, Known, Held

\* One session of a guest changes.
LEMMA SessionEdit ==
  ASSUME SessionsOK, NEW m \in Member, NEW s, Known(m, s), NEW x \in HostSessions,
         x.gen = hostSession[m][s].gen, x.state \notin {"new", "closed"},
         hostSession' = [hostSession EXCEPT ![m] = [@ EXCEPT ![s] = x]], UNCHANGED hostPeers
  PROVE  SessionsOK' /\ HostGrows
<1>1. s \in Session /\ hostSession \in [Member -> [Session -> HostSessions]]
  BY DEF Known, SessionsOK
<1>2. [hostSession[m] EXCEPT ![s] = x] \in [Session -> HostSessions]
  BY <1>1
<1>3. hostSession' \in [Member -> [Session -> HostSessions]]
  BY <1>1, <1>2
<1>4. /\ hostSession'[m][s] = x
      /\ \A n \in Member, t \in Session : n # m \/ t # s => hostSession'[n][t] = hostSession[n][t]
  BY <1>1
<1>5. \A n \in Member, t \in Session :
        /\ hostSession'[n][t].state = "new" <=> hostSession[n][t].state = "new"
        /\ hostSession'[n][t].gen = hostSession[n][t].gen
        /\ hostSession'[n][t].state = "closed" => hostSession[n][t].state = "closed"
  BY <1>1, <1>4 DEF Known
<1>6. HostGrows
  BY <1>5 DEF HostGrows, Known
<1>7. \A n \in Member, t \in Session : Known(n, t)' => hostSession'[n][t].gen \in Generation
  BY <1>5 DEF Known, SessionsOK
<1>8. \A n \in Member : Held(hostSession'[n], hostPeers'[n])
  <2> TAKE n \in Member
  <2>1. hostPeers[n] # 0 => hostPeers[n] \in Session
    BY PeersAssumption DEF SessionsOK, Session
  <2>2. QED
    BY <1>5, <2>1 DEF Held, SessionsOK
<1>9. QED
  BY <1>3, <1>6, <1>7, <1>8 DEF SessionsOK

\* One of the calls of ensureHostPeer goes on or ends.
LEMMA EnsureEdit ==
  ASSUME EnsuresOK, HostGrows, NEW l \in Loop, NEW m \in Member, NEW e \in Ensures,
         \/ e.at \in {"hung", "done"}
         \/ e.session = ensure[l][m].session /\ ensure[l][m].at \notin {"hung", "done"},
         ensure' = [ensure EXCEPT ![l] = [@ EXCEPT ![m] = e]]
  PROVE  EnsuresOK'
<1>1. [ensure[l] EXCEPT ![m] = e] \in [Member -> Ensures]
  BY DEF EnsuresOK
<1>2. ensure' \in [Loop -> [Member -> Ensures]]
  BY <1>1 DEF EnsuresOK
<1>3. /\ ensure'[l][m] = e
      /\ \A k \in Loop, n \in Member : k # l \/ n # m => ensure'[k][n] = ensure[k][n]
  BY DEF EnsuresOK
<1>4. \A k \in Loop, n \in Member :
        ensure'[k][n].at \notin {"hung", "done"} =>
          ensure[k][n].at \notin {"hung", "done"} /\ ensure'[k][n].session = ensure[k][n].session
  BY <1>3
<1>5. \A k \in Loop, n \in Member :
        ensure'[k][n].at \notin {"hung", "done"} =>
          /\ ensure'[k][n].session \in Session
          /\ hostSession'[n][ensure'[k][n].session].state # "new"
  <2> TAKE k \in Loop, n \in Member
  <2> HAVE ensure'[k][n].at \notin {"hung", "done"}
  <2>1. Known(n, ensure[k][n].session) /\ ensure'[k][n].session = ensure[k][n].session
    BY <1>4 DEF EnsuresOK
  <2>2. ensure[k][n].session \in Session
    BY <2>1 DEF Known
  <2>3. QED
    BY <2>1, <2>2 DEF HostGrows, Known
<1>6. QED
  BY <1>2, <1>5 DEF EnsuresOK, Known

LEMMA EnsuresUnchanged == ASSUME EnsuresOK, HostGrows, UNCHANGED ensure PROVE EnsuresOK'
<1>1. ASSUME NEW l \in Loop, NEW m \in Member, ensure[l][m].at \notin {"hung", "done"}
      PROVE  hostSession'[m][ensure[l][m].session].state # "new" /\ ensure[l][m].session \in Session
  BY <1>1 DEF EnsuresOK, HostGrows, Known
<1>2. QED
  BY <1>1 DEF EnsuresOK, Known

\* The two ways a call of ensureHostPeer goes on.
LEMMA GoesEdit ==
  ASSUME EnsuresOK, NEW l \in Loop, NEW m \in Member, ensure[l][m].at \notin {"hung", "done"},
         HostGrows,
         \/ \E where \in {"publish", "ask", "answer", "apply", "done"}, got \in 0 .. MaxSession :
                EnsureGoes(l, m, where, got)
         \/ EnsureCutOff(l, m)
  PROVE  EnsuresOK'
<1>1. NoEnsure \in Ensures /\ NoEnsure.at = "done"
      /\ [NoEnsure EXCEPT !.at = "hung"] \in Ensures /\ [NoEnsure EXCEPT !.at = "hung"].at = "hung"
  BY PeersAssumption DEF NoEnsure, Ensures
<1>2. ASSUME NEW where \in {"publish", "ask", "answer", "apply", "done"}, NEW got \in 0 .. MaxSession,
             EnsureGoes(l, m, where, got)
      PROVE  EnsuresOK'
  <2>1. PICK e : e = IF where = "done" THEN NoEnsure ELSE [ensure[l][m] EXCEPT !.at = where, !.got = got]
    OBVIOUS
  <2>2. ensure' = [ensure EXCEPT ![l] = [@ EXCEPT ![m] = e]]
    BY <1>2, <2>1 DEF EnsureGoes
  <2>3. ensure[l][m] \in Ensures
    BY DEF EnsuresOK
  <2>4. e \in Ensures /\ (e.at \in {"hung", "done"} \/ e.session = ensure[l][m].session)
    BY <1>1, <2>1, <2>3 DEF Ensures
  <2>5. QED
    BY <2>2, <2>4, EnsureEdit
<1>3. CASE EnsureCutOff(l, m)
  <2>1. PICK e : e \in {NoEnsure, [NoEnsure EXCEPT !.at = "hung"]}
                 /\ ensure' = [ensure EXCEPT ![l] = [@ EXCEPT ![m] = e]]
    BY <1>3 DEF EnsureCutOff, EnsureGoes
  <2>2. QED
    BY <1>1, <2>1, EnsureEdit
<1>4. QED
  BY <1>2, <1>3


-----------------------------------------------------------------------------
(***************************************************************************)
(* hostTick uses what it has read: guest by guest.                         *)
(***************************************************************************)
\* What becomes of the sessions of one guest.
ClosedFor(view, m) ==
  IF Keeps(view, m) THEN hostSession[m] ELSE Close(hostSession[m], hostPeers[m])

Created(view, m) == [NoSession EXCEPT !.gen = view.generation[m], !.state = "offering"]

NewSession(view, m, closed) ==
  /\ \E s \in Session : closed[s].state = "new"
  /\ hostPeers'[m] = Fresh(closed)
  /\ hostSession'[m] = [closed EXCEPT ![Fresh(closed)] = Created(view, m)]

LEMMA UsesOneGuest ==
  ASSUME NEW l \in Loop, NEW m \in Member, HostUses(l), EnsuresOK, NEW view, view = hostRead[l],
         NEW closed, closed = ClosedFor(view, m)
  PROVE  \/ /\ m \in Live(view) /\ Keeps(view, m)
            /\ hostPeers'[m] = hostPeers[m]
            /\ \/ hostSession'[m] = closed
               \/ hostSession'[m] = [closed EXCEPT ![hostPeers[m]].state = "offering"]
         \/ m \in Live(view) /\ ~Keeps(view, m) /\ NewSession(view, m, closed)
         \/ /\ m \notin Live(view) /\ ~Keeps(view, m)
            /\ hostPeers'[m] = 0
            /\ hostSession'[m] = closed
<1> DEFINE create == {n \in Live(view) : ~Keeps(view, n)}
           shut   == [n \in Member |-> ClosedFor(view, n)]
<1>1. shut[m] = closed
  OBVIOUS
<1>2. /\ \A n \in create : \E s \in Session : shut[n][s].state = "new"
      /\ hostSession' = [n \in Member |->
           IF n \in create THEN [shut[n] EXCEPT ![Fresh(shut[n])] = Created(view, n)]
           ELSE IF n \in Live(view) /\ ~shut[n][hostPeers[n]].offered
             THEN [shut[n] EXCEPT ![hostPeers[n]].state = "offering"]
           ELSE shut[n]]
      /\ hostPeers' = [n \in Member |->
           IF Keeps(view, n) THEN hostPeers[n]
           ELSE IF n \in create THEN Fresh(shut[n]) ELSE 0]
  BY Zenon DEF HostUses, ClosedFor, Created
<1> HIDE DEF shut
<1>3. Keeps(view, m) => m \in Live(view)
  BY DEF Keeps
<1>4. m \in create <=> m \in Live(view) /\ ~Keeps(view, m)
  OBVIOUS
<1> HIDE DEF create
<1>5. /\ m \in create => \E s \in Session : closed[s].state = "new"
      /\ hostPeers'[m] = IF Keeps(view, m) THEN hostPeers[m]
                         ELSE IF m \in create THEN Fresh(closed) ELSE 0
      /\ hostSession'[m] = IF m \in create THEN [closed EXCEPT ![Fresh(closed)] = Created(view, m)]
                           ELSE IF m \in Live(view) /\ ~closed[hostPeers[m]].offered
                             THEN [closed EXCEPT ![hostPeers[m]].state = "offering"]
                           ELSE closed
  BY <1>1, <1>2, Zenon
<1>6. QED
  BY <1>3, <1>4, <1>5 DEF NewSession

LEMMA UsesEnsure ==
  ASSUME NEW l \in Loop, NEW m \in Member, HostUses(l), EnsuresOK
  PROVE  \/ m \notin Live(hostRead[l]) /\ ensure'[l][m] = NoEnsure
         \/ /\ m \in Live(hostRead[l])
            /\ \E at \in {"offer", "ask", "done"} :
                 ensure'[l][m] = [at |-> at, session |-> hostPeers'[m], got |-> 0]
<1>1. PICK peers, session :
        /\ hostPeers' = peers
        /\ ensure' = [ensure EXCEPT ![l] =
             [n \in Member |->
                IF n \notin Live(hostRead[l]) THEN NoEnsure
                ELSE LET s == session[n][peers[n]] IN
                  [at |-> IF ~s.offered THEN "offer" ELSE IF ~s.applied THEN "ask" ELSE "done",
                   session |-> peers[n], got |-> 0]]]
  BY Zenon DEF HostUses
<1>2. DOMAIN ensure = Loop
  BY DEF EnsuresOK
<1>3. ensure'[l][m] = IF m \notin Live(hostRead[l]) THEN NoEnsure
                      ELSE [at |-> IF ~session[m][peers[m]].offered THEN "offer"
                                   ELSE IF ~session[m][peers[m]].applied THEN "ask" ELSE "done",
                            session |-> peers[m], got |-> 0]
  BY <1>1, <1>2
<1>4. QED
  BY <1>1, <1>3


\* The sessions of the guest m after the tick has used what it read.
LEMMA UsesMember ==
  ASSUME NEW l \in Loop, NEW m \in Member, HostUses(l), HostOK
  PROVE  /\ hostPeers'[m] \in 0 .. MaxSession
         /\ hostSession'[m] \in [Session -> HostSessions]
         /\ \A s \in Session : Known(m, s) =>
              hostSession'[m][s].state # "new" /\ hostSession'[m][s].gen = hostSession[m][s].gen
         /\ \A s \in Session : hostSession'[m][s].state # "new" => hostSession'[m][s].gen \in Generation
         /\ m \in Live(hostRead[l]) => hostPeers'[m] # 0
         /\ hostPeers'[m] # 0 =>
              /\ hostPeers'[m] \in Session
              /\ hostSession'[m][hostPeers'[m]].state \notin {"new", "closed"}
              /\ \/ hostPeers'[m] = hostPeers[m]
                    /\ hostSession'[m][hostPeers'[m]].remote = hostSession[m][hostPeers[m]].remote
                    /\ hostSession'[m][hostPeers'[m]].applied = hostSession[m][hostPeers[m]].applied
                    /\ hostSession'[m][hostPeers'[m]].state
                         \in {"offering", hostSession[m][hostPeers[m]].state}
                 \/ ~Known(m, hostPeers'[m])
                    /\ hostSession'[m][hostPeers'[m]].remote = 0
                    /\ ~hostSession'[m][hostPeers'[m]].applied
                    /\ hostSession'[m][hostPeers'[m]].state = "offering"
<1>1. PICK view : view = hostRead[l]
  OBVIOUS
<1>2. PICK closed : closed = ClosedFor(view, m)
  OBVIOUS
<1>3. /\ view \in Views /\ hostPeers[m] \in 0 .. MaxSession /\ Held(hostSession[m], hostPeers[m])
      /\ hostSession[m] \in [Session -> HostSessions]
      /\ \A s \in Session : Known(m, s) => hostSession[m][s].gen \in Generation
  BY <1>1 DEF HostOK, ReadsOK, SessionsOK
<1>4. \A s \in 0 .. MaxSession : s # 0 => s \in Session
  BY PeersAssumption DEF Session
<1>5. m \in Live(view) => view.generation[m] \in Generation
  BY <1>3 DEF Live, Views
<1>6. 0 \notin Session /\ 0 \in 0 .. MaxSession /\ Session \subseteq 0 .. MaxSession
  BY PeersAssumption DEF Session
<1>7. CASE Keeps(view, m)
  <2>1. /\ hostPeers'[m] = hostPeers[m] /\ hostPeers[m] # 0 /\ closed = hostSession[m]
        /\ \/ hostSession'[m] = closed
           \/ hostSession'[m] = [closed EXCEPT ![hostPeers[m]].state = "offering"]
    BY <1>1, <1>2, <1>7, UsesOneGuest DEF HostOK, Keeps, ClosedFor
  <2>2. hostPeers[m] \in Session
    BY <1>3, <1>4, <2>1
  <2>3. PICK x : x = hostSession[m][hostPeers[m]]
    OBVIOUS
  <2>4. x \in HostSessions /\ x.state \notin {"new", "closed"} /\ x.gen \in Generation
    BY <1>3, <2>1, <2>2, <2>3 DEF Held, Known
  <2>5. PICK y : y \in {x, [x EXCEPT !.state = "offering"]} /\ hostSession'[m] = [closed EXCEPT ![hostPeers[m]] = y]
    <3>1. CASE hostSession'[m] = closed
      <4>1. closed = [closed EXCEPT ![hostPeers[m]] = x]
        BY <1>3, <2>1, <2>2, <2>3
      <4>2. QED
        BY <3>1, <4>1
    <3>2. CASE hostSession'[m] = [closed EXCEPT ![hostPeers[m]].state = "offering"]
      <4>1. hostSession'[m] = [closed EXCEPT ![hostPeers[m]] = [x EXCEPT !.state = "offering"]]
        BY <2>1, <2>3, <3>2
      <4>2. QED
        BY <4>1
    <3>3. QED
      BY <2>1, <3>1, <3>2
  <2>6. /\ y \in HostSessions /\ y.gen = x.gen /\ y.remote = x.remote /\ y.applied = x.applied
        /\ y.state \in {"offering", x.state} /\ y.state \notin {"new", "closed"}
    <3>1. PICK z : z = [x EXCEPT !.state = "offering"]
      OBVIOUS
    <3>2. /\ z \in HostSessions /\ z.gen = x.gen /\ z.remote = x.remote /\ z.applied = x.applied
          /\ z.state = "offering"
      BY <2>4, <3>1, HostSessionEdits
    <3>3. y = x \/ y = z
      BY <2>5, <3>1
    <3>4. QED
      BY <2>4, <3>2, <3>3
  <2>7. /\ hostSession'[m] \in [Session -> HostSessions] /\ hostSession'[m][hostPeers[m]] = y
        /\ \A s \in Session : s # hostPeers[m] => hostSession'[m][s] = hostSession[m][s]
    BY <1>3, <2>1, <2>2, <2>5, <2>6
  <2>8. \A s \in Session :
          /\ Known(m, s) =>
               hostSession'[m][s].state # "new" /\ hostSession'[m][s].gen = hostSession[m][s].gen
          /\ hostSession'[m][s].state # "new" => hostSession'[m][s].gen \in Generation
    BY <1>3, <2>3, <2>4, <2>6, <2>7 DEF Known
  <2>9. QED
    BY <1>3, <2>1, <2>2, <2>3, <2>6, <2>7, <2>8
<1>8. CASE ~Keeps(view, m)
  <2>1. closed = Close(hostSession[m], hostPeers[m])
    BY <1>2, <1>8 DEF ClosedFor
  <2>2. \A x \in HostSessions :
          /\ [x EXCEPT !.state = "closed"] \in HostSessions
          /\ [x EXCEPT !.state = "closed"].gen = x.gen
          /\ [x EXCEPT !.state = "closed"].state = "closed"
    BY HostSessionEdits
  <2>3. /\ closed \in [Session -> HostSessions]
        /\ \A s \in Session : closed[s] = hostSession[m][s]
              \/ (s = hostPeers[m] /\ closed[s] = [hostSession[m][s] EXCEPT !.state = "closed"])
    BY <1>3, <2>1, <2>2, CloseKeeps
  <2>4. \A s \in Session :
          /\ Known(m, s) => closed[s].state # "new"
          /\ closed[s].gen = hostSession[m][s].gen
          /\ closed[s].state # "new" => Known(m, s)
    <3> TAKE s \in Session
    <3>1. hostSession[m][s] \in HostSessions
      BY <1>3
    <3>2. s = hostPeers[m] => hostSession[m][s].state # "new"
      BY <1>3, <1>6 DEF Held
    <3>3. CASE closed[s] = hostSession[m][s]
      BY <3>3 DEF Known
    <3>4. CASE s = hostPeers[m] /\ closed[s] = [hostSession[m][s] EXCEPT !.state = "closed"]
      BY <2>2, <3>1, <3>2, <3>4 DEF Known
    <3>5. QED
      BY <2>3, <3>3, <3>4
  <2>5. CASE m \in Live(view)
    <3>1. PICK x : x = Created(view, m)
      OBVIOUS
    <3>2. PICK s : s = Fresh(closed)
      OBVIOUS
    <3>3. /\ \E t \in Session : closed[t].state = "new"
          /\ hostPeers'[m] = s /\ hostSession'[m] = [closed EXCEPT ![s] = x]
      <4>1. /\ \E t \in Session : closed[t].state = "new"
            /\ hostPeers'[m] = Fresh(closed)
            /\ hostSession'[m] = [closed EXCEPT ![Fresh(closed)] = Created(view, m)]
        <5>1. EnsuresOK
          BY DEF HostOK
        <5>2. NewSession(view, m, closed)
          BY <1>1, <1>2, <1>8, <2>5, <5>1, UsesOneGuest
        <5>3. QED
          BY <5>2, Zenon DEF NewSession
      <4>2. QED
        BY <3>1, <3>2, <4>1, Zenon
    <3>4. s \in Session /\ closed[s].state = "new"
      BY <3>2, <3>3, FreshIsNew
    <3>5. /\ x \in HostSessions /\ x.gen = view.generation[m] /\ x.state = "offering"
          /\ x.remote = 0 /\ ~x.applied
      <4>1. PICK g \in Generation : g = view.generation[m]
        BY <1>5, <2>5
      <4>2. x = [gen |-> g, state |-> "offering", offered |-> FALSE, remote |-> 0, applied |-> FALSE]
        BY <3>1, <4>1 DEF Created, NoSession
      <4>3. g \in 0 .. MaxGeneration
        BY <4>1, PeersAssumption
      <4>4. QED
        BY <1>6, <4>1, <4>2, <4>3 DEF HostSessions
    <3>6. /\ hostSession'[m] \in [Session -> HostSessions] /\ hostSession'[m][s] = x
          /\ \A t \in Session : t # s => hostSession'[m][t] = closed[t]
      BY <2>3, <3>3, <3>4, <3>5
    <3>7. ~Known(m, s)
      BY <2>4, <3>4
    <3>8. \A t \in Session :
            /\ Known(m, t) =>
                 hostSession'[m][t].state # "new" /\ hostSession'[m][t].gen = hostSession[m][t].gen
            /\ hostSession'[m][t].state # "new" => hostSession'[m][t].gen \in Generation
      BY <1>3, <1>5, <2>4, <2>5, <3>5, <3>6, <3>7
    <3>9. QED
      BY <1>6, <3>3, <3>4, <3>5, <3>6, <3>7, <3>8
  <2>6. CASE m \notin Live(view)
    <3>1. hostPeers'[m] = 0 /\ hostSession'[m] = closed
      BY <1>1, <1>2, <1>8, <2>6, UsesOneGuest DEF HostOK
    <3>2. QED
      BY <1>1, <1>3, <1>6, <2>3, <2>4, <2>6, <3>1
  <2>7. QED
    BY <2>5, <2>6
<1>9. QED
  BY <1>7, <1>8

LEMMA UsesStep ==
  ASSUME NEW l \in Loop, HostUses(l), HostOK
  PROVE  HostOK' /\ HostGrows
<1>1. SessionsOK' /\ HostGrows
  <2>1. hostPeers' \in [Member -> 0 .. MaxSession] /\ hostSession' \in [Member -> [Session -> HostSessions]]
    <3>1. DOMAIN hostPeers' = Member /\ DOMAIN hostSession' = Member
          /\ hostPeers' = [m \in Member |-> hostPeers'[m]] /\ hostSession' = [m \in Member |-> hostSession'[m]]
      BY DEF HostUses
    <3>2. QED
      BY <3>1, UsesMember
  <2>2. HostGrows
    BY UsesMember DEF HostGrows, Known
  <2>3. QED
    BY <2>1, <2>2, UsesMember DEF SessionsOK, Known, Held
<1>2. EnsuresOK'
  <2>1. ensure' = [ensure EXCEPT ![l] = ensure'[l]] /\ \A k \in Loop : k # l => ensure'[k] = ensure[k]
    BY DEF HostUses, HostOK, EnsuresOK
  <2>2. DOMAIN ensure'[l] = Member /\ ensure'[l] = [m \in Member |-> ensure'[l][m]]
    BY DEF HostUses, HostOK, EnsuresOK
  <2>3. ASSUME NEW m \in Member
        PROVE  /\ ensure'[l][m] \in Ensures
               /\ ensure'[l][m].at \notin {"hung", "done"} =>
                    /\ ensure'[l][m].session \in Session
                    /\ hostSession'[m][ensure'[l][m].session].state # "new"
    <3>1. NoEnsure \in Ensures /\ NoEnsure.at = "done"
      BY PeersAssumption DEF NoEnsure, Ensures
    <3>2. hostPeers'[m] \in 0 .. MaxSession /\ 0 \in 0 .. MaxSession
      BY PeersAssumption, UsesMember
    <3>3. CASE m \notin Live(hostRead[l])
      BY <3>1, <3>3, UsesEnsure DEF HostOK
    <3>4. CASE m \in Live(hostRead[l])
      <4>1. PICK at \in {"offer", "ask", "done"} :
                ensure'[l][m] = [at |-> at, session |-> hostPeers'[m], got |-> 0]
        BY <3>4, UsesEnsure DEF HostOK
      <4>2. ensure'[l][m] \in Ensures /\ ensure'[l][m].session = hostPeers'[m]
        BY <3>2, <4>1 DEF Ensures
      <4>3. hostPeers'[m] \in Session /\ hostSession'[m][hostPeers'[m]].state # "new"
        BY <3>4, UsesMember
      <4>4. QED
        BY <4>2, <4>3
    <3>5. QED
      BY <3>3, <3>4
  <2>4. ensure' \in [Loop -> [Member -> Ensures]]
    <3>1. ensure'[l] \in [Member -> Ensures]
      BY <2>2, <2>3
    <3>2. QED
      BY <2>1, <3>1 DEF HostOK, EnsuresOK
  <2>5. ASSUME NEW k \in Loop, NEW m \in Member, ensure'[k][m].at \notin {"hung", "done"}
        PROVE  ensure'[k][m].session \in Session /\ hostSession'[m][ensure'[k][m].session].state # "new"
    <3>1. CASE k = l
      BY <2>3, <2>5, <3>1
    <3>2. CASE k # l
      BY <1>1, <2>1, <2>5, <3>2 DEF HostOK, EnsuresOK, HostGrows, Known
    <3>3. QED
      BY <3>1, <3>2
  <2>6. QED
    BY <2>4, <2>5 DEF EnsuresOK, Known
<1>3. ReadsOK'
  <2>1. NotRead \in Views
    BY DEF NotRead, Views
  <2>2. /\ hostRead' = [hostRead EXCEPT ![l] = NotRead]
        /\ latest' = [known |-> TRUE, locked |-> hostRead[l].locked, removed |-> hostRead[l].removed]
    BY DEF HostUses
  <2>3. hostRead[l].locked \in BOOLEAN /\ hostRead[l].removed \subseteq Member
    BY DEF HostOK, ReadsOK, Views
  <2>4. QED
    BY <2>1, <2>2, <2>3 DEF HostOK, ReadsOK
<1>4. QED
  BY <1>1, <1>2, <1>3 DEF HostOK


-----------------------------------------------------------------------------
(***************************************************************************)
(* The host's page: every step keeps what it knows of its sessions.        *)
(***************************************************************************)
\* A session enters a state that is not the end of it.
LEMMA StateEdit ==
  ASSUME SessionsOK, NEW m \in Member, NEW s, Known(m, s),
         NEW v \in {"offering", "awaiting", "connecting", "connected", "broken"},
         hostSession' = [hostSession EXCEPT ![m][s].state = v], UNCHANGED hostPeers
  PROVE  SessionsOK' /\ HostGrows
<1>1. hostSession[m][s] \in HostSessions
  BY DEF SessionsOK, Known
<1>2. PICK x : x = [hostSession[m][s] EXCEPT !.state = v]
  OBVIOUS
<1>3. x \in HostSessions /\ x.gen = hostSession[m][s].gen /\ x.state = v
  <2>1. v \in {"offering", "awaiting", "connecting", "connected", "broken", "closed"}
    OBVIOUS
  <2>2. QED
    BY <1>1, <1>2, <2>1, HostSessionEdits
<1>4. hostSession' = [hostSession EXCEPT ![m] = [@ EXCEPT ![s] = x]]
  BY <1>2
<1>5. QED
  BY <1>3, <1>4, SessionEdit

LEMMA HeldIsKnown ==
  ASSUME SessionsOK, NEW m \in Member, hostPeers[m] # 0
  PROVE  Known(m, hostPeers[m])
BY PeersAssumption DEF SessionsOK, Known, Held, Session

LEMMA BreakStep ==
  ASSUME HostOK, NEW m \in Member, HostNotices(m) \/ HostLoses(m)
  PROVE  HostOK' /\ HostGrows
<1>1. /\ hostPeers[m] # 0 /\ hostSession' = [hostSession EXCEPT ![m][hostPeers[m]].state = "broken"]
      /\ UNCHANGED <<hostPeers, ensure, hostRead, latest>>
  BY DEF HostNotices, HostLoses, HostBreaks, HostAlive
<1>2. Known(m, hostPeers[m])
  BY <1>1, HeldIsKnown DEF HostOK
<1>3. SessionsOK' /\ HostGrows
  BY <1>1, <1>2, StateEdit DEF HostOK
<1>4. QED
  BY <1>1, <1>3, EnsuresUnchanged DEF HostOK, ReadsOK

\* The session held for a guest is closed and let go.
LEMMA ReleaseStep ==
  ASSUME SessionsOK, NEW M \in SUBSET Member,
         hostSession' = [m \in Member |-> IF m \in M THEN Close(hostSession[m], hostPeers[m]) ELSE hostSession[m]],
         hostPeers' = [m \in Member |-> IF m \in M THEN 0 ELSE hostPeers[m]]
  PROVE  SessionsOK' /\ HostGrows
<1>1. 0 \in 0 .. MaxSession /\ hostPeers' \in [Member -> 0 .. MaxSession]
  BY PeersAssumption DEF SessionsOK
<1>2. ASSUME NEW m \in Member
      PROVE  /\ hostSession'[m] \in [Session -> HostSessions]
             /\ \A s \in Session :
                  /\ hostSession'[m][s].state = "new" <=> hostSession[m][s].state = "new"
                  /\ hostSession'[m][s].gen = hostSession[m][s].gen
  <2>1. hostSession[m] \in [Session -> HostSessions] /\ hostPeers[m] \in 0 .. MaxSession
    BY DEF SessionsOK
  <2>2. CASE m \notin M
    BY <2>1, <2>2
  <2>3. CASE m \in M
    <3>1. \A x \in HostSessions :
            /\ [x EXCEPT !.state = "closed"] \in HostSessions
            /\ [x EXCEPT !.state = "closed"].gen = x.gen
            /\ [x EXCEPT !.state = "closed"].state = "closed"
      BY HostSessionEdits
    <3>2. /\ hostSession'[m] \in [Session -> HostSessions]
          /\ \A s \in Session : hostSession'[m][s] = hostSession[m][s]
                \/ (s = hostPeers[m] /\ hostSession'[m][s] = [hostSession[m][s] EXCEPT !.state = "closed"])
      BY <2>1, <2>3, <3>1, CloseKeeps
    <3>3. hostPeers[m] # 0 => hostSession[m][hostPeers[m]].state # "new"
      BY DEF SessionsOK, Held
    <3>4. \A s \in Session :
            /\ hostSession'[m][s].state = "new" <=> hostSession[m][s].state = "new"
            /\ hostSession'[m][s].gen = hostSession[m][s].gen
      <4> TAKE s \in Session
      <4>1. hostSession[m][s] \in HostSessions /\ s # 0
        BY <2>1, PeersAssumption DEF Session
      <4>2. CASE hostSession'[m][s] = hostSession[m][s]
        BY <4>2
      <4>3. CASE s = hostPeers[m] /\ hostSession'[m][s] = [hostSession[m][s] EXCEPT !.state = "closed"]
        BY <3>1, <3>3, <4>1, <4>3
      <4>4. QED
        BY <3>2, <4>2, <4>3
    <3>5. QED
      BY <3>2, <3>4
  <2>4. QED
    BY <2>2, <2>3
<1>3. hostSession' \in [Member -> [Session -> HostSessions]] /\ HostGrows
  BY <1>2 DEF HostGrows, Known
<1>4. \A m \in Member, s \in Session : Known(m, s)' => hostSession'[m][s].gen \in Generation
  BY <1>2 DEF SessionsOK, Known
<1>5. \A m \in Member : Held(hostSession'[m], hostPeers'[m])
  BY DEF SessionsOK, Held
<1>6. QED
  BY <1>1, <1>3, <1>4, <1>5 DEF SessionsOK

LEMMA EnsureStep ==
  ASSUME HostOK, OffersOK, NEW l \in Loop, NEW m \in Member,
         Ensure(l, m) \/ OfferPublishFails(l, m) \/ AnswerReadFails(l, m)
  PROVE  HostOK' /\ HostGrows
<1>1. PICK s : s = ensure[l][m].session
  OBVIOUS
<1>2. ensure[l][m].at \in {"offer", "publish", "ask", "answer", "apply"}
  BY DEF Ensure, OfferCreated, OfferPublished, AnswerRead, AnswerUsed, AnswerApplied,
         OfferPublishFails, AnswerReadFails, At
<1>3. Known(m, s) /\ ensure[l][m].got \in 0 .. MaxSession /\ 0 \in 0 .. MaxSession
      /\ ensure[l][m].at \notin {"hung", "done"} /\ hostSession[m][s] \in HostSessions
  BY <1>1, <1>2, PeersAssumption DEF HostOK, EnsuresOK, SessionsOK, Known, Ensures
<1>4. UNCHANGED <<hostRead, hostPeers, latest>>
  BY DEF Ensure, OfferCreated, OfferPublished, AnswerRead, AnswerUsed, AnswerApplied,
         OfferPublishFails, AnswerReadFails
<1>5. ASSUME SessionsOK', HostGrows,
             \/ \E where \in {"publish", "ask", "answer", "apply", "done"}, got \in 0 .. MaxSession :
                    EnsureGoes(l, m, where, got)
             \/ EnsureCutOff(l, m)
      PROVE  HostOK' /\ HostGrows
  BY <1>3, <1>4, <1>5, GoesEdit DEF HostOK, ReadsOK
<1>6. CASE OfferCreated(l, m)
  <2>1. CASE UNCHANGED hostSession /\ EnsureCutOff(l, m)
    BY <1>4, <1>5, <2>1, SessionsUnchanged DEF HostOK
  <2>2. CASE /\ hostSession' = [hostSession EXCEPT ![m][s] =
                                  [@ EXCEPT !.state = "awaiting", !.offered = TRUE]]
             /\ EnsureGoes(l, m, "publish", 0)
    <3>1. PICK yes : yes = TRUE
      OBVIOUS
    <3>2. PICK x : x = [hostSession[m][s] EXCEPT !.state = "awaiting", !.offered = yes]
      OBVIOUS
    <3>3. x \in HostSessions /\ x.gen = hostSession[m][s].gen /\ x.state = "awaiting"
      BY <1>3, <3>1, <3>2 DEF HostSessions
    <3>4. hostSession' = [hostSession EXCEPT ![m] = [@ EXCEPT ![s] = x]]
      BY <2>2, <3>1, <3>2, Zenon
    <3>5. SessionsOK' /\ HostGrows
      BY <1>3, <1>4, <3>3, <3>4, SessionEdit DEF HostOK
    <3>6. QED
      BY <1>3, <1>5, <2>2, <3>5
  <2>3. QED
    BY <1>1, <1>6, <2>1, <2>2 DEF OfferCreated
<1>7. CASE OfferPublished(l, m) \/ OfferPublishFails(l, m) \/ AnswerReadFails(l, m)
  <2>1. UNCHANGED hostSession /\ \E where \in {"ask", "done"} : EnsureGoes(l, m, where, 0)
    BY <1>7 DEF OfferPublished, OfferPublishFails, AnswerReadFails
  <2>2. QED
    BY <1>3, <1>4, <1>5, <2>1, SessionsUnchanged DEF HostOK
<1>8. CASE AnswerRead(l, m)
  <2>1. PICK a : a = answers[m][hostSession[m][s].gen]
    OBVIOUS
  <2>2. UNCHANGED hostSession /\ (EnsureGoes(l, m, "answer", a) \/ EnsureGoes(l, m, "done", 0))
    BY <1>1, <1>8, <2>1 DEF AnswerRead, HostSignal
  <2>3. a \in 0 .. MaxSession
    BY <1>3, <2>1 DEF OffersOK, HostOK, SessionsOK, Known
  <2>4. QED
    BY <1>3, <1>4, <1>5, <2>2, <2>3, SessionsUnchanged DEF HostOK
<1>9. CASE AnswerUsed(l, m)
  <2>1. CASE UNCHANGED hostSession /\ EnsureGoes(l, m, "done", 0)
    BY <1>3, <1>4, <1>5, <2>1, SessionsUnchanged DEF HostOK
  <2>2. CASE /\ hostSession' = [hostSession EXCEPT ![m][s].state = "connecting"]
             /\ EnsureGoes(l, m, "apply", ensure[l][m].got)
    <3>1. SessionsOK' /\ HostGrows
      BY <1>3, <1>4, <2>2, StateEdit DEF HostOK
    <3>2. QED
      BY <1>3, <1>5, <2>2, <3>1
  <2>3. QED
    BY <1>1, <1>9, <2>1, <2>2 DEF AnswerUsed
<1>10. CASE AnswerApplied(l, m)
  <2>1. CASE EnsureCutOff(l, m) /\ UNCHANGED hostSession
    BY <1>4, <1>5, <2>1, SessionsUnchanged DEF HostOK
  <2>2. CASE /\ EnsureGoes(l, m, "done", 0) /\ IsCurrentHostPeer(m, s)
             /\ hostSession' = [hostSession EXCEPT ![m][s] =
                                  [@ EXCEPT !.remote = ensure[l][m].got, !.applied = TRUE]]
    <3>1. PICK yes, got : yes = TRUE /\ got = ensure[l][m].got
      OBVIOUS
    <3>2. PICK x : x = [hostSession[m][s] EXCEPT !.remote = got, !.applied = yes]
      OBVIOUS
    <3>3. /\ x \in HostSessions /\ x.gen = hostSession[m][s].gen
          /\ x.state = hostSession[m][s].state
      BY <1>3, <3>1, <3>2 DEF HostSessions
    <3>4. hostSession' = [hostSession EXCEPT ![m] = [@ EXCEPT ![s] = x]]
      BY <2>2, <3>1, <3>2, Zenon
    <3>5. hostSession[m][s].state \notin {"new", "closed"}
      BY <1>3, <2>2, PeersAssumption DEF HostOK, SessionsOK, Held, IsCurrentHostPeer, Known, Session
    <3>6. SessionsOK' /\ HostGrows
      BY <1>3, <1>4, <3>3, <3>4, <3>5, SessionEdit DEF HostOK
    <3>7. QED
      BY <1>3, <1>5, <2>2, <3>6
  <2>3. CASE /\ EnsureGoes(l, m, "done", 0)
             /\ hostSession' = [hostSession EXCEPT ![m][s].state = "broken"]
    <3>1. SessionsOK' /\ HostGrows
      BY <1>3, <1>4, <2>3, StateEdit DEF HostOK
    <3>2. QED
      BY <1>3, <1>5, <2>3, <3>1
  <2>4. QED
    BY <1>1, <1>10, <2>1, <2>2, <2>3 DEF AnswerApplied
<1>11. QED
  BY <1>6, <1>7, <1>8, <1>9, <1>10 DEF Ensure


LEMMA HostStep == IInv /\ [Next]_vars => HostOK' /\ HostGrows
<1> SUFFICES ASSUME IInv, [Next]_vars
             PROVE  HostOK' /\ HostGrows
  OBVIOUS
<1>1. HostOK /\ OffersOK /\ RoomOK
  BY DEF IInv
<1>2. ASSUME UNCHANGED <<hostSession, hostPeers, ensure, hostRead, latest>>
      PROVE  HostOK' /\ HostGrows
  <2>1. SessionsOK' /\ HostGrows
    BY <1>1, <1>2, SessionsUnchanged DEF HostOK
  <2>2. QED
    BY <1>1, <1>2, <2>1, EnsuresUnchanged DEF HostOK, ReadsOK
<1>3. ASSUME NEW l \in Loop, HostReads(l)
      PROVE  HostOK' /\ HostGrows
  <2>1. UNCHANGED <<hostSession, hostPeers, ensure, latest>>
        /\ hostRead' = [hostRead EXCEPT ![l] = RoomState]
    BY <1>3 DEF HostReads
  <2>2. Present(room, Now) \subseteq Member
    BY <1>1 DEF RoomOK, Room, Present, Active
  <2>3. RoomState \in Views
    BY <1>1, <2>2 DEF RoomOK, Room, RoomState, Views
  <2>4. SessionsOK' /\ HostGrows
    BY <1>1, <2>1, SessionsUnchanged DEF HostOK
  <2>5. QED
    BY <1>1, <2>1, <2>3, <2>4, EnsuresUnchanged DEF HostOK, ReadsOK
<1>4. ASSUME NEW l \in Loop, HostTickEnds(l)
      PROVE  HostOK' /\ HostGrows
  <2>1. UNCHANGED <<hostSession, hostPeers, hostRead, latest>>
        /\ ensure' = [ensure EXCEPT ![l] = [m \in Member |-> NoEnsure]]
    BY <1>4 DEF HostTickEnds
  <2>2. NoEnsure \in Ensures /\ NoEnsure.at = "done"
    BY PeersAssumption DEF NoEnsure, Ensures
  <2>3. SessionsOK' /\ HostGrows
    BY <1>1, <2>1, SessionsUnchanged DEF HostOK
  <2>4. ensure' \in [Loop -> [Member -> Ensures]]
    BY <1>1, <2>1, <2>2 DEF HostOK, EnsuresOK
  <2>5. ASSUME NEW k \in Loop, NEW m \in Member, ensure'[k][m].at \notin {"hung", "done"}
        PROVE  /\ ensure'[k][m].session \in Session
               /\ hostSession'[m][ensure'[k][m].session].state # "new"
    <3>1. k # l /\ ensure'[k][m] = ensure[k][m]
      BY <1>1, <2>1, <2>2, <2>5 DEF HostOK, EnsuresOK
    <3>2. QED
      BY <1>1, <2>1, <2>5, <3>1 DEF HostOK, EnsuresOK, Known
  <2>6. EnsuresOK'
    BY <2>4, <2>5 DEF EnsuresOK, Known
  <2>7. QED
    BY <1>1, <2>1, <2>3, <2>6 DEF HostOK, ReadsOK
<1>5. ASSUME NEW l \in Loop, HostLoop(l) \/ HostReadFails(l)
      PROVE  HostOK' /\ HostGrows
  <2>1. CASE HostTimer(l) \/ HostReadFails(l)
    BY <1>2, <2>1 DEF HostTimer, HostReadFails
  <2>2. QED
    BY <1>1, <1>3, <1>4, <1>5, <2>1, UsesStep DEF HostLoop
<1>6. ASSUME NEW l \in Loop, NEW m \in Member,
             Ensure(l, m) \/ OfferPublishFails(l, m) \/ AnswerReadFails(l, m)
      PROVE  HostOK' /\ HostGrows
  BY <1>1, <1>6, EnsureStep
<1>7. ASSUME NEW m \in Member, HostOpens(m)
      PROVE  HostOK' /\ HostGrows
  <2>1. /\ hostPeers[m] # 0 /\ hostSession' = [hostSession EXCEPT ![m][hostPeers[m]].state = "connected"]
        /\ UNCHANGED <<hostPeers, ensure, hostRead, latest>>
    BY <1>7 DEF HostOpens
  <2>2. SessionsOK' /\ HostGrows
    BY <1>1, <2>1, HeldIsKnown, StateEdit DEF HostOK
  <2>3. QED
    BY <1>1, <2>1, <2>2, EnsuresUnchanged DEF HostOK, ReadsOK
<1>8. ASSUME NEW m \in Member, HostNotices(m) \/ HostLoses(m)
      PROVE  HostOK' /\ HostGrows
  BY <1>1, <1>8, BreakStep
<1>9. CASE ControlUsed
  <2>1. control.at = "answered" /\ UNCHANGED <<hostRead, ensure>>
    BY <1>9 DEF ControlUsed
  <2>2. PICK c \in Controls : c = control.call
    BY <1>1, <2>1 DEF RoomOK
  <2>3. CASE c.op = "lock"
    <3>1. SetRoomLocked(c.locked) /\ c.locked \in BOOLEAN
      BY <1>9, <2>2, <2>3, ControlFields DEF ControlUsed
    <3>2. UNCHANGED <<hostSession, hostPeers>>
          /\ latest' = [latest EXCEPT !.locked = IF latest.known THEN c.locked ELSE @]
      BY <3>1 DEF SetRoomLocked
    <3>3. latest' \in [known : BOOLEAN, locked : BOOLEAN, removed : SUBSET Member]
      BY <1>1, <3>1, <3>2 DEF HostOK, ReadsOK
    <3>4. SessionsOK' /\ HostGrows
      BY <1>1, <3>2, SessionsUnchanged DEF HostOK
    <3>5. QED
      BY <1>1, <2>1, <3>3, <3>4, EnsuresUnchanged DEF HostOK, ReadsOK
  <2>4. CASE c.op # "lock"
    <3>1. c.member \in Member /\ RemovePeer(c.member)
      BY <1>9, <2>2, <2>4, ControlFields DEF ControlUsed
    <3>2. PICK m \in Member : m = c.member
      BY <3>1
    <3>3. /\ hostSession' = [hostSession EXCEPT ![m] = Close(@, hostPeers[m])]
          /\ hostPeers' = [hostPeers EXCEPT ![m] = 0] /\ UNCHANGED latest
      BY <3>1, <3>2 DEF RemovePeer
    <3>4. /\ hostSession' = [n \in Member |-> IF n \in {m} THEN Close(hostSession[n], hostPeers[n])
                                              ELSE hostSession[n]]
          /\ hostPeers' = [n \in Member |-> IF n \in {m} THEN 0 ELSE hostPeers[n]]
      BY <1>1, <3>3 DEF HostOK, SessionsOK
    <3>5. SessionsOK' /\ HostGrows
      BY <1>1, <3>4, ReleaseStep DEF HostOK
    <3>6. QED
      BY <1>1, <2>1, <3>3, <3>5, EnsuresUnchanged DEF HostOK, ReadsOK
  <2>5. QED
    BY <2>3, <2>4
<1>10. CASE HostRefreshes
  <2>1. /\ hostRead' = [l \in Loop |-> NotRead]
        /\ ensure' = [l \in Loop |-> [m \in Member |-> NoEnsure]]
        /\ hostSession' = [m \in Member |-> Close(hostSession[m], hostPeers[m])]
        /\ hostPeers' = [m \in Member |-> 0]
        /\ latest' = [known |-> FALSE, locked |-> FALSE, removed |-> {}]
    BY <1>10 DEF HostRefreshes
  <2>2. NotRead \in Views
    BY DEF NotRead, Views
  <2>3. NoEnsure \in Ensures /\ NoEnsure.at = "done"
    BY PeersAssumption DEF NoEnsure, Ensures
  <2>4. /\ hostSession' = [m \in Member |-> IF m \in Member THEN Close(hostSession[m], hostPeers[m])
                                            ELSE hostSession[m]]
        /\ hostPeers' = [m \in Member |-> IF m \in Member THEN 0 ELSE hostPeers[m]]
    BY <2>1
  <2>5. SessionsOK' /\ HostGrows
    BY <1>1, <2>4, ReleaseStep DEF HostOK
  <2>6. EnsuresOK'
    BY <2>1, <2>3 DEF EnsuresOK
  <2>7. ReadsOK'
    BY <2>1, <2>2 DEF ReadsOK
  <2>8. QED
    BY <2>5, <2>6, <2>7 DEF HostOK
<1>11. ASSUME NEW m \in Member, NEW l \in Loop, GuestLoop(m, l) \/ GuestRequestFails(m, l)
       PROVE  UNCHANGED host
  BY <1>11 DEF GuestLoop, GuestTimer, Announce, GuestState, OfferRead, OfferUsed, OfferAccepted,
               AnswerPublished, GuestRequestFails
<1>12. ASSUME NEW m \in Member,
              \/ GuestOpens(m) \/ GuestNotices(m) \/ GuestLoses(m) \/ GuestRefreshes(m)
              \/ PresenceLapses(m) \/ \E g \in Generation : SignalExpires(m, g)
       PROVE  UNCHANGED host
  BY <1>12 DEF GuestOpens, GuestNotices, GuestLoses, GuestBreaks, GuestRefreshes, PresenceLapses,
               SignalExpires
<1>13. CASE ControlExecuted \/ ControlFails \/ (\E c \in Controls : Ask(c)) \/ UNCHANGED vars
  BY <1>2, <1>13 DEF ControlExecuted, ControlFails, Ask, vars, host
<1>14. QED
  BY <1>2, <1>5, <1>6, <1>7, <1>8, <1>9, <1>10, <1>11, <1>12, <1>13 DEF Next, Environment, host


-----------------------------------------------------------------------------
(***************************************************************************)
(* Guests the host has dismissed.                                          *)
(***************************************************************************)
LEMMA UnansweredFrame ==
  ASSUME NEW m \in Member, Unanswered(m), hostPeers'[m] = hostPeers[m],
         \/ hostSession'[m] = hostSession[m]
         \/ /\ hostSession'[m][hostPeers[m]].state \in {"offering", "awaiting"}
            /\ hostSession'[m][hostPeers[m]].remote = 0
            /\ ~hostSession'[m][hostPeers[m]].applied,
         \A l \in Loop : ensure'[l][m] = ensure[l][m] \/ ensure'[l][m].at \notin {"answer", "apply"}
  PROVE  Unanswered(m)'
<1>1. SUFFICES ASSUME hostPeers[m] # 0
               PROVE  Unanswered(m)'
  BY DEF Unanswered
<1>2. \A l \in Loop : ensure'[l][m].at \in {"answer", "apply"} => ensure'[l][m].session # hostPeers[m]
  BY <1>1 DEF Unanswered
<1>3. /\ hostSession'[m][hostPeers[m]].state \in {"offering", "awaiting"}
      /\ hostSession'[m][hostPeers[m]].remote = 0
      /\ ~hostSession'[m][hostPeers[m]].applied
  BY <1>1 DEF Unanswered, HostSide
<1>4. QED
  BY <1>2, <1>3 DEF Unanswered, HostSide

\* What ensureHostPeer does for a removed guest.
LEMMA EnsureDismissed ==
  ASSUME IInv, NEW l \in Loop, NEW m \in Member, m \in dismissed,
         Ensure(l, m) \/ OfferPublishFails(l, m) \/ AnswerReadFails(l, m)
  PROVE  Unanswered(m)'
<1>1. Unanswered(m) /\ m \in room.removed /\ EnsuresOK /\ SessionsOK
  BY DEF IInv, DismissedOK, RoomOK, HostOK
<1>2. PICK s : s = ensure[l][m].session
  OBVIOUS
<1>3. UNCHANGED hostPeers
  BY DEF Ensure, OfferCreated, OfferPublished, AnswerRead, AnswerUsed, AnswerApplied,
         OfferPublishFails, AnswerReadFails
<1>4. ASSUME \E where \in {"publish", "ask", "done"} : EnsureGoes(l, m, where, 0)
      PROVE  \A k \in Loop : ensure'[k][m] = ensure[k][m] \/ ensure'[k][m].at \notin {"answer", "apply"}
  <2>1. PICK where \in {"publish", "ask", "done"} : EnsureGoes(l, m, where, 0)
    BY <1>4
  <2>2. PICK e : e = IF where = "done" THEN NoEnsure ELSE [ensure[l][m] EXCEPT !.at = where, !.got = 0]
    OBVIOUS
  <2>3. ensure' = [ensure EXCEPT ![l] = [@ EXCEPT ![m] = e]]
    BY <2>1, <2>2 DEF EnsureGoes
  <2>4. ensure[l][m] \in Ensures
    BY <1>1 DEF EnsuresOK
  <2>5. e.at \notin {"answer", "apply"}
    BY <2>2, <2>4 DEF Ensures, NoEnsure
  <2>6. \A k \in Loop : ensure'[k][m] = IF k = l THEN e ELSE ensure[k][m]
    BY <1>1, <2>3 DEF EnsuresOK
  <2>7. QED
    BY <2>5, <2>6
<1>5. ASSUME EnsureCutOff(l, m)
      PROVE  \A k \in Loop : ensure'[k][m] = ensure[k][m] \/ ensure'[k][m].at \notin {"answer", "apply"}
  <2>1. PICK e : e \in {NoEnsure, [NoEnsure EXCEPT !.at = "hung"]}
                 /\ ensure' = [ensure EXCEPT ![l] = [@ EXCEPT ![m] = e]]
    BY <1>5 DEF EnsureCutOff, EnsureGoes
  <2>2. e.at \notin {"answer", "apply"}
    BY <2>1 DEF NoEnsure
  <2>3. \A k \in Loop : ensure'[k][m] = IF k = l THEN e ELSE ensure[k][m]
    BY <1>1, <2>1 DEF EnsuresOK
  <2>4. QED
    BY <2>2, <2>3
<1>6. CASE OfferCreated(l, m)
  <2>1. CASE UNCHANGED hostSession /\ EnsureCutOff(l, m)
    BY <1>1, <1>3, <1>5, <2>1, UnansweredFrame
  <2>2. CASE /\ IsCurrentHostPeer(m, s) /\ EnsureGoes(l, m, "publish", 0)
             /\ hostSession' = [hostSession EXCEPT ![m][s] =
                                  [@ EXCEPT !.state = "awaiting", !.offered = TRUE]]
    <3>1. Known(m, s) /\ s # 0 /\ s = hostPeers[m] /\ hostSession[m][s] \in HostSessions
      <4>1. ensure[l][m].at = "offer"
        BY <1>6 DEF OfferCreated, At
      <4>2. QED
        <5>1. Known(m, s)
          BY <1>1, <1>2, <4>1 DEF EnsuresOK
        <5>2. s # 0 /\ hostSession[m][s] \in HostSessions
          BY <1>1, <5>1, PeersAssumption DEF SessionsOK, Known, Session
        <5>3. QED
          BY <2>2, <5>1, <5>2 DEF IsCurrentHostPeer
    <3>2. hostSession[m][s].remote = 0 /\ ~hostSession[m][s].applied
      BY <1>1, <3>1 DEF Unanswered, HostSide
    <3>3. PICK x, yes : yes = TRUE /\ x = [hostSession[m][s] EXCEPT !.state = "awaiting", !.offered = yes]
      OBVIOUS
    <3>4. x.state = "awaiting" /\ x.remote = 0 /\ ~x.applied
      BY <3>1, <3>2, <3>3 DEF HostSessions
    <3>5. hostSession' = [hostSession EXCEPT ![m][s] = x]
      BY <2>2, <3>3, Zenon
    <3>6. hostSession'[m][s] = x
      BY <1>1, <3>1, <3>5 DEF SessionsOK, Known
    <3>7. QED
      BY <1>1, <1>3, <1>4, <2>2, <3>1, <3>4, <3>6, UnansweredFrame
  <2>3. QED
    BY <1>2, <1>6, <2>1, <2>2 DEF OfferCreated
<1>7. CASE OfferPublished(l, m) \/ OfferPublishFails(l, m) \/ AnswerReadFails(l, m)
  <2>1. UNCHANGED hostSession /\ \E where \in {"ask", "done"} : EnsureGoes(l, m, where, 0)
    BY <1>7 DEF OfferPublished, OfferPublishFails, AnswerReadFails
  <2>2. QED
    BY <1>1, <1>3, <1>4, <2>1, UnansweredFrame
<1>8. CASE AnswerRead(l, m)
  <2>1. PICK c : c = HostSignal("readAnswer", m, ensure[l][m].session)
    OBVIOUS
  <2>2. c.op = "readAnswer" /\ c.member = m
    BY <2>1 DEF HostSignal
  <2>3. Verdict(c, room, Now) # "ok"
    BY <1>1, <2>2 DEF Verdict, SignalOps, ReadOps, Current, Active
  <2>4. UNCHANGED hostSession /\ EnsureGoes(l, m, "done", 0)
    BY <1>8, <2>1, <2>3 DEF AnswerRead
  <2>5. QED
    BY <1>1, <1>3, <1>4, <2>4, UnansweredFrame
<1>9. CASE AnswerUsed(l, m)
  <2>1. ensure[l][m].at = "answer" /\ ensure[l][m].session # 0
    BY <1>1, <1>9, PeersAssumption DEF AnswerUsed, At, EnsuresOK, Known, Session
  <2>2. ~IsCurrentHostPeer(m, ensure[l][m].session)
    BY <1>1, <2>1 DEF Unanswered, IsCurrentHostPeer
  <2>3. UNCHANGED hostSession /\ EnsureGoes(l, m, "done", 0)
    BY <1>9, <2>2 DEF AnswerUsed
  <2>4. QED
    BY <1>1, <1>3, <1>4, <2>3, UnansweredFrame
<1>10. CASE AnswerApplied(l, m)
  <2>1. ensure[l][m].at = "apply" /\ ensure[l][m].session # 0
    BY <1>1, <1>10, PeersAssumption DEF AnswerApplied, At, EnsuresOK, Known, Session
  <2>2. ~IsCurrentHostPeer(m, ensure[l][m].session)
    BY <1>1, <2>1 DEF Unanswered, IsCurrentHostPeer
  <2>3. UNCHANGED hostSession /\ EnsureCutOff(l, m)
    BY <1>10, <2>2 DEF AnswerApplied
  <2>4. QED
    BY <1>1, <1>3, <1>5, <2>3, UnansweredFrame
<1>11. QED
  BY <1>6, <1>7, <1>8, <1>9, <1>10 DEF Ensure

\* Who dismisses guests, and for whom the host works.
LEMMA DismissedStep == IInv /\ [Next]_vars => DismissedOK'
<1> SUFFICES ASSUME IInv, [Next]_vars
             PROVE  DismissedOK'
  OBVIOUS
<1>1. HostOK /\ RoomOK /\ DismissedOK /\ dismissed \subseteq Member /\ SessionsOK /\ EnsuresOK
  BY DEF IInv, RoomOK, Room, HostOK
<1>2. ASSUME UNCHANGED <<hostSession, hostPeers, ensure, dismissed>>
      PROVE  DismissedOK'
  BY <1>1, <1>2, UnansweredFrame DEF DismissedOK
<1>3. ASSUME NEW l \in Loop, HostUses(l)
      PROVE  DismissedOK'
  <2>1. UNCHANGED dismissed /\ \A k \in Loop : k # l => ensure'[k] = ensure[k]
    BY <1>1, <1>3 DEF HostUses, user, EnsuresOK
  <2>2. ASSUME NEW m \in Member, m \in dismissed, hostPeers'[m] # 0
        PROVE  Unanswered(m)'
    <3>1. Unanswered(m)
      BY <1>1, <2>2 DEF DismissedOK
    <3>2. ensure'[l][m].at \notin {"answer", "apply"}
      <4>1. CASE ensure'[l][m] = NoEnsure
        BY <4>1 DEF NoEnsure
      <4>2. CASE \E at \in {"offer", "ask", "done"} :
                    ensure'[l][m] = [at |-> at, session |-> hostPeers'[m], got |-> 0]
        BY <4>2
      <4>3. QED
        BY <1>1, <1>3, <4>1, <4>2, UsesEnsure
    <3>3. \A k \in Loop : ensure'[k][m] = ensure[k][m] \/ ensure'[k][m].at \notin {"answer", "apply"}
      BY <2>1, <3>2
    <3>4. CASE /\ hostPeers'[m] = hostPeers[m]
               /\ hostSession'[m][hostPeers'[m]].remote = hostSession[m][hostPeers[m]].remote
               /\ hostSession'[m][hostPeers'[m]].applied = hostSession[m][hostPeers[m]].applied
               /\ hostSession'[m][hostPeers'[m]].state \in {"offering", hostSession[m][hostPeers[m]].state}
      <4>1. /\ hostSession[m][hostPeers[m]].state \in {"offering", "awaiting"}
            /\ hostSession[m][hostPeers[m]].remote = 0
            /\ ~hostSession[m][hostPeers[m]].applied
        BY <2>2, <3>1, <3>4 DEF Unanswered, HostSide
      <4>2. QED
        BY <3>1, <3>3, <3>4, <4>1, UnansweredFrame
    <3>5. CASE /\ ~Known(m, hostPeers'[m])
               /\ hostSession'[m][hostPeers'[m]].remote = 0
               /\ ~hostSession'[m][hostPeers'[m]].applied
               /\ hostSession'[m][hostPeers'[m]].state = "offering"
      <4>1. \A k \in Loop : ensure'[k][m].at \in {"answer", "apply"} =>
                              ensure'[k][m].session # hostPeers'[m]
        BY <1>1, <3>3, <3>5 DEF EnsuresOK
      <4>2. QED
        BY <3>5, <4>1 DEF Unanswered, HostSide
    <3>6. QED
      BY <1>1, <1>3, <2>2, <3>4, <3>5, UsesMember
  <2>3. QED
    BY <1>1, <2>1, <2>2 DEF DismissedOK, Unanswered
<1>4. ASSUME NEW l \in Loop, HostTickEnds(l)
      PROVE  DismissedOK'
  <2>1. UNCHANGED <<hostSession, hostPeers, dismissed>>
        /\ ensure' = [ensure EXCEPT ![l] = [m \in Member |-> NoEnsure]]
    BY <1>4 DEF HostTickEnds, user
  <2>2. \A k \in Loop, m \in Member :
          ensure'[k][m] = ensure[k][m] \/ ensure'[k][m].at \notin {"answer", "apply"}
    BY <1>1, <2>1 DEF EnsuresOK, NoEnsure
  <2>3. QED
    BY <1>1, <2>1, <2>2, UnansweredFrame DEF DismissedOK
<1>5. ASSUME NEW l \in Loop, HostLoop(l) \/ HostReadFails(l)
      PROVE  DismissedOK'
  <2>1. CASE HostTimer(l) \/ HostReadFails(l) \/ HostReads(l)
    BY <1>2, <2>1 DEF HostTimer, HostReadFails, HostReads, user
  <2>2. QED
    BY <1>3, <1>4, <1>5, <2>1 DEF HostLoop
<1>6. ASSUME NEW l \in Loop, NEW n \in Member,
             Ensure(l, n) \/ OfferPublishFails(l, n) \/ AnswerReadFails(l, n)
      PROVE  DismissedOK'
  <2>1. UNCHANGED <<hostPeers, dismissed>>
    BY <1>6 DEF Ensure, OfferCreated, OfferPublished, AnswerRead, AnswerUsed, AnswerApplied,
                OfferPublishFails, AnswerReadFails, user
  <2>2. ASSUME NEW m \in Member, m # n
        PROVE  hostSession'[m] = hostSession[m] /\ \A k \in Loop : ensure'[k][m] = ensure[k][m]
    <3>1. \A k \in Loop : ensure'[k][m] = ensure[k][m]
      <4>1. PICK e : ensure' = [ensure EXCEPT ![l][n] = e]
        BY <1>6 DEF Ensure, OfferCreated, OfferPublished, AnswerRead, AnswerUsed, AnswerApplied,
                    OfferPublishFails, AnswerReadFails, EnsureGoes, EnsureCutOff
      <4>2. QED
        BY <1>1, <2>2, <4>1 DEF EnsuresOK
    <3>2. hostSession'[m] = hostSession[m]
      BY <1>1, <1>6, <2>2 DEF Ensure, OfferCreated, OfferPublished, AnswerRead, AnswerUsed,
                         AnswerApplied, OfferPublishFails, AnswerReadFails, SessionsOK
    <3>3. QED
      BY <3>1, <3>2
  <2>3. ASSUME NEW m \in Member, m \in dismissed
        PROVE  Unanswered(m)'
    <3>1. CASE m = n
      BY <1>6, <2>3, <3>1, EnsureDismissed
    <3>2. CASE m # n
      BY <1>1, <2>1, <2>2, <2>3, <3>2, UnansweredFrame DEF DismissedOK
    <3>3. QED
      BY <3>1, <3>2
  <2>4. QED
    BY <1>1, <2>1, <2>3 DEF DismissedOK
<1>7. ASSUME NEW n \in Member, HostOpens(n) \/ HostNotices(n) \/ HostLoses(n)
      PROVE  DismissedOK'
  <2>1. /\ UNCHANGED <<hostPeers, ensure, dismissed>> /\ hostPeers[n] # 0
        /\ HostSide(n).state \in {"connecting", "connected"}
        /\ \E v \in {"connected", "broken"} :
             hostSession' = [hostSession EXCEPT ![n][hostPeers[n]].state = v]
    BY <1>7 DEF HostOpens, HostNotices, HostLoses, HostBreaks, HostAlive, HostSide, user
  <2>2. n \notin dismissed
    BY <1>1, <2>1 DEF DismissedOK, Unanswered
  <2>3. \A m \in Member : m # n => hostSession'[m] = hostSession[m]
    BY <1>1, <2>1 DEF SessionsOK
  <2>4. QED
    BY <1>1, <2>1, <2>2, <2>3, UnansweredFrame DEF DismissedOK
<1>8. CASE ControlUsed
  <2>1. control.at = "answered" /\ UNCHANGED ensure
    BY <1>8 DEF ControlUsed
  <2>2. PICK c \in Controls : c = control.call
    BY <1>1, <2>1 DEF RoomOK
  <2>3. CASE c.op = "lock"
    <3>1. UNCHANGED <<hostSession, hostPeers, dismissed>>
      BY <1>8, <2>2, <2>3 DEF ControlUsed, SetRoomLocked
    <3>2. QED
      BY <1>2, <2>1, <3>1
  <2>4. CASE c.op # "lock"
    <3>1. c.member \in Member /\ RemovePeer(c.member) /\ dismissed' = dismissed \cup {c.member}
      BY <1>8, <2>2, <2>4, ControlFields DEF ControlUsed
    <3>2. /\ hostPeers' = [hostPeers EXCEPT ![c.member] = 0]
          /\ hostSession' = [hostSession EXCEPT ![c.member] = Close(@, hostPeers[c.member])]
      BY <3>1 DEF RemovePeer
    <3>3. ASSUME NEW m \in Member, m \in dismissed, m # c.member
          PROVE  Unanswered(m)'
      <4>1. hostPeers'[m] = hostPeers[m] /\ hostSession'[m] = hostSession[m]
        BY <1>1, <3>2, <3>3 DEF SessionsOK
      <4>2. QED
        BY <1>1, <2>1, <3>3, <4>1, UnansweredFrame DEF DismissedOK
    <3>4. hostPeers'[c.member] = 0
      BY <1>1, <3>1, <3>2 DEF SessionsOK
    <3>5. QED
      BY <1>1, <3>1, <3>3, <3>4 DEF DismissedOK, Unanswered
  <2>5. QED
    BY <2>3, <2>4
<1>9. CASE HostRefreshes
  <2>1. UNCHANGED dismissed /\ \A m \in Member : hostPeers'[m] = 0
    BY <1>9 DEF HostRefreshes
  <2>2. QED
    BY <1>1, <2>1 DEF DismissedOK, Unanswered
<1>10. ASSUME NEW m \in Member, NEW l \in Loop, GuestLoop(m, l) \/ GuestRequestFails(m, l)
       PROVE  UNCHANGED <<host, user>>
  BY <1>10 DEF GuestLoop, GuestTimer, Announce, GuestState, OfferRead, OfferUsed, OfferAccepted,
               AnswerPublished, GuestRequestFails
<1>11. ASSUME NEW m \in Member,
              \/ GuestOpens(m) \/ GuestNotices(m) \/ GuestLoses(m) \/ GuestRefreshes(m)
              \/ PresenceLapses(m) \/ \E g \in Generation : SignalExpires(m, g)
       PROVE  UNCHANGED <<host, user>>
  BY <1>11 DEF GuestOpens, GuestNotices, GuestLoses, GuestBreaks, GuestRefreshes, PresenceLapses,
               SignalExpires
<1>12. CASE ControlExecuted \/ ControlFails \/ (\E c \in Controls : Ask(c)) \/ UNCHANGED vars
  BY <1>2, <1>12 DEF ControlExecuted, ControlFails, Ask, vars, host, user
<1>14. QED
  BY <1>2, <1>5, <1>6, <1>7, <1>8, <1>9, <1>10, <1>11, <1>12 DEF Next, Environment, host, user


-----------------------------------------------------------------------------
(***************************************************************************)
(* The guests and the signals.                                             *)
(***************************************************************************)
LEMMA MadeForGrows ==
  ASSUME HostGrows, NEW m \in Member, NEW s, NEW g, MadeFor(m, s, g)
  PROVE  MadeFor(m, s, g)'
BY DEF HostGrows, MadeFor, Known

LEMMA RestingOK == \A m : FrameOK(m, NoTask) /\ FrameOK(m, Waiting)
BY RestingFrames DEF FrameOK, GuestPlaces

\* A guest's poller takes one step.
LEMMA GuestPollEdit ==
  ASSUME IInv, HostGrows, NEW m \in Member, NEW q \in Pollers(GuestPlaces), NEW new,
         LoopsFrom(guestPoll[m], q, {new}) \/ LoopsFrom(Unstarted, q, {new}),
         FrameOK(m, new)',
         guestPoll' = [guestPoll EXCEPT ![m] = q]
  PROVE  guestPoll' \in [Member -> Pollers(GuestPlaces)] /\ FramesOK'
<1>1. guestPoll \in [Member -> Pollers(GuestPlaces)] /\ FramesOK
  BY DEF IInv, PollersOK, OffersOK
<1>2. guestPoll' \in [Member -> Pollers(GuestPlaces)]
  BY <1>1
<1>3. \A n \in Member : guestPoll'[n] = IF n = m THEN q ELSE guestPoll[n]
  BY <1>1
<1>4. ASSUME NEW n \in Member, NEW f, FrameOK(n, f)
      PROVE  FrameOK(n, f)'
  BY <1>4, MadeForGrows DEF FrameOK
<1>5. FrameOK(m, NoTask)' /\ FrameOK(m, Waiting)'
  BY RestingOK, <1>4
<1>6. ASSUME NEW l \in Loop
      PROVE  FrameOK(m, q.loop[l])'
  <2>1. Unstarted.loop[l] = NoTask
    BY DEF Unstarted
  <2>2. q.loop[l] \in {new} \cup {guestPoll[m].loop[l], NoTask, Waiting}
    BY <2>1 DEF LoopsFrom
  <2>3. PICK f : f = q.loop[l]
    OBVIOUS
  <2>4. FrameOK(m, f)'
    <3>1. CASE f = new
      BY <3>1
    <3>2. CASE f = NoTask \/ f = Waiting
      BY <1>5, <3>2
    <3>3. CASE f = guestPoll[m].loop[l]
      <4>1. FrameOK(m, f)
        BY <1>1, <3>3 DEF FramesOK
      <4>2. QED
        BY <1>4, <4>1
    <3>4. QED
      BY <2>2, <2>3, <3>1, <3>2, <3>3
  <2>5. QED
    BY <2>3, <2>4
<1>7. ASSUME NEW n \in Member, NEW l \in Loop
      PROVE  FrameOK(n, guestPoll[n].loop[l])'
  <2>1. CASE n = m
    <3>1. PICK f : f = q.loop[l] /\ f = guestPoll'[n].loop[l]
      BY <1>3, <2>1
    <3>2. FrameOK(m, f)'
      BY <1>6, <3>1
    <3>3. QED
      BY <2>1, <3>1, <3>2
  <2>2. CASE n # m
    <3>1. PICK f : f = guestPoll[n].loop[l] /\ f = guestPoll'[n].loop[l]
      BY <1>3, <2>2
    <3>2. FrameOK(n, f)
      BY <1>1, <3>1 DEF FramesOK
    <3>3. FrameOK(n, f)'
      BY <1>4, <3>2
    <3>4. QED
      BY <3>1, <3>3
  <2>3. QED
    BY <2>1, <2>2
<1>8. QED
  BY <1>2, <1>7 DEF FramesOK

\* The ways a guest's poller moves.
LEMMA GuestRests ==
  ASSUME IInv, HostGrows, NEW m \in Member, NEW l \in Loop,
         \/ GuestTickEnds(m, l)
         \/ guestPoll' = [guestPoll EXCEPT ![m] = Settle(Stop(@), l)]
         \/ guestPoll' = [guestPoll EXCEPT ![m] = Stop(@)]
         \/ guestPoll' = [guestPoll EXCEPT ![m] = Unstarted]
  PROVE  guestPoll' \in [Member -> Pollers(GuestPlaces)] /\ FramesOK'
<1>1. PICK p : p = guestPoll[m]
  OBVIOUS
<1>2. p \in Pollers(GuestPlaces) /\ NoTask \in Frames({"none", "timer"} \cup GuestPlaces)
  BY <1>1, RestingFrames DEF IInv, PollersOK
<1>3. /\ Settle(p, l) \in Pollers(GuestPlaces) /\ LoopsFrom(p, Settle(p, l), {})
      /\ Stop(p) \in Pollers(GuestPlaces) /\ LoopsFrom(p, Stop(p), {})
  BY <1>2, PollerType
<1>4. PICK r : r = Stop(p)
  OBVIOUS
<1>5. Settle(r, l) \in Pollers(GuestPlaces) /\ LoopsFrom(r, Settle(r, l), {})
  BY <1>2, <1>3, <1>4, PollerType
<1>6. LoopsFrom(p, Settle(r, l), {})
  BY <1>3, <1>4, <1>5 DEF LoopsFrom
<1>7. Unstarted \in Pollers(GuestPlaces) /\ LoopsFrom(Unstarted, Unstarted, {})
  BY UnstartedType DEF LoopsFrom
<1>8. PICK q : /\ guestPoll' = [guestPoll EXCEPT ![m] = q]
              /\ q \in {Settle(p, l), Settle(r, l), r, Unstarted}
  BY <1>1, <1>4 DEF GuestTickEnds
<1>9. q \in Pollers(GuestPlaces) /\ (LoopsFrom(p, q, {}) \/ LoopsFrom(Unstarted, q, {}))
  BY <1>3, <1>4, <1>5, <1>6, <1>7, <1>8
<1>10. LoopsFrom(guestPoll[m], q, {NoTask}) \/ LoopsFrom(Unstarted, q, {NoTask})
  BY <1>1, <1>9 DEF LoopsFrom
<1>11. PICK f : f = NoTask
  OBVIOUS
<1>12. FrameOK(m, f)'
  BY <1>11, RestingOK DEF FrameOK, GuestPlaces, NoTask, Frame
<1>13. guestPoll' = [guestPoll EXCEPT ![m] = q] /\ q \in Pollers(GuestPlaces)
  BY <1>8, <1>9
<1>14. QED
  BY <1>10, <1>11, <1>12, <1>13, GuestPollEdit

LEMMA GuestRuns ==
  ASSUME IInv, HostGrows, NEW m \in Member, NEW l \in Loop,
         NEW f \in Frames({"none", "timer"} \cup GuestPlaces), FrameOK(m, f)',
         \/ guestPoll' = [guestPoll EXCEPT ![m].loop[l] = f]
         \/ guestPoll' = [guestPoll EXCEPT ![m] = Fire(@, l, f)]
         \/ guestPoll' = [guestPoll EXCEPT ![m] = Start(@, f)]
         \/ guestPoll' = [guestPoll EXCEPT ![m] = Start(Unstarted, f)]
  PROVE  guestPoll' \in [Member -> Pollers(GuestPlaces)] /\ FramesOK'
<1>1. PICK p : p = guestPoll[m]
  OBVIOUS
<1>2. p \in Pollers(GuestPlaces) /\ Unstarted \in Pollers(GuestPlaces)
  BY <1>1, UnstartedType DEF IInv, PollersOK
<1>3. PICK s : s = [p EXCEPT !.loop[l] = f]
  OBVIOUS
<1>4. /\ s \in Pollers(GuestPlaces) /\ LoopsFrom(p, s, {f})
      /\ Fire(p, l, f) \in Pollers(GuestPlaces) /\ LoopsFrom(p, Fire(p, l, f), {f})
      /\ Start(p, f) \in Pollers(GuestPlaces) /\ LoopsFrom(p, Start(p, f), {f})
  BY <1>2, <1>3, PollerType
<1>5. Start(Unstarted, f) \in Pollers(GuestPlaces) /\ LoopsFrom(Unstarted, Start(Unstarted, f), {f})
  BY <1>2, PollerType
<1>6. PICK q : /\ guestPoll' = [guestPoll EXCEPT ![m] = q]
              /\ q \in {s, Fire(p, l, f), Start(p, f), Start(Unstarted, f)}
  BY <1>1, <1>3
<1>7. q \in Pollers(GuestPlaces) /\ (LoopsFrom(p, q, {f}) \/ LoopsFrom(Unstarted, q, {f}))
  BY <1>4, <1>5, <1>6
<1>9. LoopsFrom(guestPoll[m], q, {f}) \/ LoopsFrom(Unstarted, q, {f})
  BY <1>1, <1>7
<1>10. guestPoll' = [guestPoll EXCEPT ![m] = q] /\ q \in Pollers(GuestPlaces)
  BY <1>6, <1>7
<1>11. QED
  BY <1>9, <1>10, GuestPollEdit

\* The frame of a task that goes on.
LEMMA GuestFrame ==
  ASSUME NEW m \in Member, NEW where \in GuestPlaces, NEW g \in Generation, NEW ref \in 0 .. MaxSession,
         NEW f, f = Frame(where, g, ref),
         where = "got" => MadeFor(m, ref, g)',
         where \in {"accept", "publish"} => ref \in Session
  PROVE  f \in Frames({"none", "timer"} \cup GuestPlaces) /\ FrameOK(m, f)'
<1>1. g \in 0 .. MaxGeneration
  BY PeersAssumption
<1>2. f = [at |-> where, gen |-> g, ref |-> ref]
  BY DEF Frame
<1>3. f \in Frames({"none", "timer"} \cup GuestPlaces)
  BY <1>1, <1>2 DEF Frames
<1>4. f.at = where /\ f.gen = g /\ f.ref = ref
  BY <1>2
<1>5. QED
  BY <1>3, <1>4 DEF FrameOK

\* The guest's loop l goes on to the place where.
LEMMA GuestGoesOn ==
  ASSUME IInv, HostGrows, NEW m \in Member, NEW l \in Loop, NEW where \in GuestPlaces,
         NEW ref \in 0 .. MaxSession, GuestGoes(m, l, where, ref), NEW g \in Generation, g = GenOf(m, l),
         where = "got" => MadeFor(m, ref, g)',
         where \in {"accept", "publish"} => ref \in Session
  PROVE  guestPoll' \in [Member -> Pollers(GuestPlaces)] /\ FramesOK'
<1>1. PICK f : f = Frame(where, g, ref)
  OBVIOUS
<1>2. f \in Frames({"none", "timer"} \cup GuestPlaces) /\ FrameOK(m, f)'
  BY <1>1, GuestFrame
<1>3. guestPoll' = [guestPoll EXCEPT ![m].loop[l] = f]
  BY <1>1 DEF GuestGoes
<1>4. QED
  BY <1>2, <1>3, GuestRuns

\* A new generation's polling begins.
LEMMA GuestBegins ==
  ASSUME IInv, HostGrows, NEW m \in Member, guestGeneration[m] < MaxGeneration,
         \/ guestPoll' = [guestPoll EXCEPT ![m] = Start(@, Frame("announce", guestGeneration[m] + 1, 0))]
         \/ guestPoll' = [guestPoll EXCEPT ![m] =
              Start(Unstarted, Frame("announce", guestGeneration[m] + 1, 0))]
  PROVE  guestPoll' \in [Member -> Pollers(GuestPlaces)] /\ FramesOK' /\ guestGeneration[m] + 1 \in Generation
<1>1. guestGeneration[m] + 1 \in Generation
  BY PeersAssumption DEF IInv, GuestsOK
<1>2. PICK f, g : g \in Generation /\ g = guestGeneration[m] + 1 /\ f = Frame("announce", g, 0)
  BY <1>1
<1>3. f \in Frames({"none", "timer"} \cup GuestPlaces) /\ FrameOK(m, f)'
  <2>1. 0 \in 0 .. MaxSession /\ "announce" \in GuestPlaces
    BY PeersAssumption DEF GuestPlaces
  <2>2. QED
    BY <1>2, <2>1, GuestFrame
<1>4. 1 \in Loop
  BY PeersAssumption DEF Loop
<1>5. QED
  BY <1>1, <1>2, <1>3, <1>4, GuestRuns

LEMMA GuestPollUnchanged ==
  ASSUME IInv, HostGrows, UNCHANGED guestPoll
  PROVE  guestPoll' \in [Member -> Pollers(GuestPlaces)] /\ FramesOK'
<1>1. guestPoll \in [Member -> Pollers(GuestPlaces)] /\ FramesOK
  BY DEF IInv, PollersOK, OffersOK
<1>2. ASSUME NEW m \in Member, NEW f, FrameOK(m, f)
      PROVE  FrameOK(m, f)'
  BY <1>2, MadeForGrows DEF FrameOK
<1>3. ASSUME NEW m \in Member, NEW l \in Loop
      PROVE  FrameOK(m, guestPoll[m].loop[l])'
  <2>1. PICK f : f = guestPoll[m].loop[l] /\ f = guestPoll'[m].loop[l]
    OBVIOUS
  <2>2. FrameOK(m, f)'
    BY <1>1, <1>2, <2>1 DEF FramesOK
  <2>3. QED
    BY <2>1, <2>2
<1>4. QED
  BY <1>1, <1>3 DEF FramesOK

\* What the task of a running loop has captured.
LEMMA GuestFrameType ==
  ASSUME IInv, NEW m \in Member, NEW l \in Loop, guestPoll[m].loop[l].at \in GuestPlaces
  PROVE  /\ GenOf(m, l) \in Generation /\ guestPoll[m].loop[l].ref \in 0 .. MaxSession
         /\ GuestAt(m, l, "got") => MadeFor(m, guestPoll[m].loop[l].ref, GenOf(m, l))
         /\ GuestAt(m, l, "accept") \/ GuestAt(m, l, "publish") => guestPoll[m].loop[l].ref \in Session
<1>1. FrameOK(m, guestPoll[m].loop[l])
  BY DEF IInv, OffersOK, FramesOK
<1>2. guestPoll[m].loop[l] \in Frames({"none", "timer"} \cup GuestPlaces)
  BY DEF IInv, PollersOK, Pollers
<1>3. QED
  BY <1>1, <1>2 DEF FrameOK, Frames, GenOf, GuestAt

LEMMA GuestRefusedRests ==
  ASSUME IInv, HostGrows, NEW m \in Member, NEW l \in Loop, NEW c, GuestRefused(m, l, c)
  PROVE  guestPoll' \in [Member -> Pollers(GuestPlaces)] /\ FramesOK'
<1>1. \/ GuestTickEnds(m, l)
      \/ guestPoll' = [guestPoll EXCEPT ![m] = Settle(Stop(@), l)]
  BY DEF GuestRefused, EmitRemoved, GuestFails
<1>2. QED
  BY <1>1, GuestRests

LEMMA GuestLoopPoll ==
  ASSUME IInv, HostGrows, NEW m \in Member, NEW l \in Loop,
         GuestLoop(m, l) \/ GuestRequestFails(m, l)
  PROVE  guestPoll' \in [Member -> Pollers(GuestPlaces)] /\ FramesOK'
<1>1. 0 \in 0 .. MaxSession /\ guestGeneration[m] \in Generation
  BY PeersAssumption DEF IInv, GuestsOK
<1>2. ASSUME NEW where \in GuestPlaces, GuestAt(m, l, where)
      PROVE  guestPoll[m].loop[l].at \in GuestPlaces
  BY <1>2 DEF GuestAt
<1>3. CASE GuestTimer(m, l)
  <2>1. PICK f, where : /\ f = Frame(where, guestGeneration[m], 0) /\ where \in {"state", "announce"}
                        /\ guestPoll' = [guestPoll EXCEPT ![m] = Fire(@, l, f)]
    BY <1>3 DEF GuestTimer, GuestTask
  <2>2. where \in GuestPlaces /\ where \notin {"got", "accept", "publish"}
    BY <2>1 DEF GuestPlaces
  <2>3. PICK g \in Generation : g = guestGeneration[m]
    BY <1>1
  <2>4. f \in Frames({"none", "timer"} \cup GuestPlaces) /\ FrameOK(m, f)'
    <3>1. f = Frame(where, g, 0)
      BY <2>1, <2>3
    <3>2. QED
      BY <1>1, <2>2, <3>1, GuestFrame
  <2>5. QED
    BY <2>1, <2>4, GuestRuns
<1>4. ASSUME GuestTickEnds(m, l) \/ \E c : GuestRefused(m, l, c)
      PROVE  guestPoll' \in [Member -> Pollers(GuestPlaces)] /\ FramesOK'
  BY <1>4, GuestRests, GuestRefusedRests
<1>5. ASSUME NEW where \in {"state", "get", "hung"}, GuestGoes(m, l, where, 0),
             guestPoll[m].loop[l].at \in GuestPlaces
      PROVE  guestPoll' \in [Member -> Pollers(GuestPlaces)] /\ FramesOK'
  <2>1. PICK g \in Generation : g = GenOf(m, l)
    BY <1>5, GuestFrameType
  <2>2. where \in GuestPlaces /\ where \notin {"got", "accept", "publish"}
    BY DEF GuestPlaces
  <2>3. QED
    BY <1>1, <1>5, <2>1, <2>2, GuestGoesOn
<1>6. CASE Announce(m, l)
  <2>1. guestPoll[m].loop[l].at \in GuestPlaces
    BY <1>6 DEF Announce, GuestAt, GuestPlaces
  <2>2. (\E c : GuestRefused(m, l, c)) \/ GuestGoes(m, l, "state", 0)
    BY <1>6, Zenon DEF Announce
  <2>3. QED
    BY <1>4, <1>5, <2>1, <2>2
<1>7. CASE GuestState(m, l)
  <2>1. guestPoll[m].loop[l].at \in GuestPlaces
    BY <1>7 DEF GuestState, GuestAt, GuestPlaces
  <2>2. (\E c : GuestRefused(m, l, c)) \/ GuestTickEnds(m, l) \/ GuestGoes(m, l, "get", 0)
    BY <1>7, Zenon DEF GuestState
  <2>3. QED
    BY <1>4, <1>5, <2>1, <2>2
<1>8. CASE OfferRead(m, l)
  <2>1. guestPoll[m].loop[l].at \in GuestPlaces
    BY <1>8 DEF OfferRead, GuestAt, GuestPlaces
  <2>2. PICK g \in Generation : g = GenOf(m, l)
    BY <2>1, GuestFrameType
  <2>3. PICK o : o = offers[m][g]
    OBVIOUS
  <2>4. \/ (\E c : GuestRefused(m, l, c)) \/ GuestTickEnds(m, l)
        \/ o # 0 /\ GuestGoes(m, l, "got", o)
    <3>1. GuestSignal("readOffer", m, g).generation = g
      BY DEF GuestSignal
    <3>2. QED
      BY <1>8, <2>2, <2>3, <3>1, Zenon DEF OfferRead
  <2>5. CASE o # 0 /\ GuestGoes(m, l, "got", o)
    <3>1. MadeFor(m, o, g) /\ o \in 0 .. MaxSession
      BY <2>3, <2>5 DEF IInv, OffersOK, StoredOK
    <3>2. MadeFor(m, o, g)'
      BY <3>1, MadeForGrows
    <3>3. "got" \in GuestPlaces
      BY DEF GuestPlaces
    <3>4. QED
      BY <2>2, <2>5, <3>1, <3>2, <3>3, GuestGoesOn
  <2>6. QED
    BY <1>4, <2>4, <2>5
<1>9. CASE OfferUsed(m, l)
  <2>1. guestPoll[m].loop[l].at \in GuestPlaces
    BY <1>9 DEF OfferUsed, GuestAt, GuestPlaces
  <2>2. PICK g \in Generation : g = GenOf(m, l)
    BY <2>1, GuestFrameType
  <2>3. PICK s : s = Fresh(Close(guestSession[m], guestPeer[m]))
    OBVIOUS
  <2>4. \/ GuestTickEnds(m, l)
        \/ s \in Session /\ GuestGoes(m, l, "accept", s)
    <3>1. \/ GuestTickEnds(m, l)
          \/ /\ \E k \in Session : Close(guestSession[m], guestPeer[m])[k].state = "new"
             /\ GuestGoes(m, l, "accept", s)
      BY <1>9, <2>3, Zenon DEF OfferUsed
    <3>2. QED
      BY <2>3, <3>1, FreshIsNew
  <2>5. CASE s \in Session /\ GuestGoes(m, l, "accept", s)
    <3>1. s \in 0 .. MaxSession /\ "accept" \in GuestPlaces
      BY <2>5, PeersAssumption DEF Session, GuestPlaces
    <3>2. QED
      BY <2>2, <2>5, <3>1, GuestGoesOn
  <2>6. QED
    BY <1>4, <2>4, <2>5
<1>10. CASE OfferAccepted(m, l)
  <2>1. guestPoll[m].loop[l].at \in GuestPlaces /\ GuestAt(m, l, "accept")
    BY <1>10 DEF OfferAccepted, GuestAt, GuestPlaces
  <2>2. PICK g \in Generation : g = GenOf(m, l)
    BY <2>1, GuestFrameType
  <2>3. PICK s : s = guestPoll[m].loop[l].ref
    OBVIOUS
  <2>4. s \in Session /\ s \in 0 .. MaxSession
    BY <2>1, <2>3, GuestFrameType
  <2>5. GuestTickEnds(m, l) \/ GuestGoes(m, l, "hung", 0) \/ GuestGoes(m, l, "publish", s)
    BY <1>10, <2>3, Zenon DEF OfferAccepted
  <2>6. CASE GuestGoes(m, l, "publish", s)
    <3>1. "publish" \in GuestPlaces
      BY DEF GuestPlaces
    <3>2. QED
      BY <2>2, <2>4, <2>6, <3>1, GuestGoesOn
  <2>7. QED
    BY <1>4, <1>5, <2>1, <2>5, <2>6
<1>11. CASE AnswerPublished(m, l) \/ GuestRequestFails(m, l)
  <2>1. (\E c : GuestRefused(m, l, c)) \/ GuestTickEnds(m, l)
    BY <1>11 DEF AnswerPublished, GuestRequestFails, GuestFails
  <2>2. QED
    BY <1>4, <2>1
<1>12. QED
  BY <1>3, <1>6, <1>7, <1>8, <1>9, <1>10, <1>11 DEF GuestLoop

\* The guests' pollers, after any step.
LEMMA GuestPollStep ==
  ASSUME IInv, [Next]_vars
  PROVE  guestPoll' \in [Member -> Pollers(GuestPlaces)] /\ FramesOK'
<1>1. HostGrows
  BY HostStep
<1>2. ASSUME NEW m \in Member, NEW l \in Loop, GuestLoop(m, l) \/ GuestRequestFails(m, l)
      PROVE  guestPoll' \in [Member -> Pollers(GuestPlaces)] /\ FramesOK'
  BY <1>1, <1>2, GuestLoopPoll
<1>3. ASSUME NEW m \in Member, GuestOpens(m)
      PROVE  guestPoll' \in [Member -> Pollers(GuestPlaces)] /\ FramesOK'
  <2>1. 1 \in Loop /\ guestPoll' = [guestPoll EXCEPT ![m] = Stop(@)]
    BY <1>3, PeersAssumption DEF GuestOpens, Loop
  <2>2. QED
    BY <1>1, <2>1, GuestRests
<1>4. ASSUME NEW m \in Member, GuestNotices(m) \/ GuestLoses(m)
      PROVE  guestPoll' \in [Member -> Pollers(GuestPlaces)] /\ FramesOK'
  <2>1. /\ guestGeneration[m] < MaxGeneration
        /\ guestPoll' = [guestPoll EXCEPT ![m] =
             Start(@, Frame("announce", guestGeneration[m] + 1, 0))]
    BY <1>4 DEF GuestNotices, GuestLoses, GuestBreaks, BeginGuestGeneration
  <2>2. QED
    BY <1>1, <2>1, GuestBegins
<1>5. ASSUME NEW m \in Member, GuestRefreshes(m)
      PROVE  guestPoll' \in [Member -> Pollers(GuestPlaces)] /\ FramesOK'
  <2>1. \/ /\ guestGeneration[m] < MaxGeneration
           /\ guestPoll' = [guestPoll EXCEPT ![m] =
                Start(Unstarted, Frame("announce", guestGeneration[m] + 1, 0))]
        \/ guestPoll' = [guestPoll EXCEPT ![m] = Unstarted]
    BY <1>5, Zenon DEF GuestRefreshes
  <2>2. 1 \in Loop
    BY PeersAssumption DEF Loop
  <2>3. QED
    BY <1>1, <2>1, <2>2, GuestBegins, GuestRests
<1>6. ASSUME UNCHANGED guestPoll
      PROVE  guestPoll' \in [Member -> Pollers(GuestPlaces)] /\ FramesOK'
  BY <1>1, <1>6, GuestPollUnchanged
<1>7. ASSUME NEW l \in Loop, HostLoop(l) \/ HostReadFails(l)
      PROVE  UNCHANGED guestPoll
  BY <1>7 DEF HostLoop, HostTimer, HostReads, HostUses, HostTickEnds, HostReadFails, guests
<1>8. ASSUME NEW l \in Loop, NEW m \in Member,
             Ensure(l, m) \/ OfferPublishFails(l, m) \/ AnswerReadFails(l, m)
      PROVE  UNCHANGED guestPoll
  BY <1>8 DEF Ensure, OfferCreated, OfferPublished, AnswerRead, AnswerUsed, AnswerApplied,
              OfferPublishFails, AnswerReadFails, guests
<1>9. ASSUME NEW m \in Member,
             \/ HostOpens(m) \/ HostNotices(m) \/ HostLoses(m) \/ PresenceLapses(m)
             \/ \E g \in Generation : SignalExpires(m, g)
      PROVE  UNCHANGED guestPoll
  BY <1>9 DEF HostOpens, HostNotices, HostLoses, HostBreaks, PresenceLapses, SignalExpires, guests
<1>10. ASSUME \/ ControlExecuted \/ ControlFails \/ ControlUsed \/ HostRefreshes
              \/ (\E c \in Controls : Ask(c)) \/ UNCHANGED vars
       PROVE  UNCHANGED guestPoll
  BY <1>10 DEF ControlExecuted, ControlFails, ControlUsed, HostRefreshes, Ask, vars, guests
<1>11. QED
  BY <1>2, <1>3, <1>4, <1>5, <1>6, <1>7, <1>8, <1>9, <1>10 DEF Next, Environment

\* One stored signal is replaced.
LEMMA SignalEdit ==
  ASSUME NEW T, T \in [Member -> [Generation -> 0 .. MaxSession]], NEW m \in Member, NEW g \in Generation,
         NEW s \in 0 .. MaxSession
  PROVE  /\ [T EXCEPT ![m][g] = s] \in [Member -> [Generation -> 0 .. MaxSession]]
         /\ \A n \in Member, h \in Generation :
              [T EXCEPT ![m][g] = s][n][h] = IF n = m /\ h = g THEN s ELSE T[n][h]
OBVIOUS

\* The stored offers, where an offer is stored or expires.
LEMMA OffersEdit ==
  ASSUME IInv, HostGrows, NEW m \in Member, NEW g \in Generation, NEW s \in 0 .. MaxSession,
         s # 0 => MadeFor(m, s, g),
         offers' = [offers EXCEPT ![m][g] = s]
  PROVE  offers' \in [Member -> [Generation -> 0 .. MaxSession]] /\ StoredOK'
<1>1. offers \in [Member -> [Generation -> 0 .. MaxSession]] /\ StoredOK
  BY DEF IInv, OffersOK
<1>2. /\ offers' \in [Member -> [Generation -> 0 .. MaxSession]]
      /\ \A n \in Member, h \in Generation :
           offers'[n][h] = IF n = m /\ h = g THEN s ELSE offers[n][h]
  BY <1>1, SignalEdit
<1>3. ASSUME NEW n \in Member, NEW h \in Generation, offers'[n][h] # 0
      PROVE  MadeFor(n, offers[n][h], h)'
  <2>1. PICK o : o = offers'[n][h]
    OBVIOUS
  <2>2. MadeFor(n, o, h)
    BY <1>1, <1>2, <1>3, <2>1 DEF StoredOK
  <2>3. MadeFor(n, o, h)'
    BY <2>2, MadeForGrows
  <2>4. QED
    BY <2>1, <2>3
<1>4. QED
  BY <1>2, <1>3 DEF StoredOK

LEMMA OffersUnchanged ==
  ASSUME IInv, HostGrows, UNCHANGED offers
  PROVE  offers' \in [Member -> [Generation -> 0 .. MaxSession]] /\ StoredOK'
<1>1. offers \in [Member -> [Generation -> 0 .. MaxSession]] /\ StoredOK
  BY DEF IInv, OffersOK
<1>2. ASSUME NEW n \in Member, NEW h \in Generation, offers'[n][h] # 0
      PROVE  MadeFor(n, offers[n][h], h)'
  <2>1. PICK o : o = offers'[n][h] /\ o = offers[n][h]
    OBVIOUS
  <2>2. MadeFor(n, o, h)'
    BY <1>1, <1>2, <2>1, MadeForGrows DEF StoredOK
  <2>3. QED
    BY <2>1, <2>2
<1>3. QED
  BY <1>1, <1>2 DEF StoredOK

\* The coordinator's signals, after any step.
LEMMA OffersStep == IInv /\ [Next]_vars => OffersOK'
<1> SUFFICES ASSUME IInv, [Next]_vars
             PROVE  OffersOK'
  OBVIOUS
<1>1. HostGrows /\ FramesOK' /\ 0 \in 0 .. MaxSession
  BY HostStep, GuestPollStep, PeersAssumption
<1>2. answers \in [Member -> [Generation -> 0 .. MaxSession]]
  BY DEF IInv, OffersOK
<1>3. ASSUME UNCHANGED offers, answers' \in [Member -> [Generation -> 0 .. MaxSession]]
      PROVE  OffersOK'
  BY <1>1, <1>3, OffersUnchanged DEF OffersOK
<1>4. ASSUME UNCHANGED <<offers, answers>>
      PROVE  OffersOK'
  BY <1>2, <1>3, <1>4
<1>5. ASSUME NEW l \in Loop, NEW m \in Member, OfferPublished(l, m) \/ OfferPublishFails(l, m)
      PROVE  OffersOK'
  <2>1. PICK s, c : s = ensure[l][m].session /\ c = HostSignal("publishOffer", m, s)
    OBVIOUS
  <2>2. c.generation = hostSession[m][s].gen
    BY <2>1 DEF HostSignal
  <2>3. Known(m, s) /\ s \in 0 .. MaxSession
    BY <1>5, <2>1, PeersAssumption
       DEF OfferPublished, OfferPublishFails, At, IInv, HostOK, EnsuresOK, Known, Session
  <2>4. PICK g \in Generation : g = c.generation
    BY <2>2, <2>3 DEF IInv, HostOK, SessionsOK, Known
  <2>5. MadeFor(m, s, g)
    BY <2>2, <2>3, <2>4 DEF MadeFor
  <2>6. UNCHANGED answers /\ (UNCHANGED offers \/ offers' = [offers EXCEPT ![m][g] = s])
    BY <1>5, <2>1, <2>4, Zenon DEF OfferPublished, OfferPublishFails
  <2>7. CASE offers' = [offers EXCEPT ![m][g] = s]
    BY <1>1, <1>2, <2>3, <2>5, <2>6, <2>7, OffersEdit DEF OffersOK
  <2>8. QED
    BY <1>4, <2>6, <2>7
<1>6. ASSUME NEW m \in Member, NEW g \in Generation, SignalExpires(m, g)
      PROVE  OffersOK'
  <2>1. CASE offers' = [offers EXCEPT ![m][g] = 0] /\ UNCHANGED answers
    BY <1>1, <1>2, <2>1, OffersEdit DEF OffersOK
  <2>2. CASE answers' = [answers EXCEPT ![m][g] = 0] /\ UNCHANGED offers
    BY <1>1, <1>2, <1>3, <2>2, SignalEdit
  <2>3. QED
    BY <1>6, <2>1, <2>2 DEF SignalExpires
<1>7. ASSUME NEW m \in Member, NEW l \in Loop, AnswerPublished(m, l) \/ GuestRequestFails(m, l)
      PROVE  OffersOK'
  <2>1. guestPoll[m].loop[l].at \in GuestPlaces
    BY <1>7 DEF AnswerPublished, GuestRequestFails, GuestAt, GuestPlaces
  <2>2. PICK g \in Generation : g = GenOf(m, l)
    BY <2>1, GuestFrameType
  <2>3. PICK s \in 0 .. MaxSession : s = guestPoll[m].loop[l].ref
    BY <2>1, GuestFrameType
  <2>4. GuestSignal("publishAnswer", m, g).generation = g
    BY DEF GuestSignal
  <2>5. UNCHANGED offers /\ (UNCHANGED answers \/ answers' = [answers EXCEPT ![m][g] = s])
    <3>1. CASE AnswerPublished(m, l)
      <4>1. \/ UNCHANGED coordinator
            \/ UNCHANGED offers /\ answers' = [answers EXCEPT ![m][g] = s]
        BY <2>2, <2>3, <2>4, <3>1, Zenon DEF AnswerPublished, GuestRefused
      <4>2. QED
        BY <4>1 DEF coordinator
    <3>2. CASE GuestRequestFails(m, l)
      BY <2>2, <2>3, <3>2, Zenon DEF GuestRequestFails
    <3>3. QED
      BY <1>7, <3>1, <3>2
  <2>6. CASE answers' = [answers EXCEPT ![m][g] = s]
    BY <1>2, <1>3, <2>5, <2>6, SignalEdit
  <2>7. QED
    BY <1>4, <2>5, <2>6
<1>8. ASSUME NEW m \in Member, NEW l \in Loop, GuestLoop(m, l)
      PROVE  OffersOK'
  <2>1. CASE AnswerPublished(m, l)
    BY <1>7, <2>1
  <2>2. CASE ~AnswerPublished(m, l)
    <3>1. UNCHANGED <<offers, answers>>
      BY <1>8, <2>2 DEF GuestLoop, GuestTimer, Announce, GuestState, OfferRead, OfferUsed,
                        OfferAccepted, GuestRefused, coordinator
    <3>2. QED
      BY <1>4, <3>1
  <2>3. QED
    BY <2>1, <2>2
<1>9. ASSUME NEW l \in Loop, HostLoop(l) \/ HostReadFails(l)
      PROVE  UNCHANGED <<offers, answers>>
  BY <1>9 DEF HostLoop, HostTimer, HostReads, HostUses, HostTickEnds, HostReadFails, coordinator
<1>10. ASSUME NEW l \in Loop, NEW m \in Member, Ensure(l, m) \/ AnswerReadFails(l, m)
       PROVE  OfferPublished(l, m) \/ UNCHANGED <<offers, answers>>
  BY <1>10 DEF Ensure, OfferCreated, AnswerRead, AnswerUsed, AnswerApplied, AnswerReadFails,
               coordinator
<1>11. ASSUME NEW m \in Member,
             \/ HostOpens(m) \/ HostNotices(m) \/ HostLoses(m) \/ PresenceLapses(m)
             \/ GuestOpens(m) \/ GuestNotices(m) \/ GuestLoses(m) \/ GuestRefreshes(m)
       PROVE  UNCHANGED <<offers, answers>>
  BY <1>11 DEF HostOpens, HostNotices, HostLoses, HostBreaks, PresenceLapses, GuestOpens,
               GuestNotices, GuestLoses, GuestBreaks, GuestRefreshes, coordinator
<1>12. ASSUME \/ ControlExecuted \/ ControlFails \/ ControlUsed \/ HostRefreshes
              \/ (\E c \in Controls : Ask(c)) \/ UNCHANGED vars
       PROVE  UNCHANGED <<offers, answers>>
  BY <1>12 DEF ControlExecuted, ControlFails, ControlUsed, HostRefreshes, Ask, vars, coordinator
<1>13. QED
  BY <1>4, <1>5, <1>6, <1>7, <1>8, <1>9, <1>10, <1>11, <1>12 DEF Next, Environment

-----------------------------------------------------------------------------
(***************************************************************************)
(* The guests' sessions.                                                   *)
(***************************************************************************)
LEMMA HoldsFrame ==
  ASSUME HostGrows, NEW m \in Member, GuestHolds(m),
         guestPeer'[m] = guestPeer[m], guestGeneration'[m] = guestGeneration[m],
         guestPeer[m] # 0 =>
           /\ guestSession'[m][guestPeer[m]].offer = guestSession[m][guestPeer[m]].offer
           /\ guestSession'[m][guestPeer[m]].state \notin {"new", "closed"}
  PROVE  GuestHolds(m)'
<1>1. SUFFICES ASSUME guestPeer[m] # 0
               PROVE  GuestHolds(m)'
  BY DEF GuestHolds
<1>2. PICK o, g : o = GuestSide(m).offer /\ g = guestGeneration[m]
  OBVIOUS
<1>3. MadeFor(m, o, g)'
  BY <1>1, <1>2, MadeForGrows DEF GuestHolds
<1>4. o = guestSession'[m][guestPeer'[m]].offer /\ g = guestGeneration'[m]
  BY <1>1, <1>2 DEF GuestSide
<1>5. QED
  BY <1>1, <1>3, <1>4 DEF GuestHolds, GuestSide

\* One guest's session, number and generation change.
LEMMA GuestEdit ==
  ASSUME IInv, HostGrows, NEW n \in Member, NEW t \in [Session -> GuestSessions], NEW s \in 0 .. MaxSession,
         NEW g \in Generation,
         guestSession' = [guestSession EXCEPT ![n] = t],
         guestPeer' = [guestPeer EXCEPT ![n] = s],
         guestGeneration' = [guestGeneration EXCEPT ![n] = g],
         announced' \in [Member -> BOOLEAN], told' \subseteq Member, GuestHolds(n)'
  PROVE  GuestsOK'
<1>1. /\ guestSession \in [Member -> [Session -> GuestSessions]]
      /\ guestPeer \in [Member -> 0 .. MaxSession] /\ guestGeneration \in [Member -> Generation]
      /\ \A m \in Member : GuestHolds(m)
  BY DEF IInv, GuestsOK
<1>2. /\ guestSession' \in [Member -> [Session -> GuestSessions]]
      /\ guestPeer' \in [Member -> 0 .. MaxSession] /\ guestGeneration' \in [Member -> Generation]
  BY <1>1
<1>3. ASSUME NEW m \in Member, m # n
      PROVE  GuestHolds(m)'
  <2>1. /\ guestSession'[m] = guestSession[m] /\ guestPeer'[m] = guestPeer[m]
        /\ guestGeneration'[m] = guestGeneration[m] /\ GuestHolds(m)
    BY <1>1, <1>3
  <2>2. guestPeer[m] # 0 => guestSession[m][guestPeer[m]].state \notin {"new", "closed"}
    BY <2>1 DEF GuestHolds
  <2>3. QED
    BY <2>1, <2>2, HoldsFrame
<1>4. \A m \in Member : GuestHolds(m)'
  BY <1>3
<1>5. QED
  BY <1>2, <1>4 DEF GuestsOK

LEMMA GuestsUnchanged ==
  ASSUME IInv, HostGrows, UNCHANGED <<guestGeneration, guestPeer, guestSession>>,
         announced' \in [Member -> BOOLEAN], told' \subseteq Member
  PROVE  GuestsOK'
<1>1. ASSUME NEW m \in Member
      PROVE  GuestHolds(m)'
  <2>1. GuestHolds(m)
    BY DEF IInv, GuestsOK
  <2>2. guestPeer[m] # 0 => guestSession[m][guestPeer[m]].state \notin {"new", "closed"}
    BY <2>1 DEF GuestHolds
  <2>3. QED
    BY <2>1, <2>2, HoldsFrame
<1>2. QED
  BY <1>1 DEF IInv, GuestsOK

LEMMA GuestSessionEdits ==
  ASSUME NEW x \in GuestSessions, NEW v \in {"answering", "connecting", "connected", "closed"}
  PROVE  /\ [x EXCEPT !.state = v] \in GuestSessions
         /\ [x EXCEPT !.state = v].offer = x.offer /\ [x EXCEPT !.state = v].state = v
BY DEF GuestSessions

\* closeGuestPeer: the guest is left without a session.
LEMMA GuestReleases ==
  ASSUME IInv, HostGrows, NEW n \in Member, NEW g \in Generation,
         guestSession' = CloseGuestPeer(n), guestPeer' = [guestPeer EXCEPT ![n] = 0],
         guestGeneration' = [guestGeneration EXCEPT ![n] = g],
         announced' \in [Member -> BOOLEAN], told' \subseteq Member
  PROVE  GuestsOK'
<1>1. guestSession[n] \in [Session -> GuestSessions] /\ guestPeer[n] \in 0 .. MaxSession
      /\ guestPeer \in [Member -> 0 .. MaxSession]
  BY DEF IInv, GuestsOK
<1>2. \A x \in GuestSessions : [x EXCEPT !.state = "closed"] \in GuestSessions
  BY GuestSessionEdits
<1>3. PICK t : t = Close(guestSession[n], guestPeer[n])
  OBVIOUS
<1>4. t \in [Session -> GuestSessions]
  BY <1>1, <1>2, <1>3, CloseKeeps
<1>5. guestSession' = [guestSession EXCEPT ![n] = t]
  BY <1>3 DEF CloseGuestPeer
<1>6. 0 \in 0 .. MaxSession /\ guestPeer'[n] = 0
  BY <1>1, PeersAssumption
<1>7. GuestHolds(n)'
  BY <1>6 DEF GuestHolds
<1>8. QED
  BY <1>4, <1>5, <1>6, <1>7, GuestEdit

\* The session a guest holds goes on.
LEMMA GuestSideEdit ==
  ASSUME IInv, HostGrows, NEW n \in Member, guestPeer[n] # 0,
         NEW v \in {"connecting", "connected"},
         guestSession' = [guestSession EXCEPT ![n][guestPeer[n]].state = v],
         UNCHANGED <<guestPeer, guestGeneration, announced, told>>
  PROVE  GuestsOK'
<1>1. /\ guestSession \in [Member -> [Session -> GuestSessions]]
      /\ guestPeer \in [Member -> 0 .. MaxSession] /\ guestGeneration \in [Member -> Generation]
      /\ guestPeer[n] \in Session /\ GuestHolds(n)
      /\ announced \in [Member -> BOOLEAN] /\ told \subseteq Member
  BY PeersAssumption DEF IInv, GuestsOK, Session
<1>2. PICK x : x = [guestSession[n][guestPeer[n]] EXCEPT !.state = v]
  OBVIOUS
<1>3. x \in GuestSessions /\ x.offer = guestSession[n][guestPeer[n]].offer /\ x.state = v
  <2>1. PICK y \in GuestSessions : y = guestSession[n][guestPeer[n]]
    BY <1>1
  <2>2. v \in {"answering", "connecting", "connected", "closed"}
    OBVIOUS
  <2>3. QED
    BY <1>2, <2>1, <2>2, GuestSessionEdits
<1>4. PICK t : t = [guestSession[n] EXCEPT ![guestPeer[n]] = x]
  OBVIOUS
<1>5. t \in [Session -> GuestSessions] /\ t[guestPeer[n]] = x
  BY <1>1, <1>3, <1>4
<1>6. guestSession' = [guestSession EXCEPT ![n] = t]
  BY <1>2, <1>4, Zenon
<1>7. guestSession'[n] = t
  BY <1>1, <1>6
<1>8. GuestHolds(n)'
  BY <1>1, <1>3, <1>5, <1>7, HoldsFrame
<1>9. guestPeer' = [guestPeer EXCEPT ![n] = guestPeer[n]]
      /\ guestGeneration' = [guestGeneration EXCEPT ![n] = guestGeneration[n]]
  BY <1>1
<1>10. QED
  BY <1>1, <1>5, <1>6, <1>8, <1>9, GuestEdit

\* A guest takes an offer.
LEMMA OfferUsedGuests ==
  ASSUME IInv, HostGrows, NEW n \in Member, NEW l \in Loop, OfferUsed(n, l)
  PROVE  GuestsOK'
<1>1. /\ guestSession \in [Member -> [Session -> GuestSessions]]
      /\ guestPeer \in [Member -> 0 .. MaxSession] /\ guestGeneration \in [Member -> Generation]
      /\ announced \in [Member -> BOOLEAN] /\ told \subseteq Member
  BY DEF IInv, GuestsOK
<1>2. PICK o : o = guestPoll[n].loop[l].ref
  OBVIOUS
<1>3. o \in 0 .. MaxSession /\ MadeFor(n, o, GenOf(n, l))
  BY <1>2, GuestFrameType DEF OfferUsed, GuestAt, GuestPlaces
<1>4. PICK closed : closed = Close(guestSession[n], guestPeer[n])
  OBVIOUS
<1>5. PICK s : s = Fresh(closed)
  OBVIOUS
<1>6. PICK x : x = [state |-> "answering", offer |-> o]
  OBVIOUS
<1>7. UNCHANGED <<guestGeneration, announced, told>>
  BY DEF OfferUsed
<1>8. \/ UNCHANGED <<guestPeer, guestSession>>
      \/ /\ ~Stale(n, l)
         /\ \E k \in Session : closed[k].state = "new"
         /\ guestSession' = [guestSession EXCEPT ![n] = [closed EXCEPT ![s] = x]]
         /\ guestPeer' = [guestPeer EXCEPT ![n] = s]
  BY <1>2, <1>4, <1>5, <1>6, Zenon DEF OfferUsed
<1>9. CASE UNCHANGED <<guestPeer, guestSession>>
  BY <1>1, <1>7, <1>9, GuestsUnchanged
<1>10. CASE /\ ~Stale(n, l)
            /\ \E k \in Session : closed[k].state = "new"
            /\ guestSession' = [guestSession EXCEPT ![n] = [closed EXCEPT ![s] = x]]
            /\ guestPeer' = [guestPeer EXCEPT ![n] = s]
  <2>1. s \in Session /\ s \in 0 .. MaxSession
    BY <1>5, <1>10, FreshIsNew, PeersAssumption DEF Session
  <2>2. closed \in [Session -> GuestSessions]
    <3>1. \A y \in GuestSessions : [y EXCEPT !.state = "closed"] \in GuestSessions
      BY GuestSessionEdits
    <3>2. QED
      BY <1>1, <1>4, <3>1, CloseKeeps
  <2>3. x \in GuestSessions /\ x.state = "answering" /\ x.offer = o
    BY <1>3, <1>6 DEF GuestSessions
  <2>4. PICK t : t = [closed EXCEPT ![s] = x]
    OBVIOUS
  <2>5. t \in [Session -> GuestSessions] /\ t[s] = x
    BY <2>1, <2>2, <2>3, <2>4
  <2>6. guestSession'[n] = t /\ guestPeer'[n] = s
    BY <1>1, <1>10, <2>4
  <2>7. PICK g \in Generation : g = guestGeneration[n]
    BY <1>1
  <2>8. MadeFor(n, o, g)'
    <3>1. MadeFor(n, o, g)
      BY <1>3, <1>10, <2>7 DEF Stale
    <3>2. QED
      BY <3>1, MadeForGrows
  <2>9. GuestHolds(n)'
    <3>1. guestSession'[n][guestPeer'[n]].state \notin {"new", "closed"}
      BY <2>3, <2>5, <2>6
    <3>2. guestSession'[n][guestPeer'[n]].offer = o /\ guestGeneration'[n] = g
      BY <1>7, <2>3, <2>5, <2>6, <2>7
    <3>3. QED
      BY <2>8, <3>1, <3>2 DEF GuestHolds, GuestSide
  <2>10. /\ guestSession' = [guestSession EXCEPT ![n] = t]
         /\ guestGeneration' = [guestGeneration EXCEPT ![n] = g]
    BY <1>1, <1>7, <1>10, <2>4, <2>7
  <2>11. QED
    BY <1>1, <1>7, <1>10, <2>1, <2>5, <2>7, <2>9, <2>10, GuestEdit
<1>11. QED
  BY <1>8, <1>9, <1>10

\* The guests' sessions, after any step.
LEMMA GuestsStep == IInv /\ [Next]_vars => GuestsOK'
<1> SUFFICES ASSUME IInv, [Next]_vars
             PROVE  GuestsOK'
  OBVIOUS
<1>1. HostGrows
  BY HostStep
<1>2. /\ guestSession \in [Member -> [Session -> GuestSessions]]
      /\ guestPeer \in [Member -> 0 .. MaxSession] /\ guestGeneration \in [Member -> Generation]
      /\ announced \in [Member -> BOOLEAN] /\ told \subseteq Member
  BY DEF IInv, GuestsOK
<1>3. ASSUME UNCHANGED <<guestGeneration, guestPeer, guestSession>>,
             announced' \in [Member -> BOOLEAN], told' \subseteq Member
      PROVE  GuestsOK'
  BY <1>1, <1>3, GuestsUnchanged
<1>4. ASSUME UNCHANGED guests
      PROVE  GuestsOK'
  BY <1>2, <1>3, <1>4 DEF guests
<1>5. ASSUME NEW m \in Member, guestSession' = CloseGuestPeer(m), guestPeer' = [guestPeer EXCEPT ![m] = 0],
             UNCHANGED guestGeneration, announced' \in [Member -> BOOLEAN], told' \subseteq Member
      PROVE  GuestsOK'
  <2>1. PICK g \in Generation : guestGeneration' = [guestGeneration EXCEPT ![m] = g]
    <3>1. guestGeneration[m] \in Generation /\ guestGeneration = [guestGeneration EXCEPT ![m] = guestGeneration[m]]
      BY <1>2
    <3>2. QED
      BY <1>5, <3>1
  <2>2. QED
    BY <1>1, <1>5, <2>1, GuestReleases
<1>6. ASSUME NEW m \in Member, NEW l \in Loop, NEW c, GuestRefused(m, l, c)
      PROVE  GuestsOK'
  <2>1. UNCHANGED <<guestGeneration, announced>>
    BY <1>6 DEF GuestRefused
  <2>2. CASE EmitRemoved(m, l)
    <3>1. told' \subseteq Member /\ announced' \in [Member -> BOOLEAN]
      BY <1>2, <2>1, <2>2 DEF EmitRemoved
    <3>2. QED
      BY <1>5, <2>1, <2>2, <3>1 DEF EmitRemoved
  <2>3. CASE GuestFails(m, l)
    BY <1>2, <1>3, <2>1, <2>3 DEF GuestFails
  <2>4. QED
    BY <1>6, <2>2, <2>3 DEF GuestRefused
<1>7. ASSUME NEW m \in Member, NEW l \in Loop, GuestTimer(m, l) \/ GuestRequestFails(m, l)
      PROVE  GuestsOK'
  <2>1. UNCHANGED <<guestGeneration, announced, guestPeer, guestSession, told>>
    BY <1>7 DEF GuestTimer, GuestRequestFails, GuestFails
  <2>2. QED
    BY <1>2, <1>3, <2>1
<1>8. ASSUME NEW m \in Member, NEW l \in Loop,
             Announce(m, l) \/ GuestState(m, l) \/ OfferRead(m, l) \/ AnswerPublished(m, l)
      PROVE  GuestsOK'
  <2>1. \/ \E c : GuestRefused(m, l, c)
        \/ /\ UNCHANGED <<guestGeneration, guestPeer, guestSession, told>>
           /\ \/ UNCHANGED announced
              \/ announced' = [announced EXCEPT ![m] = @ \/ ~Stale(m, l)]
    BY <1>8, Zenon DEF Announce, GuestState, OfferRead, AnswerPublished
  <2>2. CASE UNCHANGED <<guestGeneration, guestPeer, guestSession, told>>
             /\ announced' \in [Member -> BOOLEAN]
    BY <1>2, <1>3, <2>2
  <2>3. CASE announced' = [announced EXCEPT ![m] = @ \/ ~Stale(m, l)]
    <3>1. PICK b \in BOOLEAN : b = (announced[m] \/ ~Stale(m, l))
      OBVIOUS
    <3>2. announced' = [announced EXCEPT ![m] = b]
      BY <2>3, <3>1, Zenon
    <3>3. announced' \in [Member -> BOOLEAN]
      BY <1>2, <3>2
    <3>4. QED
      BY <1>6, <2>1, <2>2, <3>3
  <2>4. QED
    BY <1>2, <1>6, <2>1, <2>2, <2>3
<1>9. ASSUME NEW m \in Member, NEW l \in Loop, OfferAccepted(m, l)
      PROVE  GuestsOK'
  <2>1. PICK s : s = guestPoll[m].loop[l].ref
    OBVIOUS
  <2>2. UNCHANGED <<guestGeneration, announced, guestPeer, told>>
    BY <1>9 DEF OfferAccepted
  <2>3. \/ UNCHANGED guestSession
        \/ guestPeer[m] = s /\ guestSession' = [guestSession EXCEPT ![m][s].state = "connecting"]
    BY <1>9, <2>1, Zenon DEF OfferAccepted
  <2>4. CASE UNCHANGED guestSession
    BY <1>2, <1>3, <2>2, <2>4
  <2>5. CASE guestPeer[m] = s /\ guestSession' = [guestSession EXCEPT ![m][s].state = "connecting"]
    <3>1. s # 0
      BY <1>9, <2>1, GuestFrameType, PeersAssumption DEF OfferAccepted, GuestAt, GuestPlaces, Session
    <3>2. guestSession' = [guestSession EXCEPT ![m][guestPeer[m]].state = "connecting"] /\ guestPeer[m] # 0
      BY <2>5, <3>1
    <3>3. QED
      BY <1>1, <2>2, <3>2, GuestSideEdit
  <2>6. QED
    BY <2>3, <2>4, <2>5
<1>10. ASSUME NEW m \in Member, NEW l \in Loop, GuestLoop(m, l)
       PROVE  GuestsOK'
  BY <1>1, <1>7, <1>8, <1>9, <1>10, OfferUsedGuests DEF GuestLoop
<1>11. ASSUME NEW m \in Member, GuestOpens(m)
       PROVE  GuestsOK'
  <2>1. /\ guestPeer[m] # 0
        /\ guestSession' = [guestSession EXCEPT ![m][guestPeer[m]].state = "connected"]
        /\ UNCHANGED <<guestPeer, guestGeneration, announced, told>>
    BY <1>11 DEF GuestOpens
  <2>2. QED
    BY <1>1, <2>1, GuestSideEdit
<1>12. ASSUME NEW m \in Member, NEW B \in [Member -> BOOLEAN],
              B = [announced EXCEPT ![m] = FALSE], announced' = B,
              guestGeneration[m] < MaxGeneration,
              guestGeneration' = [guestGeneration EXCEPT ![m] = @ + 1],
              guestSession' = CloseGuestPeer(m), guestPeer' = [guestPeer EXCEPT ![m] = 0], UNCHANGED told
       PROVE  GuestsOK'
  <2>1. guestGeneration[m] + 1 \in Generation
    BY <1>2, <1>12, PeersAssumption
  <2>2. PICK g \in Generation : g = guestGeneration[m] + 1
    BY <2>1
  <2>3. guestGeneration' = [guestGeneration EXCEPT ![m] = g]
    BY <1>12, <2>2
  <2>4. QED
    BY <1>1, <1>2, <1>12, <2>3, GuestReleases
<1>13. ASSUME NEW m \in Member
       PROVE  [announced EXCEPT ![m] = FALSE] \in [Member -> BOOLEAN]
  BY <1>2
<1>14. ASSUME NEW m \in Member, GuestNotices(m) \/ GuestLoses(m)
       PROVE  GuestsOK'
  BY <1>12, <1>13, <1>14 DEF GuestNotices, GuestLoses, GuestBreaks, BeginGuestGeneration
<1>15. ASSUME NEW m \in Member, GuestRefreshes(m)
       PROVE  GuestsOK'
  <2>1. /\ guestSession' = CloseGuestPeer(m) /\ guestPeer' = [guestPeer EXCEPT ![m] = 0]
        /\ announced' = [announced EXCEPT ![m] = FALSE]
        /\ \/ /\ guestGeneration[m] < MaxGeneration
              /\ guestGeneration' = [guestGeneration EXCEPT ![m] = @ + 1] /\ UNCHANGED told
           \/ UNCHANGED guestGeneration /\ told' = told \cup {m}
    BY <1>15, Zenon DEF GuestRefreshes
  <2>2. announced' \in [Member -> BOOLEAN]
    BY <1>13, <2>1
  <2>3. CASE UNCHANGED guestGeneration /\ told' = told \cup {m}
    BY <1>2, <1>5, <2>1, <2>2, <2>3
  <2>4. QED
    BY <1>12, <1>13, <2>1, <2>3
<1>16. ASSUME NEW l \in Loop, HostLoop(l) \/ HostReadFails(l)
       PROVE  UNCHANGED guests
  BY <1>16 DEF HostLoop, HostTimer, HostReads, HostUses, HostTickEnds, HostReadFails
<1>17. ASSUME NEW l \in Loop, NEW m \in Member,
              Ensure(l, m) \/ OfferPublishFails(l, m) \/ AnswerReadFails(l, m)
       PROVE  UNCHANGED guests
  BY <1>17 DEF Ensure, OfferCreated, OfferPublished, AnswerRead, AnswerUsed, AnswerApplied,
               OfferPublishFails, AnswerReadFails
<1>18. ASSUME NEW m \in Member,
              \/ HostOpens(m) \/ HostNotices(m) \/ HostLoses(m) \/ PresenceLapses(m)
              \/ \E g \in Generation : SignalExpires(m, g)
       PROVE  UNCHANGED guests
  BY <1>18 DEF HostOpens, HostNotices, HostLoses, HostBreaks, PresenceLapses, SignalExpires
<1>19. ASSUME \/ ControlExecuted \/ ControlFails \/ ControlUsed \/ HostRefreshes
              \/ (\E c \in Controls : Ask(c)) \/ UNCHANGED vars
       PROVE  UNCHANGED guests
  BY <1>19 DEF ControlExecuted, ControlFails, ControlUsed, HostRefreshes, Ask, vars
<1>20. QED
  BY <1>4, <1>7, <1>10, <1>11, <1>14, <1>15, <1>16, <1>17, <1>18, <1>19 DEF Next, Environment

-----------------------------------------------------------------------------
(***************************************************************************)
(* The host's poller and the number of faults.                             *)
(***************************************************************************)
\* The ways the host's poller moves.
LEMMA HostPollMoves ==
  ASSUME hostPoll \in Pollers(HostPlaces), NEW l \in Loop,
         NEW peers, NEW session, NEW view,
         \/ UNCHANGED hostPoll
         \/ hostPoll' = Fire(hostPoll, l, HostTask)
         \/ \E at \in {"read", "ensure"} : hostPoll' = [hostPoll EXCEPT !.loop[l] = Frame(at, 0, 0)]
         \/ hostPoll' = Settle(hostPoll, l)
         \/ hostPoll' = MaybeStop(hostPoll, peers, session, view)
         \/ hostPoll' = Settle(MaybeStop(hostPoll, peers, session, view), l)
         \/ hostPoll' = Start(hostPoll, HostTask)
         \/ hostPoll' = Start(Unstarted, HostTask)
  PROVE  hostPoll' \in Pollers(HostPlaces)
<1>1. \A at \in HostPlaces : Frame(at, 0, 0) \in Frames({"none", "timer"} \cup HostPlaces)
  BY PeersAssumption DEF Frame, Frames
<1>2. /\ \A at \in {"read", "ensure"} : Frame(at, 0, 0) \in Frames({"none", "timer"} \cup HostPlaces)
      /\ HostTask \in Frames({"none", "timer"} \cup HostPlaces)
  BY <1>1 DEF HostPlaces, HostTask
<1>3. PICK r : r = MaybeStop(hostPoll, peers, session, view)
  OBVIOUS
<1>4. r \in Pollers(HostPlaces)
  BY <1>2, <1>3, PollerType DEF MaybeStop
<1>5. /\ Fire(hostPoll, l, HostTask) \in Pollers(HostPlaces)
      /\ Settle(hostPoll, l) \in Pollers(HostPlaces)
      /\ Start(hostPoll, HostTask) \in Pollers(HostPlaces)
  BY <1>2, PollerType
<1>6. Settle(r, l) \in Pollers(HostPlaces)
  BY <1>2, <1>4, PollerType
<1>7. Start(Unstarted, HostTask) \in Pollers(HostPlaces)
  BY <1>2, UnstartedType, PollerType
<1>8. ASSUME NEW f \in Frames({"none", "timer"} \cup HostPlaces)
      PROVE  [hostPoll EXCEPT !.loop[l] = f] \in Pollers(HostPlaces)
  BY PollerType
<1>9. CASE \E at \in {"read", "ensure"} : hostPoll' = [hostPoll EXCEPT !.loop[l] = Frame(at, 0, 0)]
  BY <1>2, <1>8, <1>9
<1>10. QED
  BY <1>3, <1>4, <1>5, <1>6, <1>7, <1>9

LEMMA HostPollStep ==
  ASSUME IInv, [Next]_vars
  PROVE  hostPoll' \in Pollers(HostPlaces)
<1>1. hostPoll \in Pollers(HostPlaces) /\ 1 \in Loop
  BY PeersAssumption DEF IInv, PollersOK, Loop
<1>2. ASSUME UNCHANGED hostPoll
      PROVE  hostPoll' \in Pollers(HostPlaces)
  BY <1>1, <1>2
<1>3. ASSUME NEW l \in Loop, HostLoop(l) \/ HostReadFails(l)
      PROVE  hostPoll' \in Pollers(HostPlaces)
  <2>1. \/ hostPoll' = Fire(hostPoll, l, HostTask)
        \/ \E at \in {"read", "ensure"} : hostPoll' = [hostPoll EXCEPT !.loop[l] = Frame(at, 0, 0)]
        \/ hostPoll' = Settle(hostPoll, l)
        \/ hostPoll' = Settle(MaybeStop(hostPoll, hostPeers, hostSession, latest), l)
    BY <1>3, Zenon DEF HostLoop, HostTimer, HostReads, HostUses, HostTickEnds, HostReadFails
  <2>2. QED
    BY <1>1, <2>1, HostPollMoves
<1>4. ASSUME \/ hostPoll' = Start(hostPoll, HostTask)
             \/ hostPoll' = Start(Unstarted, HostTask)
             \/ \E peers, session, view : hostPoll' = MaybeStop(hostPoll, peers, session, view)
      PROVE  hostPoll' \in Pollers(HostPlaces)
  BY <1>1, <1>4, HostPollMoves
<1>5. ASSUME NEW l \in Loop, NEW m \in Member,
             Ensure(l, m) \/ OfferPublishFails(l, m) \/ AnswerReadFails(l, m)
      PROVE  hostPoll' \in Pollers(HostPlaces)
  <2>1. UNCHANGED hostPoll \/ hostPoll' = Start(hostPoll, HostTask)
    BY <1>5, Zenon DEF Ensure, OfferCreated, OfferPublished, AnswerRead, AnswerUsed, AnswerApplied,
                       OfferPublishFails, AnswerReadFails
  <2>2. QED
    BY <1>2, <1>4, <2>1
<1>6. ASSUME NEW m \in Member, HostOpens(m) \/ HostNotices(m) \/ HostLoses(m)
      PROVE  hostPoll' \in Pollers(HostPlaces)
  <2>1. CASE HostOpens(m)
    BY <1>4, <2>1 DEF HostOpens
  <2>2. CASE HostNotices(m) \/ HostLoses(m)
    BY <1>4, <2>2 DEF HostNotices, HostLoses, HostBreaks
  <2>3. QED
    BY <1>6, <2>1, <2>2
<1>7. CASE ControlUsed
  <2>1. \/ UNCHANGED hostPoll
        \/ hostPoll' = Start(hostPoll, HostTask)
        \/ \E peers, session, view : hostPoll' = MaybeStop(hostPoll, peers, session, view)
    BY <1>7 DEF ControlUsed, SetRoomLocked, RemovePeer
  <2>2. QED
    BY <1>2, <1>4, <2>1
<1>8. CASE HostRefreshes
  BY <1>4, <1>8 DEF HostRefreshes
<1>9. ASSUME NEW m \in Member, NEW l \in Loop, GuestLoop(m, l) \/ GuestRequestFails(m, l)
      PROVE  UNCHANGED hostPoll
  BY <1>9 DEF GuestLoop, GuestTimer, Announce, GuestState, OfferRead, OfferUsed, OfferAccepted,
              AnswerPublished, GuestRequestFails, host
<1>10. ASSUME NEW m \in Member,
              \/ GuestOpens(m) \/ GuestNotices(m) \/ GuestLoses(m) \/ GuestRefreshes(m)
              \/ PresenceLapses(m) \/ \E g \in Generation : SignalExpires(m, g)
       PROVE  UNCHANGED hostPoll
  BY <1>10 DEF GuestOpens, GuestNotices, GuestLoses, GuestBreaks, GuestRefreshes, PresenceLapses,
               SignalExpires, host
<1>11. ASSUME ControlExecuted \/ ControlFails \/ (\E c \in Controls : Ask(c)) \/ UNCHANGED vars
       PROVE  UNCHANGED hostPoll
  BY <1>11 DEF ControlExecuted, ControlFails, Ask, vars, host
<1>12. QED
  BY <1>2, <1>3, <1>5, <1>6, <1>7, <1>8, <1>9, <1>10, <1>11 DEF Next, Environment

\* A step adds at most one fault, and none beyond the bound.
LEMMA FaultsStep == IInv /\ [Next]_vars => FaultsOK'
<1> SUFFICES ASSUME IInv, [Next]_vars
             PROVE  FaultsOK'
  OBVIOUS
<1>1. SUFFICES UNCHANGED faults \/ \E kind : Fault(kind)
  <2>1. faults \in 0 .. MaxFaults /\ MaxFaults \in Nat
    BY PeersAssumption DEF IInv, FaultsOK
  <2>2. ASSUME NEW kind, Fault(kind)
        PROVE  faults' \in 0 .. MaxFaults
    BY <2>1, <2>2 DEF Fault
  <2>3. QED
    BY <2>1, <2>2 DEF FaultsOK
<1>2. ASSUME NEW l \in Loop, HostLoop(l) \/ HostReadFails(l)
      PROVE  UNCHANGED faults \/ \E kind : Fault(kind)
  BY <1>2, Zenon DEF HostLoop, HostTimer, HostReads, HostUses, HostTickEnds, HostReadFails
<1>3. ASSUME NEW l \in Loop, NEW m \in Member,
             Ensure(l, m) \/ OfferPublishFails(l, m) \/ AnswerReadFails(l, m)
      PROVE  UNCHANGED faults \/ \E kind : Fault(kind)
  BY <1>3, Zenon DEF Ensure, OfferCreated, OfferPublished, AnswerRead, AnswerUsed, AnswerApplied,
                     OfferPublishFails, AnswerReadFails
<1>4. ASSUME NEW m \in Member, NEW l \in Loop, GuestLoop(m, l) \/ GuestRequestFails(m, l)
      PROVE  UNCHANGED faults \/ \E kind : Fault(kind)
  BY <1>4, Zenon DEF GuestLoop, GuestTimer, Announce, GuestState, OfferRead, OfferUsed,
                     OfferAccepted, AnswerPublished, GuestRequestFails
<1>5. ASSUME NEW m \in Member,
             \/ HostOpens(m) \/ GuestOpens(m) \/ HostNotices(m) \/ GuestNotices(m)
             \/ HostLoses(m) \/ GuestLoses(m) \/ GuestRefreshes(m) \/ PresenceLapses(m)
             \/ \E g \in Generation : SignalExpires(m, g)
      PROVE  UNCHANGED faults \/ \E kind : Fault(kind)
  BY <1>5, Zenon DEF HostOpens, GuestOpens, HostNotices, GuestNotices, HostLoses, GuestLoses,
                     GuestRefreshes, PresenceLapses, SignalExpires
<1>6. ASSUME \/ ControlExecuted \/ ControlFails \/ ControlUsed \/ HostRefreshes
             \/ (\E c \in Controls : Ask(c)) \/ UNCHANGED vars
      PROVE  UNCHANGED faults \/ \E kind : Fault(kind)
  BY <1>6, Zenon DEF ControlExecuted, ControlFails, ControlUsed, HostRefreshes, Ask, vars
<1>7. QED
  BY <1>2, <1>3, <1>4, <1>5, <1>6 DEF Next, Environment

-----------------------------------------------------------------------------
(***************************************************************************)
(* The theorems.                                                           *)
(***************************************************************************)
LEMMA NewRoomType ==
  [NewRoom(Now) EXCEPT !.joined = Member, !.lastSeenAt = [m \in Member |-> Now]] \in Room
<1>1. Now \in Nat /\ FALSE \in BOOLEAN /\ [m \in Member |-> Now] \in [Member -> Nat]
  BY DEF Now
<1>2. NewRoom(Now) \in Room
  BY <1>1 DEF NewRoom, Room
<1>3. QED
  BY <1>1, <1>2 DEF Room

LEMMA InitInvariant == Init => IInv
<1> SUFFICES ASSUME Init
             PROVE  IInv
  OBVIOUS
<1>1. 0 \in 0 .. MaxSession /\ 0 \in 0 .. MaxGeneration /\ 0 \in 0 .. MaxFaults /\ 1 \in Generation
  BY PeersAssumption
<1>2. PollersOK /\ FramesOK
  <2>1. HostTask \in Frames({"none", "timer"} \cup HostPlaces)
    BY <1>1 DEF HostTask, Frame, Frames, HostPlaces
  <2>2. 1 \in Loop
    BY PeersAssumption DEF Loop
  <2>3. hostPoll \in Pollers(HostPlaces)
    BY <2>1, <2>2, UnstartedType, PollerType DEF Init
  <2>4. PICK f : f = Frame("announce", 1, 0)
    OBVIOUS
  <2>5. f \in Frames({"none", "timer"} \cup GuestPlaces) /\ f.at = "announce" /\ f.gen = 1
    BY <1>1, <2>4, PeersAssumption DEF Frame, Frames, GuestPlaces
  <2>6. PICK q : q = Start(Unstarted, f)
    OBVIOUS
  <2>7. q \in Pollers(GuestPlaces) /\ LoopsFrom(Unstarted, q, {f})
    BY <2>2, <2>5, <2>6, UnstartedType, PollerType
  <2>8. guestPoll = [m \in Member |-> q]
    BY <2>4, <2>6 DEF Init
  <2>9. \A m \in Member : FrameOK(m, f) /\ FrameOK(m, NoTask) /\ FrameOK(m, Waiting)
    BY <1>1, <2>5, RestingOK DEF FrameOK
  <2>10. ASSUME NEW m \in Member, NEW l \in Loop
         PROVE  FrameOK(m, guestPoll[m].loop[l])
    <3>1. guestPoll[m].loop[l] \in {f, NoTask, Waiting}
      BY <2>7, <2>8 DEF LoopsFrom, Unstarted
    <3>2. QED
      BY <2>9, <3>1
  <2>11. QED
    BY <2>3, <2>7, <2>8, <2>10 DEF PollersOK, FramesOK
<1>3. RoomOK
  <2>1. room \in Room
    BY NewRoomType DEF Init
  <2>2. control \in [at : {"idle"}] /\ control.at = "idle" /\ dismissed = {}
    BY DEF Init
  <2>3. QED
    BY <2>1, <2>2 DEF RoomOK
<1>4. HostOK
  <2>1. NoSession \in HostSessions /\ NoSession.state = "new"
    BY <1>1 DEF NoSession, HostSessions
  <2>2. NoEnsure \in Ensures /\ NoEnsure.at = "done"
    BY <1>1 DEF NoEnsure, Ensures
  <2>3. NotRead \in Views
    BY DEF NotRead, Views
  <2>4. SessionsOK
    BY <1>1, <2>1 DEF Init, SessionsOK, Known, Held
  <2>5. EnsuresOK
    BY <2>2 DEF Init, EnsuresOK
  <2>6. ReadsOK
    BY <2>3 DEF Init, ReadsOK
  <2>7. QED
    BY <2>4, <2>5, <2>6 DEF HostOK
<1>5. DismissedOK
  BY DEF Init, DismissedOK
<1>6. OffersOK
  BY <1>1, <1>2 DEF Init, OffersOK, StoredOK
<1>7. GuestsOK
  <2>1. [state |-> "new", offer |-> 0] \in GuestSessions
    BY <1>1 DEF GuestSessions
  <2>2. \A m \in Member : GuestHolds(m)
    BY DEF Init, GuestHolds
  <2>3. QED
    BY <1>1, <2>1, <2>2 DEF Init, GuestsOK
<1>8. FaultsOK
  BY <1>1 DEF Init, FaultsOK
<1>9. QED
  BY <1>2, <1>3, <1>4, <1>5, <1>6, <1>7, <1>8 DEF IInv

LEMMA StepInvariant == IInv /\ [Next]_vars => IInv'
<1> SUFFICES ASSUME IInv, [Next]_vars
             PROVE  IInv'
  OBVIOUS
<1>1. PollersOK'
  BY HostPollStep, GuestPollStep DEF PollersOK
<1>2. QED
  BY <1>1, RoomStep, HostStep, DismissedStep, OffersStep, GuestsStep, FaultsStep DEF IInv

\* What holds in every state of the two sides: each session was created for one guest and one
\* generation (createManagedHostPeer, guestTick), offers are stored and used under the generation
\* of the session they describe, and nothing gives an answer to the session of a guest whose
\* removal the host has dismissed.
THEOREM PeersInvariance == Spec => []IInv
<1>1. Init => IInv
  BY InitInvariant
<1>2. IInv /\ [Next]_vars => IInv'
  BY StepInvariant
<1>3. QED
  BY <1>1, <1>2, PTL DEF Spec

\* Every variable keeps its type, and neither page holds a session that it has closed or never
\* created: maps and sessions stay in step in createManagedHostPeer, closeManagedPeer and
\* closeGuestPeer.
THEOREM PeersTypes == Spec => []TypeOK
<1>1. IInv => TypeOK
  <2> SUFFICES ASSUME IInv
               PROVE  TypeOK
    OBVIOUS
  <2>1. \A P : \A p \in Pollers(P) : PollerOK(p)
    BY DEF Pollers, PollerOK
  <2>2. PollerOK(hostPoll) /\ \A m \in Member : PollerOK(guestPoll[m])
    BY <2>1 DEF IInv, PollersOK
  <2>3. ASSUME NEW m \in Member
        PROVE  Held(hostSession[m], hostPeers[m]) /\ Held(guestSession[m], guestPeer[m])
    BY DEF IInv, HostOK, SessionsOK, GuestsOK, GuestHolds, Held
  <2>4. \A l \in Loop, m \in Member :
          ensure[l][m].at \in {"offer", "publish", "ask", "answer", "apply", "hung", "done"}
    BY DEF IInv, HostOK, EnsuresOK, Ensures
  <2>5. dismissed \subseteq Member
    BY DEF IInv, RoomOK, Room
  <2>6. QED
    BY <2>2, <2>3, <2>4, <2>5
       DEF IInv, TypeOK, RoomOK, HostOK, SessionsOK, OffersOK, GuestsOK, FaultsOK
<1>2. QED
  BY <1>1, PeersInvariance, PTL

\* The session a guest holds answers an offer of its current generation, whatever happened while
\* guestTick awaited the announcement, the room state, the offer or acceptOffer.
THEOREM GuestsAnswerTheirGeneration == Spec => []GuestAnswersItsGeneration
<1>1. IInv => GuestAnswersItsGeneration
  BY DEF IInv, GuestsOK, GuestHolds, MadeFor, GuestAnswersItsGeneration
<1>2. QED
  BY <1>1, PeersInvariance, PTL

\* Once removePeer has run for a guest the host is never connected to it again, although a tick
\* that read the room before the removal may still create a session for it.
THEOREM DismissalIsFinal == Spec => []DismissedStaysOut
<1>1. IInv => DismissedStaysOut
  BY DEF IInv, DismissedOK, Unanswered, DismissedStaysOut, HostConnected, HostSide
<1>2. QED
  BY <1>1, PeersInvariance, PTL

===============================================================================
