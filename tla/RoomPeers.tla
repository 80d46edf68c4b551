------------------------------ MODULE RoomPeers ------------------------------
(***************************************************************************)
(* RoomPeerManager on both sides of a room: the host's page builds one     *)
(* WebRTC session per guest, the guest's page one session to the host, and *)
(* they find each other through offers and answers left at the             *)
(* coordinator.  Every await is a point where anything else may happen:    *)
(* another poll loop, a session event, the user, another page.             *)
(*                                                                         *)
(* The coordinator is the atomic one: RoomCoordinator implements it        *)
(* (theorem CoordinatorIsAtomic), and its rules are those of RoomRules.    *)
(* A request takes effect when the coordinator executes it; where the      *)
(* answer carries data that may be stale when it is used, the use is a     *)
(* step of its own.                                                        *)
(*                                                                         *)
(* A session is named by its guest and a number; an SDP description is     *)
(* named by the session it describes.  Sessions are never reopened.        *)
(***************************************************************************)
EXTENDS RoomRules, RoomPoller

CONSTANTS
  MaxGeneration,  \* bound on the generations a guest may draw
  MaxSession,     \* bound on the sessions each side may create for a guest
  Controls,       \* the host's lock and remove calls, each made at most once
  Faults,         \* which of the environment's faults occur
  MaxFaults       \* and how often, all together

ASSUME PeersAssumption ==
  /\ MaxGeneration \in Nat \ {0} /\ MaxSession \in Nat /\ MaxLoops \in Nat \ {0} /\ MaxFaults \in Nat
  /\ Generation = 1 .. MaxGeneration
  /\ NoGeneration = 0
  /\ PresenceTimeout = 0
  /\ Faults \subseteq {"request", "link", "hostPage", "guestPage", "presence", "signal"}
  /\ Controls \subseteq {c \in Call : c.op \in {"lock", "remove"}}

VARIABLES
  room,          \* the coordinator's room
  offers,        \* the stored offers: the host session described, or 0
  answers,       \* the stored answers: the guest session described, or 0
  hostPoll,      \* the host's poller and its loops
  hostRead,      \* the room state each host loop has fetched
  ensure,        \* ensureHostPeer, per host loop and guest
  hostPeers,     \* the session the host holds for a guest, or 0
  hostSession,   \* every session the host's pages have created
  latest,        \* latestRoomState: what maybeStopHostPolling reads of it
  control,       \* the host's control call in flight
  asked,         \* the control calls made so far
  dismissed,     \* the guests for whom removePeer has run
  guestPoll,     \* each guest's poller and its loops
  guestGeneration,
  announced,     \* guestGenerationAnnounced
  guestPeer,     \* the session a guest holds, or 0
  guestSession,  \* every session the guests' pages have created
  told,          \* the guests to whom "removed" was emitted
  faults         \* faults so far

coordinator == <<room, offers, answers>>
host   == <<hostPoll, hostRead, ensure, hostPeers, hostSession, latest>>
user   == <<control, asked, dismissed>>
guests == <<guestPoll, guestGeneration, announced, guestPeer, guestSession, told>>
vars   == <<coordinator, host, user, guests, faults>>

Session == 1 .. MaxSession

\* Time enters only as presence: lastSeenAt is Now, or it is too long ago.
Now == 1

Fault(kind) ==
  /\ kind \in Faults
  /\ faults < MaxFaults
  /\ faults' = faults + 1

-----------------------------------------------------------------------------
(***************************************************************************)
(* What the host's code reads.                                             *)
(***************************************************************************)
NotRead == [locked |-> FALSE, removed |-> Member, present |-> {},
            generation |-> [m \in Member |-> NoGeneration]]

\* toState.
RoomState ==
  [locked     |-> room.locked,
   removed    |-> room.removed,
   present    |-> Present(room, Now),
   generation |-> room.generation]

NoSession == [gen |-> 0, state |-> "new", offered |-> FALSE, remote |-> 0, applied |-> FALSE]
NoEnsure  == [at |-> "done", session |-> 0, got |-> 0]

\* The host's session for m is connected.
HostConnected(m) == hostPeers[m] # 0 /\ hostSession[m][hostPeers[m]].state = "connected"

\* maybeStopHostPolling, on the given poller, sessions and state.
Settled(peers, session, view) ==
  \A m \in Member \ view.removed :
    peers[m] # 0 /\ session[m][peers[m]].state = "connected"
\* Mutant: a session that is still connecting counts as settled.
MaybeStopEarly(p, peers, session, view) ==
  IF view.locked /\ p.on /\ \A m \in Member \ view.removed : peers[m] # 0
    THEN Stop(p) ELSE p
MaybeStop(p, peers, session, view) ==
  IF view.locked /\ p.on /\ Settled(peers, session, view) THEN Stop(p) ELSE p

HostTask == Frame("state", 0, 0)

Init ==
  /\ room = [NewRoom(Now) EXCEPT !.joined = Member,
                                 !.lastSeenAt = [m \in Member |-> Now]]
  /\ offers = [m \in Member |-> [g \in Generation |-> 0]]
  /\ answers = [m \in Member |-> [g \in Generation |-> 0]]
  /\ hostPoll = Start(Unstarted, HostTask)
  /\ hostRead = [l \in Loop |-> NotRead]
  /\ ensure = [l \in Loop |-> [m \in Member |-> NoEnsure]]
  /\ hostPeers = [m \in Member |-> 0]
  /\ hostSession = [m \in Member |-> [s \in Session |-> NoSession]]
  /\ latest = [known |-> FALSE, locked |-> FALSE, removed |-> {}]
  /\ control = [at |-> "idle"]
  /\ asked = {}
  /\ dismissed = {}
  /\ guestPoll = [m \in Member |-> Start(Unstarted, Frame("announce", 1, 0))]
  /\ guestGeneration = [m \in Member |-> 1]
  /\ announced = [m \in Member |-> FALSE]
  /\ guestPeer = [m \in Member |-> 0]
  /\ guestSession = [m \in Member |-> [s \in Session |-> [state |-> "new", offer |-> 0]]]
  /\ told = {}
  /\ faults = 0

-----------------------------------------------------------------------------
(***************************************************************************)
(* hostTick.                                                               *)
(***************************************************************************)
HostTimer(l) ==
  /\ hostPoll.loop[l] = Waiting
  /\ hostPoll' = Fire(hostPoll, l, HostTask)
  /\ UNCHANGED <<coordinator, hostRead, ensure, hostPeers, hostSession, latest,
                 user, guests, faults>>

\* The coordinator executes getState.
HostReads(l) ==
  /\ hostPoll.loop[l].at = "state"
  /\ hostRead' = [hostRead EXCEPT ![l] = RoomState]
  /\ hostPoll' = [hostPoll EXCEPT !.loop[l] = Frame("read", 0, 0)]
  /\ UNCHANGED <<coordinator, ensure, hostPeers, hostSession, latest, user, guests, faults>>

HostReadFails(l) ==
  /\ hostPoll.loop[l].at = "state"
  /\ Fault("request")
  /\ hostPoll' = Settle(hostPoll, l)
  /\ UNCHANGED <<coordinator, hostRead, ensure, hostPeers, hostSession, latest, user, guests>>

\* The members hostTick works on; a peer already connected need not be present.
Live(view) ==
  {m \in Member \ view.removed :
     /\ view.generation[m] # NoGeneration
     /\ m \in view.present \/ HostConnected(m)}

\* The next unused session number.
Fresh(session) == CHOOSE s \in Session :
  session[s].state = "new" /\ \A k \in 1 .. (s - 1) : session[k].state # "new"

\* Close the session s; 0 stands for no session.
Close(session, s) == IF s = 0 THEN session ELSE [session EXCEPT ![s].state = "closed"]

\* Mutant: the peer of an older generation is kept.
KeepsOld(view, m) == hostPeers[m] # 0 /\ m \in Live(view)
Keeps(view, m) ==
  /\ hostPeers[m] # 0
  /\ m \in Live(view)
  /\ hostSession[m][hostPeers[m]].gen = view.generation[m]

\* The answer to getState is used: peers that are gone or out of date are closed,
\* a peer is created for every live guest without one, and ensureHostPeer runs
\* for each of them up to its first await.
HostUses(l) ==
  /\ hostPoll.loop[l].at = "read"
  /\ LET view    == hostRead[l]
         create  == {m \in Live(view) : ~Keeps(view, m)}
         closed  == [m \in Member |->
                       IF Keeps(view, m) THEN hostSession[m]
                       ELSE Close(hostSession[m], hostPeers[m])]
         session == [m \in Member |->
                       IF m \in create
                         THEN [closed[m] EXCEPT ![Fresh(closed[m])] =
                                 [NoSession EXCEPT !.gen = view.generation[m],
                                                   !.state = "offering"]]
                       ELSE IF m \in Live(view) /\ ~closed[m][hostPeers[m]].offered
                         THEN [closed[m] EXCEPT ![hostPeers[m]].state = "offering"]
                       ELSE closed[m]]
         peers   == [m \in Member |->
                       IF Keeps(view, m) THEN hostPeers[m]
                       ELSE IF m \in create THEN Fresh(closed[m]) ELSE 0]
     IN
     /\ \A m \in create : \E s \in Session : closed[m][s].state = "new"
     /\ latest' = [known |-> TRUE, locked |-> view.locked, removed |-> view.removed]
     /\ hostSession' = session
     /\ hostPeers' = peers
     /\ ensure' = [ensure EXCEPT ![l] =
          [m \in Member |->
             IF m \notin Live(view) THEN NoEnsure
             ELSE LET s == session[m][peers[m]] IN
               [at |-> IF ~s.offered THEN "offer" ELSE IF ~s.applied THEN "ask" ELSE "done",
                session |-> peers[m], got |-> 0]]]
  /\ hostRead' = [hostRead EXCEPT ![l] = NotRead]
  /\ hostPoll' = [hostPoll EXCEPT !.loop[l] = Frame("ensure", 0, 0)]
  /\ UNCHANGED <<coordinator, user, guests, faults>>

\* Promise.all has settled and the loop goes on.
HostTickEnds(l) ==
  /\ hostPoll.loop[l].at = "ensure"
  /\ \A m \in Member : ensure[l][m].at = "done"
  /\ hostPoll' = Settle(MaybeStop(hostPoll, hostPeers, hostSession, latest), l)
  /\ ensure' = [ensure EXCEPT ![l] = [m \in Member |-> NoEnsure]]
  /\ UNCHANGED <<coordinator, hostRead, hostPeers, hostSession, latest, user, guests, faults>>

-----------------------------------------------------------------------------
(***************************************************************************)
(* ensureHostPeer, from its first await on.                                *)
(***************************************************************************)
At(l, m, where) == hostPoll.loop[l].at = "ensure" /\ ensure[l][m].at = where

EnsureGoes(l, m, where, got) ==
  ensure' = [ensure EXCEPT ![l][m] =
    IF where = "done" THEN NoEnsure ELSE [@ EXCEPT !.at = where, !.got = got]]

\* A WebRTC call whose connection is closed under it throws, or never settles: a
\* closed connection reports no more events (waitForIceGathering waits for one).
EnsureCutOff(l, m) ==
  \/ EnsureGoes(l, m, "done", 0)
  \/ ensure' = [ensure EXCEPT ![l][m] = [NoEnsure EXCEPT !.at = "hung"]]

IsCurrentHostPeer(m, s) == hostPeers[m] = s

\* createOffer returns, unless the session has been closed meanwhile.
OfferCreated(l, m) ==
  /\ At(l, m, "offer")
  /\ LET s == ensure[l][m].session IN
     IF IsCurrentHostPeer(m, s)
       THEN /\ hostSession' = [hostSession EXCEPT ![m][s] =
                                  [@ EXCEPT !.state = "awaiting", !.offered = TRUE]]
            /\ EnsureGoes(l, m, "publish", 0)
       ELSE EnsureCutOff(l, m) /\ UNCHANGED hostSession
  /\ UNCHANGED <<coordinator, hostPoll, hostRead, hostPeers, latest, user, guests, faults>>

HostSignal(op, m, s) ==
  [op |-> op, secret |-> TRUE, member |-> m, generation |-> hostSession[m][s].gen]

\* publishSignal; getSignal follows unless the answer was applied meanwhile.
OfferPublished(l, m) ==
  /\ At(l, m, "publish")
  /\ LET s == ensure[l][m].session
         c == HostSignal("publishOffer", m, s)
     IN IF Verdict(c, room, Now) = "ok"
          THEN /\ offers' = [offers EXCEPT ![m][c.generation] = s]
               /\ EnsureGoes(l, m, IF hostSession[m][s].applied THEN "done" ELSE "ask", 0)
          ELSE EnsureGoes(l, m, "done", 0) /\ UNCHANGED offers
  /\ UNCHANGED <<room, answers, hostPoll, hostRead, hostPeers, hostSession, latest,
                 user, guests, faults>>

\* publishSignal fails: the offer may have been stored or not.
OfferPublishFails(l, m) ==
  /\ At(l, m, "publish")
  /\ Fault("request")
  /\ LET s == ensure[l][m].session
         c == HostSignal("publishOffer", m, s)
     IN \/ UNCHANGED offers
        \/ /\ Verdict(c, room, Now) = "ok"
           /\ offers' = [offers EXCEPT ![m][c.generation] = s]
  /\ EnsureGoes(l, m, "done", 0)
  /\ UNCHANGED <<room, answers, hostPoll, hostRead, hostPeers, hostSession, latest,
                 user, guests>>

\* The coordinator executes getSignal.
AnswerRead(l, m) ==
  /\ At(l, m, "ask")
  /\ LET c == HostSignal("readAnswer", m, ensure[l][m].session)
         a == answers[m][c.generation]
     IN IF Verdict(c, room, Now) = "ok" /\ a # 0
          THEN EnsureGoes(l, m, "answer", a)
          ELSE EnsureGoes(l, m, "done", 0)
  /\ UNCHANGED <<coordinator, hostPoll, hostRead, hostPeers, hostSession, latest,
                 user, guests, faults>>

AnswerReadFails(l, m) ==
  /\ At(l, m, "ask")
  /\ Fault("request")
  /\ EnsureGoes(l, m, "done", 0)
  /\ UNCHANGED <<coordinator, hostPoll, hostRead, hostPeers, hostSession, latest, user, guests>>

\* The answer is used: applyAnswer is called if the peer is still the current one.
AnswerUsed(l, m) ==
  /\ At(l, m, "answer")
  /\ LET s == ensure[l][m].session IN
     IF IsCurrentHostPeer(m, s)
       THEN /\ hostSession' = [hostSession EXCEPT ![m][s].state = "connecting"]
            /\ EnsureGoes(l, m, "apply", ensure[l][m].got)
       ELSE EnsureGoes(l, m, "done", 0) /\ UNCHANGED hostSession
  /\ UNCHANGED <<coordinator, hostPoll, hostRead, hostPeers, latest, user, guests, faults>>

\* setRemoteDescription settles.  A session takes one answer: a second one makes it
\* throw, which turns the session's state to "failed".
AnswerApplied(l, m) ==
  /\ At(l, m, "apply")
  /\ LET s == ensure[l][m].session IN
     \/ /\ ~IsCurrentHostPeer(m, s)
        /\ EnsureCutOff(l, m)
        /\ UNCHANGED <<hostSession, hostPoll>>
     \/ /\ IsCurrentHostPeer(m, s)
        /\ hostSession[m][s].remote = 0
        /\ EnsureGoes(l, m, "done", 0)
        /\ hostSession' = [hostSession EXCEPT ![m][s] =
                              [@ EXCEPT !.remote = ensure[l][m].got, !.applied = TRUE]]
        /\ UNCHANGED hostPoll
     \/ /\ IsCurrentHostPeer(m, s)
        /\ hostSession[m][s].remote # 0
        /\ EnsureGoes(l, m, "done", 0)
        /\ MayStart(hostPoll)
        /\ hostSession' = [hostSession EXCEPT ![m][s].state = "broken"]
        /\ hostPoll' = Start(hostPoll, HostTask)
  /\ UNCHANGED <<coordinator, hostRead, hostPeers, latest, user, guests, faults>>

-----------------------------------------------------------------------------
(***************************************************************************)
(* guestTick.                                                              *)
(***************************************************************************)

\* What guestTick reads when it starts.
GuestTask(m) ==
  Frame(IF announced[m] THEN "state" ELSE "announce", guestGeneration[m], 0)

GuestTimer(m, l) ==
  /\ guestPoll[m].loop[l] = Waiting
  /\ guestPoll' = [guestPoll EXCEPT ![m] = Fire(@, l, GuestTask(m))]
  /\ UNCHANGED <<coordinator, host, user, guestGeneration, announced, guestPeer,
                 guestSession, told, faults>>

GuestAt(m, l, where) == guestPoll[m].loop[l].at = where
GenOf(m, l) == guestPoll[m].loop[l].gen
\* Mutant: the generation is not compared again after an await.
StaleNoMore(m, l) == FALSE
Stale(m, l) == guestGeneration[m] # GenOf(m, l)

GuestGoes(m, l, where, ref) ==
  guestPoll' = [guestPoll EXCEPT ![m].loop[l] = Frame(where, GenOf(m, l), ref)]

GuestTickEnds(m, l) == guestPoll' = [guestPoll EXCEPT ![m] = Settle(@, l)]

GuestCall(op, m) == [op |-> op, secret |-> TRUE, member |-> m]
GuestSignal(op, m, g) == [op |-> op, secret |-> TRUE, member |-> m, generation |-> g]

CloseGuestPeer(m) == [guestSession EXCEPT ![m] = Close(@, guestPeer[m])]

\* handlePollError on "member_removed".  The other two refusals that stop the poller,
\* invalid_credentials and room_not_found, do not occur: credentials are the ones the
\* coordinator issued, and the room does not expire while it is polled.
EmitRemoved(m, l) ==
  /\ guestPoll' = [guestPoll EXCEPT ![m] = Settle(Stop(@), l)]
  /\ guestSession' = CloseGuestPeer(m)
  /\ guestPeer' = [guestPeer EXCEPT ![m] = 0]
  /\ told' = told \cup {m}

\* Any other error is shown and the loop goes on.
GuestFails(m, l) == GuestTickEnds(m, l) /\ UNCHANGED <<guestSession, guestPeer, told>>

\* The coordinator refuses the call c of this loop.
GuestRefused(m, l, c) ==
  /\ Verdict(c, room, Now) # "ok"
  /\ IF Verdict(c, room, Now) = "member_removed" THEN EmitRemoved(m, l) ELSE GuestFails(m, l)
  /\ UNCHANGED <<coordinator, guestGeneration, announced>>

Accepts(c) == Verdict(c, room, Now) = "ok" /\ room' = Mutated(c, room, Now, NoMember)

Announce(m, l) ==
  /\ GuestAt(m, l, "announce")
  /\ LET c == GuestSignal("announce", m, GenOf(m, l)) IN
     \/ GuestRefused(m, l, c)
     \/ /\ Accepts(c)
        /\ announced' = [announced EXCEPT ![m] = @ \/ ~Stale(m, l)]
        /\ GuestGoes(m, l, "state", 0)
        /\ UNCHANGED <<offers, answers, guestGeneration, guestPeer, guestSession, told>>
  /\ UNCHANGED <<host, user, faults>>

\* getState; its answer is only shown, and it marks the guest as present.
GuestState(m, l) ==
  /\ GuestAt(m, l, "state")
  /\ LET c == GuestCall("guestState", m) IN
     \/ GuestRefused(m, l, c)
     \/ /\ Accepts(c)
        /\ IF Stale(m, l) THEN GuestTickEnds(m, l) ELSE GuestGoes(m, l, "get", 0)
        /\ UNCHANGED <<offers, answers, guestGeneration, announced, guestPeer,
                       guestSession, told>>
  /\ UNCHANGED <<host, user, faults>>

\* The coordinator executes getSignal.
OfferRead(m, l) ==
  /\ GuestAt(m, l, "get")
  /\ LET c == GuestSignal("readOffer", m, GenOf(m, l)) IN
     \/ GuestRefused(m, l, c)
     \/ /\ Verdict(c, room, Now) = "ok"
        /\ LET o == offers[m][c.generation] IN
           IF o = 0 THEN GuestTickEnds(m, l) ELSE GuestGoes(m, l, "got", o)
        /\ UNCHANGED <<coordinator, guestGeneration, announced, guestPeer, guestSession, told>>
  /\ UNCHANGED <<host, user, faults>>

\* A guest's request fails; a publication or an announcement may have been executed.
GuestRequestFails(m, l) ==
  /\ \E where \in {"announce", "state", "get", "publish"} : GuestAt(m, l, where)
  /\ Fault("request")
  /\ \/ UNCHANGED <<room, answers>>
     \/ /\ GuestAt(m, l, "announce")
        /\ Accepts(GuestSignal("announce", m, GenOf(m, l)))
        /\ UNCHANGED answers
     \/ /\ GuestAt(m, l, "publish")
        /\ Verdict(GuestSignal("publishAnswer", m, GenOf(m, l)), room, Now) = "ok"
        /\ answers' = [answers EXCEPT ![m][GenOf(m, l)] = guestPoll[m].loop[l].ref]
        /\ UNCHANGED room
  /\ GuestFails(m, l)
  /\ UNCHANGED <<offers, host, user, guestGeneration, announced>>

\* The offer is used: a new session replaces the old one and acceptOffer is called.
OfferUsed(m, l) ==
  /\ GuestAt(m, l, "got")
  /\ LET o == guestPoll[m].loop[l].ref
         s == guestPeer[m]
     IN IF Stale(m, l) \/ (s # 0 /\ guestSession[m][s].offer = o)
          THEN GuestTickEnds(m, l) /\ UNCHANGED <<guestPeer, guestSession>>
          ELSE LET closed == Close(guestSession[m], s) IN
               /\ \E k \in Session : closed[k].state = "new"
               /\ guestSession' = [guestSession EXCEPT ![m] =
                    [closed EXCEPT ![Fresh(closed)] = [state |-> "answering", offer |-> o]]]
               /\ guestPeer' = [guestPeer EXCEPT ![m] = Fresh(closed)]
               /\ GuestGoes(m, l, "accept", Fresh(closed))
  /\ UNCHANGED <<coordinator, host, user, guestGeneration, announced, told, faults>>

\* acceptOffer returns, unless the session has been closed meanwhile.
OfferAccepted(m, l) ==
  /\ GuestAt(m, l, "accept")
  /\ LET s == guestPoll[m].loop[l].ref IN
     IF guestPeer[m] = s /\ ~Stale(m, l)
       THEN /\ guestSession' = [guestSession EXCEPT ![m][s].state = "connecting"]
            /\ GuestGoes(m, l, "publish", s)
       ELSE /\ GuestTickEnds(m, l) \/ GuestGoes(m, l, "hung", 0)
            /\ UNCHANGED guestSession
  /\ UNCHANGED <<coordinator, host, user, guestGeneration, announced, guestPeer, told, faults>>

AnswerPublished(m, l) ==
  /\ GuestAt(m, l, "publish")
  /\ LET c == GuestSignal("publishAnswer", m, GenOf(m, l)) IN
     \/ GuestRefused(m, l, c)
     \/ /\ Verdict(c, room, Now) = "ok"
        /\ answers' = [answers EXCEPT ![m][c.generation] = guestPoll[m].loop[l].ref]
        /\ GuestTickEnds(m, l)
        /\ UNCHANGED <<room, offers, guestGeneration, announced, guestPeer, guestSession, told>>
  /\ UNCHANGED <<host, user, faults>>

-----------------------------------------------------------------------------
(***************************************************************************)
(* WebRTC, as PeerSession reports it.  Two sessions form a link when each  *)
(* has taken the other's description.  Only the sessions a page still      *)
(* holds have handlers.                                                    *)
(***************************************************************************)
HostSide(m)  == hostSession[m][hostPeers[m]]
GuestSide(m) == guestSession[m][guestPeer[m]]

\* The two sessions describe each other.
Linked(m, s, t) == hostSession[m][s].remote = t /\ guestSession[m][t].offer = s

\* A side that still runs its end of the link.
HostAlive(m, s)  == s # 0 /\ hostSession[m][s].state \in {"connecting", "connected"}
GuestAlive(m, t) == t # 0 /\ guestSession[m][t].state \in {"connecting", "connected"}

\* The data channel opens on the host's side; the handler may stop polling.
HostOpens(m) ==
  /\ hostPeers[m] # 0
  /\ HostSide(m).state = "connecting"
  /\ HostSide(m).remote # 0
  /\ Linked(m, hostPeers[m], HostSide(m).remote)
  /\ GuestAlive(m, HostSide(m).remote)
  /\ hostSession' = [hostSession EXCEPT ![m][hostPeers[m]].state = "connected"]
  /\ hostPoll' = MaybeStop(hostPoll, hostPeers, hostSession', latest)
  /\ UNCHANGED <<coordinator, hostRead, ensure, hostPeers, latest, user, guests, faults>>

\* It opens on the guest's side; the handler stops polling.
GuestOpens(m) ==
  /\ guestPeer[m] # 0
  /\ GuestSide(m).state = "connecting"
  /\ HostAlive(m, GuestSide(m).offer)
  /\ Linked(m, GuestSide(m).offer, guestPeer[m])
  /\ guestSession' = [guestSession EXCEPT ![m][guestPeer[m]].state = "connected"]
  /\ guestPoll' = [guestPoll EXCEPT ![m] = Stop(@)]
  /\ UNCHANGED <<coordinator, host, user, guestGeneration, announced, guestPeer, told, faults>>

\* "failed" or "disconnected" on the host's side: polling starts again.
HostBreaks(m) ==
  /\ MayStart(hostPoll)
  /\ hostSession' = [hostSession EXCEPT ![m][hostPeers[m]].state = "broken"]
  /\ hostPoll' = Start(hostPoll, HostTask)
  /\ UNCHANGED <<coordinator, hostRead, ensure, hostPeers, latest, user, guests>>

\* beginGuestGeneration and startGuestPolling.
BeginGuestGeneration(m) ==
  /\ guestGeneration[m] < MaxGeneration
  /\ MayStart(guestPoll[m])
  /\ guestGeneration' = [guestGeneration EXCEPT ![m] = @ + 1]
  /\ announced' = [announced EXCEPT ![m] = FALSE]
  /\ guestSession' = CloseGuestPeer(m)
  /\ guestPeer' = [guestPeer EXCEPT ![m] = 0]
  /\ guestPoll' = [guestPoll EXCEPT ![m] =
       Start(@, Frame("announce", guestGeneration[m] + 1, 0))]

\* "failed" or "disconnected" on the guest's side.
GuestBreaks(m) ==
  /\ BeginGuestGeneration(m)
  /\ UNCHANGED <<coordinator, host, user, told>>

\* A side notices that the other end is gone or never was the one it was told of.
HostNotices(m) ==
  /\ HostAlive(m, hostPeers[m])
  /\ HostSide(m).remote # 0
  /\ \/ ~Linked(m, hostPeers[m], HostSide(m).remote)
     \/ ~GuestAlive(m, HostSide(m).remote)
  /\ HostBreaks(m)
  /\ UNCHANGED faults

GuestNotices(m) ==
  /\ GuestAlive(m, guestPeer[m])
  /\ LET s == GuestSide(m).offer IN
     \/ hostSession[m][s].state \in {"broken", "closed"}
     \/ hostSession[m][s].remote \notin {0, guestPeer[m]}
  /\ GuestBreaks(m)
  /\ UNCHANGED faults

\* The network breaks a link under one side.
HostLoses(m) ==
  /\ HostAlive(m, hostPeers[m])
  /\ HostSide(m).remote # 0
  /\ Fault("link")
  /\ HostBreaks(m)

GuestLoses(m) ==
  /\ GuestAlive(m, guestPeer[m])
  /\ Fault("link")
  /\ GuestBreaks(m)

-----------------------------------------------------------------------------
(***************************************************************************)
(* ChatPage: the host's controls, and pages that are loaded again.         *)
(* Bound: one control call at a time, each of them once.                   *)
(***************************************************************************)
Ask(c) ==
  /\ control.at = "idle"
  /\ c \in Controls \ asked
  /\ control' = [at |-> "sent", call |-> c]
  /\ asked' = asked \cup {c}
  /\ UNCHANGED <<coordinator, host, dismissed, guests, faults>>

ControlExecuted ==
  /\ control.at = "sent"
  /\ Accepts(control.call)
  /\ control' = [control EXCEPT !.at = "answered"]
  /\ UNCHANGED <<offers, answers, host, asked, dismissed, guests, faults>>

ControlFails ==
  /\ control.at = "sent"
  /\ Fault("request")
  /\ Accepts(control.call) \/ UNCHANGED room
  /\ control' = [at |-> "idle"]
  /\ UNCHANGED <<offers, answers, host, asked, dismissed, guests>>

SetRoomLocked(locked) ==
  /\ MayStart(hostPoll)
  /\ latest' = [latest EXCEPT !.locked = IF latest.known THEN locked ELSE @]
  /\ hostPoll' = IF locked THEN MaybeStop(hostPoll, hostPeers, hostSession, latest')
                 ELSE Start(hostPoll, HostTask)
  /\ UNCHANGED <<hostPeers, hostSession>>

\* Mutant: the session is closed but stays in the map.
RemovePeerKeepingIt(m) ==
  /\ hostSession' = [hostSession EXCEPT ![m] = Close(@, hostPeers[m])]
  /\ UNCHANGED <<hostPeers, hostPoll, latest>>
\* Mutant: the guest is left to notice by itself.
RemovePeerLater(m) ==
  /\ m \in Member
  /\ UNCHANGED <<hostPeers, hostSession, hostPoll, latest>>
RemovePeer(m) ==
  /\ hostSession' = [hostSession EXCEPT ![m] = Close(@, hostPeers[m])]
  /\ hostPeers' = [hostPeers EXCEPT ![m] = 0]
  /\ UNCHANGED <<hostPoll, latest>>

\* handleRoomLock and handleRemoveMember, once the call has returned.
ControlUsed ==
  /\ control.at = "answered"
  /\ IF control.call.op = "lock"
       THEN SetRoomLocked(control.call.locked) /\ UNCHANGED dismissed
       ELSE /\ RemovePeer(control.call.member)
            /\ dismissed' = dismissed \cup {control.call.member}
  /\ control' = [at |-> "idle"]
  /\ UNCHANGED <<coordinator, hostRead, ensure, asked, guests, faults>>

\* The host's page is loaded again.
HostRefreshes ==
  /\ Fault("hostPage")
  /\ hostPoll' = Start(Unstarted, HostTask)
  /\ hostRead' = [l \in Loop |-> NotRead]
  /\ ensure' = [l \in Loop |-> [m \in Member |-> NoEnsure]]
  /\ hostSession' = [m \in Member |-> Close(hostSession[m], hostPeers[m])]
  /\ hostPeers' = [m \in Member |-> 0]
  /\ latest' = [known |-> FALSE, locked |-> FALSE, removed |-> {}]
  /\ control' = [at |-> "idle"]
  /\ UNCHANGED <<coordinator, asked, dismissed, guests>>

\* A guest's page is loaded again: joinOrResume, then a new manager if it succeeds.
GuestRefreshes(m) ==
  /\ Fault("guestPage")
  /\ guestSession' = CloseGuestPeer(m)
  /\ guestPeer' = [guestPeer EXCEPT ![m] = 0]
  /\ announced' = [announced EXCEPT ![m] = FALSE]
  /\ LET c == GuestCall("resume", m) IN
     \/ /\ Accepts(c)
        /\ guestGeneration[m] < MaxGeneration
        /\ guestGeneration' = [guestGeneration EXCEPT ![m] = @ + 1]
        /\ guestPoll' = [guestPoll EXCEPT ![m] =
             Start(Unstarted, Frame("announce", guestGeneration[m] + 1, 0))]
        /\ UNCHANGED told
     \/ /\ Verdict(c, room, Now) = "member_removed"
        /\ guestPoll' = [guestPoll EXCEPT ![m] = Unstarted]
        /\ told' = told \cup {m}
        /\ UNCHANGED <<room, guestGeneration>>
  /\ UNCHANGED <<offers, answers, host, user>>

-----------------------------------------------------------------------------
(***************************************************************************)
(* Time.  PRESENCE_TIMEOUT_MS passes for a guest that does not poll.  Once  *)
(* the host is connected to it that is what happens; before, it is a fault *)
(* (a hidden page polls too rarely, a message takes that long).            *)
(***************************************************************************)
PresenceLapses(m) ==
  /\ room.lastSeenAt[m] = Now
  /\ \/ HostConnected(m) /\ ~guestPoll[m].on /\ UNCHANGED faults
     \/ Fault("presence")
  /\ room' = [room EXCEPT !.lastSeenAt[m] = Now - 1]
  /\ UNCHANGED <<offers, answers, host, user, guests>>

SignalExpires(m, g) ==
  /\ Fault("signal")
  /\ \/ offers[m][g] # 0 /\ offers' = [offers EXCEPT ![m][g] = 0] /\ UNCHANGED answers
     \/ answers[m][g] # 0 /\ answers' = [answers EXCEPT ![m][g] = 0] /\ UNCHANGED offers
  /\ UNCHANGED <<room, host, user, guests>>

-----------------------------------------------------------------------------
HostLoop(l) == HostTimer(l) \/ HostReads(l) \/ HostUses(l) \/ HostTickEnds(l)

Ensure(l, m) ==
  OfferCreated(l, m) \/ OfferPublished(l, m) \/ AnswerRead(l, m)
  \/ AnswerUsed(l, m) \/ AnswerApplied(l, m)

GuestLoop(m, l) ==
  GuestTimer(m, l) \/ Announce(m, l) \/ GuestState(m, l) \/ OfferRead(m, l)
  \/ OfferUsed(m, l) \/ OfferAccepted(m, l) \/ AnswerPublished(m, l)

Environment ==
  \/ \E l \in Loop : HostReadFails(l)
  \/ \E l \in Loop, m \in Member :
       OfferPublishFails(l, m) \/ AnswerReadFails(l, m) \/ GuestRequestFails(m, l)
  \/ \E m \in Member :
       HostLoses(m) \/ GuestLoses(m) \/ GuestRefreshes(m) \/ PresenceLapses(m)
  \/ \E m \in Member, g \in Generation : SignalExpires(m, g)
  \/ HostRefreshes \/ ControlFails

Next ==
  \/ \E l \in Loop : HostLoop(l)
  \/ \E l \in Loop, m \in Member : Ensure(l, m) \/ GuestLoop(m, l)
  \/ \E m \in Member : HostOpens(m) \/ GuestOpens(m) \/ HostNotices(m) \/ GuestNotices(m)
  \/ \E c \in Controls : Ask(c)
  \/ ControlExecuted \/ ControlUsed
  \/ Environment

Spec == Init /\ [][Next]_vars

\* Timers fire, requests and WebRTC calls settle, an open link is reported and a
\* dead one is noticed.  Nothing obliges the environment to cause a fault or the
\* user to ask for anything.
FairSpec ==
  /\ Spec
  /\ \A l \in Loop : WF_vars(HostLoop(l))
  /\ \A l \in Loop, m \in Member : WF_vars(Ensure(l, m)) /\ WF_vars(GuestLoop(m, l))
  /\ \A m \in Member :
       /\ WF_vars(HostOpens(m)) /\ WF_vars(GuestOpens(m))
       /\ WF_vars(HostNotices(m)) /\ WF_vars(GuestNotices(m))
  /\ WF_vars(ControlExecuted \/ ControlUsed)

-----------------------------------------------------------------------------
(***************************************************************************)
(* Properties.                                                             *)
(***************************************************************************)

\* Types; and a page holds no session it has closed (createManagedHostPeer,
\* closeManagedPeer and closeGuestPeer keep maps and sessions in step).
PollerOK(p) ==
  /\ p.on \in BOOLEAN /\ p.timer \in 0 .. MaxLoops
  /\ DOMAIN p.loop = Loop
Held(session, s) == s # 0 => session[s].state \notin {"new", "closed"}
TypeOK ==
  /\ room \in Room
  /\ offers \in [Member -> [Generation -> 0 .. MaxSession]]
  /\ answers \in [Member -> [Generation -> 0 .. MaxSession]]
  /\ PollerOK(hostPoll) /\ \A m \in Member : PollerOK(guestPoll[m])
  /\ hostPeers \in [Member -> 0 .. MaxSession]
  /\ guestPeer \in [Member -> 0 .. MaxSession]
  /\ guestGeneration \in [Member -> Generation]
  /\ announced \in [Member -> BOOLEAN]
  /\ \A l \in Loop, m \in Member :
       ensure[l][m].at \in {"offer", "publish", "ask", "answer", "apply", "hung", "done"}
  /\ dismissed \subseteq Member /\ told \subseteq Member
  /\ faults \in 0 .. MaxFaults
  /\ \A m \in Member :
       Held(hostSession[m], hostPeers[m]) /\ Held(guestSession[m], guestPeer[m])

\* A guest's session always answers an offer made for the guest's current
\* generation, whatever was awaited between reading the offer and using it
\* (guestTick, the comparisons with guestGeneration).
GuestAnswersItsGeneration ==
  \A m \in Member :
    guestPeer[m] # 0 => hostSession[m][GuestSide(m).offer].gen = guestGeneration[m]

\* Once removePeer has run for a guest, the host is never connected to it again,
\* although ticks that still see the guest as a member may be in flight.
DismissedStaysOut == \A m \in dismissed : ~HostConnected(m)

\* The answer a host session has taken is an answer to the offer it made
\* (README.md: "Connection generations prevent stale signaling from an old page
\* instance from being reused").
AnswersMatchOffers ==
  \A m \in Member :
    hostPeers[m] # 0 /\ HostSide(m).remote # 0 =>
      Linked(m, hostPeers[m], HostSide(m).remote)

\* As long as the room is open the host goes on asking who is there
\* (RoomPeerManager.test.ts: "keeps a slow membership poll while an open room can
\* accept new guests").
OpenRoomKeepsPolling == []<>(room.locked \/ \E l \in Loop : hostPoll.loop[l].at = "state")

\* A guest that waits gets an offer in the end (README.md: "WebRTC negotiation
\* happens automatically through the coordinator").
EveryGuestGetsAnOffer == \A m \in Member : []<>(guestPeer[m] # 0 \/ m \in told)

\* In a locked room the host rests only when a session to every remaining member
\* will report its end: nothing else starts the polling again (README.md: "If the
\* room is locked, existing non-removed members can reconnect").
HostAtRest == ~hostPoll.on /\ \A l \in Loop : ~Running(hostPoll, l)
NoGuestForgotten ==
  HostAtRest /\ room.locked => \A m \in Member \ room.removed : HostAlive(m, hostPeers[m])

\* Once the faults are over, host and guest end up connected to each other and stay
\* so; a removed guest ends up knowing it, with no session and no polling left.
Reaches(m) ==
  IF m \in room.removed
    THEN m \in told /\ guestPeer[m] = 0 /\ ~guestPoll[m].on /\ ~HostConnected(m)
  ELSE /\ HostConnected(m)
       /\ GuestAlive(m, guestPeer[m]) /\ GuestSide(m).state = "connected"
       /\ Linked(m, hostPeers[m], guestPeer[m])
EveryGuestConnects == \A m \in Member : <>[]Reaches(m)

=============================================================================
