# Formal models of the arcade and its multiplayer networking

TLA+ specifications of the parts of this repository that keep state under concurrency,
failure or ordering -- rooms, peers, chat, host authority, input and games --, the TLC
runs that check them, and machine-checked proofs about them. Paths below are relative to
the repository root (`src/networking/...`, `server/chat/...`); `PROJECT.json` names, for
every definition, the lines it stands for.

## 1. The system

The site is a single-page arcade. Most of it is rendering; the parts that keep state in
which ordering, failure or concurrency matter are these.

| Component | State | Operations | Interacts with |
|---|---|---|---|
| **Room coordinator** `server/chat` | one record per room (lock, members, labels, generations, revision), one record per signal, expiry times | create, join/resume, state, lock, remove, announce, publish, get | the Redis store; called by browsers over HTTPS |
| **Room peer manager** `src/networking/room`, `src/networking/webrtc` | poller, latest room state, a session per guest (host), the session to the host and a generation (guest) | `hostTick`, `guestTick`, session events, lock, remove | polls the coordinator, drives WebRTC sessions |
| **Chat page and room chat** `src/pages/ChatPage.tsx`, `src/chat` | messages, seen ids, rate and length limits | send, relay, display, page setup and teardown | peer manager; coordinator for controls |
| **Host authority** `src/networking/poc`, `src/pages/HostAuthorityPocPage.tsx` | canonical event log, members, sequence numbers, IndexedDB copy; replicas on guests | admit, commit an intent, lock, remove, sync, broadcast | Trystero data channels, IndexedDB, sessionStorage |
| **Shared semantic input** `src/games/shared/input` | held actions and directions per source | press, release, cancel, blur, hide, dispose | pointer, keyboard and page events; the games |
| **Game mounting** `usePhaserGame.ts` | the game instance, startup timer | mount, async create, tear down | React effects |
| **Recent games** `src/games/discovery/recentGames.ts` | list of ids in localStorage | record, read | other tabs |
| **Moderation** `src/moderation` | none | mask a text | chat, host authority |
| **Games** `src/games/*` | per-game worlds | per frame | input |

### Hard behaviours, and what makes each component correct

*Coordinator.* Every call is an HTTP request that runs in a serverless instance of its
own; instances share nothing but the store. A mutation is optimistic: load, change a copy,
compare-and-set on `revision`, at most three times. A signal call is a check on a loaded
room followed by a second, separate store command. Commands may fail after having been
executed. Correct: no interleaving overfills a room, repeats a label, lets a guest in behind
the lock or a removed member back, or loses an update; *conflict* means contention; every
call ends; and to its callers all of it looks atomic.

*Peers.* Each side runs a poll loop full of awaits; between two of them the user, a session
event, the other side or another loop of the same poller may act. Host pages, guest pages and
links come and go. Correct: a guest uses only offers made for its generation, a removed guest
stays out, and host and guest find each other again after every fault.

*Room chat.* The host relays over channels that may be closing without anyone having noticed,
names senders after a room state that is behind the coordinator's, and each page builds its
chat after an await. Correct: pages show the host's order without repetition, a dismissed
guest is not relayed, and a page that was left leaves nothing behind.

*Host authority.* One queue of mutations, saved before they are visible; guests replay deltas
or snapshots, over pages that are loaded again at any moment. Correct: nobody sees what is not
saved, replicas say what one log says, intents are accepted once, nothing committed is lost by
a crash.

*Input.* Every press and release is an event that may be missed, doubled or captured elsewhere.
Correct: no action stays held once nothing holds it, and a press counts once.

*Engine.* A game is made after an asynchronous load that the page may not live to see. Correct:
one live game, on the page that is open, and one verdict per page.

*Games.* One animation frame runs a long sequence of tests, each of which changes what the
next one reads; keys, timers and buttons come in between. Correct: the accounts of a game
(lives, kills, coins, who is on the field, why it ended, the stored best) agree after every frame.

## 2. Modules

| Module | Models |
|---|---|
| `RoomRules` | the room record and the pure rules of `roomService.ts`: refusals in the order the code tests them (`Verdict`), what an accepted call writes (`Mutated`, `Effect`), who is present |
| `AtomicRoom` | abstract specification: every call takes effect at one instant, or not at all |
| `RoomCoordinator` | requests over the shared store, command by command |
| `RoomCoordinatorProofs` | type correctness, the inductive invariant, the safety theorems; `RoomCoordinator` implements `AtomicRoom` |
| `RoomHistoryProofs` | what the store holds agrees with what was answered: seats, revisions, removals, announcements |
| `RoomPoller` | `RoomPoller` of `RoomClient.ts`: loops, timers, start and stop |
| `RoomPeers` | `RoomPeerManager` of the host and of the guests, their sessions, the coordinator between them |
| `RoomPeersProofs` | type correctness, the generations of sessions and offers, removal |
| `RoomChat` | the chat of a room: `ChatPage` on host and guests, `RoomChatController`, send and broadcast |
| `RoomChatProofs` | the host's order on every page, the silence of the dismissed, no chat without its page |
| `AuthorityModel` | the pure functions of `hostAuthorityModel.ts`: admission, intents, lock, removal, sync, the replica |
| `PartyLog` | abstract specification of the host-authority party: one log, each guest a prefix of it |
| `HostAuthority` | the host's page, session and store, the guests' pages and storage, the messages between them |
| `HostAuthorityProofs` | type correctness, the inductive invariant of log, store, memory and queue, the safety theorems |
| `HostAuthorityRefinementProofs` | `HostAuthority` implements `PartyLog`; every replica is what the log says; at rest, nobody lacks anything |
| `SemanticInput` | the writer of the shared input and a page's key, buttons and stick |
| `PhaserMount`, `DonutRun` | `usePhaserGame`, and the one game page that adds a scene, an input and a stored score to it |
| `Warrior`, `Warrior2`, `MonsterColorRush`, `BitPlanes`, `NeonDrift`, `WormBattles` | the other games, a frame at a time |
| `RecentGames` | the list of recent games, from two tabs |
| `Filter` | `Array.prototype.filter`, as a recursive function |
| `FilterProofs` | what it returns, and how a recursive function is unrolled; used by the three proof modules after it |
| `MCRoomCoordinator`, `MCRoomPeers`, `MCHostAuthority` | instances for TLC |
| `Arcade` | the site: the pages of chat, games, controls and recent games, each with its small values |
| `ArcadeProofs` | one inductive invariant for each page but the chat: the engine, Donut Run, the input, Warrior, Warrior 2, Monster Color Rush, Bit Planes, Neon Drift, Worm Battles, the recent games |

`RoomCoordinator` and `AtomicRoom` share `RoomRules`, so a rule is stated once.
`RoomPeers` composes the peer manager with the coordinator: it calls `Verdict` and `Mutated`
of `RoomRules` and treats a call as atomic, which `CoordinatorIsAtomic` justifies.

### RoomCoordinator

State: `store` (the record or `NoRoom`), `signals` (keys that hold an offer or an answer),
`clock`, and per request its program counter, call, loaded copy (`base`), time read (`now`),
drawn identifier (`seat`), attempts and answer. `seenFirst` and `outBefore` are auxiliary:
they are only read by properties.

| Action | Code |
|---|---|
| `Create` | `RoomService.createRoom`, SET NX |
| `Invoke` | a handler is entered with a call |
| `LoadAndRefuse`, `LoadAndMutate` | GET, `clock()`, and either a refusal or a changed copy (`mutateRoom`, `loadActiveRoom`) |
| `Save`, `Retry`, `GiveUp` | the CAS script and its two outcomes; the bounded loop |
| `LoadForSignal`, `PutSignal`, `GetSignal` | the two store commands of publish and read |
| `StoreFails` | a command throws, executed or not; the caller gets `coordinator_unavailable` |
| `Expire`, `ExpireSignal`, `Tick` | key expiry and time |

Decisions. GET, the clock readings and the rules that follow are one step, because nothing
another request does is visible between them. All instances read one clock. Identifiers and
secrets are drawn from a set and never repeat; `createRoom` therefore meets no collision and
its retry is left out. One room: rooms share nothing. Secrets are a Boolean (right or
wrong). The shape checks of request bodies refuse malformed input before any state is read
and are left out. `deleteSignal` of the store is never called by the service.

### RoomPeers

State: the coordinator's `room`, `offers` and `answers`; of the host its poller, the room
state each loop has fetched, where `ensureHostPeer` stands per loop and guest, the session it
holds per guest, and what `maybeStopHostPolling` reads of `latestRoomState`; of each guest its
poller, generation, whether it is announced, and its session. A session is a number; an SDP
description is the number of the session it describes. `control` is the host's lock or remove
call in flight.

`hostTick` is `HostReads` (the coordinator executes `getState`), `HostUses` (the answer is
used, up to the first awaits), `OfferCreated`, `OfferPublished`, `AnswerRead`, `AnswerUsed`,
`AnswerApplied` for each guest in any order, and `HostTickEnds`. `guestTick` is `Announce`,
`GuestState`, `OfferRead`, `OfferUsed`, `OfferAccepted`, `AnswerPublished`. Where an answer
carries data that may be stale when it is used, reading and using are two steps; where it
carries none, they are one. `HostOpens`, `GuestOpens`, `HostNotices`, `GuestNotices` are the
session events and their handlers. `Ask`, `ControlExecuted`, `ControlUsed` are the controls of
`ChatPage`. The environment may fail requests (executed or not), reload a page, break a link,
let presence lapse and let a signal expire.

Decisions. Presence is two-valued: a guest was seen recently or not; it lapses by itself for a
guest that has stopped polling because it is connected, and is a fault otherwise (a hidden page
polls every 30 s, presence lasts 15 s). Membership is fixed; joining is the coordinator's matter. The
host's user makes one control call at a time. A guest's unanswered connection need not time out (ICE
may stay in checking for as long as the host's page is open); that it does is the fault
`"link"`. A WebRTC call whose connection is closed under it either throws or never settles
(`EnsureCutOff`): the model allows both. Once broken, a link does not recover. A page that is reloaded
takes its requests in flight with it, and `joinOrResume` is one step of the reload. A reload
that fails for want of the network is a page that is not there, and is not modelled; nor is a
second tab of the same guest. Room expiry is not modelled here: a polled room does not expire.

### RoomChat

State: whom the coordinator has removed, whom the host's page has dismissed (`removePeer`), and
the room state the chat names senders by; both ends of each session and what is under way on it;
the list each page shows; of each guest's page its visits (`setupGeneration`), those still
joining and those with a chat alive. Auxiliary: `relayed`, the host's messages in order.

| Action | Code |
|---|---|
| `OpenPage`, `Joined`, `JoinFails`, `LeavePage` | the effect of `ChatPageSession`, up to and after `joinOrResume`, and `teardown` |
| `Connect`, `HostEndCloses`, `HostNotices`, `GuestNotices` | a session of `RoomPeers`, and its closing, which `send` sees before the close event does |
| `HostSends`, `GuestSends`, `HostReceives`, `GuestReceives` | `RoomChatController.send`, `handlePeerEvent` |
| `HostLearns` | a poll brings the room state |
| `RemoveMember`, `Dismissed` | `handleRemoveMember`, before and after its await |

`Relay` is `broadcast`: it goes through the guests in some order, and `send` throws at the first
channel that is not open. Then the guests before it have the message, those after it do not, the
host's own page does not show it, and the user, who is told that it failed, may send it again as a
new message. `README.md:44` promises that the host relays to everyone; what the model shows
to hold is weaker (`ShownInOrder`).

### AuthorityModel, PartyLog, HostAuthority

`AuthorityModel` is the canonical state (sequence, lock, members, removed, accepted client
numbers, the window of the last events and messages) and its functions. `HostAuthority` is the
page on both sides. The host: `memory` (`currentState`), `durable` (IndexedDB), `queue` and `saving`
(`mutationQueue`, `commitState`), `handler` (the guest message being handled, since
`hostMessageQueue` handles one at a time), the user's clicks, the maps from identities and members
to transports. The guests: page number, credentials and replica in `localStorage`, the last
intent. A transport is a guest and the number of its page. Auxiliary: `history`, every event ever
saved.

| Action | Code |
|---|---|
| `HostTakes`, `HostDerives`, `HostAuthenticates`, `HostSyncs`, `HostAnnounces`, `HostJudgesIntent` | `handleHostAuthorityMessage`, from each await to the next |
| `HostClicks`, `ClickRuns`, `CommitClick` | the lock, the removal and the host's own chat |
| `Stored`, `SaveFails`, `CommitMessage` | the save, and what follows it: assign, answer, broadcast |
| `Connect`, `Disconnect`, `HostNoticesLeave` | a Trystero peer, its end, `onPeerLeave` |
| `GuestReceives`, `GuestSubmits`, `GuestProbes` | `handleGuestAuthorityMessage`, a text, and the page's own replay, reset and forced snapshot |
| `GuestReloads`, `HostCrashes`, `HostRestores` | a page is loaded again; `restore` |

A save takes effect (`Stored`) before the code behind its await runs, so a crash may fall between
the two. What is sent to a peer that is gone is lost; what was sent before a `close()` may still
arrive. Decisions: a guest is its credential, so nobody presents another's; one host page at a
time; texts are numbers in the order they are typed, which lets `PartyLog` say that no text
is committed twice. The refinement maps `log` to `history` and `view` to the replicas' sequences.

### The pages of Arcade

`Arcade` holds one page at a time: a behaviour is what happens on the page it starts with. What
a page leaves in `localStorage` outlives it. This is sound because two pages of
the site share nothing but the list of recent games, which has two tabs of its own.

The games follow one pattern. The state is a record, `Off` while the page is not mounted; a
`Frame` is one call of the game's update, composed of operators named for its parts and in
its order; keys, buttons, timers, mounting and leaving are actions between frames. Positions and speeds
are floating-point and are abstracted: which foes a blade reaches, who stands close, what leaves
the screen is chosen anew in every frame, so every combination of hits within one frame is
covered. Cooldowns count frames. What an operator chooses between is a set of states.

| Module | One frame |
|---|---|
| `Warrior` | player and cooldowns, spawning of the two bosses, win, cleaver, Banana boss, Andrewsous, win again, monsters, swing and removal |
| `Warrior2` | player and cooldowns, cleaver, bosses, helpers, win, monsters on village and warrior, payment, waves |
| `MonsterColorRush` | the consumed press, the timer of the wave or of the rest, chase, shapes, the end of the time |
| `BitPlanes` | restart, fire, spawn, enemy fire, bullets against planes, planes and bullets against the player, cleanup |
| `NeonDrift` | the consumed presses, score, player, turrets, drones, bullets, pickups and obstacles, spawning |
| `WormBattles` | food, heads against bodies, refill, HUD |
| `DonutRun` | the step of the physics with what the donut meets, the consumed press, score, falling |

`SemanticInput` keeps beside what the input believes what is physically down and where the focus
is. It is the only module that assumes something of the browser: a key event goes where the
focus is and none comes while the window is away; a control captures the pointer that claims it, and
the browser captures a touch that goes down on it even if the control ignores it; a captured
pointer that is lifted or cancelled fires `lostpointercapture` on the control, whoever owns it; a
release inside a button, or a captured one outside, may be followed at once by a click. `asked`
counts the presses of the user between two bounds: `least` those a finger made alone on the button, or a
key, which must count; `most` all that may. `PhaserMount` counts
the times the page is opened; the load of one may settle long after the page is gone.

In `BitPlanes` the bullets and the planes near enough are walked as the code walks them, a pair at a time
with the two active flags, for every choice of which are near each other (`Combats`, `Met`). In
`NeonDrift` the panel's start button is a press of "start", read by the next frame.

## 3. Checks

`CHECK_DEADLOCK FALSE` in every configuration: each request is made once, and sessions,
generations, pages, texts and troubles are bounded, so the systems modelled do come to an end.

| Run | Question | Bounds |
|---|---|---|
| `room_seats` | four concurrent calls on a room with two guest seats: seats, labels, revisions, lock, conflict | 4 requests, 2 attempts, two guest seats, one instant; store commands may fail |
| `room_calls` | every operation around one guest's seat, with time, expiry and failing commands: refinement of `AtomicRoom`, removal, liveness | 3 requests, 2 attempts, one guest seat, 2 generations |
| `peers_connect` | one guest and one fault of four kinds, removal: do host and guest always end up connected | 3 generations, 4 sessions a side, 2 loops per poller |
| `peers_two_guests` | two guests connect while the host locks the room: does the host stop polling too early | 1 generation, 1 session, no faults |
| `peers_faults` | all faults, lock and removal: safety only | 2 generations, 2 sessions, 2 loops |
| `authority` | two guests and one act of the host's user: durability, replicas, bindings, convergence, refinement of `PartyLog` | 2 pages per guest, 1 text each, window of 2 events, 1 trouble |
| `authority_lost_text` | finding, see below | 1 guest, 2 texts, 1 trouble |
| `arcade` | the promises of the games, the input, the engine, the recent games and the room's chat | below |
| `peers_stale_answer`, `peers_open_room`, `peers_locked`, `peers_lost_offer` | findings, see below | as in the `.cfg` |

Why the bounds are enough. Three requests are needed for a lost update that a third one
notices, and two seats with four calls for two joins racing past the last seat while the host
locks or removes; two attempts are needed to retry once and give up once. Two loops per
poller are what a stop and a start around one task in flight make; three generations are the
one before a fault, the one after it, and one drawn because the other side noticed too. Where
a bound disables an action, fairness does not demand it, so a bound can make a liveness
property fail but not hold: the runs that pass have room left.

In `authority` the window of two events is shorter than the histories that two admissions, a text
each and a removal make, so that cursors inside, at and outside its edge occur; two pages of
a guest are the one before and after a reload, with messages of both in flight. In `arcade` every
number of the code is a constant, and the run's value keeps its order among the others: a boss before the
winning score and after the milestone, two hits for what takes several, a wave of one monster with
both kinds of boss wave, two turrets and two drones, two opponents, two fingers, three openings
of a page, three games for a list of two, two guests with two texts. Scores and lengths stop at their bounds; what else is bounded disables
the action that would exceed it. On the chat page
two guests make a broadcast that can stop between them, and the one trouble is a channel that closes,
a page that is left or the host's page loaded again; removal is no trouble and comes on top. That a
page drops its oldest message takes more texts than the run affords; the proof covers any number
of texts and any length of the list. The pages share nothing, so the run explores the sum of their
states and not the product: 1,316,963 of them, in under three minutes.

What the properties of `arcade` say: `OneBossAtATime` (Warrior), `DefenceHolds` and `CoinsAddUp`
(Warrior 2), `RunEndsForOneReason` (Monster Color Rush), `EveryBulletDownsOne` and `OneLifeAtATime`
(Bit Planes), `PanelBetweenRuns` and `DronesChaseStandingTurrets` (Neon Drift), `FieldIsFull` (Worm
Battles), `BestNeverFalls` (Donut Run), `OneLiveGame` and `ToldOnce` (the engine), `HeldIsDown` and
`EveryPressCountsOnce` (the input: a press is neither swallowed by the owner or the flag that an earlier
gesture left, nor counted again as its own click), `RecentIsAList`, and `ShownInOrder`, `DismissedAreSilent` and
`NoChatLeftBehind` (the chat). Each is stated and explained in its own module.

**Fairness.** `HostAuthority` and `Arcade` state none, and only safety is checked of them:
`QuietGuestsAgree` says what holds whenever the party is at rest, not that it comes to rest.
`RoomCoordinator`: weak fairness of each request's own steps: an instance that
runs goes on. No fairness for failures, expiry, time or new calls. `RoomPeers`: weak fairness
of each loop, of each `ensureHostPeer`, of the session events and of a control call under
way: timers fire, fetches settle, WebRTC reports an open channel and notices a dead
one. None for faults or for the user. Faults are bounded in number (`MaxFaults`), which is the
usual "eventually the faults stop".

### Findings

* `peers_stale_answer`. Answers are looked up by the guest's generation alone. A host page that
  is loaded again, or that replaces a session because presence lapsed, makes a new offer under the
  same generation and applies the answer given to the old one. `README.md` says generations
  "prevent stale signaling from an old page instance from being reused"; they do so for a
  new guest page, not for a new host page. `peers_connect` shows that the pair recovers: the
  mismatched link fails and the guest draws a new generation.
* `peers_open_room`. `removePeer` closes a session whose `createOffer` a tick is awaiting.
  `waitForIceGathering` then waits for an event a closed connection never fires, the tick never
  settles, the poller sets no timer, and `pollingRole` stays `"host"`, so nothing can start the
  polling again. (There is a second way to an open room that is not polled: a tick in flight
  across an unlock overwrites `latestRoomState` with the locked state and then stops polling.)
* `peers_locked`. Polling in a locked room stops while a tick is in flight; that tick replaces
  the session of a guest that has reloaded, and nothing starts the polling again.
* `peers_lost_offer`. `offerSdp` is set before `publishSignal`; if that request fails, the offer
  is never published again and both sides poll for ever. The same happens when the offer expires
  before it is read.

* `authority_lost_text`. A guest numbers its intents itself and takes the next number from every
  sync. A sync computed while an intent of the guest was still queued sets the number
  back; the next text carries the number of the previous one and is refused as a duplicate, although
  the design says only that a duplicate or a replay has no effect.

Met while modelling and not stated as a run:

* Shared input: stick and buttons handle `lostpointercapture` without looking whose capture was lost
  (`DirectionalControl.tsx:120-124`, `ActionButton.tsx:142-146`), so a second touch that came down on
  one and is lifted takes it from the finger that owns it: the stick and the held button let go, the pressed
  button swallows the first finger's press. The design says the stick shall "ignore additional pointers
  until the owning pointer ends" (`2026-09-11-shared-semantic-input-design.md:173`); the test of
  the second finger (`DirectionalControl.test.tsx:79`) fires no loss of capture. The model lets it happen;
  that is why `EveryPressCountsOnce` promises a press only to a finger that has the button to itself.
* Shared input: a press begun inside a button and lifted outside presses it if the browser still
  sends its click there, as it may for a captured pointer; the flag that suppresses a click waits
  for the next one, whoever makes it.
* A guest that is removed while its re-authentication is being handled, or whose admission cannot be
  saved, gets no answer and waits.
* A peer of the host-authority page that leaves while its authentication is in progress is bound
  afterwards, and shown as connected until it comes back.
* Warrior: the winning score can be reached while Andrewsous is alive, although a comment says that he
  supplies the last 100 points; a game may be won and over in one frame.
* Worm Battles: a player defeated by running into another worm ends the run; a player defeated as the one
  run into is dead while the status stays "playing". A worm defeated as the attacker goes on
  comparing itself with the rest.
* Bit Planes: two of the three first enemies are placed beyond the cleanup bound and vanish in the
  first frame.
* Neon Drift: after a run has finished within a frame, that frame's bullets and pickups still score, so
  that the announced and the stored best may be below the score shown.
* Donut Run: a run started within 280 ms of a death begins with the fading of the last one still
  going, and its donut fades out.
* Recent games and stored best scores of two tabs overwrite each other.

`RoomClient.test.ts` says a poller "never overlaps polling requests". That is so for one
`start`; a `stop` and a `start` around a task in flight make two loops, and the runs above
include that case.

## 4. Proofs

Every theorem holds for every value of the constants. What is assumed of them is named where
they are declared, and TLC evaluates it on every run:

| Assumption | Says |
|---|---|
| `LimitsAssumption`, `SentinelAssumption`, `CoordinatorAssumption` | the room's limits are positive numbers, the sentinels are none of the values, there is at least one attempt |
| `PeersAssumption` | the bounds are numbers, generations are `1 .. MaxGeneration`, the faults are those of the model, the host's controls are lock and remove calls |
| `AuthorityAssumption` | guests are finitely many and the host is none of them; the limits are positive |
| `ArcadeAssumption` | the host is none of the guests, the value for no finger none of the fingers; the games' parameters are natural numbers, and those that count lives, health, waves, or what is divided by, are positive |
| `HostAuthorityAssumption` | no act of the host's user is called "message", texts are numbers, the bounds are numbers |

The bounds of `RoomPeers`, `HostAuthority` and of the pages of `Arcade` proved about
(generations, sessions, loops, pages, texts, faults, openings, presses, scores) are constants, so the theorems hold for any bound, although TLC can afford only small ones.

### The coordinator

`RoomCoordinatorProofs`:

* `TypeCorrect`: `Spec => []TypeOK`.
* `Invariance`: the inductive invariant. Its heart is `BaseOK`: the store's revision never goes
  back while the key exists, and a copy whose revision equals the store's *is* the stored room.
  Without it nothing follows from a successful compare-and-set, since the safety
  properties speak of the stored room and the code tested its copy. `AttemptsOK` relates the number
  of failed attempts to how far the revision has moved since the first load.
* `SeatsNeverOverfilled`, `LabelsNeverRepeat`, `ConflictNeedsContention`, `LockKeepsGuestsOut`:
  the properties of `room_seats`, from that invariant. The last is an action property.

`RoomHistoryProofs` proves the properties that compare an answer with an earlier one. None of
them is inductive: each needs to know what the *store* remembers of the answers.
`HistoryInvariance` adds that, and the rest follows from it:

* `RevisionsNeverRepeat`: a revision once reported is behind the stored one (`ReportedOK`).
* `EverySeatHasItsJoin`: whoever is in the room was put there by one join that has ended (`SeatsOK`).
* `RemovalIsFinal`: whoever was out when a call was made is out in the store and in the call's
  copy (`OutOK`); a call of such a member passes no check.
* `SignalsFollowAnnouncements`: a generation in the store, or under which a signal is about to be
  put, was announced by a call that has ended (`AnnouncedOK`).

The refinement, in `RoomCoordinatorProofs`: `CoordinatorIsAtomic`, `Spec => ImplementsAtomicRoom`. A successful `Save`
maps to the atomic call (by `BaseOK` the rules give on the stored room what they gave on the
copy); loads, retries and refusals map to stutters or to refusals at the instant of the
load; a publication takes effect when it is put.

### The peers

`RoomPeersProofs`. `PeersInvariance` is the inductive invariant: pollers and sessions have their
types; whatever a task in flight has captured still means what it meant (`FramesOK`: the offer a guest
is about to use was made for the generation that its task captured, and `EnsuresOK`: the session
`ensureHostPeer` works on exists); a stored offer is stored under its session's generation
(`StoredOK`); and a session the host still holds for a guest it has dismissed was made by a tick in
flight, has no answer, and nothing is about to give it one (`DismissedOK`). From it:

* `PeersTypes`: `TypeOK`, with it that no page holds a session it has closed or never created.
* `GuestsAnswerTheirGeneration`: the check of the generation after each await of `guestTick`
  suffices.
* `DismissalIsFinal`: once `removePeer` has run, the host is never connected to that guest again,
  although ticks that still see it as a member are in flight.

### The chat of a room

`RoomChatProofs`, about the chat page of `Arcade`. `ShownInOrder` is not inductive: the next message a guest shows is one that is under
way. `ChatInvariance` says of each guest that what its page shows *followed by* what is under way to
it can be found in `relayed`, in that order and none twice (`Embedded`). A message taken in moves from one
part to the other; a message lost with its session, or pushed off the page's list, leaves a list
that is still embedded; a relayed one is appended on both sides. `DismissedOK` says that the host's page
has no session with whom it has dismissed, `VisitsOK` that a join under way began while the page was
open, so that the comparison of visits after the await tells a page that is open from one that
was left and opened again. From it:

* `PagesShowTheHostsOrder`, `NoChatOutlivesItsPage`, and the action property `DismissedStaySilent`.

### The pages

`ArcadeProofs` proves what holds on a page whatever happens on it, with the rest of the site
around it.

* The engine. `EngineInvariance`: an attempt tells its page at most once; a live game belongs to an open
  page that was told so; when a page is open, all pages before it have been left. The last part is what
  makes `OneGameAtMost` follow from a statement about each attempt. `ThePageIsToldOnce` is an
  action property from the same invariant.
* Donut Run. `TheBestOnlyRises`: a frame is a composition of a step of the physics, what the donut meets, the
  consumed press, the score and the fall; each part keeps the best score at least what it was and at
  least the score of a run it ends (`SceneParts`), hence so does the frame.
* The shared input. `InputInvariance` relates what the input holds to the key, to the focus, to the owner of
  each control and to the finger that is on it. `HeldIsReallyDown` says less and is not inductive: that
  a key is still down does not say that its release will be heard, and that some finger is on a control does
  not say that hiding the control takes it away. `PressesCountOnce` needs that a finger that has had
  the pressed button to itself owns it still, whoever has come and gone since; and that a release that presses sets
  the flag before its click reads it.

The games. A frame composes a dozen parts, and in the middle of it the accounts may be out of order: the last
monster has fallen and nobody has looked yet. So the parts get lemmas of their own: what a part may
change, and what has to hold before it for the accounts to be in order after it. Where a part goes through
a list, it is a recursive function; the lemma unrolls it by a least counterexample over the elements
(`RecursionExists`, `SameValues`), which is no induction over data in the prover's sense.

* Warrior. `WarriorInvariance`; no part but the two spawns makes a boss active (`Falls`), and each spawn
  tests that the other boss is away; `BossesComeOneByOne`.
* Warrior 2. `DefenceOK` is the conjunction of four things that different parts disturb: the shape of the state;
  `Fight`, which ties the end of the game to the health of warrior and village, and says that who has just
  fallen cannot be hit again in the same frame; `Purse`, that coins and items are worth the
  monsters that fell; and `InPhase`, that a wave is fought or awaited, never both. Most parts leave three
  of the four alone (`SameFight`, `SamePurse`, `SamePhase`). `VillageDefended`, `EveryCoinCounts`.
* Monster Color Rush. In a frame the last shape may be found, the last health lost and the time be up
  together. `Judged` says what is true between the verdicts: either none has been given, or the run is
  over and the later ones find it so. `RunsEndForOneReason`.
* Bit Planes. `RoundOK`: the hits and the bullets in flight are no more than the bullets fired, the hits and
  the enemies there no more than those spawned. It survives the two loops because every turn of them keeps the
  active bullets and the hits, and the active enemies and the hits, as many as at the start (`MetFights`,
  `CombatsFights`). `Hurt` says that a part takes
  one life at most, and only when the player is not spared. `BulletsDownOneEach`, and the action property
  `LivesGoOneByOne`.
* Neon Drift. `DriftStates`: the panel is there or due exactly while no run goes on (`DriftPanel`), and
  what a drone is after is a turret's id (`DriftChase`). The second part rests on lemmas about `Only`: what it
  keeps, what it leaves out, and that it is shorter when it leaves something out, which makes room for
  the new turret. `PanelComesBetweenRuns`, `NoDroneChasesAGhost`.
* Worm Battles. In the middle of a frame rivals may be dead; `ArenaFights` asks only that the player told of its end has
  one; the refill makes it `ArenaFull`. `FieldStaysFull`.
* Recent games. `ListOK` says of the stored list, and of what each tab has read and not yet written,
  that no game is in it twice; without the second part the first is not inductive. `RecentStaysAList`.

### The host-authority party

`HostAuthorityProofs`. `HostInvariance` is the inductive invariant. `LogOK`: what is saved is what
the log leads to. `MemoryOK`: the host's copy is behind it by exactly the mutation that has been saved and
not yet assigned. `LineOK`, `HandlerOK`, `ClicksOK`: nobody waits twice in the mutation queue, and
the guest message being handled is in it just while it waits. `SavingOK`: what the head of the queue
is saving is the next state of the copy held now. `GuestsOK`: messages and replicas are of events saved.
The state of a log is a recursive function; that a longer log does not change what the shorter one
led to is proved by a least counterexample rather than by induction over data. From the invariant:

* `HostTypes`: `TypeOK`.
* `SavedBeforeSeen`: `NothingSeenBeforeSaved`, wherever the host's page is closed and whichever
  save fails.
* `OneVoicePerMember`: `BindingsAgree`.

`HostAuthorityRefinementProofs` proves `PartyKeepsItsLog`, `Spec => ImplementsPartyLog`. A save that
completes (`Stored`) maps to `Commit`; a message taken in, and a guest's own replay or reset, map to
`Learn`; everything else is a stutter. `Commit` demands that the event is due by the log alone, and `Learn`
that a guest's view goes back only to nothing. Neither follows from `IInv`; `PartyInvariance` adds

* `DescribedOK`: the state saved says what the log says -- who was admitted, who was removed, whether
  the door is locked, and that a guest's last number counts its messages;
* `DueOK`, `ActsOK`: what is being saved passed the host's checks, which still hold, since the queue
  lets nothing come between;
* `IntentsOK`: the intents under way of a guest, in its inbox, in the handler and in the page's replay,
  are in the order of their texts, and one whose number the host would still accept carries a
  text that the log does not have. A replayed intent and a number set back by a late synchronisation
  both make old and new intents meet, so nothing weaker is inductive;
* `OrderOK`: an event may overtake an older answer, so the messages to a guest are in no order, but a
  snapshot carries no less than every message before it and no less than the replica; this is why
  taking one in never goes back.

`ReplicaInvariance` adds to it what a replica *says*, and `ReplicasAreTheLog` (`ReplicasMatchLog`) follows: whatever
was lost, overtaken, replayed or reset, a guest shows what the log says up to the number it has reached.

* `PrefixesOK`: what the host appends was due where it appends it, and the events a state keeps are the window
  of the log, at every point of the log and not at its end alone; a replica may be at any of them.
* `ToldOK`: a replica, and every snapshot under way, mirrors the state of the prefix that it has reached
  (`Mirrors`): the same members, removals and lock, and of the chats the last ones of the log, no fewer
  than there are in the log's window (`Kept`). Both bounds are needed: a snapshot brings the chats of the
  window, events add to what the guest had. The lemmas compare the ends of lists element by element (`Ends`).

`QuietInvariance` adds what a connected guest is owed, and `QuietGuestsHaveAll` (`QuietGuestsAgree`) follows: with
nothing under way, whoever was accepted, is connected and has not been removed has all the host has.

* `OnlineOK`: a link that is up belongs to the guest's present page, and to an open host; one that is down carries nothing.
* `VoicesOK`: only members are bound or answered, and nobody is announced who has been removed.
* `ServedOK`, for each connected guest, in three parts that keep each other:
  - `Turns`: what the guest's earlier pages left in the line comes before a request of the present page to be
    authenticated. Otherwise the host could bind an old page last, and the present one would never hear an event;
  - `Voiced`: the page of a member is bound, or its request to be authenticated is in the line or with the handler.
    So an event is sent to it, or the answer still to come includes the event;
  - `CatchesUp`: a guest that is told it is accepted is at the host's number, or a message under way brings it
    there, or a request of its page is still to be answered, or the handler still has to announce the newest event
    to it. A message that leaves a gap is followed by the guest's own request for a snapshot, so the last part holds
    again; a commit makes everybody fall behind at once, and the broadcast in the same step, or the announcement
    that follows an admission's answer, makes it good.

The strengthenings were first checked by TLC on two instances (one guest with two texts and three
troubles; the constants of `authority`); that of `QuietInvariance` on the second.

### Only model-checked

* Liveness and whatever needs ENABLED: out of the prover's reach.
* That the party comes to rest: `QuietGuestsAgree` says what holds when it does.
* The findings: their properties are false.

## 5. Plan

1. Coordinator: rules, atomic and detailed specification, proofs. *Done.*
2. Peers: poller, both sides of a room. *Done*, with the proofs of its safety invariants.
3. Host authority: rules, abstract log, pages and session, proofs of safety and refinement. *Done*.
4. Room chat, shared input, engine mounting, recent games. *Done*, with the proofs.
5. The games' accounts. *Done*, with the proofs.

## 6. Not modelled

* Rendering, routing, catalogs, styles, shells and media queries: no state that two actors share.
* Positions, speeds, steering, knock-back, level generation, sound and drawing of the games:
  floating-point. Their outcomes are chosen freely instead, which is more than the games can do; a
  property that depends on geometry cannot be stated.
* The text normalisation and masking of the moderation, the limits on length and rate, codecs and shape
  checks: they only refuse or rewrite a value.
* The Trystero PoC page: counters of a manual measurement. Trystero's discovery, SDP, ICE and DTLS
  beyond what is said above.
* Two tabs of one guest or of one host: the code neither prevents nor repairs what they do to each other.
* Forged credentials and malformed messages.
