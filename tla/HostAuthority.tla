----------------------------- MODULE HostAuthority -----------------------------
(***************************************************************************)
(* The host-authority party: the page src/pages/HostAuthorityPocPage.tsx on *)
(* the host and on the guests, with HostAuthoritySession between the host's *)
(* page and its durable store.                                             *)
(*                                                                         *)
(* The host handles the guests' messages one after the other               *)
(* (hostMessageQueue), and runs the mutations they and its user ask for one *)
(* after the other (mutationQueue): compute, save, only then assign and     *)
(* broadcast. Guests keep a replica and their credentials in localStorage.  *)
(* Pages are loaded again, links break and saves fail.                      *)
(*                                                                         *)
(* A transport is <<g, k>>: the k-th page of guest g.                       *)
(***************************************************************************)
EXTENDS AuthorityModel

CONSTANTS
    Click,          \* the things the host's user does, one each
    Text,           \* texts of a guest, typed in this order: 1 .. n
    MaxPages,       \* pages a guest loads
    MaxTrouble      \* crashes, broken links, reloads, failed saves; and the replays,
                    \* replica resets and forced snapshots a guest's user may ask for

ASSUME HostAuthorityAssumption ==
    /\ "message" \notin Click
    /\ Text \subseteq Nat
    /\ MaxPages \in Nat \ {0}
    /\ MaxTrouble \in Nat

VARIABLES
    \* the host's page and its store
    up,             \* whether the host's page is open
    memory,         \* currentState of the session
    durable,        \* the state in IndexedDB
    queue,          \* who has an operation in mutationQueue
    saving,         \* the mutation being saved, or NoSave
    handler,        \* the guest message being handled
    clicks,         \* where each act of the host's user stands
    joined,         \* peerAppIdentity, guestPeerByIdentity: a guest's page, or 0
    bound,          \* memberByTransport: the transports that are keys of it
    transport,      \* transportByMember: a guest's page, or 0
    \* the connection of each guest's present page
    link,           \* "down", "up" or "closing"
    inbox,          \* sent to the host and not handled yet: <<page, message>>
    toGuest,        \* sent to the guest and not handled yet
    \* the guests
    page,           \* number of the page
    cred,           \* GuestAuthorityCredentials, saved
    auth,           \* guestAuthState
    lastIntent,     \* lastGuestIntentRef
    typed,          \* how many texts the guest has submitted
    \* auxiliary
    history,        \* every event ever saved
    trouble,        \* of which there has been so much
    misjudged       \* texts refused as duplicates that were not in the history

hostVars == <<up, memory, durable, queue, saving, handler, clicks, joined, bound, transport>>
guestVars == <<page, cred, auth, lastIntent, typed>>
netVars == <<link, inbox, toGuest>>
auxVars == <<history, trouble, misjudged>>
vars == <<hostVars, guestVars, netVars, auxVars>>

-------------------------------------------------------------------------------
(***************************************************************************)
(* Messages and records.                                                   *)
(***************************************************************************)
NoEvent == [seq |-> 0, type |-> "none", who |-> Host, client |-> 0, text |-> 0]
NoSave == [next |-> InitialState, event |-> NoEvent, stored |-> FALSE]
NoIntent == [client |-> 0, text |-> 0]
NoSync == [mode |-> "none"]

Idle == [pc |-> "idle", g |-> Host, k |-> 0, cursor |-> 0, intent |-> NoIntent,
         event |-> NoEvent, reason |-> "none", waits |-> {}]

AuthRequest(cursor) == [type |-> "auth", cursor |-> cursor, intent |-> NoIntent]
SyncRequest(cursor) == [type |-> "sync", cursor |-> cursor, intent |-> NoIntent]
Intent(i) == [type |-> "intent", cursor |-> 0, intent |-> i]

Accepted(sync) == [type |-> "accepted", sync |-> sync, event |-> NoEvent]
Denied == [type |-> "denied", sync |-> NoSync, event |-> NoEvent]
Rejected(sync) == [type |-> "rejected", sync |-> sync, event |-> NoEvent]
Canonical(e) == [type |-> "event", sync |-> NoSync, event |-> e]

NewCredential == [known |-> FALSE, next |-> 1, cached |-> FALSE, replica |-> EmptyReplica]
Unclicked == [pc |-> "new", op |-> "none", g |-> Host, k |-> 0]

Init ==
    /\ up = TRUE /\ memory = InitialState /\ durable = InitialState
    /\ queue = << >> /\ saving = NoSave /\ handler = Idle
    /\ clicks = [c \in Click |-> Unclicked]
    /\ joined = [g \in Guest |-> 0] /\ bound = {} /\ transport = [g \in Guest |-> 0]
    /\ link = [g \in Guest |-> "down"]
    /\ inbox = [g \in Guest |-> << >>] /\ toGuest = [g \in Guest |-> << >>]
    /\ page = [g \in Guest |-> 1]
    /\ cred = [g \in Guest |-> NewCredential]
    /\ auth = [g \in Guest |-> "pending"]
    /\ lastIntent = [g \in Guest |-> NoIntent]
    /\ typed = [g \in Guest |-> 0]
    /\ history = << >> /\ trouble = 0 /\ misjudged = {}

-------------------------------------------------------------------------------
(***************************************************************************)
(* Sending. What is sent to a transport that is gone or being closed is     *)
(* lost.                                                                    *)
(***************************************************************************)
Reachable(g, k) == page[g] = k /\ link[g] = "up"

SendTo(g, k, m) ==
    toGuest' = IF Reachable(g, k) THEN [toGuest EXCEPT ![g] = Append(@, m)] ELSE toGuest

Broadcast(e, targets) ==
    toGuest' = [g \in Guest |-> IF <<g, page[g]>> \in targets /\ link[g] = "up"
                                THEN Append(toGuest[g], Canonical(e)) ELSE toGuest[g]]

\* RTCPeerConnection.close() on the host: what was sent before may still arrive.
Close(g, k) == link' = IF Reachable(g, k) THEN [link EXCEPT ![g] = "closing"] ELSE link

SendToHost(g, m) ==
    inbox' = IF link[g] = "up" THEN [inbox EXCEPT ![g] = Append(@, <<page[g], m>>)] ELSE inbox

-------------------------------------------------------------------------------
(***************************************************************************)
(* The host handles messages: handleHostAuthorityMessage, from each await    *)
(* to the next.                                                             *)
(***************************************************************************)

BindBeside(g, k) ==                                                 \* mutant
    /\ bound' = bound \cup {<<g, k>>}
    /\ transport' = [transport EXCEPT ![g] = k]
    /\ UNCHANGED link

\* session.bindTransport, and closing the transport it replaces.
Bind(g, k) ==
    /\ bound' = (bound \ (IF transport[g] \in {0, k} THEN {} ELSE {<<g, transport[g]>>})) \cup {<<g, k>>}
    /\ transport' = [transport EXCEPT ![g] = k]
    /\ IF transport[g] \in {0, k} THEN UNCHANGED link ELSE Close(g, transport[g])

Enqueue(owner) == queue' = Append(queue, owner)

\* The message is taken from the queue and handled up to the first await.
HostTakes(g) ==
    /\ up /\ handler.pc = "idle" /\ inbox[g] # << >>
    /\ LET k == Head(inbox[g])[1]
           m == Head(inbox[g])[2]
           taken == [Idle EXCEPT !.g = g, !.k = k, !.cursor = m.cursor, !.intent = m.intent]
           isBound == <<g, k>> \in bound
       IN  /\ inbox' = [inbox EXCEPT ![g] = Tail(@)]
           /\ \/ /\ m.type = "auth" /\ joined[g] = k
                 /\ handler' = [taken EXCEPT !.pc = "derive"]
                 /\ UNCHANGED <<queue, toGuest, link>>
              \/ /\ m.type = "auth" /\ joined[g] # k         \* identity-mismatch
                 /\ SendTo(g, k, Denied) /\ Close(g, k)
                 /\ UNCHANGED <<handler, queue>>
              \/ /\ m.type # "auth" /\ ~isBound              \* not-authenticated
                 /\ SendTo(g, k, Rejected(NoSync))
                 /\ UNCHANGED <<handler, queue, link>>
              \/ /\ m.type = "sync" /\ isBound
                 /\ handler' = IF g \in memory.removed THEN Idle
                               ELSE [taken EXCEPT !.pc = "sync", !.reason = "accepted",
                                                  !.waits = Range(queue)]
                 /\ UNCHANGED <<queue, toGuest, link>>
              \/ /\ m.type = "intent" /\ isBound
                 /\ handler' = [taken EXCEPT !.pc = "intent"] /\ Enqueue("message")
                 /\ UNCHANGED <<toGuest, link>>
    /\ UNCHANGED <<up, memory, durable, saving, clicks, joined, bound, transport, guestVars, auxVars>>

HostDerivesTwice ==                                                 \* mutant
    /\ handler.pc = "derive"
    /\ handler' = [handler EXCEPT !.pc = "derive"] /\ Enqueue("message")
    /\ UNCHANGED <<up, memory, durable, saving, clicks, joined, bound, transport, guestVars, netVars, auxVars>>

\* deriveCredentialVerifier has settled; session.authenticate is called.
HostDerives ==
    /\ handler.pc = "derive"
    /\ handler' = [handler EXCEPT !.pc = "auth"] /\ Enqueue("message")
    /\ UNCHANGED <<up, memory, durable, saving, clicks, joined, bound, transport, guestVars, netVars, auxVars>>

\* synchronize: the queue it waited for is empty. sync() throws for a removed member.
HostSyncs ==
    /\ handler.pc = "sync" /\ handler.waits \cap Range(queue) = {}
    /\ LET g == handler.g
           k == handler.k
           sync == SyncResponse(memory, g, handler.cursor)
           gone == g \in memory.removed
       IN  IF handler.reason = "accepted"
           THEN /\ IF gone THEN UNCHANGED toGuest ELSE SendTo(g, k, Accepted(sync))
                /\ handler' = IF gone \/ handler.event = NoEvent THEN Idle
                              ELSE [handler EXCEPT !.pc = "announce"]
           ELSE /\ SendTo(g, k, Rejected(IF gone \/ g \notin Members(memory) THEN NoSync ELSE sync))
                /\ handler' = Idle
    /\ UNCHANGED <<up, memory, durable, queue, saving, clicks, joined, bound, transport, guestVars,
                   link, inbox, auxVars>>

\* The new member is announced to the others, after its own answer has been sent.
HostAnnounces ==
    /\ handler.pc = "announce"
    /\ Broadcast(handler.event, bound \ {<<handler.g, handler.k>>})
    /\ handler' = Idle
    /\ UNCHANGED <<up, memory, durable, queue, saving, clicks, joined, bound, transport, guestVars,
                   link, inbox, auxVars>>

-------------------------------------------------------------------------------
(***************************************************************************)
(* mutationQueue: the operation at its head computes the next state, saves   *)
(* it, and only then assigns it.                                            *)
(***************************************************************************)
Pop == queue' = Tail(queue)

Save(e) == saving' = [next |-> Applied(memory, e), event |-> e, stored |-> FALSE]

AtHead(owner) == up /\ queue # << >> /\ Head(queue) = owner /\ saving = NoSave

SyncThen(reason) ==
    handler' = [handler EXCEPT !.pc = "sync", !.reason = reason, !.waits = Range(Tail(queue))]

HostAuthenticates ==
    /\ AtHead("message") /\ handler.pc = "auth"
    /\ LET g == handler.g
           k == handler.k
           verdict == AuthVerdict(memory, g)
       IN  \/ /\ verdict \notin {"resumed", "admitted"}
              /\ SendTo(g, k, Denied) /\ Close(g, k)
              /\ handler' = Idle /\ Pop
              /\ UNCHANGED <<bound, transport, saving>>
           \/ /\ verdict = "resumed"
              /\ Bind(g, k)
              /\ SyncThen("accepted") /\ Pop
              /\ UNCHANGED <<toGuest, saving>>
           \/ /\ verdict = "admitted"
              /\ Save(Event(memory, "admitted", g, 0, 0))
              /\ UNCHANGED <<bound, transport, link, toGuest, handler, queue>>
    /\ UNCHANGED <<up, memory, durable, clicks, joined, guestVars, inbox, auxVars>>

TextsOf(events, g) == {e.text : e \in {d \in Range(events) : d.type = "chat" /\ d.who = g}}

HostJudgesIntent ==
    /\ AtHead("message") /\ handler.pc = "intent"
    /\ LET g == handler.g
           i == handler.intent
           verdict == ChatVerdict(memory, g, i.client)
       IN  \/ /\ verdict = "accepted"
              /\ Save(Event(memory, "chat", g, i.client, i.text))
              /\ UNCHANGED <<handler, queue, misjudged>>
           \/ /\ verdict # "accepted"
              /\ handler' = [handler EXCEPT !.pc = "sync", !.reason = verdict, !.cursor = 0,
                                            !.waits = Range(Tail(queue))]
              /\ Pop
              /\ misjudged' = IF verdict = "duplicate-or-replay" /\ i.text \notin TextsOf(history, g)
                              THEN misjudged \cup {<<g, i.text>>} ELSE misjudged
              /\ UNCHANGED saving
    /\ UNCHANGED <<up, memory, durable, clicks, joined, bound, transport, guestVars, netVars,
                   history, trouble>>

\* An act of the host's user: what it reads when it is clicked is captured here.
HostClicks(c) ==
    /\ up /\ clicks[c].pc = "new"
    /\ \/ clicks' = [clicks EXCEPT ![c] = [pc |-> "queued", op |-> "chat", g |-> Host, k |-> 0]]
       \/ clicks' = [clicks EXCEPT ![c] = [pc |-> "queued", op |-> IF memory.locked THEN "unlocked" ELSE "locked",
                                           g |-> Host, k |-> 0]]
       \/ \E g \in Members(memory) \ memory.removed :
              clicks' = [clicks EXCEPT ![c] = [pc |-> "queued", op |-> "removed", g |-> g, k |-> transport[g]]]
    /\ Enqueue(c)
    /\ UNCHANGED <<up, memory, durable, saving, handler, joined, bound, transport, guestVars, netVars, auxVars>>

Idempotent(c) ==
    LET click == clicks[c] IN
    CASE click.op = "locked"   -> memory.locked
      [] click.op = "unlocked" -> ~memory.locked
      [] click.op = "removed"  -> click.g \in memory.removed
      [] OTHER -> FALSE

\* A mutation that changes nothing appends no event; removal closes the transport all the same.
ClickRuns(c) ==
    /\ AtHead(c)
    /\ IF Idempotent(c)
       THEN /\ clicks' = [clicks EXCEPT ![c].pc = "done"] /\ Pop
            /\ IF clicks[c].op = "removed" THEN Close(clicks[c].g, clicks[c].k) ELSE UNCHANGED link
            /\ UNCHANGED saving
       ELSE /\ Save(Event(memory, clicks[c].op, clicks[c].g,
                          IF clicks[c].op = "chat" THEN memory.seq + 1 ELSE 0, 0))
            /\ UNCHANGED <<clicks, queue, link>>
    /\ UNCHANGED <<up, memory, durable, handler, joined, bound, transport, guestVars, inbox, toGuest, auxVars>>

\* The IndexedDB transaction completes.
Stored ==
    /\ saving # NoSave /\ ~saving.stored
    /\ durable' = saving.next
    /\ history' = Append(history, saving.event)
    /\ saving' = [saving EXCEPT !.stored = TRUE]
    /\ UNCHANGED <<up, memory, queue, handler, clicks, joined, bound, transport, guestVars, netVars,
                   trouble, misjudged>>

CommitMessageUnsaved ==                                             \* mutant
    /\ saving # NoSave /\ Head(queue) = "message"
    /\ memory' = saving.next /\ saving' = NoSave /\ Pop
    /\ Broadcast(saving.event, bound)
    /\ handler' = Idle
    /\ UNCHANGED <<up, durable, clicks, joined, bound, transport, guestVars, link, inbox, auxVars>>

\* currentState is assigned and the caller goes on to its next await.
CommitMessage ==
    /\ saving.stored /\ Head(queue) = "message"
    /\ memory' = saving.next /\ saving' = NoSave /\ Pop
    /\ IF handler.pc = "auth"
       THEN /\ Bind(handler.g, handler.k)
            /\ handler' = [handler EXCEPT !.pc = "sync", !.reason = "accepted", !.event = saving.event,
                                          !.waits = Range(Tail(queue))]
            /\ UNCHANGED toGuest
       ELSE /\ Broadcast(saving.event, bound)
            /\ handler' = Idle
            /\ UNCHANGED <<bound, transport, link>>
    /\ UNCHANGED <<up, durable, clicks, joined, guestVars, inbox, auxVars>>

\* removeMember also unbinds the member; the transport captured at the click is told and closed.
CommitClick(c) ==
    /\ saving.stored /\ Head(queue) = c
    /\ memory' = saving.next /\ saving' = NoSave /\ Pop
    /\ clicks' = [clicks EXCEPT ![c].pc = "done"]
    /\ LET g == clicks[c].g
           k == clicks[c].k
       IN  IF clicks[c].op = "removed"
           THEN /\ bound' = bound \ {<<g, transport[g]>>}
                /\ transport' = [transport EXCEPT ![g] = 0]
                /\ Broadcast(saving.event, bound' \cup {<<g, k>>})
                /\ Close(g, k)
           ELSE /\ Broadcast(saving.event, bound)
                /\ UNCHANGED <<bound, transport, link>>
    /\ UNCHANGED <<up, durable, handler, joined, guestVars, inbox, auxVars>>

-------------------------------------------------------------------------------
(***************************************************************************)
(* Joining and leaving.                                                    *)
(***************************************************************************)

\* The handshakes have been exchanged and onPeerJoin has run on both sides.
Connect(g) ==
    /\ up /\ link[g] = "down" /\ joined[g] # page[g]
    /\ joined[g] # 0 \/ Cardinality({h \in Guest : joined[h] # 0}) < MaxGuests
    /\ link' = [link EXCEPT ![g] = "up"]
    /\ joined' = [joined EXCEPT ![g] = page[g]]
    /\ auth' = [auth EXCEPT ![g] = "pending"]
    /\ inbox' = [inbox EXCEPT ![g] = Append(@, <<page[g],
                    AuthRequest(IF cred[g].cached THEN cred[g].replica.seq ELSE ForceSnapshot)>>)]
    /\ UNCHANGED <<up, memory, durable, queue, saving, handler, clicks, bound, transport, toGuest,
                   page, cred, lastIntent, typed, auxVars>>

\* The link is gone, and with it what was on its way to the guest. Of what was on its way to
\* the host, everything has arrived or nothing has.
Unlink(g) ==
    /\ link' = [link EXCEPT ![g] = "down"]
    /\ toGuest' = [toGuest EXCEPT ![g] = << >>]
    /\ \/ UNCHANGED inbox
       \/ inbox' = [inbox EXCEPT ![g] = Only(@, {m \in Range(@) : m[1] # page[g]})]
    /\ auth' = [auth EXCEPT ![g] = "pending"]

Trouble == trouble < MaxTrouble /\ trouble' = trouble + 1 /\ UNCHANGED <<history, misjudged>>

Disconnect(g) ==
    /\ link[g] # "down"
    /\ \/ link[g] = "closing" /\ UNCHANGED auxVars
       \/ link[g] = "up" /\ Trouble
    /\ Unlink(g)
    /\ UNCHANGED <<hostVars, page, cred, lastIntent, typed>>

\* onPeerLeave on the host.
HostNoticesLeave(g) ==
    /\ up /\ joined[g] # 0 /\ ~(joined[g] = page[g] /\ link[g] # "down")
    /\ joined' = [joined EXCEPT ![g] = 0]
    /\ bound' = bound \ {<<g, joined[g]>>}
    /\ transport' = [transport EXCEPT ![g] = IF @ = joined[g] THEN 0 ELSE @]
    /\ UNCHANGED <<up, memory, durable, queue, saving, handler, clicks, guestVars, netVars, auxVars>>

\* The guest loads its page again: credentials and replica come from localStorage.
GuestReloads(g) ==
    /\ page[g] < MaxPages
    /\ Trouble
    /\ Unlink(g)
    /\ page' = [page EXCEPT ![g] = @ + 1]
    /\ lastIntent' = [lastIntent EXCEPT ![g] = NoIntent]
    /\ UNCHANGED <<hostVars, cred, typed>>

\* The host's page goes away. A transaction under way has completed (Stored) or has no effect.
HostCrashes ==
    /\ up /\ Trouble
    /\ up' = FALSE
    /\ memory' = InitialState /\ queue' = << >> /\ saving' = NoSave /\ handler' = Idle
    /\ clicks' = [c \in Click |-> IF clicks[c].pc = "queued" THEN [clicks[c] EXCEPT !.pc = "done"] ELSE clicks[c]]
    /\ joined' = [g \in Guest |-> 0] /\ bound' = {} /\ transport' = [g \in Guest |-> 0]
    /\ link' = [g \in Guest |-> "down"]
    /\ inbox' = [g \in Guest |-> << >>] /\ toGuest' = [g \in Guest |-> << >>]
    /\ auth' = [g \in Guest |-> "pending"]
    /\ UNCHANGED <<durable, page, cred, lastIntent, typed>>

\* HostAuthoritySession.restore.
HostRestores ==
    /\ ~up /\ Restorable(durable)
    /\ up' = TRUE /\ memory' = durable
    /\ UNCHANGED <<durable, queue, saving, handler, clicks, joined, bound, transport, guestVars, netVars, auxVars>>

\* A save fails: the operation throws, the caller with it, and nobody is told.
SaveFails ==
    /\ saving # NoSave /\ ~saving.stored
    /\ Trouble
    /\ saving' = NoSave /\ Pop
    /\ IF Head(queue) = "message"
       THEN handler' = Idle /\ UNCHANGED clicks
       ELSE clicks' = [clicks EXCEPT ![Head(queue)].pc = "done"] /\ UNCHANGED handler
    /\ UNCHANGED <<up, memory, durable, joined, bound, transport, guestVars, netVars>>

-------------------------------------------------------------------------------
(***************************************************************************)
(* The guests: handleGuestAuthorityMessage and applyGuestSync. Everything    *)
(* they write is written before their first await.                          *)
(***************************************************************************)
AskForSnapshot(g) ==
    SendToHost(g, SyncRequest(ForceSnapshot)) /\ UNCHANGED <<cred, auth>>

TakeInOrSkip(g, sync, verdict) ==                                   \* mutant
    LET next == ApplySync(cred[g].replica, sync) IN
    /\ IF (~cred[g].cached /\ sync.mode # "snapshot") \/ next = Gone
       THEN UNCHANGED <<cred, auth>>
       ELSE /\ cred' = [cred EXCEPT ![g] = [known |-> TRUE, next |-> sync.accepted + 1,
                                            cached |-> TRUE, replica |-> next]]
            /\ auth' = [auth EXCEPT ![g] = verdict]
    /\ UNCHANGED inbox

\* applyGuestSync; verdict is guestAuthState if the replica takes the sync in.
TakeIn(g, sync, verdict) ==
    LET next == ApplySync(cred[g].replica, sync) IN
    IF (~cred[g].cached /\ sync.mode # "snapshot") \/ next = Gone
    THEN AskForSnapshot(g)
    ELSE /\ cred' = [cred EXCEPT ![g] = [known |-> TRUE, next |-> sync.accepted + 1,
                                         cached |-> TRUE, replica |-> next]]
         /\ auth' = [auth EXCEPT ![g] = verdict]
         /\ UNCHANGED inbox

SyntheticSync(g, e) ==
    [mode |-> "delta", seq |-> e.seq,
     accepted |-> IF cred[g].next > 0 THEN cred[g].next - 1 ELSE 0,
     events |-> <<e>>, snapshot |-> NoSnapshot]

GuestReceives(g) ==
    /\ toGuest[g] # << >>
    /\ toGuest' = [toGuest EXCEPT ![g] = Tail(@)]
    /\ LET m == Head(toGuest[g]) IN
       CASE m.type = "denied" -> auth' = [auth EXCEPT ![g] = "denied"] /\ UNCHANGED <<cred, inbox>>
         [] m.type = "accepted" -> TakeIn(g, m.sync, "accepted")
         [] m.type = "rejected" -> IF m.sync # NoSync /\ cred[g].known
                                   THEN TakeIn(g, m.sync, auth[g])
                                   ELSE UNCHANGED <<cred, auth, inbox>>
         [] m.type = "event" -> IF ~cred[g].known \/ ~cred[g].cached THEN AskForSnapshot(g)
                                ELSE IF m.event.seq <= cred[g].replica.seq THEN UNCHANGED <<cred, auth, inbox>>
                                ELSE TakeIn(g, SyntheticSync(g, m.event), auth[g])
    /\ UNCHANGED <<hostVars, page, lastIntent, typed, link, auxVars>>

\* submitGuestIntent: the next number is saved before the intent is sent.
GuestSubmits(g) ==
    /\ link[g] # "down" /\ cred[g].known /\ auth[g] = "accepted"
    /\ typed[g] + 1 \in Text
    /\ LET i == [client |-> cred[g].next, text |-> typed[g] + 1] IN
       /\ typed' = [typed EXCEPT ![g] = @ + 1]
       /\ cred' = [cred EXCEPT ![g].next = @ + 1]
       /\ lastIntent' = [lastIntent EXCEPT ![g] = i]
       /\ SendToHost(g, Intent(i))
    /\ UNCHANGED <<hostVars, page, auth, link, toGuest, auxVars>>

\* replayLastGuestIntent, forceGuestSnapshot, resetGuestReplicaAndResync.
GuestProbes(g) ==
    /\ Trouble /\ link[g] # "down"
    /\ \/ /\ lastIntent[g] # NoIntent
          /\ SendToHost(g, Intent(lastIntent[g])) /\ UNCHANGED cred
       \/ SendToHost(g, SyncRequest(ForceSnapshot)) /\ UNCHANGED cred
       \/ /\ cred[g].known /\ cred[g].cached
          /\ cred' = [cred EXCEPT ![g].replica = EmptyReplica]
          /\ SendToHost(g, SyncRequest(0))
    /\ UNCHANGED <<hostVars, page, auth, lastIntent, typed, link, toGuest>>

-------------------------------------------------------------------------------
HostStep ==
    \/ \E g \in Guest : HostTakes(g) \/ HostNoticesLeave(g)
    \/ HostDerives \/ HostAuthenticates \/ HostJudgesIntent \/ HostSyncs \/ HostAnnounces
    \/ \E c \in Click : ClickRuns(c) \/ CommitClick(c)
    \/ Stored \/ CommitMessage \/ HostRestores

UserStep ==
    \/ \E c \in Click : HostClicks(c)
    \/ \E g \in Guest : GuestSubmits(g) \/ GuestProbes(g)

FaultStep ==
    \/ \E g \in Guest : GuestReloads(g)
    \/ HostCrashes \/ SaveFails

Next ==
    \/ HostStep \/ UserStep \/ FaultStep
    \/ \E g \in Guest : Connect(g) \/ Disconnect(g) \/ GuestReceives(g)

Spec == Init /\ [][Next]_vars

-------------------------------------------------------------------------------
(***************************************************************************)
(* Properties.                                                             *)
(***************************************************************************)

\* The state the events of a log lead to.
StateOf(log) ==
    LET upTo[n \in 0 .. Len(log)] ==
            IF n = 0 THEN InitialState ELSE Applied(upTo[n - 1], log[n])
    IN  upTo[Len(log)]

Prefix(n) == SubSeq(history, 1, n)

Credential ==
    [known : BOOLEAN, next : Nat \ {0}, cached : BOOLEAN,
     replica : [seq : Nat, locked : BOOLEAN, members : Seq(Guest), removed : SUBSET Guest,
                messages : Seq(Range(history))]]

\* Every variable has its type; nothing is mutated while the host's page is closed.
TypeOK ==
    /\ up \in BOOLEAN
    /\ Range(queue) \subseteq Click \cup {"message"}
    /\ Len(queue) = Cardinality(Range(queue))
    /\ saving # NoSave => queue # << >>
    /\ handler.pc \in {"idle", "derive", "auth", "sync", "announce", "intent"}
    /\ handler.pc \in {"auth", "intent"} <=> "message" \in Range(queue)
    /\ \A c \in Click : clicks[c].pc = "queued" <=> c \in Range(queue)
    /\ ~up => queue = << >> /\ saving = NoSave /\ handler = Idle /\ bound = {}
    /\ joined \in [Guest -> 0 .. MaxPages] /\ transport \in [Guest -> 0 .. MaxPages]
    /\ bound \subseteq Guest \X (1 .. MaxPages)
    /\ link \in [Guest -> {"down", "up", "closing"}]
    /\ page \in [Guest -> 1 .. MaxPages]
    /\ cred \in [Guest -> Credential]
    /\ auth \in [Guest -> {"pending", "accepted", "denied"}]
    /\ typed \in [Guest -> Text \cup {0}]

\* Durable before visible: what the host holds in memory, what it has sent and what the guests
\* keep never goes beyond the events saved, whatever the host's page was doing when it closed,
\* and what is saved can be restored. (commitState saves, then assigns; the page broadcasts last.)
NothingSeenBeforeSaved ==
    /\ durable = StateOf(history) /\ Restorable(durable)
    /\ up => memory.seq \in {Len(history) - 1, Len(history)} /\ memory = StateOf(Prefix(memory.seq))
    /\ \A g \in Guest :
        /\ cred[g].replica.seq <= Len(history)
        /\ \A m \in Range(toGuest[g]) :
            /\ m.event # NoEvent => m.event.seq <= Len(history) /\ history[m.event.seq] = m.event
            /\ m.sync # NoSync => m.sync.seq <= Len(history)

\* A replica is what the log says at the replica's sequence: the same lock, the same members in
\* the same order, and messages that are the latest ones of the log, with none of the last
\* HistoryLimit events missing -- whether it got there by deltas, by snapshots or by both.
ReplicasMatchLog ==
    \A g \in Guest :
        LET r == cred[g].replica
            s == StateOf(Prefix(r.seq))
            before == IF r.seq > HistoryLimit THEN r.seq - HistoryLimit ELSE 0
        IN  cred[g].cached /\ r.seq > 0 =>
              /\ r.locked = s.locked /\ r.members = s.members /\ r.removed = s.removed
              /\ IsSuffix(r.messages, Chats(Prefix(r.seq)))
              /\ Len(r.messages) >= Len(Chats(SubSeq(history, before + 1, r.seq)))

\* Each member is bound to at most one transport, the two maps of the session agree, and a
\* member that has been removed is bound to none, although messages of its old and new pages are
\* handled while removals are being saved.
BindingsAgree ==
    /\ bound = {<<g, transport[g]>> : g \in {h \in Guest : transport[h] # 0}}
    /\ \A g \in memory.removed : transport[g] = 0

\* The log and the replicas behave as the abstract party log does.
Log == INSTANCE PartyLog WITH log <- history, view <- [g \in Guest |-> cred[g].replica.seq]
ImplementsPartyLog == Log!Spec

\* When the host has nothing left to do and no message is on its way, every guest that was
\* accepted, is connected and has not been removed has all the host has: nothing is lost between
\* an answer and the broadcasts that overtake it, and a gap is always made good.
QuietGuestsAgree ==
    /\ up /\ handler = Idle /\ queue = << >>
    /\ \A g \in Guest : inbox[g] = << >> /\ toGuest[g] = << >>
    =>
    \A g \in Guest \ memory.removed :
        link[g] = "up" /\ auth[g] = "accepted" => cred[g].replica.seq = memory.seq

\* What the host refuses as a duplicate is in the log already.
DuplicatesAreDuplicates == misjudged = {}
================================================================================
