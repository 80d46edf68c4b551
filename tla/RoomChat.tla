------------------------------- MODULE RoomChat -------------------------------
(***************************************************************************)
(* The chat of a room, over sessions that RoomPeers has connected. A guest   *)
(* sends its text to the host (RoomChatController); the host names the       *)
(* sender after its own room state and sends the message to every guest,     *)
(* the sender included; a guest shows what the host sends and nothing else.  *)
(* ChatPage builds this after an await and takes it down when it is left.    *)
(***************************************************************************)
EXTENDS Naturals, FiniteSets, Sequences, SequencesExt

CONSTANTS
    Member,         \* the guests, all of whom have a seat
    MaxTexts,       \* bound on the texts sent
    MaxTrouble,     \* bound on pages left, channels closed and loads of the host's page, together
    MaxHistory      \* MAX_CHAT_HISTORY is 200

Host == "host"

User == Member \cup {Host}

VARIABLES
    removed,        \* whom the coordinator has removed
    dismissed,      \* for whom removePeer has run as well
    control,        \* the guests whose removal is being requested
    roomState,      \* RoomChatController.roomState: the removed guests, once known
    hostEnd,        \* the host's session with a guest; "closing": not open, not yet noticed
    guestEnd,       \* the guest's session with the host
    toHost, toGuest,\* what is under way on it
    texts,          \* how many texts were sent: they are numbered
    relayed,        \* what the host has relayed, in its order
    shown,          \* the messages on each page
    visit,          \* setupGeneration of the guest's page: odd while it is open
    joining,        \* the visits whose joinOrResume is awaited
    chats,          \* the visits whose peers and chat are alive
    trouble         \* what has gone wrong so far

coordinator == <<removed, dismissed, control, roomState>>
links == <<hostEnd, guestEnd, toHost, toGuest>>
setup == <<visit, joining, chats>>
vars == <<coordinator, links, texts, relayed, shown, setup, trouble>>

Unknown == [known |-> FALSE]
Trouble == trouble < MaxTrouble /\ trouble' = trouble + 1

Known(gone) == [known |-> TRUE, removed |-> gone]

Init ==
    /\ removed = {} /\ dismissed = {} /\ control = {} /\ roomState = Unknown
    /\ hostEnd = [m \in Member |-> "none"] /\ guestEnd = [m \in Member |-> "none"]
    /\ toHost = [m \in Member |-> <<>>] /\ toGuest = [m \in Member |-> <<>>]
    /\ texts = 0 /\ relayed = <<>> /\ trouble = 0
    /\ shown = [u \in User |-> <<>>]
    /\ visit = [m \in Member |-> 0]
    /\ joining = [m \in Member |-> {}] /\ chats = [m \in Member |-> {}]

Open(m) == visit[m] % 2 = 1

\* appendMessage.
Shown(list, message) ==
    LET all == Append(list, message)
    IN  IF Len(all) > MaxHistory THEN Tail(all) ELSE all

-------------------------------------------------------------------------------
\* The guest's page.

OpenPage(m) ==
    /\ ~Open(m)
    /\ visit' = [visit EXCEPT ![m] = @ + 1]
    /\ joining' = [joining EXCEPT ![m] = @ \cup {visit[m] + 1}]
    /\ UNCHANGED <<coordinator, links, texts, relayed, shown, chats, trouble>>

\* The room answers after the await, perhaps to a page that was left.
JoinedAnyway(m, v) ==                                               \* mutant
    /\ v \in joining[m]
    /\ joining' = [joining EXCEPT ![m] = @ \ {v}]
    /\ chats' = [chats EXCEPT ![m] = @ \cup {v}]
    /\ UNCHANGED <<coordinator, links, texts, relayed, shown, visit, trouble>>

Joined(m, v) ==
    /\ v \in joining[m]
    /\ joining' = [joining EXCEPT ![m] = @ \ {v}]
    /\ chats' = [chats EXCEPT ![m] = IF v = visit[m] THEN @ \cup {v} ELSE @]
    /\ UNCHANGED <<coordinator, links, texts, relayed, shown, visit, trouble>>

\* The room refuses, or cannot be reached, or the page was left: there is no chat.
JoinFails(m, v) ==
    /\ v \in joining[m]
    /\ joining' = [joining EXCEPT ![m] = @ \ {v}]
    /\ UNCHANGED <<coordinator, links, texts, relayed, shown, visit, chats, trouble>>

\* "Leave room", another route, or a reload: teardown closes what the page refers to.
LeavePage(m) ==
    /\ Open(m)
    /\ Trouble
    /\ visit' = [visit EXCEPT ![m] = @ + 1]
    /\ chats' = [chats EXCEPT ![m] = @ \ {visit[m]}]
    /\ guestEnd' = [guestEnd EXCEPT ![m] = "none"]
    /\ toGuest' = [toGuest EXCEPT ![m] = <<>>]
    /\ shown' = [shown EXCEPT ![m] = <<>>]
    /\ UNCHANGED <<coordinator, hostEnd, toHost, texts, relayed, joining>>

-------------------------------------------------------------------------------
\* The sessions. Their negotiation is RoomPeers: a guest ends its old session before it accepts an
\* offer, the host makes offers only to guests its room state shows, and to none it has dismissed.

Connect(m) ==
    /\ hostEnd[m] = "none" /\ guestEnd[m] = "none"
    /\ visit[m] \in chats[m]
    /\ roomState.known /\ m \notin removed \cup dismissed
    /\ hostEnd' = [hostEnd EXCEPT ![m] = "open"]
    /\ guestEnd' = [guestEnd EXCEPT ![m] = "open"]
    /\ toHost' = [toHost EXCEPT ![m] = <<>>]
    /\ toGuest' = [toGuest EXCEPT ![m] = <<>>]
    /\ UNCHANGED <<coordinator, texts, relayed, shown, setup, trouble>>

\* The channel closes under one end, which learns of it later.
HostEndCloses(m) ==
    /\ hostEnd[m] = "open"
    /\ Trouble
    /\ hostEnd' = [hostEnd EXCEPT ![m] = "closing"]
    /\ toHost' = [toHost EXCEPT ![m] = <<>>]
    /\ UNCHANGED <<coordinator, guestEnd, toGuest, texts, relayed, shown, setup>>

HostNotices(m) ==
    /\ hostEnd[m] = "closing"
    /\ hostEnd' = [hostEnd EXCEPT ![m] = "none"]
    /\ UNCHANGED <<coordinator, guestEnd, toHost, toGuest, texts, relayed, shown, setup, trouble>>

GuestNotices(m) ==
    /\ guestEnd[m] = "open"
    /\ IF hostEnd[m] = "open" THEN Trouble ELSE UNCHANGED trouble
    /\ guestEnd' = [guestEnd EXCEPT ![m] = "none"]
    /\ toGuest' = [toGuest EXCEPT ![m] = <<>>]
    /\ UNCHANGED <<coordinator, hostEnd, toHost, texts, relayed, shown, setup>>

-------------------------------------------------------------------------------
\* Texts.

\* Relay: broadcast to the sessions that are connected, in the order they were made, which the model
\* leaves open. One that is closing throws: those after it get nothing, and neither does the host's page.
Relay(message, hostQueues) ==
    LET open == {m \in Member : hostEnd[m] = "open"}
        throws == \E m \in Member : hostEnd[m] = "closing"
    IN  \E reached \in IF throws THEN SUBSET open ELSE {open} :
            /\ toGuest' = [m \in Member |->
                              IF m \in reached /\ guestEnd[m] = "open" THEN Append(toGuest[m], message)
                              ELSE toGuest[m]]
            /\ shown' = IF throws THEN shown ELSE [shown EXCEPT ![Host] = Shown(@, message)]
            /\ relayed' = Append(relayed, message)
            /\ toHost' = hostQueues

HostSends ==
    /\ texts < MaxTexts
    /\ texts' = texts + 1
    /\ Relay([sender |-> Host, text |-> texts'], toHost)
    /\ UNCHANGED <<coordinator, hostEnd, guestEnd, setup, trouble>>

GuestSendsAndShows(m) ==                                            \* mutant
    /\ texts < MaxTexts /\ guestEnd[m] = "open"
    /\ texts' = texts + 1
    /\ shown' = [shown EXCEPT ![m] = Shown(@, [sender |-> m, text |-> texts'])]
    /\ toHost' = [toHost EXCEPT ![m] = IF hostEnd[m] = "open" THEN Append(@, texts') ELSE @]
    /\ UNCHANGED <<coordinator, hostEnd, guestEnd, toGuest, relayed, setup, trouble>>

\* With no open session the text stays in the field.
GuestSends(m) ==
    /\ texts < MaxTexts /\ guestEnd[m] = "open"
    /\ texts' = texts + 1
    /\ toHost' = [toHost EXCEPT ![m] = IF hostEnd[m] = "open" THEN Append(@, texts') ELSE @]
    /\ UNCHANGED <<coordinator, hostEnd, guestEnd, toGuest, relayed, shown, setup, trouble>>

\* A sender the room state does not show, or shows as removed, is not relayed.
HostReceives(m) ==
    /\ hostEnd[m] = "open" /\ toHost[m] # <<>>
    /\ LET rest == [toHost EXCEPT ![m] = Tail(@)]
       IN  IF roomState.known /\ m \notin roomState.removed
           THEN Relay([sender |-> m, text |-> Head(toHost[m])], rest)
           ELSE toHost' = rest /\ UNCHANGED <<toGuest, relayed, shown>>
    /\ UNCHANGED <<coordinator, hostEnd, guestEnd, texts, setup, trouble>>

GuestReceives(m) ==
    /\ guestEnd[m] = "open" /\ toGuest[m] # <<>>
    /\ toGuest' = [toGuest EXCEPT ![m] = Tail(@)]
    /\ shown' = [shown EXCEPT ![m] = Shown(@, Head(toGuest[m]))]
    /\ UNCHANGED <<coordinator, hostEnd, guestEnd, toHost, texts, relayed, setup, trouble>>

-------------------------------------------------------------------------------
\* The host's page.

\* The answer to a poll, perhaps a late one; hostTick also ends the sessions of those it shows removed.
HostLearns ==
    \E gone \in SUBSET removed :
        /\ roomState' = Known(gone)
        /\ hostEnd' = [m \in Member |-> IF m \in gone THEN "none" ELSE hostEnd[m]]
        /\ toHost' = [m \in Member |-> IF m \in gone THEN <<>> ELSE toHost[m]]
        /\ UNCHANGED <<removed, dismissed, control, guestEnd, toGuest, texts, relayed, shown, setup, trouble>>

\* handleRemoveMember: the coordinator first, the session when it has answered. The chat learns of it
\* only from the room state of a later poll.
RemoveMember(m) ==
    /\ roomState.known /\ m \notin roomState.removed /\ m \notin control \cup dismissed
    /\ removed' = removed \cup {m}
    /\ control' = control \cup {m}
    /\ UNCHANGED <<dismissed, roomState, links, texts, relayed, shown, setup, trouble>>

DismissedInName(m) ==                                               \* mutant
    /\ m \in control
    /\ control' = control \ {m}
    /\ dismissed' = dismissed \cup {m}
    /\ UNCHANGED <<removed, roomState, links, texts, relayed, shown, setup, trouble>>

Dismissed(m) ==
    /\ m \in control
    /\ control' = control \ {m}
    /\ dismissed' = dismissed \cup {m}
    /\ hostEnd' = [hostEnd EXCEPT ![m] = "none"]
    /\ toHost' = [toHost EXCEPT ![m] = <<>>]
    /\ UNCHANGED <<removed, roomState, guestEnd, toGuest, texts, relayed, shown, setup, trouble>>

HostReloads ==
    /\ Trouble
    /\ control' = {} /\ roomState' = Unknown
    /\ hostEnd' = [m \in Member |-> "none"]
    /\ toHost' = [m \in Member |-> <<>>]
    /\ shown' = [shown EXCEPT ![Host] = <<>>]
    /\ UNCHANGED <<removed, dismissed, guestEnd, toGuest, texts, relayed, setup>>

Next ==
    \/ \E m \in Member :
        \/ OpenPage(m) \/ LeavePage(m)
        \/ \E v \in joining[m] : Joined(m, v) \/ JoinFails(m, v)
        \/ Connect(m) \/ HostEndCloses(m) \/ HostNotices(m) \/ GuestNotices(m)
        \/ GuestSends(m) \/ HostReceives(m) \/ GuestReceives(m)
        \/ RemoveMember(m) \/ Dismissed(m)
    \/ HostSends \/ HostLearns \/ HostReloads

Spec == Init /\ [][Next]_vars

-------------------------------------------------------------------------------
\* Every page shows messages of the host in the host's order and none twice, whatever sessions were
\* lost, replaced or only half reached in between (RoomChatController.ts:75-113).
ShownInOrder ==
    \A u \in User :
        \E place \in [DOMAIN shown[u] -> DOMAIN relayed] :
            \A i, j \in DOMAIN shown[u] :
                /\ relayed[place[i]] = shown[u][i]
                /\ i < j => place[i] < place[j]

\* Once the host's page has dismissed a guest nothing of it is relayed, although the chat's own room
\* state may still list it until the next poll (ChatPage.tsx:340-347, RoomChatController.ts:99-104).
DismissedAreSilent ==
    [][relayed' # relayed => Last(relayed').sender \notin dismissed]_vars

\* A page has one chat, and none is left behind by a page that was left while it was joining
\* (ChatPage.tsx:215-236, 271-274).
NoChatLeftBehind ==
    \A m \in Member : chats[m] \subseteq (IF Open(m) THEN {visit[m]} ELSE {})
===============================================================================
