---------------------------- MODULE RoomChatProofs ----------------------------
(***************************************************************************)
(* Proofs about the chat page of Arcade for any set of guests, any number   *)
(* of texts and of things that go wrong, and any length of the list a page  *)
(* shows.                                                                  *)
(***************************************************************************)
EXTENDS Arcade, Sequences, TLAPS

-------------------------------------------------------------------------------
(***************************************************************************)
(* The inductive invariant.                                                *)
(***************************************************************************)
Message == [sender : C!User, text : Nat]

\* The messages of s are in t, in the order of s.
Embedded(s, t) ==
    \E place \in [DOMAIN s -> DOMAIN t] :
        \A i, j \in DOMAIN s :
            /\ t[place[i]] = s[i]
            /\ i < j => place[i] < place[j]

\* What a page shows, followed by what is under way to it, is in the host's order: a message that
\* is lost, with its session or with the page, leaves those that are kept in order.
OrderOK ==
    /\ texts \in Nat
    /\ relayed \in Seq(Message)
    /\ toHost \in [Member -> Seq(Nat)]
    /\ toGuest \in [Member -> Seq(Message)]
    /\ shown \in [C!User -> Seq(Message)]
    /\ Embedded(shown[C!Host], relayed)
    /\ \A m \in Member : Embedded(shown[m] \o toGuest[m], relayed)

\* The host's page has no session with a guest it has dismissed, so nothing can arrive from it.
DismissedOK ==
    /\ hostEnd \in [Member -> {"none", "open", "closing"}]
    /\ dismissed \subseteq Member
    /\ \A m \in dismissed : hostEnd[m] = "none"

\* A visit that is joining was the page's when it began.
VisitsOK ==
    /\ visit \in [Member -> Nat]
    /\ joining \in [Member -> SUBSET Nat] /\ chats \in [Member -> SUBSET Nat]
    /\ \A m \in Member, v \in Nat : v \in joining[m] => v % 2 = 1
    /\ NoChatLeftBehind

IInv == OrderOK /\ DismissedOK /\ VisitsOK

-------------------------------------------------------------------------------
(***************************************************************************)
(* Messages in the order of a longer or a shorter list.                    *)
(***************************************************************************)
\* Whatever is cut from either end of a list, the rest stays in order.
LEMMA EmbeddedPart ==
    ASSUME NEW T, NEW s \in Seq(T), NEW t \in Seq(T), NEW r \in Seq(T), NEW k \in Nat,
           Embedded(s, t), Len(r) + k <= Len(s), \A i \in 1 .. Len(r) : r[i] = s[i + k]
    PROVE  Embedded(r, t)
<1>1. PICK place \in [1 .. Len(s) -> 1 .. Len(t)] :
         \A i, j \in 1 .. Len(s) : t[place[i]] = s[i] /\ (i < j => place[i] < place[j])
  <2>1. DOMAIN s = 1 .. Len(s) /\ DOMAIN t = 1 .. Len(t)
    OBVIOUS
  <2>2. \E place \in [DOMAIN s -> DOMAIN t] :
           \A i, j \in DOMAIN s : t[place[i]] = s[i] /\ (i < j => place[i] < place[j])
    BY Zenon DEF Embedded
  <2>3. QED
    BY ONLY <2>1, <2>2, Zenon
<1>2. \A i \in 1 .. Len(r) : i + k \in 1 .. Len(s)
  OBVIOUS
<1> DEFINE moved == [i \in 1 .. Len(r) |-> place[i + k]]
<1>3. moved \in [DOMAIN r -> DOMAIN t]
  BY <1>1, <1>2
<1>4. ASSUME NEW i \in DOMAIN r, NEW j \in DOMAIN r
      PROVE  t[moved[i]] = r[i] /\ (i < j => moved[i] < moved[j])
  <2>1. i \in 1 .. Len(r) /\ j \in 1 .. Len(r) /\ k \in Nat /\ Len(r) \in Nat
    OBVIOUS
  <2>2. moved[i] = place[i + k] /\ moved[j] = place[j + k]
    BY ONLY <2>1
  <2>3. /\ i + k \in 1 .. Len(s) /\ j + k \in 1 .. Len(s)
        /\ i < j => i + k < j + k
    BY ONLY <1>2, <2>1
  <2>4. /\ t[place[i + k]] = s[i + k]
        /\ i + k < j + k => place[i + k] < place[j + k]
    BY ONLY <1>1, <2>3
  <2>5. r[i] = s[i + k]
    BY <2>1
  <2>6. QED
    BY ONLY <2>2, <2>3, <2>4, <2>5
<1>5. QED
  BY <1>3, <1>4 DEF Embedded

LEMMA NothingEmbedded == ASSUME NEW T, NEW t \in Seq(T) PROVE Embedded(<< >>, t)
<1>1. [i \in {} |-> i] \in [DOMAIN << >> -> DOMAIN t] /\ DOMAIN << >> = {}
  OBVIOUS
<1>2. QED
  BY <1>1 DEF Embedded

\* The host relays one more: a list that does not get it stays in order, one that does too.
LEMMA EmbeddedGrows ==
    ASSUME NEW T, NEW s \in Seq(T), NEW t \in Seq(T), NEW x \in T, Embedded(s, t)
    PROVE  Embedded(s, Append(t, x)) /\ Embedded(Append(s, x), Append(t, x))
<1>1. PICK place \in [1 .. Len(s) -> 1 .. Len(t)] :
         \A i, j \in 1 .. Len(s) : t[place[i]] = s[i] /\ (i < j => place[i] < place[j])
  <2>1. DOMAIN s = 1 .. Len(s) /\ DOMAIN t = 1 .. Len(t)
    OBVIOUS
  <2>2. \E place \in [DOMAIN s -> DOMAIN t] :
           \A i, j \in DOMAIN s : t[place[i]] = s[i] /\ (i < j => place[i] < place[j])
    BY Zenon DEF Embedded
  <2>3. QED
    BY ONLY <2>1, <2>2, Zenon
<1>2. PICK u, r, n, k : u = Append(t, x) /\ n = Len(t) /\ r = Append(s, x) /\ k = Len(s)
  OBVIOUS
<1>3. /\ n \in Nat /\ DOMAIN u = 1 .. n + 1 /\ u[n + 1] = x /\ \A i \in 1 .. n : u[i] = t[i]
      /\ k \in Nat /\ DOMAIN r = 1 .. k + 1 /\ r[k + 1] = x /\ \A i \in 1 .. k : r[i] = s[i]
  BY <1>2
<1>4. DOMAIN s = 1 .. k /\ place \in [1 .. k -> 1 .. n]
  BY <1>1, <1>2
<1>5. Embedded(s, u)
  <2>1. place \in [DOMAIN s -> DOMAIN u]
    BY <1>3, <1>4
  <2>2. \A i, j \in DOMAIN s : u[place[i]] = s[i] /\ (i < j => place[i] < place[j])
    BY <1>1, <1>2, <1>3, <1>4
  <2>3. QED
    BY <2>1, <2>2 DEF Embedded
<1>6. Embedded(r, u)
  <2> DEFINE more == [i \in 1 .. k + 1 |-> IF i = k + 1 THEN n + 1 ELSE place[i]]
  <2>1. more \in [DOMAIN r -> DOMAIN u]
    BY <1>3, <1>4
  <2>2. ASSUME NEW i \in DOMAIN r, NEW j \in DOMAIN r
        PROVE  u[more[i]] = r[i] /\ (i < j => more[i] < more[j])
    <3>1. \A h \in 1 .. k + 1 : h = k + 1 \/ h \in 1 .. k
      BY <1>3
    <3>2. u[more[i]] = r[i]
      BY <1>1, <1>2, <1>3, <1>4, <3>1
    <3>3. CASE i \in 1 .. k /\ j \in 1 .. k
      BY <1>1, <1>2, <1>3, <1>4, <3>3, <3>2
    <3>4. CASE i \in 1 .. k /\ j = k + 1
      <4>1. more[j] = n + 1 /\ more[i] = place[i] /\ place[i] \in 1 .. n
        BY <1>3, <1>4, <3>4
      <4>2. QED
        BY <1>3, <3>2, <4>1
    <3>5. CASE i = k + 1
      BY <1>3, <3>2, <3>5
    <3>6. QED
      BY <1>3, <3>1, <3>3, <3>4, <3>5
  <2>3. QED
    BY <2>1, <2>2 DEF Embedded
<1>7. QED
  BY <1>2, <1>5, <1>6

-------------------------------------------------------------------------------
(***************************************************************************)
(* The steps.                                                              *)
(***************************************************************************)
LEMMA SetupFrame ==
    C!Next => \/ UNCHANGED C!setup
            \/ \E m \in Member : \/ C!OpenPage(m) \/ C!LeavePage(m)
                                 \/ \E v \in joining[m] : C!Joined(m, v) \/ C!JoinFails(m, v)
BY DEF C!Next, C!Connect, C!HostEndCloses, C!HostNotices, C!GuestNotices, C!GuestSends, C!HostReceives,
       C!GuestReceives, C!RemoveMember, C!Dismissed, C!HostSends, C!HostLearns, C!HostReloads

LEMMA VisitsStep == VisitsOK /\ [C!Next]_chatVars => VisitsOK'
<1> SUFFICES ASSUME VisitsOK, [C!Next]_chatVars
             PROVE  VisitsOK'
  OBVIOUS
<1> USE DEF VisitsOK, NoChatLeftBehind, C!NoChatLeftBehind, C!Open
<1>1. CASE UNCHANGED C!setup
  BY <1>1 DEF C!setup
<1>2. ASSUME NEW m \in Member, C!OpenPage(m)
      PROVE  VisitsOK'
  <2>1. visit[m] \in Nat /\ visit[m] % 2 # 1 /\ (visit[m] + 1) % 2 = 1
    BY <1>2 DEF C!OpenPage
  <2>2. chats[m] = {}
    BY <2>1
  <2>3. visit' = [visit EXCEPT ![m] = @ + 1] /\ joining' = [joining EXCEPT ![m] = @ \cup {visit[m] + 1}]
        /\ chats' = chats
    BY <1>2 DEF C!OpenPage
  <2>4. QED
    BY <2>1, <2>2, <2>3
<1>3. ASSUME NEW m \in Member, C!LeavePage(m)
      PROVE  VisitsOK'
  <2>1. /\ visit' = [visit EXCEPT ![m] = @ + 1] /\ joining' = joining
        /\ chats' = [chats EXCEPT ![m] = @ \ {visit[m]}]
    BY <1>3 DEF C!LeavePage
  <2>2. chats[m] \subseteq {visit[m]}
    BY <1>3 DEF C!LeavePage
  <2>3. chats'[m] = {}
    BY <2>1, <2>2
  <2>4. visit' \in [Member -> Nat] /\ chats' \in [Member -> SUBSET Nat]
    BY <2>1
  <2>5. QED
    BY <2>1, <2>3, <2>4
<1>4. ASSUME NEW m \in Member, NEW v \in joining[m], C!Joined(m, v)
      PROVE  VisitsOK'
  <2>1. /\ visit' = visit /\ joining' = [joining EXCEPT ![m] = @ \ {v}]
        /\ chats' = [chats EXCEPT ![m] = IF v = visit[m] THEN @ \cup {v} ELSE @]
    BY <1>4 DEF C!Joined
  <2>2. v \in Nat /\ v % 2 = 1
    OBVIOUS
  <2>3. QED
    BY <2>1, <2>2
<1>5. ASSUME NEW m \in Member, NEW v \in joining[m], C!JoinFails(m, v)
      PROVE  VisitsOK'
  BY <1>5 DEF C!JoinFails
<1>6. QED
  BY <1>1, <1>2, <1>3, <1>4, <1>5, SetupFrame DEF chatVars, C!setup

LEMMA SessionFrame ==
    C!Next => \/ UNCHANGED <<hostEnd, dismissed>>
            \/ C!HostLearns \/ C!HostReloads
            \/ \E m \in Member : C!Connect(m) \/ C!HostEndCloses(m) \/ C!HostNotices(m) \/ C!Dismissed(m)
BY DEF C!Next, C!OpenPage, C!LeavePage, C!Joined, C!JoinFails, C!GuestNotices, C!GuestSends,
       C!HostReceives, C!GuestReceives, C!RemoveMember, C!HostSends, C!coordinator, C!links

LEMMA DismissedStep == DismissedOK /\ [C!Next]_chatVars => DismissedOK'
<1> SUFFICES ASSUME DismissedOK, [C!Next]_chatVars
             PROVE  DismissedOK'
  OBVIOUS
<1> USE DEF DismissedOK
<1>1. CASE UNCHANGED <<hostEnd, dismissed>>
  BY <1>1
<1>2. CASE C!HostLearns \/ C!HostReloads
  BY <1>2 DEF C!HostLearns, C!HostReloads
<1>3. ASSUME NEW m \in Member, C!Connect(m) \/ C!HostEndCloses(m) \/ C!HostNotices(m) \/ C!Dismissed(m)
      PROVE  DismissedOK'
  BY <1>3 DEF C!Connect, C!HostEndCloses, C!HostNotices, C!Dismissed, C!coordinator
<1>4. QED
  BY <1>1, <1>2, <1>3, SessionFrame DEF chatVars

-------------------------------------------------------------------------------
(***************************************************************************)
(* Messages.                                                               *)
(***************************************************************************)
LEMMA Appended ==
    ASSUME NEW T, NEW s \in Seq(T), NEW x \in T
    PROVE  /\ Append(s, x) \in Seq(T) /\ Append(s, x) # << >> /\ Len(Append(s, x)) = Len(s) + 1
           /\ Append(s, x)[Len(s) + 1] = x /\ \A i \in 1 .. Len(s) : Append(s, x)[i] = s[i]
OBVIOUS

LEMMA Concatenated ==
    ASSUME NEW T, NEW s \in Seq(T), NEW q \in Seq(T)
    PROVE  /\ s \o q \in Seq(T) /\ Len(s) \in Nat /\ Len(q) \in Nat /\ Len(s \o q) = Len(s) + Len(q)
           /\ \A i \in 1 .. Len(s) + Len(q) : (s \o q)[i] = IF i <= Len(s) THEN s[i] ELSE q[i - Len(s)]
OBVIOUS

\* A page that shows one more message shows what it showed, without the oldest if there is no room.
LEMMA ShownIsAPart ==
    ASSUME NEW s \in Seq(Message), NEW q \in Seq(Message), NEW t \in Seq(Message), q # << >>,
           Embedded(s \o q, t)
    PROVE  /\ C!Shown(s, Head(q)) \in Seq(Message) /\ Tail(q) \in Seq(Message)
           /\ Embedded(C!Shown(s, Head(q)) \o Tail(q), t)
<1>1. PICK h, q1, all : h = Head(q) /\ q1 = Tail(q) /\ all = Append(s, h)
  OBVIOUS
<1>2. /\ h \in Message /\ q1 \in Seq(Message) /\ Len(q1) = Len(q) - 1 /\ h = q[1]
      /\ Len(q) \in Nat /\ Len(q1) \in Nat
      /\ \A i \in 1 .. Len(q1) : q1[i] = q[i + 1]
  BY <1>1
<1>3. /\ all \in Seq(Message) /\ Len(all) = Len(s) + 1 /\ all[Len(s) + 1] = h /\ all # << >>
      /\ \A i \in 1 .. Len(s) : all[i] = s[i]
  BY <1>1, <1>2, Appended
<1>4. /\ s \o q \in Seq(Message) /\ Len(s \o q) = Len(s) + Len(q)
      /\ \A i \in 1 .. Len(s) + Len(q) : (s \o q)[i] = IF i <= Len(s) THEN s[i] ELSE q[i - Len(s)]
  BY Concatenated
<1>5. ASSUME NEW p \in Seq(Message), NEW k \in Nat, Len(p) + k = Len(all), \A i \in 1 .. Len(p) : p[i] = all[i + k]
      PROVE  Embedded(p \o q1, t)
  <2>1. PICK r : r = p \o q1
    OBVIOUS
  <2>2. /\ r \in Seq(Message) /\ Len(r) = Len(p) + Len(q1) /\ Len(p) \in Nat /\ Len(s) \in Nat
        /\ \A i \in 1 .. Len(p) + Len(q1) : r[i] = IF i <= Len(p) THEN p[i] ELSE q1[i - Len(p)]
    BY <1>2, <2>1, Concatenated
  <2>3. Len(r) + k = Len(s \o q) /\ Len(p) + k = Len(s) + 1
    <3>1. Len(p) + k = Len(s) + 1
      BY <1>3, <1>5
    <3>2. Len(r) = Len(p) + (Len(q) - 1)
      BY <1>2, <2>2
    <3>3. PICK a, b, c, d, e : a = Len(s) /\ b = Len(p) /\ c = Len(q) /\ d = Len(r) /\ e = Len(s \o q)
      OBVIOUS
    <3>4. a \in Nat /\ b \in Nat /\ c \in Nat /\ b + k = a + 1 /\ d = b + (c - 1) /\ e = a + c
      BY <1>2, <1>4, <2>2, <3>1, <3>2, <3>3
    <3>5. d + k = e
      BY <3>4
    <3>6. QED
      BY <3>1, <3>3, <3>5
  <2>4. ASSUME NEW i \in 1 .. Len(r)
        PROVE  r[i] = (s \o q)[i + k]
    <3>1. i + k \in 1 .. Len(s) + Len(q) /\ Len(p) + k = Len(s) + 1 /\ i \in Nat
      BY <1>2, <1>4, <2>2, <2>3
    <3>2. CASE i <= Len(p)
      <4>1. r[i] = all[i + k] /\ i + k \in 1 .. Len(s) + 1
        BY <1>5, <2>2, <3>1, <3>2
      <4>2. CASE i + k = Len(s) + 1
        <5>1. r[i] = h
          BY <1>3, <4>1, <4>2
        <5>2. ~(Len(s) + 1 <= Len(s)) /\ Len(s) + 1 - Len(s) = 1
          BY <1>3, <2>2
        <5>3. (s \o q)[i + k] = q[1]
          BY <1>4, <3>1, <4>2, <5>2
        <5>4. QED
          BY <1>2, <5>1, <5>3
      <4>3. CASE i + k # Len(s) + 1
        BY <1>3, <1>4, <3>1, <4>1, <4>3
      <4>4. QED
        BY <4>2, <4>3
    <3>3. CASE i > Len(p)
      <4>1. i - Len(p) \in 1 .. Len(q1) /\ r[i] = q1[i - Len(p)]
        BY <2>2, <3>3
      <4>2. r[i] = q[i - Len(p) + 1]
        BY <1>2, <4>1
      <4>3. (s \o q)[i + k] = q[i + k - Len(s)] /\ i + k - Len(s) = i - Len(p) + 1
        <5>1. PICK a, b, c : a = Len(s) /\ b = Len(p) /\ c = i + k
          OBVIOUS
        <5>2. a \in Nat /\ b \in Nat /\ b + k = a + 1 /\ i > b /\ i \in Nat /\ c = i + k
          BY <2>2, <3>1, <3>3, <5>1
        <5>3. ~(c <= a) /\ c - a = i - b + 1
          BY <5>2
        <5>4. QED
          BY <1>4, <3>1, <5>1, <5>3
      <4>4. QED
        BY <4>2, <4>3
    <3>4. QED
      BY <2>2, <3>1, <3>2, <3>3
  <2>5. Len(r) + k <= Len(s \o q)
    BY <2>2, <2>3, <1>4, <1>2
  <2>6. Embedded(r, t)
    BY <1>4, <2>2, <2>4, <2>5, EmbeddedPart
  <2>7. QED
    BY <2>1, <2>6
<1>6. CASE Len(all) > MaxHistory
  <2>1. /\ C!Shown(s, h) = Tail(all) /\ Tail(all) \in Seq(Message) /\ Len(Tail(all)) + 1 = Len(all)
        /\ \A i \in 1 .. Len(Tail(all)) : Tail(all)[i] = all[i + 1]
    BY <1>1, <1>3, <1>6 DEF C!Shown
  <2>2. QED
    BY <1>1, <1>2, <1>5, <2>1
<1>7. CASE ~(Len(all) > MaxHistory)
  <2>1. C!Shown(s, h) = all
    BY <1>1, <1>7 DEF C!Shown
  <2>2. Embedded(all \o q1, t)
    <3>1. Len(all) + 0 = Len(all) /\ \A i \in 1 .. Len(all) : all[i] = all[i + 0]
      BY <1>3
    <3>2. QED
      BY <1>3, <1>5, <3>1
  <2>3. QED
    BY <1>1, <1>2, <1>3, <2>1, <2>2
<1>8. QED
  BY <1>6, <1>7

\* A step that relays nothing leaves the pages in order: a page takes in the next message, or loses
\* what is under way, or what it shows as well.
LEMMA KeptInOrder ==
    ASSUME OrderOK, relayed' = relayed, texts' \in Nat,
           toHost' \in [Member -> Seq(Nat)], toGuest' \in [Member -> Seq(Message)],
           shown' \in [C!User -> Seq(Message)], shown'[C!Host] \in {shown[C!Host], << >>},
           \A m \in Member :
             \/ toGuest'[m] = toGuest[m] /\ shown'[m] = shown[m]
             \/ toGuest'[m] = << >> /\ shown'[m] \in {shown[m], << >>}
             \/ /\ toGuest[m] # << >> /\ toGuest'[m] = Tail(toGuest[m])
                /\ shown'[m] = C!Shown(shown[m], Head(toGuest[m]))
    PROVE  OrderOK'
<1>1. ASSUME NEW m \in Member
      PROVE  Embedded(shown'[m] \o toGuest'[m], relayed)
  <2>1. PICK s, q, t : s = shown[m] /\ q = toGuest[m] /\ t = relayed
    OBVIOUS
  <2>2. s \in Seq(Message) /\ q \in Seq(Message) /\ t \in Seq(Message) /\ Embedded(s \o q, t)
    BY <2>1 DEF OrderOK, C!User
  <2>3. CASE toGuest'[m] = toGuest[m] /\ shown'[m] = shown[m]
    BY <2>1, <2>2, <2>3
  <2>4. CASE toGuest'[m] = << >> /\ shown'[m] = shown[m]
    <3>1. s \o << >> = s /\ s \o q \in Seq(Message)
      BY <2>2
    <3>2. Len(s) + 0 <= Len(s \o q) /\ \A i \in 1 .. Len(s) : s[i] = (s \o q)[i + 0]
      BY <2>2, Concatenated
    <3>3. Embedded(s, t)
      BY <2>2, <3>1, <3>2, EmbeddedPart
    <3>4. QED
      BY <2>1, <2>4, <3>1, <3>3
  <2>5. CASE toGuest'[m] = << >> /\ shown'[m] = << >>
    <3>1. << >> \o << >> = << >> /\ Embedded(<< >>, t)
      BY <2>2, NothingEmbedded
    <3>2. QED
      BY <2>1, <2>5, <3>1
  <2>6. CASE /\ toGuest[m] # << >> /\ toGuest'[m] = Tail(toGuest[m])
             /\ shown'[m] = C!Shown(shown[m], Head(toGuest[m]))
    BY <2>1, <2>2, <2>6, ShownIsAPart
  <2>7. QED
    BY <2>3, <2>4, <2>5, <2>6
<1>2. Embedded(shown'[C!Host], relayed)
  BY NothingEmbedded DEF OrderOK
<1>3. QED
  BY <1>1, <1>2 DEF OrderOK

\* The host's page shows the message it relays after what it showed.
LEMMA HostShows ==
    ASSUME NEW s \in Seq(Message), NEW t \in Seq(Message), NEW x \in Message, Embedded(s, t)
    PROVE  C!Shown(s, x) \in Seq(Message) /\ Embedded(C!Shown(s, x), Append(t, x))
<1>1. PICK all, u : all = Append(s, x) /\ u = Append(t, x)
  OBVIOUS
<1>2. all \in Seq(Message) /\ all # << >> /\ u \in Seq(Message) /\ Embedded(all, u)
  BY <1>1, Appended, EmbeddedGrows
<1>3. /\ Tail(all) \in Seq(Message) /\ Len(Tail(all)) + 1 <= Len(all)
      /\ \A i \in 1 .. Len(Tail(all)) : Tail(all)[i] = all[i + 1]
  BY <1>2
<1>4. Embedded(Tail(all), u)
  BY <1>2, <1>3, EmbeddedPart
<1>5. C!Shown(s, x) \in {all, Tail(all)}
  BY <1>1 DEF C!Shown
<1>6. QED
  BY <1>1, <1>2, <1>3, <1>4, <1>5

\* However far a broadcast gets, everybody stays in the order of what the host has relayed.
LEMMA RelayInOrder ==
    ASSUME OrderOK, NEW x \in Message, NEW queues \in [Member -> Seq(Nat)], C!Relay(x, queues), texts' \in Nat
    PROVE  OrderOK'
<1>1. PICK t, u : t = relayed /\ u = Append(relayed, x)
  OBVIOUS
<1>2. t \in Seq(Message) /\ u \in Seq(Message) /\ relayed' = u /\ u = Append(t, x) /\ toHost' = queues
  BY <1>1, Appended DEF OrderOK, C!Relay
<1>3. shown' \in {shown, [shown EXCEPT ![C!Host] = C!Shown(@, x)]}
  BY DEF C!Relay
<1>4. C!Host \in C!User /\ \A m \in Member : m \in C!User /\ m # C!Host
  BY ArcadeAssumption DEF C!User
<1>5. shown[C!Host] \in Seq(Message) /\ Embedded(shown[C!Host], t)
  BY <1>1, <1>4 DEF OrderOK
<1>6. C!Shown(shown[C!Host], x) \in Seq(Message) /\ Embedded(C!Shown(shown[C!Host], x), u) /\ Embedded(shown[C!Host], u)
  BY <1>2, <1>5, HostShows, EmbeddedGrows
<1>7. /\ shown' \in [C!User -> Seq(Message)] /\ Embedded(shown'[C!Host], u)
      /\ \A m \in Member : shown'[m] = shown[m]
  BY <1>3, <1>4, <1>6 DEF OrderOK
<1>8. /\ toGuest' = [m \in Member |-> toGuest'[m]]
      /\ \A m \in Member : toGuest'[m] \in {toGuest[m], Append(toGuest[m], x)}
  BY DEF C!Relay
<1>9. ASSUME NEW m \in Member
      PROVE  toGuest'[m] \in Seq(Message) /\ Embedded(shown'[m] \o toGuest'[m], u)
  <2>1. PICK s, q : s = shown[m] /\ q = toGuest[m]
    OBVIOUS
  <2>2. s \in Seq(Message) /\ q \in Seq(Message) /\ s \o q \in Seq(Message) /\ Embedded(s \o q, t)
    BY <1>1, <1>4, <2>1 DEF OrderOK
  <2>3. Embedded(s \o q, u) /\ Embedded(Append(s \o q, x), u)
    BY <1>2, <2>2, EmbeddedGrows
  <2>4. s \o Append(q, x) = Append(s \o q, x) /\ Append(q, x) \in Seq(Message)
    BY <2>2
  <2>5. QED
    BY <1>7, <1>8, <2>1, <2>2, <2>3, <2>4
<1>10. QED
  BY <1>2, <1>7, <1>8, <1>9 DEF OrderOK

LEMMA MessageFrame ==
    C!Next => \/ UNCHANGED <<texts, relayed, toHost, toGuest, shown>>
            \/ C!HostSends \/ C!HostLearns \/ C!HostReloads
            \/ \E m \in Member : \/ C!LeavePage(m) \/ C!Connect(m) \/ C!HostEndCloses(m) \/ C!GuestNotices(m)
                                 \/ C!GuestSends(m) \/ C!HostReceives(m) \/ C!GuestReceives(m) \/ C!Dismissed(m)
BY DEF C!Next, C!OpenPage, C!Joined, C!JoinFails, C!HostNotices, C!RemoveMember, C!links

LEMMA OrderStep == OrderOK /\ [C!Next]_chatVars => OrderOK'
<1> SUFFICES ASSUME OrderOK, [C!Next]_chatVars
             PROVE  OrderOK'
  OBVIOUS
<1>1. /\ texts \in Nat /\ toHost \in [Member -> Seq(Nat)] /\ toGuest \in [Member -> Seq(Message)]
      /\ shown \in [C!User -> Seq(Message)] /\ relayed \in Seq(Message)
      /\ << >> \in Seq(Message) /\ << >> \in Seq(Nat)
  BY DEF OrderOK
<1>2. C!Host \in C!User /\ \A m \in Member : m \in C!User /\ m # C!Host
  BY ArcadeAssumption DEF C!User
<1>3. CASE UNCHANGED <<texts, relayed, toHost, toGuest, shown>>
  BY <1>1, <1>3, KeptInOrder
<1>4. CASE C!HostSends
  <2>1. texts' \in Nat /\ [sender |-> C!Host, text |-> texts'] \in Message
        /\ C!Relay([sender |-> C!Host, text |-> texts'], toHost)
    BY <1>1, <1>2, <1>4 DEF C!HostSends, Message
  <2>2. QED
    BY <1>1, <2>1, RelayInOrder
<1>5. CASE C!HostLearns
  <2>1. toHost' \in [Member -> Seq(Nat)] /\ UNCHANGED <<texts, relayed, toGuest, shown>>
    BY <1>1, <1>5 DEF C!HostLearns
  <2>2. QED
    BY <1>1, <2>1, KeptInOrder
<1>6. CASE C!HostReloads
  <2>1. /\ toHost' \in [Member -> Seq(Nat)] /\ UNCHANGED <<texts, relayed, toGuest>>
        /\ shown' = [shown EXCEPT ![C!Host] = << >>]
    BY <1>1, <1>6 DEF C!HostReloads
  <2>2. shown' \in [C!User -> Seq(Message)] /\ shown'[C!Host] = << >> /\ \A m \in Member : shown'[m] = shown[m]
    BY <1>1, <1>2, <2>1
  <2>3. QED
    BY <1>1, <2>1, <2>2, KeptInOrder
<1>7. ASSUME NEW m \in Member, C!LeavePage(m)
      PROVE  OrderOK'
  <2>1. /\ UNCHANGED <<toHost, texts, relayed>> /\ toGuest' = [toGuest EXCEPT ![m] = << >>]
        /\ shown' = [shown EXCEPT ![m] = << >>]
    BY <1>7 DEF C!LeavePage
  <2>2. /\ shown' \in [C!User -> Seq(Message)] /\ shown'[C!Host] = shown[C!Host]
        /\ toGuest' \in [Member -> Seq(Message)]
        /\ \A h \in Member : \/ toGuest'[h] = toGuest[h] /\ shown'[h] = shown[h]
                             \/ toGuest'[h] = << >> /\ shown'[h] = << >>
    BY <1>1, <1>2, <2>1
  <2>3. QED
    BY <1>1, <2>1, <2>2, KeptInOrder
<1>8. ASSUME NEW m \in Member, C!Connect(m) \/ C!GuestNotices(m)
      PROVE  OrderOK'
  <2>1. /\ UNCHANGED <<texts, relayed, shown>> /\ toGuest' = [toGuest EXCEPT ![m] = << >>]
        /\ toHost' \in {toHost, [toHost EXCEPT ![m] = << >>]}
    BY <1>8 DEF C!Connect, C!GuestNotices
  <2>2. /\ toGuest' \in [Member -> Seq(Message)] /\ toHost' \in [Member -> Seq(Nat)]
        /\ \A h \in Member : toGuest'[h] \in {toGuest[h], << >>}
    BY <1>1, <2>1
  <2>3. QED
    BY <1>1, <2>1, <2>2, KeptInOrder
<1>9. ASSUME NEW m \in Member, C!HostEndCloses(m) \/ C!Dismissed(m)
      PROVE  OrderOK'
  <2>1. UNCHANGED <<texts, relayed, shown, toGuest>> /\ toHost' = [toHost EXCEPT ![m] = << >>]
    BY <1>9 DEF C!HostEndCloses, C!Dismissed
  <2>2. toHost' \in [Member -> Seq(Nat)]
    BY <1>1, <2>1
  <2>3. QED
    BY <1>1, <2>1, <2>2, KeptInOrder
<1>10. ASSUME NEW m \in Member, C!GuestSends(m)
       PROVE  OrderOK'
  <2>1. /\ texts' = texts + 1 /\ UNCHANGED <<toGuest, relayed, shown>>
        /\ toHost' = [toHost EXCEPT ![m] = IF hostEnd[m] = "open" THEN Append(@, texts') ELSE @]
    BY <1>10 DEF C!GuestSends
  <2>2. texts' \in Nat /\ Append(toHost[m], texts') \in Seq(Nat)
    BY <1>1, <2>1
  <2>3. toHost' \in [Member -> Seq(Nat)]
    BY <1>1, <2>1, <2>2
  <2>4. QED
    BY <1>1, <2>1, <2>2, <2>3, KeptInOrder
<1>11. ASSUME NEW m \in Member, C!HostReceives(m)
       PROVE  OrderOK'
  <2>1. PICK rest : rest = [toHost EXCEPT ![m] = Tail(@)]
    OBVIOUS
  <2>2. /\ texts' = texts /\ toHost[m] # << >>
        /\ \/ C!Relay([sender |-> m, text |-> Head(toHost[m])], rest)
           \/ toHost' = rest /\ UNCHANGED <<toGuest, relayed, shown>>
    BY <1>11, <2>1 DEF C!HostReceives
  <2>3. rest \in [Member -> Seq(Nat)] /\ Head(toHost[m]) \in Nat
    BY <1>1, <2>1, <2>2
  <2>4. [sender |-> m, text |-> Head(toHost[m])] \in Message
    BY <1>2, <2>3 DEF Message
  <2>5. CASE C!Relay([sender |-> m, text |-> Head(toHost[m])], rest)
    BY <1>1, <2>2, <2>3, <2>4, <2>5, RelayInOrder
  <2>6. CASE toHost' = rest /\ UNCHANGED <<toGuest, relayed, shown>>
    BY <1>1, <2>2, <2>3, <2>6, KeptInOrder
  <2>7. QED
    BY <2>2, <2>5, <2>6
<1>12. ASSUME NEW m \in Member, C!GuestReceives(m)
       PROVE  OrderOK'
  <2>1. /\ UNCHANGED <<toHost, texts, relayed>> /\ toGuest[m] # << >>
        /\ toGuest' = [toGuest EXCEPT ![m] = Tail(@)]
        /\ shown' = [shown EXCEPT ![m] = C!Shown(@, Head(toGuest[m]))]
    BY <1>12 DEF C!GuestReceives
  <2>2. C!Shown(shown[m], Head(toGuest[m])) \in Seq(Message) /\ Tail(toGuest[m]) \in Seq(Message)
    BY <1>1, <1>2, <2>1, ShownIsAPart DEF OrderOK
  <2>3. /\ shown' \in [C!User -> Seq(Message)] /\ shown'[C!Host] = shown[C!Host]
        /\ toGuest' \in [Member -> Seq(Message)]
        /\ \A h \in Member :
             \/ toGuest'[h] = toGuest[h] /\ shown'[h] = shown[h]
             \/ /\ toGuest[h] # << >> /\ toGuest'[h] = Tail(toGuest[h])
                /\ shown'[h] = C!Shown(shown[h], Head(toGuest[h]))
    BY <1>1, <1>2, <2>1, <2>2
  <2>4. QED
    BY <1>1, <2>1, <2>3, KeptInOrder
<1>13. QED
  BY <1>3, <1>4, <1>5, <1>6, <1>7, <1>8, <1>9, <1>10, <1>11, <1>12, MessageFrame DEF chatVars

-------------------------------------------------------------------------------
LEMMA ChatFrame == [Next]_vars => [C!Next]_chatVars
BY DEF Next, On, vars

LEMMA InitInvariant == Init => IInv
<1> SUFFICES ASSUME C!Init
             PROVE  IInv
  BY DEF Init
<1>1. /\ texts = 0 /\ relayed = << >> /\ shown = [u \in C!User |-> << >>]
      /\ toHost = [m \in Member |-> << >>] /\ toGuest = [m \in Member |-> << >>]
  BY DEF C!Init
<1>2. << >> \o << >> = << >> /\ Embedded(<< >>, << >>)
  <2>1. << >> \in Seq(Message) /\ << >> \o << >> = << >>
    OBVIOUS
  <2>2. QED
    BY <2>1, NothingEmbedded
<1>3. C!Host \in C!User /\ Member \subseteq C!User
  BY DEF C!User
<1>4. OrderOK
  BY <1>1, <1>2, <1>3 DEF OrderOK
<1>5. DismissedOK
  BY DEF C!Init, DismissedOK
<1>6. VisitsOK
  BY DEF C!Init, VisitsOK, NoChatLeftBehind, C!NoChatLeftBehind
<1>7. QED
  BY <1>4, <1>5, <1>6 DEF IInv

LEMMA InvariantStep == IInv /\ [Next]_vars => IInv'
BY ChatFrame, OrderStep, DismissedStep, VisitsStep DEF IInv

\* What every page shows and what is under way to it, whom the host's page still hears, and which
\* chats are alive keep to the same rules in every reachable state.
THEOREM ChatInvariance == Spec => []IInv
BY InitInvariant, InvariantStep, PTL DEF Spec

\* Every page shows messages of the host in the host's order and none twice, whatever sessions were
\* lost, replaced or only half reached in between (RoomChatController.ts:75-113).
THEOREM PagesShowTheHostsOrder == Spec => []ShownInOrder
<1>1. IInv => ShownInOrder
  <2> SUFFICES ASSUME IInv, NEW u \in C!User
               PROVE  Embedded(shown[u], relayed)
    BY DEF ShownInOrder, C!ShownInOrder, Embedded
  <2>1. CASE u = C!Host
    BY <2>1 DEF IInv, OrderOK
  <2>2. CASE u \in Member
    <3>1. PICK s, q, t : s = shown[u] /\ q = toGuest[u] /\ t = relayed
      OBVIOUS
    <3>2. s \in Seq(Message) /\ q \in Seq(Message) /\ t \in Seq(Message) /\ Embedded(s \o q, t)
      BY <2>2, <3>1 DEF IInv, OrderOK
    <3>3. s \o q \in Seq(Message) /\ Len(s) + 0 <= Len(s \o q)
          /\ \A i \in 1 .. Len(s) : s[i] = (s \o q)[i + 0]
      BY <3>2, Concatenated
    <3>4. QED
      BY <3>1, <3>2, <3>3, EmbeddedPart
  <2>3. QED
    BY <2>1, <2>2 DEF C!User
<1>2. QED
  BY <1>1, ChatInvariance, PTL

\* A page has one chat, and none is left behind by a page that was left while it was joining
\* (ChatPage.tsx:215-236, 271-274).
THEOREM NoChatOutlivesItsPage == Spec => []NoChatLeftBehind
<1>1. IInv => NoChatLeftBehind
  BY DEF IInv, VisitsOK
<1>2. QED
  BY <1>1, ChatInvariance, PTL

\* Once the host's page has dismissed a guest nothing of it is relayed, although the chat's own room
\* state may still list it until the next poll (ChatPage.tsx:340-347, RoomChatController.ts:99-104).
THEOREM DismissedStaySilent == Spec => DismissedAreSilent
<1>1. ASSUME NEW x \in Message, NEW queues, C!Relay(x, queues), relayed \in Seq(Message)
      PROVE  C!Last(relayed') = x
  <2>1. relayed' = Append(relayed, x)
    BY <1>1 DEF C!Relay
  <2>2. QED
    BY <1>1, <2>1, Appended DEF C!Last
<1>2. IInv /\ [Next]_vars => [relayed' # relayed => C!Last(relayed').sender \notin dismissed]_(C!vars)
  <2> SUFFICES ASSUME IInv, C!Next, relayed' # relayed
               PROVE  C!Last(relayed').sender \notin dismissed
    BY ChatFrame DEF chatVars
  <2>1. CASE C!HostSends
    <3>1. texts' \in Nat /\ [sender |-> C!Host, text |-> texts'] \in Message
          /\ C!Relay([sender |-> C!Host, text |-> texts'], toHost)
      BY <2>1 DEF C!HostSends, Message, IInv, OrderOK, C!User
    <3>2. C!Last(relayed') = [sender |-> C!Host, text |-> texts']
      BY <1>1, <3>1 DEF IInv, OrderOK
    <3>3. QED
      BY <3>2, ArcadeAssumption DEF IInv, DismissedOK
  <2>2. ASSUME NEW m \in Member, C!HostReceives(m)
        PROVE  C!Last(relayed').sender \notin dismissed
    <3>1. PICK x, queues : x = [sender |-> m, text |-> Head(toHost[m])] /\ C!Relay(x, queues)
      BY <2>2 DEF C!HostReceives
    <3>2. toHost[m] \in Seq(Nat) /\ toHost[m] # << >> /\ hostEnd[m] = "open"
      BY <2>2 DEF C!HostReceives, IInv, OrderOK
    <3>3. x \in Message
      BY <3>1, <3>2 DEF Message, C!User
    <3>4. C!Last(relayed') = x
      BY <1>1, <3>1, <3>3 DEF IInv, OrderOK
    <3>5. QED
      BY <3>1, <3>2, <3>4 DEF IInv, DismissedOK
  <2>3. QED
    BY <2>1, <2>2 DEF C!Next, C!OpenPage, C!LeavePage, C!Joined, C!JoinFails, C!Connect, C!HostEndCloses, C!HostNotices,
           C!GuestNotices, C!GuestSends, C!GuestReceives, C!RemoveMember, C!Dismissed, C!HostLearns, C!HostReloads
<1>3. QED
  BY <1>2, ChatInvariance, PTL DEF Spec, DismissedAreSilent, C!DismissedAreSilent
==============================================================================
