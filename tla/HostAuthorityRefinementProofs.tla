--------------------- MODULE HostAuthorityRefinementProofs ---------------------
(***************************************************************************)
(* HostAuthority implements PartyLog, for any number of guests, clicks,     *)
(* pages and faults: a completed save is a commit of an event that is due,  *)
(* a message taken in is a guest that learns, and every other step of the   *)
(* host, the guests and the network between them is a stutter.              *)
(***************************************************************************)
EXTENDS HostAuthorityProofs

-------------------------------------------------------------------------------
(***************************************************************************)
(* What a log says, and that the host's state says the same.                *)
(***************************************************************************)
EventsIn(log, type, g) == {i \in 1 .. Len(log) : log[i].type = type /\ log[i].who = g}

LockedIn(log) ==
    \E i \in 1 .. Len(log) :
        /\ log[i].type = "locked"
        /\ \A j \in i .. Len(log) : log[j].type # "unlocked"

Describes(s, log) ==
    /\ s.locked <=> LockedIn(log)
    /\ \A g \in Guest :
        /\ g \in Members(s) <=> EventsIn(log, "admitted", g) # {}
        /\ g \in s.removed <=> EventsIn(log, "removed", g) # {}
        /\ s.last[g] = Cardinality(EventsIn(log, "chat", g))

\* The host's checks before it appends an event.
DueIn(s, e) ==
    /\ e.type = "admitted" => AuthVerdict(s, e.who) = "admitted"
    /\ e.type = "removed"  => e.who \in Members(s) \ s.removed
    /\ e.type = "locked"   => ~s.locked
    /\ e.type = "unlocked" => s.locked
    /\ e.type = "chat" /\ e.who # Host => ChatVerdict(s, e.who, e.client) = "accepted"

LEMMA LogGrown ==
    ASSUME NEW E, NEW log \in Seq(E), NEW e \in E
    PROVE  /\ Len(log) \in Nat /\ Len(Append(log, e)) = Len(log) + 1
           /\ Append(log, e)[Len(log) + 1] = e
           /\ \A i \in 1 .. Len(log) : Append(log, e)[i] = log[i]
           /\ 1 .. Len(log) + 1 = (1 .. Len(log)) \cup {Len(log) + 1}
<1>1. Len(log) \in Nat
  OBVIOUS
<1>2. 1 .. Len(log) + 1 = (1 .. Len(log)) \cup {Len(log) + 1}
  BY <1>1
<1>3. QED
  BY <1>1, <1>2

\* The events of a kind are finitely many, and grow by the event appended if it is of that kind.
LEMMA EventsGrow ==
    ASSUME NEW E, NEW log \in Seq(E), NEW e \in E, NEW type, NEW g
    PROVE  /\ Len(log) + 1 \notin EventsIn(log, type, g)
           /\ EventsIn(Append(log, e), type, g) =
                IF e.type = type /\ e.who = g THEN EventsIn(log, type, g) \cup {Len(log) + 1}
                ELSE EventsIn(log, type, g)
<1>1. PICK t, n : t = Append(log, e) /\ n = Len(log)
  OBVIOUS
<1>2. /\ n \in Nat /\ Len(t) = n + 1 /\ t[n + 1] = e /\ \A i \in 1 .. n : t[i] = log[i]
      /\ 1 .. n + 1 = (1 .. n) \cup {n + 1}
  BY <1>1, LogGrown
<1>3. \A i : i \in EventsIn(t, type, g) <=>
                i \in EventsIn(log, type, g) \/ (i = n + 1 /\ e.type = type /\ e.who = g)
  BY <1>1, <1>2 DEF EventsIn
<1>4. n + 1 \notin EventsIn(log, type, g)
  BY <1>1, <1>2 DEF EventsIn
<1>5. QED
  BY <1>1, <1>3, <1>4

LEMMA EventsFinite ==
    ASSUME NEW E, NEW log \in Seq(E), NEW type, NEW g
    PROVE  IsFiniteSet(EventsIn(log, type, g)) /\ Cardinality(EventsIn(log, type, g)) \in Nat
<1>1. IsFiniteSet(1 .. Len(log))
  BY FS_Interval
<1>2. EventsIn(log, type, g) \subseteq 1 .. Len(log)
  BY DEF EventsIn
<1>3. QED
  BY <1>1, <1>2, FS_Subset, FS_CardinalityType

LEMMA LockGrows ==
    ASSUME NEW E, NEW log \in Seq(E), NEW e \in E
    PROVE  LockedIn(Append(log, e)) <=> e.type = "locked" \/ (LockedIn(log) /\ e.type # "unlocked")
<1>1. PICK t, n : t = Append(log, e) /\ n = Len(log)
  OBVIOUS
<1>2. n \in Nat /\ Len(t) = n + 1 /\ t[n + 1] = e /\ \A i \in 1 .. n : t[i] = log[i]
  BY <1>1, LogGrown
<1>3. ASSUME e.type = "locked"
      PROVE  LockedIn(t)
  <2>1. n + 1 \in 1 .. Len(t) /\ t[n + 1].type = "locked" /\ \A j \in n + 1 .. Len(t) : t[j].type # "unlocked"
    BY <1>2, <1>3
  <2>2. QED
    BY <2>1 DEF LockedIn
<1>4. ASSUME LockedIn(log), e.type # "unlocked"
      PROVE  LockedIn(t)
  <2>1. PICK i \in 1 .. n : log[i].type = "locked" /\ \A j \in i .. n : log[j].type # "unlocked"
    BY <1>1, <1>4 DEF LockedIn
  <2>2. i \in 1 .. Len(t) /\ t[i].type = "locked"
    BY <1>2, <2>1
  <2>3. ASSUME NEW j \in i .. Len(t)
        PROVE  t[j].type # "unlocked"
    <3>1. CASE j = n + 1
      BY <1>2, <1>4, <3>1
    <3>2. CASE j # n + 1
      BY <1>2, <2>1, <3>2
    <3>3. QED
      BY <3>1, <3>2
  <2>4. QED
    BY <2>2, <2>3 DEF LockedIn
<1>5. ASSUME LockedIn(t), e.type # "locked"
      PROVE  LockedIn(log) /\ e.type # "unlocked"
  <2>1. PICK i \in 1 .. Len(t) : t[i].type = "locked" /\ \A j \in i .. Len(t) : t[j].type # "unlocked"
    BY <1>5 DEF LockedIn
  <2>2. i \in 1 .. n /\ n + 1 \in i .. Len(t)
    BY <1>2, <1>5, <2>1
  <2>3. \A j \in i .. n : j \in i .. Len(t) /\ t[j] = log[j]
    BY <1>2, <2>2
  <2>4. log[i].type = "locked" /\ \A j \in i .. n : log[j].type # "unlocked"
    BY <1>2, <2>1, <2>2, <2>3
  <2>5. QED
    BY <1>1, <1>2, <2>1, <2>2, <2>4 DEF LockedIn
<1>6. QED
  BY <1>1, <1>3, <1>4, <1>5


\* What an event does to the lock and to a guest's last number.
LEMMA AppliedFields ==
    ASSUME NEW E, E \subseteq Entry, NEW s \in States(E), NEW e \in E
    PROVE  /\ Applied(s, e).locked = IF e.type = "locked" THEN TRUE
                                     ELSE IF e.type = "unlocked" THEN FALSE ELSE s.locked
           /\ \A g \in Guest : Applied(s, e).last[g] =
                IF e.type = "chat" /\ e.who = g THEN e.client ELSE s.last[g]
<1> DEFINE p == CASE e.type = "admitted" -> [s EXCEPT !.members = Append(@, e.who)]
                  [] e.type = "removed"  -> [s EXCEPT !.removed = @ \cup {e.who}]
                  [] e.type = "locked"   -> [s EXCEPT !.locked = TRUE]
                  [] e.type = "unlocked" -> [s EXCEPT !.locked = FALSE]
                  [] e.type = "chat" /\ e.who # Host -> [s EXCEPT !.last[e.who] = e.client]
                  [] OTHER -> s
<1>1. Applied(s, e) = [p EXCEPT !.seq = e.seq, !.events = Window(Append(@, e))]
  BY DEF Applied, AppendEvent
<1>2. /\ e.type \in EventType /\ e.who \in Guest \cup {Host} /\ Host \notin Guest
      /\ s.last \in [Guest -> Nat]
      /\ s = [seq |-> s.seq, locked |-> s.locked, members |-> s.members, removed |-> s.removed,
              last |-> s.last, events |-> s.events]
  BY AuthorityAssumption DEF Entry, States
<1>3. /\ p.locked = IF e.type = "locked" THEN TRUE
                    ELSE IF e.type = "unlocked" THEN FALSE ELSE s.locked
      /\ \A g \in Guest : p.last[g] = IF e.type = "chat" /\ e.who = g THEN e.client ELSE s.last[g]
      /\ \E q \in States(E) : DOMAIN p = DOMAIN q
  <2>1. CASE e.type = "admitted"
    <3>1. PICK m : m = Append(s.members, e.who)
      OBVIOUS
    <3>2. p = [s EXCEPT !.members = m]
      BY <2>1, <3>1
    <3> HIDE DEF p
    <3>3. QED
      BY <1>2, <2>1, <3>2
  <2>2. CASE e.type = "removed"
    BY <1>2, <2>2
  <2>3. CASE e.type \in {"locked", "unlocked"}
    BY <1>2, <2>3
  <2>4. CASE e.type = "chat"
    BY <1>2, <2>4
  <2>5. QED
    BY <1>2, <2>1, <2>2, <2>3, <2>4 DEF EventType
<1> HIDE DEF p
<1>4. Applied(s, e).locked = p.locked /\ Applied(s, e).last = p.last
  <2>1. PICK w : w = Window(Append(p.events, e))
    OBVIOUS
  <2>2. Applied(s, e) = [p EXCEPT !.seq = e.seq, !.events = w]
    BY <1>1, <2>1
  <2>3. PICK q \in States(E) : DOMAIN p = DOMAIN q
    BY <1>3
  <2>4. "locked" \in DOMAIN p /\ "last" \in DOMAIN p
    BY <2>3 DEF States
  <2>5. QED
    BY <2>2, <2>4
<1>5. QED
  BY <1>3, <1>4

\* An event that is due keeps the host's state in step with the log.
LEMMA DescribesGrow ==
    ASSUME NEW E, E \subseteq Entry, NEW s \in States(E), NEW log \in Seq(E), NEW e \in E,
           Describes(s, log), DueIn(s, e)
    PROVE  Describes(Applied(s, e), Append(log, e))
<1>1. PICK t, n : t = Append(log, e) /\ n = Applied(s, e)
  OBVIOUS
<1>2. /\ n.locked = IF e.type = "locked" THEN TRUE
                    ELSE IF e.type = "unlocked" THEN FALSE ELSE s.locked
      /\ \A g \in Guest : n.last[g] = IF e.type = "chat" /\ e.who = g THEN e.client ELSE s.last[g]
      /\ Members(n) = IF e.type = "admitted" THEN Members(s) \cup {e.who} ELSE Members(s)
      /\ n.removed = IF e.type = "removed" THEN s.removed \cup {e.who} ELSE s.removed
  BY <1>1, AppliedFields, AppliedType
<1>3. n.locked <=> LockedIn(t)
  <2>1. LockedIn(t) <=> e.type = "locked" \/ (LockedIn(log) /\ e.type # "unlocked")
    BY <1>1, LockGrows
  <2>2. (s.locked <=> LockedIn(log)) /\ s.locked \in BOOLEAN
    BY DEF Describes, States
  <2>3. QED
    BY <1>2, <2>1, <2>2, Zenon
<1>4. ASSUME NEW g \in Guest
      PROVE  g \in Members(n) <=> EventsIn(t, "admitted", g) # {}
  <2>1. EventsIn(t, "admitted", g) = IF e.type = "admitted" /\ e.who = g
                                    THEN EventsIn(log, "admitted", g) \cup {Len(log) + 1}
                                    ELSE EventsIn(log, "admitted", g)
    BY <1>1, EventsGrow
  <2>2. g \in Members(s) <=> EventsIn(log, "admitted", g) # {}
    BY DEF Describes
  <2>3. QED
    BY <1>2, <2>1, <2>2
<1>5. ASSUME NEW g \in Guest
      PROVE  g \in n.removed <=> EventsIn(t, "removed", g) # {}
  <2>1. EventsIn(t, "removed", g) = IF e.type = "removed" /\ e.who = g
                                    THEN EventsIn(log, "removed", g) \cup {Len(log) + 1}
                                    ELSE EventsIn(log, "removed", g)
    BY <1>1, EventsGrow
  <2>2. g \in s.removed <=> EventsIn(log, "removed", g) # {}
    BY DEF Describes
  <2>3. QED
    BY <1>2, <2>1, <2>2
<1>6. ASSUME NEW g \in Guest
      PROVE  n.last[g] = Cardinality(EventsIn(t, "chat", g))
  <2>1. PICK C, m : C = EventsIn(log, "chat", g) /\ m = Len(log) + 1
    OBVIOUS
  <2>2. /\ EventsIn(t, "chat", g) = IF e.type = "chat" /\ e.who = g THEN C \cup {m} ELSE C
        /\ m \notin C /\ IsFiniteSet(C) /\ Cardinality(C) \in Nat
    BY <1>1, <2>1, EventsGrow, EventsFinite
  <2>3. s.last[g] = Cardinality(C)
    BY <2>1 DEF Describes
  <2>4. CASE e.type = "chat" /\ e.who = g
    <3>1. Cardinality(C \cup {m}) = Cardinality(C) + 1
      BY <2>2, FS_AddElement
    <3>2. ChatVerdict(s, g, e.client) = "accepted"
      BY <2>4, AuthorityAssumption DEF DueIn
    <3>3. e.client = s.last[g] + 1
      BY <3>2 DEF ChatVerdict
    <3>4. QED
      BY <1>2, <2>2, <2>3, <2>4, <3>1, <3>3
  <2>5. CASE ~(e.type = "chat" /\ e.who = g)
    BY <1>2, <2>2, <2>3, <2>5
  <2>6. QED
    BY <2>4, <2>5
<1>7. QED
  BY <1>1, <1>3, <1>4, <1>5, <1>6 DEF Describes


-------------------------------------------------------------------------------
(***************************************************************************)
(* The store says what the log says, and what is being saved is due.        *)
(***************************************************************************)
DescribedOK == Describes(durable, history)

\* Whatever the host's user does other than removing is done by the host.
ActsOK == \A c \in Click : clicks[c].op # "removed" => clicks[c].g = Host

DueOK ==
    saving # NoSave =>
        /\ ~saving.stored => DueIn(memory, saving.event)
        /\ Head(queue) = "message" /\ handler.pc = "intent" =>
              handler.intent.client = saving.event.client /\ handler.intent.text = saving.event.text

LEMMA DescribedStep == IInv /\ DescribedOK /\ DueOK /\ [Next]_vars => DescribedOK'
<1> SUFFICES ASSUME IInv, DescribedOK, DueOK, [Next]_vars
             PROVE  DescribedOK'
  OBVIOUS
<1>1. CASE UNCHANGED <<history, durable>>
  BY <1>1 DEF DescribedOK, Describes, LockedIn, EventsIn, Members
<1>2. CASE Stored
  <2>1. PICK e : e = saving.event
    OBVIOUS
  <2>2. e \in Entry /\ memory = durable /\ history' = Append(history, e) /\ durable' = Applied(durable, e)
    BY <1>2, <2>1, StoredFacts
  <2>3. DueIn(durable, e)
    BY <1>2, <2>1, <2>2 DEF DueOK, Stored
  <2>4. history \in Seq(Entry) /\ durable \in States(Entry)
    <3>1. history \in Seq(Entry) /\ durable \in States(Range(history)) /\ Range(history) \subseteq Entry
      BY HostStates, RangeHistory DEF IInv, LogOK
    <3>2. \A s \in Seq(Range(history)) : s \in Seq(Entry)
      BY <3>1
    <3>3. QED
      BY <3>1, <3>2 DEF States
  <2>5. Describes(Applied(durable, e), Append(history, e))
    BY <2>2, <2>3, <2>4, DescribesGrow DEF DescribedOK
  <2>6. QED
    BY <2>2, <2>5 DEF DescribedOK, Describes, LockedIn, EventsIn, Members
<1>3. CASE UNCHANGED vars
  BY <1>1, <1>3 DEF vars, hostVars, auxVars
<1>4. QED
  BY <1>1, <1>2, <1>3, StoreFrame

LEMMA ActsStep == IInv /\ ActsOK /\ [Next]_vars => ActsOK'
<1> SUFFICES ASSUME IInv, ActsOK, [Next]_vars, NEW c \in Click
             PROVE  clicks'[c].op # "removed" => clicks'[c].g = Host
  BY DEF ActsOK
<1>1. clicks \in [Click -> ClickRecords] /\ (clicks[c].op # "removed" => clicks[c].g = Host)
  BY DEF IInv, QueueOK, ClicksOK, ActsOK
<1>2. CASE clicks'[c] = clicks[c] \/ clicks'[c] = [clicks[c] EXCEPT !.pc = "done"]
  BY <1>1, <1>2 DEF ClickRecords
<1>3. ASSUME NEW d \in Click, HostClicks(d)
      PROVE  clicks'[c].op # "removed" => clicks'[c].g = Host
  <2>1. CASE c = d
    BY <1>1, <1>3, <2>1 DEF HostClicks
  <2>2. CASE c # d
    <3>1. clicks'[c] = clicks[c]
      BY <1>1, <1>3, <2>2 DEF HostClicks
    <3>2. QED
      BY <1>2, <3>1
  <2>3. QED
    BY <2>1, <2>2
<1>4. ASSUME NEW d, clicks' = [clicks EXCEPT ![d].pc = "done"]
      PROVE  clicks'[c].op # "removed" => clicks'[c].g = Host
  BY <1>1, <1>2, <1>4
<1>5. CASE HostCrashes
  <2>1. clicks' = [d \in Click |-> IF clicks[d].pc = "queued" THEN [clicks[d] EXCEPT !.pc = "done"] ELSE clicks[d]]
    BY <1>5 DEF HostCrashes
  <2>2. QED
    BY <1>2, <2>1
<1>6. CASE UNCHANGED clicks
  BY <1>2, <1>6
<1>7. CASE SaveFails
  BY <1>4, <1>6, <1>7 DEF SaveFails
<1>8. ASSUME NEW d \in Click, ClickRuns(d) \/ CommitClick(d)
      PROVE  clicks'[c].op # "removed" => clicks'[c].g = Host
  BY <1>4, <1>6, <1>8 DEF ClickRuns, CommitClick
<1>9. HostDerives \/ HostSyncs \/ HostAnnounces \/ HostAuthenticates \/ HostJudgesIntent \/ CommitMessage
      \/ (\E g \in Guest : HostTakes(g)) => UNCHANGED clicks
  BY DEF HostDerives, HostSyncs, HostAnnounces, HostAuthenticates, HostJudgesIntent, CommitMessage, HostTakes
<1>10. CASE UNCHANGED vars
  BY <1>6, <1>10 DEF vars, hostVars
<1>11. QED
  BY <1>3, <1>5, <1>6, <1>7, <1>8, <1>9, <1>10, QueueFrame

LEMMA DueStep == IInv /\ ActsOK /\ DueOK /\ [Next]_vars => DueOK'
<1> SUFFICES ASSUME IInv, ActsOK, DueOK, [Next]_vars
             PROVE  DueOK'
  OBVIOUS
<1>1. SavingOK /\ QueueOK
  BY DEF IInv
<1>2. CASE saving' = NoSave
  BY <1>2 DEF DueOK
<1>3. ASSUME NEW e, Save(e), DueIn(memory, e), UNCHANGED <<memory, handler, queue>>,
             Head(queue) = "message" /\ handler.pc = "intent" =>
                 handler.intent.client = e.client /\ handler.intent.text = e.text
      PROVE  DueOK'
  <2>1. saving'.event = e
    BY <1>3 DEF Save
  <2>2. DueIn(memory', e)
    BY <1>3, <2>1 DEF DueIn, Members, AuthVerdict, ChatVerdict
  <2>3. QED
    BY <1>3, <2>1, <2>2 DEF DueOK
<1>4. CASE HostAuthenticates /\ saving' # saving
  <2>1. PICK e : e = Event(memory, "admitted", handler.g, 0, 0)
    OBVIOUS
  <2>2. /\ handler.pc = "auth" /\ AuthVerdict(memory, handler.g) = "admitted" /\ Save(e)
        /\ UNCHANGED <<queue, handler, memory>>
    BY <1>4, <2>1 DEF HostAuthenticates
  <2>3. DueIn(memory, e)
    BY <2>1, <2>2 DEF Event, DueIn
  <2>4. QED
    BY <1>3, <2>2, <2>3
<1>5. CASE HostJudgesIntent /\ saving' # saving
  <2>1. PICK e : e = Event(memory, "chat", handler.g, handler.intent.client, handler.intent.text)
    OBVIOUS
  <2>2. /\ ChatVerdict(memory, handler.g, handler.intent.client) = "accepted" /\ Save(e)
        /\ UNCHANGED <<queue, handler, memory>>
    BY <1>5, <2>1 DEF HostJudgesIntent
  <2>3. DueIn(memory, e) /\ handler.intent.client = e.client /\ handler.intent.text = e.text
    BY <2>1, <2>2 DEF Event, DueIn
  <2>4. QED
    BY <1>3, <2>2, <2>3
<1>6. ASSUME NEW c \in Click, ClickRuns(c), saving' # saving
      PROVE  DueOK'
  <2>1. PICK n : n = IF clicks[c].op = "chat" THEN memory.seq + 1 ELSE 0
    OBVIOUS
  <2>2. PICK e : e = Event(memory, clicks[c].op, clicks[c].g, n, 0)
    OBVIOUS
  <2>3. Save(e) /\ queue # << >> /\ Head(queue) = c /\ UNCHANGED <<queue, handler, memory>> /\ ~Idempotent(c)
    BY <1>6, <2>1, <2>2 DEF ClickRuns, AtHead
  <2>4. c # "message" /\ clicks[c].pc = "queued" /\ clicks[c] \in ClickRecords
    BY <1>1, <2>3, HeadFacts, HostAuthorityAssumption DEF QueueOK, ClicksOK
  <2>5. /\ clicks[c].op \in {"chat", "locked", "unlocked", "removed"}
        /\ clicks[c].op = "removed" => clicks[c].g \in Members(memory)
        /\ clicks[c].op # "removed" => clicks[c].g = Host
    BY <1>1, <2>4 DEF QueueOK, ClicksOK, ClickRecords, ActsOK
  <2>6. e.type = clicks[c].op /\ e.who = clicks[c].g
    BY <2>2 DEF Event
  <2>7. DueIn(memory, e)
    BY <2>3, <2>5, <2>6 DEF DueIn, Idempotent
  <2>8. QED
    BY <1>3, <2>3, <2>4, <2>7
<1>7. CASE Stored
  <2>1. saving # NoSave /\ saving' = [saving EXCEPT !.stored = TRUE] /\ UNCHANGED <<queue, handler>>
    BY <1>7 DEF Stored
  <2>2. PICK n, e, b : saving = [next |-> n, event |-> e, stored |-> b]
    BY <1>1, <2>1 DEF SavingOK
  <2>3. saving' = [next |-> n, event |-> e, stored |-> TRUE]
    BY ONLY <2>1, <2>2
  <2>4. saving'.stored = TRUE /\ saving'.event = saving.event
    BY <2>2, <2>3
  <2>5. QED
    BY <2>1, <2>4 DEF DueOK
<1>8. CASE Next /\ UNCHANGED saving /\ saving # NoSave
  <2>1. Held
    BY <1>8, SavingHeld
  <2>2. DueIn(memory, saving.event) => DueIn(memory, saving.event)'
    BY <1>8, <2>1 DEF Held, DueIn, Members, AuthVerdict, ChatVerdict
  <2>3. QED
    BY <1>8, <2>1, <2>2 DEF Held, DueOK
<1>9. CASE UNCHANGED vars
  <2>1. UNCHANGED <<saving, memory, queue, handler>>
    BY <1>9 DEF vars, hostVars
  <2>2. DueIn(memory, saving.event) => DueIn(memory, saving.event)'
    BY <2>1 DEF DueIn, Members, AuthVerdict, ChatVerdict
  <2>3. QED
    BY <2>1, <2>2 DEF DueOK
<1>10. CASE Next /\ ~UNCHANGED saving /\ saving' # NoSave
  <2>1. ~CommitMessage /\ ~HostCrashes /\ ~SaveFails /\ \A c \in Click : ~CommitClick(c)
    BY <1>10 DEF CommitMessage, HostCrashes, SaveFails, CommitClick
  <2>2. QED
    BY <1>4, <1>5, <1>6, <1>7, <1>10, <2>1, SavingFrame
<1>11. QED
  BY <1>2, <1>8, <1>9, <1>10


-------------------------------------------------------------------------------
(***************************************************************************)
(* What a message to a guest is taken in as.                               *)
(***************************************************************************)

\* The sequence a message carries a guest to, and whether it does so whatever the guest has.
Carries(m) == IF m.sync # NoSync THEN m.sync.seq ELSE m.event.seq
IsSnapshot(m) == m.sync # NoSync /\ m.sync.mode = "snapshot"

LEMMA SyncIsNotNone == \A E : NoSync \notin Syncs(E)
<1>1. SUFFICES ASSUME NEW E, NoSync \in Syncs(E)
               PROVE  FALSE
  OBVIOUS
<1>2. NoSync.mode = "none" /\ NoSync.mode \in {"delta", "snapshot"}
  BY <1>1 DEF NoSync, Syncs
<1>3. QED
  BY <1>2

LEMMA MessageForms ==
    ASSUME NEW m \in Messages
    PROVE  /\ m.sync # NoSync => m.sync \in GoodSyncs
           /\ m.type = "accepted" => m.sync \in GoodSyncs /\ m.sync # NoSync
           /\ m.type = "event" => m.sync = NoSync /\ m.event \in Range(history)
           /\ m.type \in {"accepted", "rejected", "denied", "event"}
BY SyncIsNotNone DEF Messages, GoodSyncs

LEMMA ReceiveForms ==
    ASSUME IInv, NEW g \in Guest, GuestReceives(g), NEW m, m = Head(toGuest[g])
    PROVE  \/ UNCHANGED <<cred, inbox>>
           \/ AskForSnapshot(g)
           \/ \E s \in GoodSyncs : \E v :
                /\ TakeIn(g, s, v)
                /\ s.seq = Carries(m)
                /\ s.mode = "snapshot" => IsSnapshot(m)
<1>1. m \in Messages
  <2>1. toGuest[g] \in Seq(Messages) /\ toGuest[g] # << >>
    BY DEF IInv, GuestsOK, GuestReceives
  <2>2. QED
    BY <2>1
<1>2. CASE m.type = "accepted"
  <2>1. TakeIn(g, m.sync, "accepted")
    BY <1>2 DEF GuestReceives
  <2>2. QED
    BY <1>1, <1>2, <2>1, MessageForms DEF Carries, IsSnapshot
<1>3. CASE m.type = "rejected"
  <2>1. UNCHANGED <<cred, inbox>> \/ (m.sync # NoSync /\ TakeIn(g, m.sync, auth[g]))
    BY <1>3 DEF GuestReceives
  <2>2. QED
    BY <1>1, <2>1, MessageForms DEF Carries, IsSnapshot
<1>4. CASE m.type = "denied"
  BY <1>4 DEF GuestReceives
<1>5. CASE m.type = "event"
  <2>1. UNCHANGED <<cred, inbox>> \/ AskForSnapshot(g) \/ TakeIn(g, SyntheticSync(g, m.event), auth[g])
    BY <1>5 DEF GuestReceives
  <2>2. m.sync = NoSync /\ SyntheticSync(g, m.event) \in GoodSyncs
    BY <1>1, <1>5, MessageForms, SyntheticGood DEF IInv
  <2>3. SyntheticSync(g, m.event).seq = Carries(m) /\ SyntheticSync(g, m.event).mode # "snapshot"
    BY <2>2 DEF SyntheticSync, Carries
  <2>4. QED
    BY <2>1, <2>2, <2>3
<1>6. QED
  BY <1>1, <1>2, <1>3, <1>4, <1>5, MessageForms

-------------------------------------------------------------------------------
(***************************************************************************)
(* Intents. What a guest's user typed later is numbered and sent later, so   *)
(* the intents under way stand in the order of their texts; two of the same  *)
(* text are one intent and its replay.                                       *)
(***************************************************************************)
Follows(i, j) == i.text < j.text \/ i = j

\* Two messages of an inbox, the first sent before the second.
Before(m, n) == m[2].type = "intent" /\ n[2].type = "intent" => Follows(m[2].intent, n[2].intent)

Ordered(s) == \A i, j \in 1 .. Len(s) : i < j => Before(s[i], s[j])

\* What a sequence keeps of the order of another, for a relation given as a set of pairs.
Related(s, R) == \A i, j \in 1 .. Len(s) : i < j => <<s[i], s[j]>> \in R

LEMMA RelatedAppend ==
    ASSUME NEW T, NEW s \in Seq(T), NEW x \in T, NEW R, Related(s, R),
           \A m \in Range(s) : <<m, x>> \in R
    PROVE  Related(Append(s, x), R)
<1>1. PICK t, n : t = Append(s, x) /\ n = Len(s)
  OBVIOUS
<1>2. n \in Nat /\ Len(t) = n + 1 /\ t[n + 1] = x /\ \A i \in 1 .. n : t[i] = s[i]
  BY <1>1, LogGrown
<1>3. SUFFICES ASSUME NEW i \in 1 .. n + 1, NEW j \in 1 .. n + 1, i < j
               PROVE  <<t[i], t[j]>> \in R
  BY <1>1, <1>2 DEF Related
<1>4. i \in 1 .. n
  BY <1>2, <1>3
<1>5. CASE j = n + 1
  <2>1. s[i] \in Range(s)
    BY <1>1, <1>4, InRange
  <2>2. QED
    BY <1>2, <1>4, <1>5, <2>1
<1>6. CASE j # n + 1
  <2>1. j \in 1 .. n
    BY <1>2, <1>6
  <2>2. QED
    BY <1>1, <1>2, <1>3, <1>4, <2>1 DEF Related
<1>7. QED
  BY <1>5, <1>6

\* The elements Only keeps are elements of the sequence, in its order.
LEMMA OnlyKeepsOrder ==
    ASSUME NEW T, NEW s \in Seq(T), NEW S, NEW R, Related(s, R)
    PROVE  Range(Only(s, S)) \subseteq Range(s) /\ Related(Only(s, S), R)
<1> DEFINE N == Len(s)
           Kept(q, n) == /\ \A m \in Range(q) : \E i \in 1 .. n : m = s[i]
                         /\ Related(q, R)
<1>1. PICK f \in [0 .. N -> Seq(T)] : OnlyRun(f, s, S)
  BY OnlyValues
<1> DEFINE Bad == {n \in 0 .. N : ~Kept(f[n], n)}
<1>2. N \in Nat /\ f[0] = << >>
      /\ \A n \in 1 .. N : f[n] = IF s[n] \in S THEN Append(f[n - 1], s[n]) ELSE f[n - 1]
  BY <1>1 DEF OnlyRun
<1>3. Bad = {}
  <2>1. SUFFICES ASSUME NEW n \in 0 .. N, ~Kept(f[n], n), \A m \in 0 .. N : ~Kept(f[m], m) => n <= m
                 PROVE  FALSE
    <3>1. Bad \subseteq Nat /\ \A m : m \in Bad <=> m \in 0 .. N /\ ~Kept(f[m], m)
      OBVIOUS
    <3> HIDE DEF Bad, Kept
    <3>2. QED
      BY <2>1, <3>1, LeastNatural
  <2>2. Kept(f[0], 0)
    BY <1>2 DEF Related, Range
  <2>3. n \in 1 .. N /\ n - 1 \in 0 .. N /\ n - 1 < n
    <3> HIDE DEF Kept
    <3>1. QED
      BY <1>2, <2>1, <2>2
  <2>4. Kept(f[n - 1], n - 1)
    <3> HIDE DEF Kept
    <3>1. QED
      BY <2>1, <2>3
  <2>5. PICK q : q = f[n - 1]
    OBVIOUS
  <2>6. q \in Seq(T) /\ s[n] \in T
    BY <1>1, <2>3, <2>5
  <2>7. CASE s[n] \in S
    <3>1. f[n] = Append(q, s[n]) /\ Range(f[n]) = Range(q) \cup {s[n]}
      <4>1. f[n] = Append(q, s[n])
        BY <1>2, <2>3, <2>5, <2>7
      <4>2. Range(Append(q, s[n])) = Range(q) \cup {s[n]}
        BY <2>6, RangeAppend
      <4>3. QED
        BY <4>1, <4>2
    <3>2. \A m \in Range(q) : \E i \in 1 .. n - 1 : m = s[i]
      BY <2>4, <2>5
    <3>3. \A m \in Range(q) : <<m, s[n]>> \in R
      <4>1. ASSUME NEW m \in Range(q)
            PROVE  <<m, s[n]>> \in R
        <5>1. PICK i \in 1 .. n - 1 : m = s[i]
          BY <3>2
        <5>2. i \in 1 .. N /\ n \in 1 .. N /\ i < n
          BY <1>2, <2>3
        <5>3. QED
          BY <5>1, <5>2 DEF Related
      <4>2. QED
        BY <4>1
    <3>4. Related(f[n], R)
      BY <2>4, <2>5, <2>6, <3>1, <3>3, RelatedAppend
    <3>5. \A m \in Range(f[n]) : \E i \in 1 .. n : m = s[i]
      BY <1>2, <2>3, <3>1, <3>2
    <3>6. QED
      BY <2>1, <3>4, <3>5
  <2>8. CASE s[n] \notin S
    <3>1. f[n] = q
      BY <1>2, <2>3, <2>5, <2>8
    <3>2. \A m \in Range(q) : \E i \in 1 .. n : m = s[i]
      BY <1>2, <2>3, <2>4, <2>5
    <3>3. QED
      BY <2>1, <2>4, <2>5, <3>1, <3>2
  <2>9. QED
    BY <2>7, <2>8
<1>4. Kept(f[N], N)
  <2> HIDE DEF Kept
  <2>1. QED
    BY <1>2, <1>3
<1>5. Only(s, S) = f[N]
  BY <1>1 DEF OnlyRun
<1>6. ASSUME NEW m \in Range(Only(s, S))
      PROVE  m \in Range(s)
  <2>1. PICK i \in 1 .. N : m = s[i]
    BY <1>4, <1>5, <1>6
  <2>2. QED
    BY <2>1, InRange
<1>7. QED
  BY <1>4, <1>5, <1>6


\* One inbox holds no intents but another's, in the other's order.
IntentsKept(t, s) ==
    /\ \A m \in Range(t) : m[2].type = "intent" => m \in Range(s)
    /\ Ordered(s) => Ordered(t)

LEMMA KeepsAll == \A s : IntentsKept(s, s)
BY DEF IntentsKept

LEMMA KeepsNone == \A s : IntentsKept(<< >>, s)
BY DEF IntentsKept, Ordered, Range

LEMMA KeepsTail ==
    ASSUME NEW T, NEW s \in Seq(T), s # << >>
    PROVE  /\ IntentsKept(Tail(s), s)
           /\ Ordered(s) => \A m \in Range(Tail(s)) : Before(Head(s), m)
<1>1. PICK t : t = Tail(s)
  OBVIOUS
<1>2. /\ t \in Seq(T) /\ Len(t) = Len(s) - 1 /\ Len(s) \in Nat \ {0} /\ Head(s) = s[1]
      /\ \A i \in 1 .. Len(t) : t[i] = s[i + 1]
  BY <1>1
<1>3. \A i \in 1 .. Len(t) : i + 1 \in 1 .. Len(s) /\ 1 \in 1 .. Len(s) /\ 1 < i + 1
  BY <1>2
<1>4. ASSUME NEW m \in Range(t)
      PROVE  m \in Range(s) /\ (Ordered(s) => Before(Head(s), m))
  <2>1. PICK i \in 1 .. Len(t) : m = t[i]
    BY <1>2, InRange
  <2>2. m = s[i + 1] /\ i + 1 \in 1 .. Len(s) /\ 1 \in 1 .. Len(s) /\ 1 < i + 1
    BY <1>2, <1>3, <2>1
  <2>3. m \in Range(s)
    BY <2>2, InRange
  <2>4. QED
    BY <1>2, <2>2, <2>3 DEF Ordered
<1>5. ASSUME Ordered(s), NEW i \in 1 .. Len(t), NEW j \in 1 .. Len(t), i < j
      PROVE  Before(t[i], t[j])
  <2>1. t[i] = s[i + 1] /\ t[j] = s[j + 1] /\ i + 1 \in 1 .. Len(s) /\ j + 1 \in 1 .. Len(s) /\ i + 1 < j + 1
    BY <1>2, <1>3, <1>5
  <2>2. QED
    BY <1>5, <2>1 DEF Ordered
<1>6. QED
  BY <1>1, <1>4, <1>5 DEF IntentsKept, Ordered

LEMMA KeepsOnly ==
    ASSUME NEW T, NEW s \in Seq(T), NEW S
    PROVE  IntentsKept(Only(s, S), s)
<1> DEFINE R == {p \in Range(s) \X Range(s) : Before(p[1], p[2])}
<1>1. PICK t : t = Only(s, S)
  OBVIOUS
<1>2. \A m, n : <<m, n>> \in R <=> m \in Range(s) /\ n \in Range(s) /\ Before(m, n)
  OBVIOUS
<1> HIDE DEF R
<1>3. CASE Ordered(s)
  <2>1. Related(s, R)
    BY <1>2, <1>3, InRange DEF Ordered, Related
  <2>2. Range(t) \subseteq Range(s) /\ Related(t, R)
    BY <1>1, <2>1, OnlyKeepsOrder
  <2>3. Ordered(t)
    BY <1>2, <2>2 DEF Ordered, Related
  <2>4. QED
    BY <1>1, <2>2, <2>3 DEF IntentsKept
<1>4. CASE ~Ordered(s)
  <2>1. Related(s, Range(s) \X Range(s))
    BY InRange DEF Related
  <2>2. Range(t) \subseteq Range(s)
    BY <1>1, <2>1, OnlyKeepsOrder
  <2>3. QED
    BY <1>1, <1>4, <2>2 DEF IntentsKept
<1>5. QED
  BY <1>3, <1>4

LEMMA OrderedAppend ==
    ASSUME NEW T, NEW s \in Seq(T), NEW x \in T, Ordered(s), \A m \in Range(s) : Before(m, x)
    PROVE  Ordered(Append(s, x))
<1> DEFINE R == {p \in T \X T : Before(p[1], p[2])}
<1>1. \A m, n : <<m, n>> \in R <=> m \in T /\ n \in T /\ Before(m, n)
  OBVIOUS
<1> HIDE DEF R
<1>2. \A i \in 1 .. Len(s) : s[i] \in T /\ s[i] \in Range(s)
  BY InRange
<1>3. Related(s, R)
  BY <1>1, <1>2 DEF Ordered, Related
<1>4. \A m \in Range(s) : <<m, x>> \in R
  BY <1>1, <1>2, InRange
<1>5. Related(Append(s, x), R)
  BY <1>3, <1>4, RelatedAppend
<1>6. QED
  BY <1>1, <1>5 DEF Ordered, Related

LEMMA KeepsOthers ==
    ASSUME NEW T, NEW s \in Seq(T), NEW x \in T, x[2].type # "intent"
    PROVE  IntentsKept(Append(s, x), s)
<1>1. Range(Append(s, x)) = Range(s) \cup {x}
  BY RangeAppend
<1>2. \A m \in Range(s) : Before(m, x)
  BY DEF Before
<1>3. Ordered(s) => Ordered(Append(s, x))
  BY <1>2, OrderedAppend
<1>4. QED
  BY <1>1, <1>3 DEF IntentsKept

(***************************************************************************)
(* The chat messages of a guest in the log, and the intents that may become  *)
(* the next: those in its inbox, the one being handled, and the one its page *)
(* could replay.                                                            *)
(***************************************************************************)
ChatsOf(g) == EventsIn(history, "chat", g)

\* An intent the host could still accept has a text it has not committed.
Sound(g, i) ==
    /\ i.text <= typed[g]
    /\ i.client > durable.last[g] => \A k \in ChatsOf(g) : history[k].text < i.text

Replayable(g) == lastIntent[g] # NoIntent

\* An intent under way: it is sound, and of before the last one sent.
UnderWay(g, i) == Sound(g, i) /\ (Replayable(g) => Follows(i, lastIntent[g]))

IntentsOf(g) ==
    /\ \A k \in ChatsOf(g) : history[k].text <= typed[g]
    /\ \A m \in Range(inbox[g]) : m[2].type = "intent" => UnderWay(g, m[2].intent)
    /\ Ordered(inbox[g])
    /\ Replayable(g) => Sound(g, lastIntent[g])
    /\ handler.pc = "intent" /\ handler.g = g =>
          /\ UnderWay(g, handler.intent)
          /\ \A m \in Range(inbox[g]) : m[2].type = "intent" => Follows(handler.intent, m[2].intent)

IntentsOK == \A g \in Guest : IntentsOf(g)


\* A step that sends no intent and saves nothing leaves the intents of a guest in order.
LEMMA QuietStep ==
    ASSUME NEW g \in Guest, IntentsOf(g), IntentsKept(inbox'[g], inbox[g]),
           UNCHANGED <<history, durable, typed>>, lastIntent'[g] \in {lastIntent[g], NoIntent},
           handler'.pc = "intent" /\ handler'.g = g => handler' = handler
    PROVE  IntentsOf(g)'
<1>1. /\ \A i : Sound(g, i) => Sound(g, i)'
      /\ \A i : UnderWay(g, i) => UnderWay(g, i)'
      /\ Replayable(g)' => Replayable(g) /\ lastIntent'[g] = lastIntent[g]
  BY DEF Sound, UnderWay, Replayable, ChatsOf, EventsIn
<1>2. /\ \A m \in Range(inbox'[g]) : m[2].type = "intent" => m \in Range(inbox[g])
      /\ Ordered(inbox[g]) => Ordered(inbox'[g])
  BY DEF IntentsKept
<1>3. ChatsOf(g)' = ChatsOf(g)
  BY DEF ChatsOf, EventsIn
<1>4. (\A k \in ChatsOf(g) : history[k].text <= typed[g])'
  BY <1>3 DEF IntentsOf
<1>5. ASSUME NEW m \in Range(inbox'[g]), m[2].type = "intent"
      PROVE  UnderWay(g, m[2].intent)'
  <2>1. UnderWay(g, m[2].intent)
    BY <1>2, <1>5 DEF IntentsOf
  <2>2. PICK i : i = m[2].intent
    OBVIOUS
  <2>3. UnderWay(g, i)'
    BY <1>1, <2>1, <2>2
  <2>4. QED
    BY <2>2, <2>3
<1>6. Ordered(inbox'[g])
  BY <1>2 DEF IntentsOf
<1>7. ASSUME Replayable(g)'
      PROVE  Sound(g, lastIntent[g])'
  <2>1. Sound(g, lastIntent[g]) /\ lastIntent'[g] = lastIntent[g]
    BY <1>1, <1>7 DEF IntentsOf
  <2>2. QED
    BY <2>1 DEF Sound, ChatsOf, EventsIn
<1>8. ASSUME handler'.pc = "intent", handler'.g = g
      PROVE  /\ UnderWay(g, handler.intent)'
             /\ \A m \in Range(inbox'[g]) : m[2].type = "intent" => Follows(handler'.intent, m[2].intent)
  <2>1. handler' = handler /\ UnderWay(g, handler.intent)
    BY <1>8 DEF IntentsOf
  <2>2. UnderWay(g, handler.intent)'
    BY <1>1, <2>1 DEF UnderWay, Sound, ChatsOf, EventsIn
  <2>3. QED
    BY <1>2, <1>8, <2>1, <2>2 DEF IntentsOf
<1>9. QED
  BY <1>4, <1>5, <1>6, <1>7, <1>8 DEF IntentsOf

LEMMA IntentFrame ==
    ASSUME IInv, Next
    PROVE  \/ \E g \in Guest : \/ HostTakes(g) \/ GuestSubmits(g) \/ GuestProbes(g) \/ GuestReloads(g)
                              \/ Connect(g) \/ Disconnect(g) \/ GuestReceives(g)
           \/ Stored \/ HostCrashes
           \/ /\ UNCHANGED <<history, durable, inbox, lastIntent, typed>>
              /\ handler'.pc = "intent" => handler' = handler
<1>1. handler \in Handlers(Range(history))
  BY DEF IInv, QueueOK, HandlerOK
<1>2. \A p : p # "intent" => [handler EXCEPT !.pc = p].pc # "intent"
  BY <1>1 DEF Handlers
<1>3. Idle.pc = "idle"
  BY IdleOK
<1>4. HostDerives => handler'.pc = "auth"
  BY <1>1 DEF HostDerives, Handlers
<1>5. HostSyncs => handler'.pc \in {"idle", "announce"}
  BY <1>1, <1>3 DEF HostSyncs, Handlers
<1>6. HostAnnounces \/ SaveFails => handler'.pc = "idle" \/ handler' = handler
  BY <1>3 DEF HostAnnounces, SaveFails
<1>7. HostAuthenticates => handler'.pc \in {"idle", "sync"} \/ handler' = handler
  BY <1>1, <1>3 DEF HostAuthenticates, SyncThen, Handlers
<1>8. HostJudgesIntent => handler'.pc = "sync" \/ handler' = handler
  BY <1>1 DEF HostJudgesIntent, Handlers
<1>9. CommitMessage => handler'.pc \in {"idle", "sync"}
  BY <1>1, <1>3 DEF CommitMessage, Handlers
<1>10. HostDerives \/ HostSyncs \/ HostAnnounces \/ SaveFails \/ HostAuthenticates \/ HostJudgesIntent
       \/ CommitMessage \/ HostRestores
       \/ (\E c \in Click : HostClicks(c) \/ ClickRuns(c) \/ CommitClick(c))
       \/ (\E g \in Guest : HostNoticesLeave(g))
       => UNCHANGED <<history, durable, inbox, lastIntent, typed>>
  BY DEF HostDerives, HostSyncs, HostAnnounces, SaveFails, HostAuthenticates, HostJudgesIntent,
         CommitMessage, HostRestores, HostClicks, ClickRuns, CommitClick, HostNoticesLeave,
         guestVars, netVars, auxVars, Trouble
<1>11. HostRestores \/ (\E c \in Click : HostClicks(c) \/ ClickRuns(c) \/ CommitClick(c))
       \/ (\E g \in Guest : HostNoticesLeave(g)) => handler' = handler
  BY DEF HostRestores, HostClicks, ClickRuns, CommitClick, HostNoticesLeave
<1>12. QED
  BY <1>4, <1>5, <1>6, <1>7, <1>8, <1>9, <1>10, <1>11 DEF Next, HostStep, UserStep, FaultStep


InboxEntry == (1 .. MaxPages) \X Requests

LEMMA InboxTypes ==
    ASSUME IInv, NEW g \in Guest
    PROVE  /\ inbox \in [Guest -> Seq(InboxEntry)] /\ inbox[g] \in Seq(InboxEntry)
           /\ lastIntent \in [Guest -> Intents] /\ typed \in [Guest -> Nat] /\ typed[g] \in Nat
           /\ page[g] \in 1 .. MaxPages
<1>1. inbox \in [Guest -> Seq(InboxEntry)] /\ page[g] \in 1 .. MaxPages
  BY DEF IInv, ConnectionsOK, Wired, Inboxes, InboxEntry
<1>2. lastIntent \in [Guest -> Intents] /\ typed \in [Guest -> Text \cup {0}]
  BY DEF IInv, GuestsOK
<1>3. Text \cup {0} \subseteq Nat
  BY HostAuthorityAssumption
<1>4. typed \in [Guest -> Nat]
  BY <1>2, <1>3
<1>5. QED
  BY <1>1, <1>2, <1>4

\* What SendToHost does to the inbox of the guest that sends, and to another's.
LEMMA SentToHost ==
    ASSUME IInv, NEW g \in Guest, NEW x \in Requests, SendToHost(g, x)
    PROVE  /\ \A h \in Guest \ {g} : inbox'[h] = inbox[h]
           /\ \/ inbox'[g] = inbox[g]
              \/ inbox'[g] = Append(inbox[g], <<page[g], x>>) /\ <<page[g], x>> \in InboxEntry
<1>1. inbox \in [Guest -> Seq(InboxEntry)] /\ page[g] \in 1 .. MaxPages
  BY InboxTypes
<1>2. <<page[g], x>> \in InboxEntry
  BY <1>1 DEF InboxEntry
<1>3. QED
  BY <1>1, <1>2 DEF SendToHost

LEMMA SendsNoIntent ==
    ASSUME IInv, NEW g \in Guest, NEW x \in Requests, SendToHost(g, x), x.type # "intent", NEW h \in Guest
    PROVE  IntentsKept(inbox'[h], inbox[h])
<1>1. inbox[h] \in Seq(InboxEntry)
  BY InboxTypes
<1>2. CASE inbox'[h] = inbox[h]
  BY <1>2, KeepsAll
<1>3. CASE inbox'[h] = Append(inbox[h], <<page[h], x>>) /\ <<page[h], x>> \in InboxEntry
  BY <1>1, <1>3, KeepsOthers
<1>4. QED
  BY <1>2, <1>3, SentToHost

LEMMA TakeKeepsIntents ==
    ASSUME IInv, NEW g \in Guest, HostTakes(g), NEW h \in Guest, IntentsOf(h)
    PROVE  IntentsOf(h)'
<1>1. /\ inbox \in [Guest -> Seq(InboxEntry)] /\ inbox[g] \in Seq(InboxEntry) /\ inbox[g] # << >>
      /\ inbox' = [inbox EXCEPT ![g] = Tail(@)]
      /\ UNCHANGED <<history, durable, typed, lastIntent>>
  BY InboxTypes DEF HostTakes, guestVars, auxVars
<1>2. PICK k, m : k = Head(inbox[g])[1] /\ m = Head(inbox[g])[2]
  OBVIOUS
<1>3. CASE handler'.pc # "intent" \/ handler'.g # h
  <2>1. IntentsKept(inbox'[h], inbox[h])
    BY <1>1, KeepsTail, KeepsAll
  <2>2. QED
    BY <1>1, <1>3, <2>1, QuietStep
<1>4. CASE handler'.pc = "intent" /\ handler'.g = h
  <2>1. m.type = "intent" /\ handler' = [Idle EXCEPT !.g = g, !.k = k, !.cursor = m.cursor, !.intent = m.intent,
                                                     !.pc = "intent"]
    <3>1. handler.pc = "idle" /\ Idle.pc = "idle"
      BY IdleOK DEF HostTakes
    <3>2. PICK taken : taken = [Idle EXCEPT !.g = g, !.k = k, !.cursor = m.cursor, !.intent = m.intent]
      OBVIOUS
    <3>3. [taken EXCEPT !.pc = "derive"].pc = "derive" /\ [taken EXCEPT !.pc = "sync", !.reason = "accepted",
              !.waits = Range(queue)].pc = "sync"
      BY <3>2 DEF Idle
    <3>4. [taken EXCEPT !.pc = "intent"] = [Idle EXCEPT !.g = g, !.k = k, !.cursor = m.cursor, !.intent = m.intent,
                                                     !.pc = "intent"]
      BY <3>2
    <3>5. m.type = "intent" /\ handler' = [taken EXCEPT !.pc = "intent"]
      BY <1>2, <1>4, <3>1, <3>2, <3>3 DEF HostTakes
    <3>6. QED
      BY <3>4, <3>5
  <2>2. handler'.g = g /\ handler'.intent = m.intent /\ h = g
    BY <1>4, <2>1 DEF Idle
  <2>3. inbox'[h] = Tail(inbox[h]) /\ Head(inbox[h]) \in Range(inbox[h]) /\ m = Head(inbox[h])[2]
    <3>1. Head(inbox[g]) = inbox[g][1] /\ 1 \in 1 .. Len(inbox[g])
      BY <1>1
    <3>2. QED
      BY <1>1, <1>2, <2>2, <3>1, InRange
  <2>4. /\ \A n \in Range(inbox'[h]) : n[2].type = "intent" => n \in Range(inbox[h])
        /\ Ordered(inbox'[h])
        /\ \A n \in Range(inbox'[h]) : Before(Head(inbox[h]), n)
    BY <1>1, <2>2, <2>3, KeepsTail DEF IntentsOf, IntentsKept
  <2>5. \A i : UnderWay(h, i) => UnderWay(h, i)'
    BY <1>1 DEF UnderWay, Sound, Replayable, ChatsOf, EventsIn
  <2>6. UnderWay(h, m.intent)'
    <3>1. UnderWay(h, m.intent)
      BY <2>1, <2>3 DEF IntentsOf
    <3>2. PICK i : i = m.intent
      OBVIOUS
    <3>3. QED
      BY <2>5, <3>1, <3>2
  <2>7. UnderWay(h, handler.intent)'
    BY <2>2, <2>6 DEF UnderWay, Sound, Replayable, ChatsOf, EventsIn
  <2>8. ASSUME NEW n \in Range(inbox'[h]), n[2].type = "intent"
        PROVE  UnderWay(h, n[2].intent)' /\ Follows(handler'.intent, n[2].intent)
    <3>1. UnderWay(h, n[2].intent)
      BY <2>4, <2>8 DEF IntentsOf
    <3>2. PICK i : i = n[2].intent
      OBVIOUS
    <3>3. UnderWay(h, i)'
      BY <2>5, <3>1, <3>2
    <3>4. Follows(m.intent, n[2].intent)
      BY <2>1, <2>3, <2>4, <2>8 DEF Before
    <3>5. QED
      BY <2>2, <3>2, <3>3, <3>4
  <2>9. (\A j \in ChatsOf(h) : history[j].text <= typed[h])' /\ (Replayable(h) => Sound(h, lastIntent[h]))'
    BY <1>1 DEF IntentsOf, Replayable, Sound, ChatsOf, EventsIn
  <2>10. QED
    BY <2>4, <2>7, <2>8, <2>9 DEF IntentsOf
<1>5. QED
  BY <1>3, <1>4


\* A guest's text that is saved is that of the intent being handled, and beyond all it has committed.
LEMMA SavedText ==
    ASSUME IInv, ActsOK, DueOK, Stored, NEW h \in Guest, IntentsOf(h), NEW e, e = saving.event,
           e.type = "chat", e.who = h
    PROVE  /\ handler.pc = "intent" /\ handler.g = h
           /\ handler.intent.client = e.client /\ handler.intent.text = e.text
           /\ e.client = durable.last[h] + 1 /\ durable.last[h] \in Nat /\ e.text \in Nat /\ typed[h] \in Nat
           /\ e.text <= typed[h] /\ \A k \in ChatsOf(h) : history[k].text < e.text
<1>1. /\ e \in Entry /\ memory = durable /\ saving # NoSave /\ ~saving.stored
      /\ durable.last \in [Guest -> Nat]
  BY StoredFacts, HostStates DEF Stored, IInv, States
<1>2. /\ handler.pc = "intent" /\ handler.g = h
      /\ handler.intent.client = e.client /\ handler.intent.text = e.text
  <2>1. Head(queue) = "message"
    <3>1. SUFFICES ASSUME Head(queue) # "message"
                   PROVE  FALSE
      OBVIOUS
    <3>2. Head(queue) \in Click /\ clicks[Head(queue)].op = "chat" /\ clicks[Head(queue)].g = h
      BY <1>1, <3>1, HeadFacts DEF IInv, SavingOK
    <3>3. QED
      BY <3>2, AuthorityAssumption DEF ActsOK
  <2>2. handler.pc = "intent" /\ handler.g = h
    BY <1>1, <2>1 DEF IInv, SavingOK
  <2>3. QED
    BY <1>1, <2>1, <2>2 DEF DueOK
<1>3. e.client = durable.last[h] + 1 /\ durable.last[h] \in Nat /\ e.text \in Nat /\ typed[h] \in Nat
  <2>1. ChatVerdict(durable, h, e.client) = "accepted"
    BY <1>1, AuthorityAssumption DEF DueOK, DueIn
  <2>2. QED
    BY <1>1, <2>1, InboxTypes DEF ChatVerdict, Entry
<1>4. e.text <= typed[h] /\ \A k \in ChatsOf(h) : history[k].text < e.text
  BY <1>2, <1>3 DEF IntentsOf, UnderWay, Sound
<1>5. QED
  BY <1>2, <1>3, <1>4

\* A text that is saved is that of the intent being handled: it comes before every other under way.
LEMMA SaveKeepsIntents ==
    ASSUME IInv, ActsOK, DueOK, Stored, NEW h \in Guest, IntentsOf(h)
    PROVE  IntentsOf(h)'
<1>1. PICK e, n : e = saving.event /\ n = Len(history)
  OBVIOUS
<1>2. /\ e \in Entry /\ memory = durable /\ history' = Append(history, e) /\ durable' = Applied(durable, e)
      /\ saving # NoSave /\ ~saving.stored
      /\ UNCHANGED <<inbox, handler, lastIntent, typed>>
  BY <1>1, StoredFacts DEF Stored, guestVars, netVars
<1>3. history \in Seq(Entry) /\ durable \in States(Entry) /\ n \in Nat
  <2>1. history \in Seq(Entry) /\ durable \in States(Range(history)) /\ Range(history) \subseteq Entry
    BY HostStates, RangeHistory DEF IInv, LogOK
  <2>2. \A s \in Seq(Range(history)) : s \in Seq(Entry)
    BY <2>1
  <2>3. QED
    BY <1>1, <2>1, <2>2 DEF States
<1>4. /\ history'[n + 1] = e /\ \A i \in 1 .. n : history'[i] = history[i]
      /\ ChatsOf(h) \subseteq 1 .. n
      /\ ChatsOf(h)' = IF e.type = "chat" /\ e.who = h THEN ChatsOf(h) \cup {n + 1} ELSE ChatsOf(h)
      /\ durable'.last[h] = IF e.type = "chat" /\ e.who = h THEN e.client ELSE durable.last[h]
  <2>1. history'[n + 1] = e /\ \A i \in 1 .. n : history'[i] = history[i]
    BY <1>1, <1>2, <1>3, LogGrown
  <2>2. ChatsOf(h)' = EventsIn(Append(history, e), "chat", h) /\ ChatsOf(h) \subseteq 1 .. n
    BY <1>1, <1>2 DEF ChatsOf, EventsIn
  <2>3. ChatsOf(h)' = IF e.type = "chat" /\ e.who = h THEN ChatsOf(h) \cup {n + 1} ELSE ChatsOf(h)
    <3>1. EventsIn(Append(history, e), "chat", h) =
            IF e.type = "chat" /\ e.who = h THEN EventsIn(history, "chat", h) \cup {Len(history) + 1}
            ELSE EventsIn(history, "chat", h)
      BY <1>2, <1>3, EventsGrow
    <3>2. ChatsOf(h) = EventsIn(history, "chat", h)
      BY DEF ChatsOf
    <3>3. QED
      BY <1>1, <2>2, <3>1, <3>2
  <2>4. QED
    BY <1>2, <1>3, <2>1, <2>2, <2>3, AppliedFields
<1>5. CASE ~(e.type = "chat" /\ e.who = h)
  <2>1. ChatsOf(h)' = ChatsOf(h) /\ \A k \in ChatsOf(h) : history'[k] = history[k]
    BY <1>4, <1>5
  <2>2. \A i : Sound(h, i) => Sound(h, i)'
    BY <1>2, <1>4, <1>5, <2>1 DEF Sound
  <2>3. \A i : UnderWay(h, i) => UnderWay(h, i)'
    BY <1>2, <2>2 DEF UnderWay, Replayable
  <2>4. QED
    BY <1>2, <2>1, <2>2, <2>3 DEF IntentsOf, Replayable
<1>6. CASE e.type = "chat" /\ e.who = h
  <2>1. /\ handler.pc = "intent" /\ handler.g = h
        /\ handler.intent.client = e.client /\ handler.intent.text = e.text
    BY <1>1, <1>6, SavedText
  <2>2. e.client = durable.last[h] + 1 /\ durable.last[h] \in Nat /\ e.text \in Nat /\ typed[h] \in Nat
    BY <1>1, <1>6, SavedText
  <2>3. e.text <= typed[h] /\ \A k \in ChatsOf(h) : history[k].text < e.text
    BY <1>1, <1>6, SavedText
  <2>4. (\A k \in ChatsOf(h) : history[k].text <= typed[h])'
    BY <1>2, <1>4, <1>6, <2>3 DEF IntentsOf
  <2>5. ASSUME NEW i \in Intents, Sound(h, i), Follows(handler.intent, i)
        PROVE  Sound(h, i)'
    <3>1. i.text <= typed'[h]
      BY <1>2, <2>5 DEF Sound
    <3>2. ASSUME i.client > durable'.last[h], NEW k \in ChatsOf(h)'
          PROVE  history'[k].text < i.text
      <4>1. durable'.last[h] = e.client /\ i.client > e.client /\ i.client > durable.last[h]
        BY <1>4, <1>6, <2>2, <2>5, <3>2 DEF Intents
      <4>2. e.text < i.text
        BY <2>1, <2>2, <2>5, <4>1 DEF Follows
      <4>3. k \in ChatsOf(h) => history[k].text < i.text
        BY <2>5, <4>1 DEF Sound
      <4>4. QED
        BY <1>4, <1>6, <3>2, <4>2, <4>3
    <3>3. QED
      BY <3>1, <3>2 DEF Sound
  <2>6. ASSUME NEW m \in Range(inbox[h]), m[2].type = "intent"
        PROVE  UnderWay(h, m[2].intent)'
    <3>1. UnderWay(h, m[2].intent) /\ Follows(handler.intent, m[2].intent)
      BY <2>1, <2>6 DEF IntentsOf
    <3>2. m[2].intent \in Intents
      BY <2>6, InboxTypes, RangeOfSeq DEF InboxEntry, Requests
    <3>3. PICK i \in Intents : i = m[2].intent
      BY <3>2
    <3>4. Sound(h, i)' /\ (Replayable(h) => Follows(i, lastIntent[h]))
      BY <2>5, <3>1, <3>3 DEF UnderWay
    <3>5. QED
      BY <1>2, <3>3, <3>4 DEF UnderWay, Replayable
  <2>7. ASSUME Replayable(h)
        PROVE  Sound(h, lastIntent[h])'
    <3>1. Sound(h, lastIntent[h]) /\ Follows(handler.intent, lastIntent[h]) /\ lastIntent[h] \in Intents
      BY <2>1, <2>7, InboxTypes DEF IntentsOf, UnderWay
    <3>2. PICK i \in Intents : i = lastIntent[h]
      BY <3>1
    <3>3. Sound(h, i)'
      BY <2>5, <3>1, <3>2
    <3>4. QED
      BY <1>2, <3>2, <3>3 DEF Sound, ChatsOf, EventsIn
  <2>8. UnderWay(h, handler.intent)'
    <3>1. handler.intent \in Intents /\ Sound(h, handler.intent)
      BY <2>1 DEF IntentsOf, UnderWay, IInv, QueueOK, HandlerOK, Handlers
    <3>2. PICK i \in Intents : i = handler.intent
      BY <3>1
    <3>3. Sound(h, i)'
      BY <2>5, <3>1, <3>2 DEF Follows
    <3>4. Replayable(h) => Follows(i, lastIntent[h])
      BY <2>1, <3>2 DEF IntentsOf, UnderWay
    <3>5. QED
      BY <1>2, <3>2, <3>3, <3>4 DEF UnderWay, Replayable, Sound, ChatsOf, EventsIn
  <2>9. QED
    BY <1>2, <2>4, <2>6, <2>7, <2>8 DEF IntentsOf, Replayable
<1>7. QED
  BY <1>5, <1>6


\* A new text is beyond all of the guest's that were typed before.
LEMMA SubmitKeepsIntents ==
    ASSUME IInv, NEW g \in Guest, GuestSubmits(g), NEW h \in Guest, IntentsOf(h)
    PROVE  IntentsOf(h)'
<1>1. PICK i : i = [client |-> cred[g].next, text |-> typed[g] + 1]
  OBVIOUS
<1>2. /\ typed' = [typed EXCEPT ![g] = @ + 1] /\ lastIntent' = [lastIntent EXCEPT ![g] = i]
      /\ SendToHost(g, Intent(i)) /\ UNCHANGED <<history, durable, handler>>
  BY <1>1 DEF GuestSubmits, hostVars, auxVars
<1>3. /\ typed \in [Guest -> Nat] /\ lastIntent \in [Guest -> Intents]
      /\ inbox \in [Guest -> Seq(InboxEntry)]
  BY InboxTypes
<1>4. i \in Intents /\ i.text = typed[g] + 1 /\ Intent(i) \in Requests
  <2>1. cred[g].next \in Nat
    BY CredTypes DEF IInv, GuestsOK
  <2>2. i \in Intents
    BY <1>1, <1>3, <2>1 DEF Intents
  <2>3. Intent(i) \in Requests
    BY <2>2 DEF Intent, Requests
  <2>4. QED
    BY <1>1, <2>2, <2>3
<1>5. CASE h # g
  <2>1. /\ inbox'[h] = inbox[h] /\ typed'[h] = typed[h] /\ lastIntent'[h] = lastIntent[h]
    BY <1>2, <1>3, <1>4, <1>5, SentToHost
  <2>2. \A j : Sound(h, j) => Sound(h, j)'
    BY <1>2, <2>1 DEF Sound, ChatsOf, EventsIn
  <2>3. \A j : UnderWay(h, j) => UnderWay(h, j)'
    BY <2>1, <2>2 DEF UnderWay, Replayable
  <2>4. (\A k \in ChatsOf(h) : history[k].text <= typed[h])'
    BY <1>2, <2>1 DEF IntentsOf, ChatsOf, EventsIn
  <2>5. (Replayable(h) => Sound(h, lastIntent[h]))'
    BY <1>2, <2>1 DEF IntentsOf, Replayable, Sound, ChatsOf, EventsIn
  <2>6. ASSUME NEW m \in Range(inbox'[h]), m[2].type = "intent"
        PROVE  UnderWay(h, m[2].intent)'
    <3>1. PICK j : j = m[2].intent
      OBVIOUS
    <3>2. UnderWay(h, j)'
      BY <2>1, <2>3, <2>6, <3>1 DEF IntentsOf
    <3>3. QED
      BY <3>1, <3>2
  <2>7. handler.pc = "intent" /\ handler.g = h => UnderWay(h, handler.intent)'
    <3>1. PICK j : j = handler.intent
      OBVIOUS
    <3>2. UnderWay(h, j) => UnderWay(h, handler.intent)'
      BY <1>2, <2>1, <3>1 DEF UnderWay, Sound, Replayable, ChatsOf, EventsIn
    <3>3. QED
      BY <3>1, <3>2 DEF IntentsOf
  <2>8. QED
    BY <1>2, <2>1, <2>4, <2>5, <2>6, <2>7 DEF IntentsOf
<1>6. CASE h = g
  <2>1. typed'[g] = typed[g] + 1 /\ typed[g] \in Nat /\ lastIntent'[g] = i
    BY <1>2, <1>3
  <2>2. \A k \in ChatsOf(g) : history[k].text \in Nat /\ history[k].text <= typed[g]
    <3>1. ASSUME NEW k \in ChatsOf(g)
          PROVE  history[k].text \in Nat
      <4>1. k \in 1 .. Len(history) /\ history \in Seq(Entry)
        BY <3>1 DEF ChatsOf, EventsIn, IInv, LogOK
      <4>2. QED
        BY <4>1 DEF Entry
    <3>2. QED
      BY <1>6, <3>1 DEF IntentsOf
  <2>3. Sound(g, i)'
    BY <1>2, <1>4, <2>1, <2>2 DEF Sound, ChatsOf, EventsIn
  <2>4. ASSUME NEW j \in Intents, Sound(g, j)
        PROVE  Sound(g, j)' /\ Follows(j, i) /\ UnderWay(g, j)'
    <3>1. Sound(g, j)'
      BY <1>2, <2>1, <2>4 DEF Sound, ChatsOf, EventsIn, Intents
    <3>2. Follows(j, i)
      BY <1>4, <2>1, <2>4 DEF Sound, Follows, Intents
    <3>3. QED
      BY <2>1, <3>1, <3>2 DEF UnderWay
  <2>5. (\A k \in ChatsOf(g) : history[k].text <= typed[g])'
    BY <1>2, <2>1, <2>2 DEF ChatsOf, EventsIn
  <2>6. (Replayable(g) => Sound(g, lastIntent[g]))'
    BY <2>1, <2>3 DEF Sound, ChatsOf, EventsIn
  <2>7. UnderWay(g, i)'
    BY <2>1, <2>3 DEF UnderWay, Follows
  <2>8. PICK x : x = <<page[g], Intent(i)>>
    OBVIOUS
  <2>9. /\ x[2].type = "intent" /\ x[2].intent = i
        /\ \/ inbox'[g] = inbox[g]
           \/ inbox'[g] = Append(inbox[g], x) /\ x \in InboxEntry
    BY <1>2, <1>4, <2>8, SentToHost DEF Intent
  <2>10. ASSUME NEW m \in Range(inbox[g]), m[2].type = "intent"
         PROVE  m[2].intent \in Intents /\ Sound(g, m[2].intent)
    <3>1. m[2].intent \in Intents
      BY <1>3, <2>10, RangeOfSeq DEF InboxEntry, Requests
    <3>2. QED
      BY <1>6, <2>10, <3>1 DEF IntentsOf, UnderWay
  <2>11. \A m \in Range(inbox'[g]) : m \in Range(inbox[g]) \/ m = x
    <3>1. inbox[g] \in Seq(InboxEntry)
      BY <1>3
    <3>2. x \in InboxEntry => Range(Append(inbox[g], x)) = Range(inbox[g]) \cup {x}
      BY <3>1, RangeAppend
    <3>3. QED
      BY <2>9, <3>2
  <2>12. ASSUME NEW m \in Range(inbox'[g]), m[2].type = "intent"
         PROVE  UnderWay(g, m[2].intent)'
    <3>1. CASE m \in Range(inbox[g])
      <4>1. PICK j \in Intents : j = m[2].intent /\ Sound(g, j)
        BY <2>10, <2>12, <3>1
      <4>2. UnderWay(g, j)'
        BY <2>4, <4>1
      <4>3. QED
        BY <4>1, <4>2
    <3>2. CASE m = x
      BY <2>7, <2>9, <3>2
    <3>3. QED
      BY <2>11, <2>12, <3>1, <3>2
  <2>13. Ordered(inbox'[g])
    <3>1. \A m \in Range(inbox[g]) : Before(m, x)
      BY <2>4, <2>9, <2>10 DEF Before
    <3>2. inbox[g] \in Seq(InboxEntry) /\ Ordered(inbox[g])
      BY <1>3, <1>6 DEF IntentsOf
    <3>3. QED
      BY <2>9, <3>1, <3>2, OrderedAppend
  <2>14. ASSUME handler.pc = "intent", handler.g = g
         PROVE  /\ UnderWay(g, handler.intent)'
                /\ \A m \in Range(inbox'[g]) : m[2].type = "intent" => Follows(handler.intent, m[2].intent)
    <3>1. handler.intent \in Intents /\ Sound(g, handler.intent)
      BY <1>6, <2>14 DEF IntentsOf, UnderWay, IInv, QueueOK, HandlerOK, Handlers
    <3>2. PICK j \in Intents : j = handler.intent
      BY <3>1
    <3>3. Follows(j, i) /\ UnderWay(g, j)'
      BY <2>4, <3>1, <3>2
    <3>4. UnderWay(g, handler.intent)'
      BY <1>2, <3>2, <3>3 DEF UnderWay, Sound, ChatsOf, EventsIn
    <3>5. \A m \in Range(inbox'[g]) : m[2].type = "intent" => Follows(handler.intent, m[2].intent)
      BY <1>6, <2>9, <2>11, <2>14, <3>2, <3>3 DEF IntentsOf
    <3>6. QED
      BY <3>4, <3>5
  <2>15. QED
    BY <1>2, <1>6, <2>5, <2>6, <2>12, <2>13, <2>14 DEF IntentsOf
<1>7. QED
  BY <1>5, <1>6


\* A replay comes after every intent sent before it.
LEMMA ReplayKeepsIntents ==
    ASSUME IInv, NEW g \in Guest, Replayable(g), SendToHost(g, Intent(lastIntent[g])),
           UNCHANGED <<history, durable, typed, lastIntent, handler>>, NEW h \in Guest, IntentsOf(h)
    PROVE  IntentsOf(h)'
<1>1. inbox \in [Guest -> Seq(InboxEntry)] /\ lastIntent[g] \in Intents
  BY InboxTypes
<1>2. PICK i \in Intents : i = lastIntent[g]
  BY <1>1
<1>3. Intent(i) \in Requests
  BY DEF Intent, Requests
<1>4. PICK x : x = <<page[g], Intent(i)>>
  OBVIOUS
<1>5. /\ \A k \in Guest \ {g} : inbox'[k] = inbox[k]
      /\ x[2].type = "intent" /\ x[2].intent = i
      /\ inbox'[g] = inbox[g] \/ (inbox'[g] = Append(inbox[g], x) /\ x \in InboxEntry)
  BY <1>2, <1>3, <1>4, SentToHost DEF Intent
<1>6. CASE inbox'[h] = inbox[h]
  BY <1>6, KeepsAll, QuietStep
<1>7. CASE h = g /\ inbox'[g] = Append(inbox[g], x) /\ x \in InboxEntry
  <2>1. inbox[g] \in Seq(InboxEntry)
    BY <1>1
  <2>2. Range(inbox'[g]) = Range(inbox[g]) \cup {x}
    <3>1. Range(Append(inbox[g], x)) = Range(inbox[g]) \cup {x}
      BY <1>7, <2>1, RangeAppend
    <3>2. QED
      BY <1>7, <3>1
  <2>3. \A j : /\ Sound(g, j) => Sound(g, j)'
               /\ UnderWay(g, j) => UnderWay(g, j)'
    BY DEF UnderWay, Sound, Replayable, ChatsOf, EventsIn
  <2>4. UnderWay(g, i)
    BY <1>2, <1>7 DEF IntentsOf, UnderWay, Follows
  <2>5. ASSUME NEW m \in Range(inbox'[g]), m[2].type = "intent"
        PROVE  /\ UnderWay(g, m[2].intent)'
               /\ handler.pc = "intent" /\ handler.g = g => Follows(handler.intent, m[2].intent)
    <3>1. CASE m = x
      <4>1. handler.pc = "intent" /\ handler.g = g => Follows(handler.intent, i)
        BY <1>2, <1>7 DEF IntentsOf, UnderWay
      <4>2. QED
        BY <1>5, <2>3, <2>4, <3>1, <4>1
    <3>2. CASE m \in Range(inbox[g])
      <4>1. PICK j : j = m[2].intent
        OBVIOUS
      <4>2. UnderWay(g, j) /\ (handler.pc = "intent" /\ handler.g = g => Follows(handler.intent, j))
        BY <1>7, <2>5, <3>2, <4>1 DEF IntentsOf
      <4>3. QED
        BY <2>3, <4>1, <4>2
    <3>3. QED
      BY <2>2, <2>5, <3>1, <3>2
  <2>6. Ordered(inbox'[g])
    <3>1. \A m \in Range(inbox[g]) : Before(m, x)
      BY <1>2, <1>5, <1>7 DEF IntentsOf, UnderWay, Before
    <3>2. Ordered(inbox[g])
      BY <1>7 DEF IntentsOf
    <3>3. QED
      BY <1>7, <2>1, <3>1, <3>2, OrderedAppend
  <2>7. (\A k \in ChatsOf(g) : history[k].text <= typed[g])' /\ (Replayable(g) => Sound(g, lastIntent[g]))'
    BY <1>7 DEF IntentsOf, Replayable, Sound, ChatsOf, EventsIn
  <2>8. handler.pc = "intent" /\ handler.g = g => UnderWay(g, handler.intent)'
    BY <1>7 DEF IntentsOf, UnderWay, Replayable, Sound, ChatsOf, EventsIn
  <2>9. QED
    BY <1>7, <2>5, <2>6, <2>7, <2>8 DEF IntentsOf
<1>8. QED
  BY <1>5, <1>6, <1>7

LEMMA IntentsStep == IInv /\ ActsOK /\ DueOK /\ IntentsOK /\ [Next]_vars => IntentsOK'
<1> SUFFICES ASSUME IInv, ActsOK, DueOK, IntentsOK, [Next]_vars, NEW h \in Guest
             PROVE  IntentsOf(h)'
  BY DEF IntentsOK
<1>1. /\ IntentsOf(h) /\ IntentsKept(inbox[h], inbox[h])
      /\ inbox \in [Guest -> Seq(InboxEntry)] /\ lastIntent \in [Guest -> Intents]
  BY KeepsAll, InboxTypes DEF IntentsOK
<1>2. CASE /\ UNCHANGED <<history, durable, inbox, lastIntent, typed>>
           /\ handler'.pc = "intent" => handler' = handler
  BY <1>1, <1>2, QuietStep
<1>3. CASE UNCHANGED vars
  BY <1>2, <1>3 DEF vars, hostVars, guestVars, netVars, auxVars
<1>4. ASSUME NEW g \in Guest, HostTakes(g)
      PROVE  IntentsOf(h)'
  BY <1>1, <1>4, TakeKeepsIntents
<1>5. ASSUME NEW g \in Guest, GuestSubmits(g)
      PROVE  IntentsOf(h)'
  BY <1>1, <1>5, SubmitKeepsIntents
<1>6. CASE Stored
  BY <1>1, <1>6, SaveKeepsIntents
<1>7. CASE HostCrashes
  <2>1. /\ inbox'[h] = << >> /\ handler'.pc # "intent"
        /\ UNCHANGED <<history, durable, lastIntent, typed>>
    BY <1>7, IdleOK DEF HostCrashes, Trouble
  <2>2. QED
    BY <1>1, <2>1, KeepsNone, QuietStep
<1>8. ASSUME NEW g \in Guest, GuestProbes(g)
      PROVE  IntentsOf(h)'
  <2>1. UNCHANGED <<history, durable, typed, lastIntent, handler>>
    BY <1>8 DEF GuestProbes, Trouble, hostVars
  <2>2. CASE Replayable(g) /\ SendToHost(g, Intent(lastIntent[g]))
    BY <1>1, <2>1, <2>2, ReplayKeepsIntents
  <2>3. ASSUME NEW cursor \in Nat, SendToHost(g, SyncRequest(cursor))
        PROVE  IntentsOf(h)'
    <3>1. SyncRequest(cursor) \in Requests /\ SyncRequest(cursor).type # "intent"
      BY RequestTypes DEF SyncRequest, Requests
    <3>2. PICK x \in Requests : x = SyncRequest(cursor)
      BY <3>1
    <3>3. IntentsKept(inbox'[h], inbox[h])
      BY <2>3, <3>1, <3>2, SendsNoIntent
    <3>4. QED
      BY <1>1, <2>1, <3>3, QuietStep
  <2>4. \/ Replayable(g) /\ SendToHost(g, Intent(lastIntent[g]))
        \/ SendToHost(g, SyncRequest(ForceSnapshot)) \/ SendToHost(g, SyncRequest(0))
    BY <1>8 DEF GuestProbes, Replayable
  <2>5. QED
    BY <2>2, <2>3, <2>4, AuthorityAssumption
<1>9. ASSUME NEW g \in Guest, GuestReceives(g)
      PROVE  IntentsOf(h)'
  <2>1. UNCHANGED <<history, durable, typed, lastIntent, handler>>
    BY <1>9 DEF GuestReceives, hostVars, auxVars
  <2>2. UNCHANGED inbox \/ SendToHost(g, SyncRequest(ForceSnapshot))
    <3>1. /\ \A s, v : TakeIn(g, s, v) => UNCHANGED inbox \/ SendToHost(g, SyncRequest(ForceSnapshot))
          /\ AskForSnapshot(g) => SendToHost(g, SyncRequest(ForceSnapshot))
      BY DEF TakeIn, AskForSnapshot
    <3>2. PICK m : m = Head(toGuest[g])
      OBVIOUS
    <3>3. UNCHANGED inbox \/ AskForSnapshot(g) \/ \E s \in GoodSyncs : \E v : TakeIn(g, s, v)
      BY <1>9, <3>2, ReceiveForms
    <3>4. QED
      BY <3>1, <3>3
  <2>3. SyncRequest(ForceSnapshot) \in Requests /\ SyncRequest(ForceSnapshot).type # "intent"
    BY AuthorityAssumption, RequestTypes DEF SyncRequest, Requests
  <2>4. IntentsKept(inbox'[h], inbox[h])
    <3>1. PICK x \in Requests : x = SyncRequest(ForceSnapshot)
      BY <2>3
    <3>2. QED
      BY <1>1, <2>2, <2>3, <3>1, SendsNoIntent
  <2>5. QED
    BY <1>1, <2>1, <2>4, QuietStep
<1>10. ASSUME NEW g \in Guest, Connect(g)
       PROVE  IntentsOf(h)'
  <2>1. PICK x : x = <<page[g], AuthRequest(IF cred[g].cached THEN cred[g].replica.seq ELSE ForceSnapshot)>>
    OBVIOUS
  <2>2. /\ inbox' = [inbox EXCEPT ![g] = Append(@, x)]
        /\ UNCHANGED <<history, durable, typed, lastIntent, handler>>
    BY <1>10, <2>1 DEF Connect, auxVars
  <2>3. x \in InboxEntry /\ x[2].type # "intent"
    <3>1. page[g] \in 1 .. MaxPages /\ cred[g].replica.seq \in Nat
      BY InboxTypes, CredTypes DEF IInv, GuestsOK
    <3>2. PICK n : n = IF cred[g].cached THEN cred[g].replica.seq ELSE ForceSnapshot
      OBVIOUS
    <3>3. n \in Nat /\ NoIntent \in Intents
      BY <3>1, <3>2, AuthorityAssumption, RequestTypes
    <3>4. x = <<page[g], AuthRequest(n)>>
      BY <2>1, <3>2
    <3>5. QED
      BY <3>1, <3>3, <3>4 DEF AuthRequest, InboxEntry, Requests
  <2>4. IntentsKept(inbox'[h], inbox[h])
    <3>1. inbox[h] \in Seq(InboxEntry)
      BY <1>1
    <3>2. CASE h = g
      <4>1. inbox'[h] = Append(inbox[h], x)
        BY <1>1, <2>2, <3>2
      <4>2. QED
        BY <2>3, <3>1, <4>1, KeepsOthers
    <3>3. CASE h # g
      BY <1>1, <2>2, <3>3
    <3>4. QED
      BY <3>2, <3>3
  <2>5. QED
    BY <1>1, <2>2, <2>4, QuietStep
<1>11. ASSUME NEW g \in Guest, GuestReloads(g) \/ Disconnect(g)
       PROVE  IntentsOf(h)'
  <2>1. /\ UNCHANGED <<history, durable, typed, handler>> /\ Unlink(g)
        /\ UNCHANGED lastIntent \/ lastIntent' = [lastIntent EXCEPT ![g] = NoIntent]
    BY <1>11 DEF GuestReloads, Disconnect, Trouble, hostVars, auxVars
  <2>2. lastIntent'[h] \in {lastIntent[h], NoIntent}
    BY <1>1, <2>1
  <2>3. IntentsKept(inbox'[h], inbox[h])
    <3>1. PICK S : UNCHANGED inbox \/ inbox' = [inbox EXCEPT ![g] = Only(@, S)]
      BY <2>1 DEF Unlink
    <3>2. inbox[h] \in Seq(InboxEntry)
      BY <1>1
    <3>3. inbox'[h] \in {inbox[h], Only(inbox[h], S)}
      BY <1>1, <3>1
    <3>4. QED
      BY <1>1, <3>2, <3>3, KeepsOnly
  <2>4. QED
    BY <1>1, <2>1, <2>2, <2>3, QuietStep
<1>12. QED
  BY <1>2, <1>3, <1>4, <1>5, <1>6, <1>7, <1>8, <1>9, <1>10, <1>11, IntentFrame


-------------------------------------------------------------------------------
(***************************************************************************)
(* Messages on their way to a guest. An event may arrive before an answer    *)
(* that is older, so the messages are in no order; but a snapshot is of what  *)
(* the host holds when it is sent, and no message before it carries beyond.  *)
(* This is why a guest that takes a snapshot in does not go back.            *)
(***************************************************************************)
Caught(s, r, top) ==
    /\ r <= top
    /\ \A n \in 1 .. Len(s) : Carries(s[n]) <= top
    /\ \A n \in 1 .. Len(s) : IsSnapshot(s[n]) =>
          /\ r <= Carries(s[n])
          /\ \A m \in 1 .. n : Carries(s[m]) <= Carries(s[n])

InOrder(g) ==
    /\ up => Caught(toGuest[g], cred[g].replica.seq, memory.seq)
    /\ ~up => toGuest[g] = << >>

OrderOK ==
    /\ handler.event.seq <= memory.seq
    /\ \A g \in Guest : InOrder(g)

\* Messages that carry somewhere.
LEMMA CaughtEmpty ==
    ASSUME NEW r \in Nat, NEW top \in Nat, r <= top
    PROVE  Caught(<< >>, r, top)
BY DEF Caught

LEMMA CaughtAppend ==
    ASSUME NEW T, NEW s \in Seq(T), NEW x \in T, \A y \in T : Carries(y) \in Nat,
           NEW r \in Nat, NEW top \in Nat, NEW next \in Nat, top <= next,
           Caught(s, r, top), Carries(x) <= next, IsSnapshot(x) => Carries(x) = next
    PROVE  Caught(Append(s, x), r, next)
<1>1. PICK t, n : t = Append(s, x) /\ n = Len(s)
  OBVIOUS
<1>2. /\ n \in Nat /\ Len(t) = n + 1 /\ t[n + 1] = x
      /\ \A i \in 1 .. n : t[i] = s[i] /\ Carries(s[i]) \in Nat /\ Carries(s[i]) <= top
  BY <1>1, LogGrown DEF Caught
<1>3. r <= next
  BY DEF Caught
<1>4. \A i \in 1 .. n + 1 : Carries(t[i]) <= next
  <2>1. ASSUME NEW i \in 1 .. n + 1
        PROVE  Carries(t[i]) <= next
    <3>1. CASE i = n + 1
      BY <1>2, <3>1
    <3>2. CASE i # n + 1
      <4>1. i \in 1 .. n
        BY <1>2, <3>2
      <4>2. t[i] = s[i] /\ Carries(s[i]) \in Nat /\ Carries(s[i]) <= top
        BY <1>2, <4>1
      <4>3. QED
        BY <4>2
    <3>3. QED
      BY <3>1, <3>2
  <2>2. QED
    BY <2>1
<1>5. ASSUME NEW i \in 1 .. n + 1, IsSnapshot(t[i])
      PROVE  r <= Carries(t[i]) /\ \A m \in 1 .. i : Carries(t[m]) <= Carries(t[i])
  <2>1. CASE i = n + 1
    <3>1. Carries(t[i]) = next
      BY <1>2, <1>5, <2>1
    <3>2. QED
      BY <1>2, <1>3, <1>4, <2>1, <3>1
  <2>2. CASE i # n + 1
    <3>1. i \in 1 .. n /\ t[i] = s[i] /\ \A m \in 1 .. i : m \in 1 .. n /\ t[m] = s[m]
      BY <1>2, <2>2
    <3>2. QED
      BY <1>1, <1>5, <3>1 DEF Caught
  <2>3. QED
    BY <2>1, <2>2
<1>6. QED
  BY <1>1, <1>2, <1>3, <1>4, <1>5 DEF Caught

\* The first message is taken in or not, or the guest starts over.
LEMMA CaughtTail ==
    ASSUME NEW T, NEW s \in Seq(T), s # << >>, NEW r \in Nat, NEW top \in Nat,
           NEW next \in Nat, next = r \/ next = Carries(Head(s)), Caught(s, r, top)
    PROVE  Caught(Tail(s), next, top)
<1>1. PICK t : t = Tail(s)
  OBVIOUS
<1>2. /\ Len(s) \in Nat \ {0} /\ Len(t) = Len(s) - 1 /\ Head(s) = s[1]
      /\ \A i \in 1 .. Len(t) : t[i] = s[i + 1] /\ i + 1 \in 1 .. Len(s)
  BY <1>1
<1>3. 1 \in 1 .. Len(s) /\ Carries(s[1]) <= top /\ next <= top
  BY <1>2 DEF Caught
<1>4. ASSUME NEW i \in 1 .. Len(t), IsSnapshot(t[i])
      PROVE  next <= Carries(t[i]) /\ \A m \in 1 .. i : Carries(t[m]) <= Carries(t[i])
  <2>1. t[i] = s[i + 1] /\ i + 1 \in 1 .. Len(s) /\ IsSnapshot(s[i + 1]) /\ 1 \in 1 .. i + 1
    BY <1>2, <1>4
  <2>2. r <= Carries(s[i + 1]) /\ \A m \in 1 .. i + 1 : Carries(s[m]) <= Carries(s[i + 1])
    BY <2>1 DEF Caught
  <2>3. ASSUME NEW m \in 1 .. i
        PROVE  Carries(t[m]) <= Carries(t[i])
    <3>1. m + 1 \in 1 .. i + 1 /\ t[m] = s[m + 1]
      BY <1>2, <2>1
    <3>2. QED
      BY <2>1, <2>2, <3>1
  <2>4. QED
    BY <1>2, <2>1, <2>2, <2>3
<1>5. QED
  BY <1>1, <1>2, <1>3, <1>4 DEF Caught

LEMMA CaughtReset ==
    ASSUME NEW T, NEW s \in Seq(T), \A y \in T : Carries(y) \in Nat,
           NEW r \in Nat, NEW top \in Nat, Caught(s, r, top)
    PROVE  Caught(s, 0, top)
<1>1. \A n \in 1 .. Len(s) : Carries(s[n]) \in Nat
  OBVIOUS
<1>2. QED
  BY <1>1 DEF Caught

LEMMA CaughtGrow ==
    ASSUME NEW T, NEW s \in Seq(T), \A y \in T : Carries(y) \in Nat,
           NEW r \in Nat, NEW top \in Nat, NEW next \in Nat, top <= next, Caught(s, r, top)
    PROVE  Caught(s, r, next)
<1>1. \A n \in 1 .. Len(s) : Carries(s[n]) \in Nat
  OBVIOUS
<1>2. QED
  BY <1>1 DEF Caught


LEMMA MessagesCarry ==
    ASSUME IInv
    PROVE  /\ \A m \in Messages : Carries(m) \in Nat
           /\ \A g \in Guest : toGuest[g] \in Seq(Messages) /\ cred[g].replica.seq \in Nat
           /\ memory.seq \in Nat /\ memory \in States(Range(history))
<1>1. LogOK /\ GuestsOK /\ Range(history) \subseteq Entry /\ memory.seq \in Nat
  BY RangeHistory, MemorySeq DEF IInv
<1>2. ASSUME NEW m \in Messages
      PROVE  Carries(m) \in Nat
  <2>1. m.sync # NoSync => m.sync.seq \in Nat
    BY MessageForms DEF GoodSyncs, Syncs
  <2>2. m.event \in Range(history) \cup {NoEvent}
    BY DEF Messages
  <2>3. m.event.seq \in Nat
    BY <1>1, <2>2 DEF Entry, NoEvent
  <2>4. QED
    BY <2>1, <2>3 DEF Carries
<1>3. QED
  BY <1>1, <1>2, CredTypes, HostStates DEF GuestsOK, IInv

\* One message is sent, to nobody, to one or to many.
Sends(x) == \A h \in Guest : toGuest'[h] = toGuest[h] \/ toGuest'[h] = Append(toGuest[h], x)

LEMMA SendToSends ==
    ASSUME IInv, NEW g \in Guest, NEW k, NEW x, SendTo(g, k, x)
    PROVE  Sends(x)
BY DEF SendTo, Sends, IInv, GuestsOK

LEMMA BroadcastSends ==
    ASSUME IInv, NEW e, NEW S, Broadcast(e, S)
    PROVE  Sends(Canonical(e))
BY DEF Broadcast, Sends

LEMMA OrderKept ==
    ASSUME IInv, NEW h \in Guest, InOrder(h), UNCHANGED up, toGuest'[h] = toGuest[h],
           memory'.seq \in Nat, memory.seq <= memory'.seq, cred'[h].replica.seq = cred[h].replica.seq
    PROVE  InOrder(h)'
<1>1. \A y \in Messages : Carries(y) \in Nat
  BY MessagesCarry
<1>2. toGuest[h] \in Seq(Messages) /\ cred[h].replica.seq \in Nat /\ memory.seq \in Nat
  BY MessagesCarry
<1>3. CASE up
  <2>1. Caught(toGuest[h], cred[h].replica.seq, memory.seq)
    BY <1>3 DEF InOrder
  <2>2. Caught(toGuest[h], cred[h].replica.seq, memory'.seq)
    BY <1>1, <1>2, <2>1, CaughtGrow
  <2>3. Caught(toGuest'[h], cred'[h].replica.seq, memory'.seq)
    BY <2>2
  <2>4. QED
    BY <1>3, <2>3 DEF InOrder
<1>4. CASE ~up
  BY <1>4 DEF InOrder
<1>5. QED
  BY <1>3, <1>4

LEMMA SendKeepsOrder ==
    ASSUME IInv, NEW h \in Guest, InOrder(h), up, up', NEW x \in Messages, Sends(x),
           memory'.seq \in Nat, memory.seq <= memory'.seq, Carries(x) <= memory'.seq,
           IsSnapshot(x) => Carries(x) = memory'.seq, UNCHANGED cred
    PROVE  InOrder(h)'
<1>1. \A y \in Messages : Carries(y) \in Nat
  BY MessagesCarry
<1>2. toGuest[h] \in Seq(Messages) /\ cred[h].replica.seq \in Nat /\ memory.seq \in Nat
  BY MessagesCarry
<1>3. Caught(toGuest[h], cred[h].replica.seq, memory.seq)
  BY DEF InOrder
<1>4. Caught(toGuest[h], cred[h].replica.seq, memory'.seq)
  BY <1>1, <1>2, <1>3, CaughtGrow
<1>5. Caught(Append(toGuest[h], x), cred[h].replica.seq, memory'.seq)
  BY <1>1, <1>2, <1>3, CaughtAppend
<1>6. toGuest'[h] = toGuest[h] \/ toGuest'[h] = Append(toGuest[h], x)
  BY DEF Sends
<1>7. Caught(toGuest'[h], cred'[h].replica.seq, memory'.seq)
  BY <1>4, <1>5, <1>6
<1>8. QED
  BY <1>7 DEF InOrder

\* The host's sequence never goes back while its page is open.
LEMMA MemoryGrows ==
    ASSUME IInv, [Next]_vars
    PROVE  /\ memory'.seq \in Nat
           /\ ~HostCrashes => memory.seq <= memory'.seq
           /\ CommitMessage \/ (\E c \in Click : CommitClick(c)) =>
                 up /\ up' /\ memory'.seq = saving.event.seq /\ saving.event \in Range(history)
<1>1. memory.seq \in Nat /\ LogOK /\ MemoryOK /\ SavingOK /\ ClosedOK
  BY MemorySeq DEF IInv
<1>2. CASE CommitMessage \/ \E c \in Click : CommitClick(c)
  <2>1. saving.stored /\ memory' = saving.next /\ UNCHANGED up
    BY <1>2 DEF CommitMessage, CommitClick
  <2>2. saving # NoSave
    BY <2>1, NoSaveFacts
  <2>3. /\ saving.next = durable /\ saving.event = history[Len(history)] /\ history # << >>
        /\ saving.event.seq = memory.seq + 1 /\ up
    BY <1>1, <2>1, <2>2 DEF MemoryOK, SavingOK, ClosedOK
  <2>4. durable.seq = Len(history) /\ Len(history) \in 1 .. Len(history)
    <3>1. history \in Seq(Entry) /\ durable.seq = Len(history)
      BY <1>1, HostStates DEF LogOK
    <3>2. QED
      BY <2>3, <3>1
  <2>5. saving.event.seq = Len(history) /\ saving.event \in Range(history)
    BY <1>1, <2>3, <2>4, InRange DEF LogOK
  <2>6. QED
    BY <1>1, <2>1, <2>3, <2>4, <2>5
<1>3. CASE HostRestores
  <2>1. memory = InitialState /\ memory' = durable
    BY <1>1, <1>3 DEF HostRestores, MemoryOK
  <2>2. memory.seq = 0 /\ durable.seq \in Nat
    BY <1>1, <2>1, InitialStateType, HostStates
  <2>3. ~CommitMessage /\ \A c \in Click : ~CommitClick(c)
    BY <1>1, <1>3, NoSaveFacts DEF HostRestores, CommitMessage, CommitClick, ClosedOK
  <2>4. QED
    BY <2>1, <2>2, <2>3
<1>4. CASE HostCrashes
  <2>1. memory'.seq = 0
    BY <1>4, InitialStateType DEF HostCrashes
  <2>2. CommitMessage \/ (\E c \in Click : CommitClick(c)) => FALSE
    BY <1>4 DEF HostCrashes, CommitMessage, CommitClick, ClosedOK
  <2>3. QED
    BY <1>4, <2>1, <2>2
<1>5. CASE UNCHANGED memory /\ ~CommitMessage /\ \A c \in Click : ~CommitClick(c)
  BY <1>1, <1>5
<1>6. CASE UNCHANGED vars
  BY <1>1, <1>2, <1>6 DEF vars, hostVars
<1>7. QED
  BY <1>2, <1>3, <1>4, <1>5, <1>6, MemoryFrame


\* What the host sends of itself: no snapshot but of the state it holds.
LEMMA HostSends ==
    ASSUME IInv, OrderOK, NEW h \in Guest,
           HostSyncs \/ HostAnnounces \/ HostAuthenticates \/ (\E g \in Guest : HostTakes(g))
    PROVE  InOrder(h)'
<1>1. /\ memory.seq \in Nat /\ memory' = memory /\ InOrder(h) /\ UNCHANGED <<up, cred>>
      /\ memory \in States(Range(history)) /\ Range(history) \subseteq Entry
  BY MessagesCarry, RangeHistory
     DEF OrderOK, HostSyncs, HostAnnounces, HostAuthenticates, HostTakes, guestVars, IInv
<1>2. CASE toGuest'[h] = toGuest[h]
  BY <1>1, <1>2, OrderKept
<1>3. up
  <2>1. ~up => handler.pc = "idle"
    BY IdleOK DEF IInv, ClosedOK
  <2>2. up \/ handler.pc # "idle"
    BY DEF HostSyncs, HostAnnounces, HostAuthenticates, HostTakes
  <2>3. QED
    BY <2>1, <2>2
<1>4. ASSUME NEW x \in Messages, Sends(x), Carries(x) <= memory.seq, IsSnapshot(x) => Carries(x) = memory.seq
      PROVE  InOrder(h)'
  BY <1>1, <1>3, <1>4, SendKeepsOrder
<1>5. ASSUME NEW x \in {Denied, Rejected(NoSync)}, Sends(x)
      PROVE  InOrder(h)'
  <2>1. x \in Messages /\ Carries(x) = 0 /\ ~IsSnapshot(x)
    BY <1>5, MessageTypes DEF Denied, Rejected, Carries, IsSnapshot, NoEvent
  <2>2. QED
    BY <1>1, <1>4, <1>5, <2>1
<1>6. CASE \E g \in Guest : HostTakes(g)
  <2>1. PICK g \in Guest : HostTakes(g)
    BY <1>6
  <2>2. PICK k : k = Head(inbox[g])[1]
    OBVIOUS
  <2>3. UNCHANGED toGuest \/ SendTo(g, k, Denied) \/ SendTo(g, k, Rejected(NoSync))
    BY <2>1, <2>2 DEF HostTakes
  <2>4. QED
    BY <1>2, <1>5, <2>3, SendToSends
<1>7. CASE HostAuthenticates
  <2>1. UNCHANGED toGuest \/ SendTo(handler.g, handler.k, Denied)
    BY <1>7 DEF HostAuthenticates
  <2>2. handler.g \in Guest
    BY <1>7 DEF HostAuthenticates, IInv, QueueOK, HandlerOK
  <2>3. QED
    BY <1>2, <1>5, <2>1, <2>2, SendToSends
<1>8. CASE HostSyncs
  <2>1. PICK g, k, sync : g = handler.g /\ k = handler.k /\ sync = SyncResponse(memory, g, handler.cursor)
    OBVIOUS
  <2>2. g \in Guest /\ handler.cursor \in Nat
    BY <1>8, <2>1 DEF HostSyncs, IInv, QueueOK, HandlerOK, Handlers
  <2>3. sync \in GoodSyncs /\ sync.seq = memory.seq
    <3>1. /\ sync \in Syncs(Range(history)) /\ sync.seq = memory.seq
          /\ sync.mode = "snapshot" => sync.snapshot.seq = memory.seq
      BY <1>1, <2>1, <2>2, SyncType
    <3>2. memory.seq <= Len(history)
      BY HostStates DEF IInv
    <3>3. QED
      BY <3>1, <3>2 DEF GoodSyncs
  <2>4. \/ UNCHANGED toGuest \/ SendTo(g, k, Accepted(sync))
        \/ SendTo(g, k, Rejected(sync)) \/ SendTo(g, k, Rejected(NoSync))
    BY <1>8, <2>1 DEF HostSyncs
  <2>5. ASSUME NEW x \in {Accepted(sync), Rejected(sync)}, Sends(x)
        PROVE  InOrder(h)'
    <3>1. x \in Messages /\ x.sync = sync /\ sync # NoSync
      <4>1. Accepted(sync) \in Messages /\ Rejected(sync) \in Messages
        BY <2>3, MessageTypes
      <4>2. Accepted(sync).sync = sync /\ Rejected(sync).sync = sync
        BY DEF Accepted, Rejected
      <4>3. sync # NoSync
        BY <2>3, SyncIsNotNone DEF GoodSyncs
      <4>4. QED
        BY <2>5, <4>1, <4>2, <4>3
    <3>2. Carries(x) = memory.seq
      BY <2>3, <3>1 DEF Carries
    <3>3. QED
      BY <1>1, <1>4, <2>5, <3>1, <3>2
  <2>6. QED
    BY <1>2, <1>5, <2>2, <2>4, <2>5, SendToSends
<1>9. CASE HostAnnounces
  <2>1. PICK S : Broadcast(handler.event, S)
    BY <1>9 DEF HostAnnounces
  <2>2. PICK x : x = Canonical(handler.event)
    OBVIOUS
  <2>3. handler.event \in Range(history)
    BY <1>9 DEF HostAnnounces, IInv, QueueOK, HandlerOK, Handlers
  <2>4. x \in Messages /\ Carries(x) = handler.event.seq /\ ~IsSnapshot(x)
    BY <2>2, <2>3, MessageTypes DEF Canonical, Carries, IsSnapshot
  <2>5. Sends(x)
    BY <2>1, <2>2, BroadcastSends
  <2>6. QED
    BY <1>4, <2>4, <2>5 DEF OrderOK
<1>10. QED
  BY <1>6, <1>7, <1>8, <1>9

\* A guest that takes a synchronisation in is where it carries, and the others stay.
LEMMA TakeInCarries ==
    ASSUME IInv, NEW g \in Guest, NEW s \in GoodSyncs, NEW v, TakeIn(g, s, v)
    PROVE  \/ AskForSnapshot(g) /\ UNCHANGED cred
           \/ /\ \A h \in Guest \ {g} : cred'[h] = cred[h]
              /\ cred'[g].replica = ApplySync(cred[g].replica, s) /\ ApplySync(cred[g].replica, s) # Gone
              /\ cred'[g].replica.seq = s.seq
<1>1. cred \in [Guest -> Credential] /\ cred[g].replica \in Replicas(Range(history)) /\ Range(history) \subseteq Entry
  BY CredTypes, RangeHistory DEF IInv, GuestsOK
<1>2. CASE AskForSnapshot(g)
  BY <1>2 DEF AskForSnapshot
<1>3. CASE ~AskForSnapshot(g)
  <2>1. PICK next : next = ApplySync(cred[g].replica, s)
    OBVIOUS
  <2>2. PICK c : c = [known |-> TRUE, next |-> s.accepted + 1, cached |-> TRUE, replica |-> next]
    OBVIOUS
  <2>3. next # Gone /\ cred' = [cred EXCEPT ![g] = c] /\ c.replica = next
    BY <1>3, <2>1, <2>2 DEF TakeIn
  <2>4. s \in Syncs(Range(history)) /\ (s.mode = "snapshot" => s.snapshot.seq = s.seq)
    BY DEF GoodSyncs
  <2>5. next.seq = s.seq
    BY <1>1, <2>1, <2>3, <2>4, ApplySyncType
  <2>6. QED
    BY <1>1, <2>1, <2>3, <2>5
<1>4. QED
  BY <1>2, <1>3

LEMMA ReceiveKeepsOrder ==
    ASSUME IInv, NEW g \in Guest, GuestReceives(g), NEW h \in Guest, InOrder(h)
    PROVE  InOrder(h)'
<1>1. PICK m : m = Head(toGuest[g])
  OBVIOUS
<1>2. /\ toGuest[g] # << >> /\ toGuest' = [toGuest EXCEPT ![g] = Tail(@)] /\ UNCHANGED <<up, memory>>
  BY DEF GuestReceives, hostVars
<1>3. /\ \A k \in Guest : toGuest[k] \in Seq(Messages) /\ cred[k].replica.seq \in Nat
      /\ memory.seq \in Nat /\ \A x \in Messages : Carries(x) \in Nat
      /\ toGuest \in [Guest -> Seq(Messages)]
  BY MessagesCarry DEF IInv, GuestsOK
<1>4. /\ \A k \in Guest \ {g} : cred'[k] = cred[k]
      /\ cred'[g].replica.seq = cred[g].replica.seq \/ cred'[g].replica.seq = Carries(m)
  <2>1. CASE UNCHANGED cred
    BY <2>1
  <2>2. AskForSnapshot(g) => UNCHANGED cred
    BY DEF AskForSnapshot
  <2>3. ASSUME NEW s \in GoodSyncs, NEW v, TakeIn(g, s, v), s.seq = Carries(m)
        PROVE  UNCHANGED cred \/ ((\A k \in Guest \ {g} : cred'[k] = cred[k]) /\ cred'[g].replica.seq = Carries(m))
    BY <2>3, TakeInCarries
  <2>4. QED
    BY <1>1, <2>1, <2>2, <2>3, ReceiveForms
<1>5. CASE h # g
  <2>1. toGuest'[h] = toGuest[h] /\ cred'[h] = cred[h]
    BY <1>2, <1>3, <1>4, <1>5
  <2>2. QED
    BY <1>2, <1>3, <2>1, OrderKept
<1>6. CASE h = g
  <2>1. up /\ Caught(toGuest[g], cred[g].replica.seq, memory.seq)
    BY <1>2, <1>6 DEF InOrder
  <2>2. m \in Messages /\ Carries(m) \in Nat
    <3>1. m \in Messages
      BY <1>1, <1>2, <1>3
    <3>2. QED
      BY <1>3, <3>1
  <2>3. PICK n \in Nat : n = cred'[g].replica.seq
    BY <1>3, <1>4, <2>2
  <2>4. n = cred[g].replica.seq \/ n = Carries(Head(toGuest[g]))
    BY <1>1, <1>4, <2>3
  <2>5. Caught(Tail(toGuest[g]), n, memory.seq)
    BY <1>2, <1>3, <2>1, <2>4, CaughtTail
  <2>6. toGuest'[g] = Tail(toGuest[g])
    BY <1>2, <1>3
  <2>7. Caught(toGuest'[g], cred'[g].replica.seq, memory'.seq)
    BY <1>2, <2>3, <2>5, <2>6
  <2>8. QED
    BY <1>2, <1>6, <2>1, <2>7 DEF InOrder
<1>7. QED
  BY <1>5, <1>6


LEMMA HandlerEventStep ==
    IInv /\ handler.event.seq <= memory.seq /\ [Next]_vars => handler'.event.seq <= memory'.seq
<1> SUFFICES ASSUME IInv, handler.event.seq <= memory.seq, [Next]_vars
             PROVE  handler'.event.seq <= memory'.seq
  OBVIOUS
<1>1. /\ memory.seq \in Nat /\ memory'.seq \in Nat /\ handler \in Handlers(Range(history))
      /\ Range(history) \subseteq Entry /\ Idle.event.seq = 0
  BY MessagesCarry, MemoryGrows, RangeHistory DEF IInv, QueueOK, HandlerOK, Idle, NoEvent
<1>2. handler.event.seq \in Nat
  <2>1. handler.event \in Range(history) \cup {NoEvent}
    BY <1>1 DEF Handlers
  <2>2. QED
    BY <1>1, <2>1 DEF Entry, NoEvent
<1>3. CASE handler'.event.seq = 0
  BY <1>1, <1>3
<1>4. CASE handler'.event = handler.event /\ ~HostCrashes
  BY <1>1, <1>2, <1>4, MemoryGrows
<1>5. CASE CommitMessage
  <2>1. handler' = Idle \/ handler' = [handler EXCEPT !.pc = "sync", !.reason = "accepted", !.event = saving.event,
                                                    !.waits = Range(Tail(queue))]
    BY <1>5 DEF CommitMessage
  <2>2. handler'.event = saving.event \/ handler'.event.seq = 0
    BY <1>1, <2>1 DEF Handlers
  <2>3. CASE handler'.event = saving.event
    <3>1. memory'.seq = saving.event.seq
      BY <1>5, MemoryGrows
    <3>2. QED
      BY <1>1, <2>3, <3>1
  <2>4. QED
    BY <1>3, <2>2, <2>3
<1>6. CASE HostCrashes
  BY <1>1, <1>3, <1>6 DEF HostCrashes
<1>7. CASE \E g \in Guest : HostTakes(g)
  <2>1. PICK g \in Guest : HostTakes(g)
    BY <1>7
  <2>2. PICK taken : taken = [Idle EXCEPT !.g = g, !.k = Head(inbox[g])[1], !.cursor = Head(inbox[g])[2].cursor,
                                          !.intent = Head(inbox[g])[2].intent]
    OBVIOUS
  <2>3. \/ handler' = handler \/ handler' = Idle
        \/ \E p : handler' = [taken EXCEPT !.pc = p]
        \/ \E r, w : handler' = [taken EXCEPT !.pc = "sync", !.reason = r, !.waits = w]
    BY <2>1, <2>2 DEF HostTakes
  <2>4. taken.event = Idle.event /\ DOMAIN taken = DOMAIN Idle /\ "event" \in DOMAIN taken
    BY <2>2 DEF Idle
  <2>5. handler' = handler \/ handler'.event.seq = 0
    BY <1>1, <2>3, <2>4
  <2>6. ~HostCrashes
    BY <2>1 DEF HostTakes, HostCrashes, auxVars, Trouble
  <2>7. QED
    BY <1>3, <1>4, <2>5, <2>6
<1>8. CASE HostDerives \/ HostSyncs \/ HostAnnounces \/ HostAuthenticates \/ HostJudgesIntent \/ SaveFails
  <2>1. \/ handler' = handler \/ handler' = Idle
        \/ \E p : handler' = [handler EXCEPT !.pc = p]
        \/ \E r, w : handler' = [handler EXCEPT !.pc = "sync", !.reason = r, !.waits = w]
        \/ \E r, w : handler' = [handler EXCEPT !.pc = "sync", !.reason = r, !.cursor = 0, !.waits = w]
    BY <1>8 DEF HostDerives, HostSyncs, HostAnnounces, HostAuthenticates, HostJudgesIntent, SaveFails, SyncThen
  <2>2. handler'.event = handler.event \/ handler'.event.seq = 0
    BY <1>1, <2>1 DEF Handlers
  <2>3. ~HostCrashes \/ HostCrashes
    OBVIOUS
  <2>4. QED
    BY <1>3, <1>4, <1>6, <2>2, <2>3
<1>9. CASE UNCHANGED handler
  BY <1>4, <1>6, <1>9
<1>10. HostRestores \/ Stored \/ (\E c \in Click : HostClicks(c) \/ ClickRuns(c) \/ CommitClick(c)) => UNCHANGED handler
  BY DEF HostRestores, Stored, HostClicks, ClickRuns, CommitClick
<1>11. CASE UNCHANGED vars
  BY <1>9, <1>11 DEF vars, hostVars
<1>12. QED
  BY <1>5, <1>6, <1>7, <1>8, <1>9, <1>10, <1>11, QueueFrame

LEMMA OrderStep == IInv /\ OrderOK /\ [Next]_vars => OrderOK'
<1> SUFFICES ASSUME IInv, OrderOK, [Next]_vars, NEW h \in Guest
             PROVE  InOrder(h)'
  BY HandlerEventStep DEF OrderOK
<1>1. /\ InOrder(h) /\ memory.seq \in Nat /\ memory'.seq \in Nat /\ cred[h].replica.seq \in Nat
      /\ toGuest \in [Guest -> Seq(Messages)] /\ cred \in [Guest -> Credential]
      /\ \A x \in Messages : Carries(x) \in Nat
  BY MessagesCarry, MemoryGrows DEF OrderOK, IInv, GuestsOK
<1>2. CASE HostSyncs \/ HostAnnounces \/ HostAuthenticates \/ \E g \in Guest : HostTakes(g)
  BY <1>2, HostSends
<1>3. CASE HostCrashes
  <2>1. toGuest'[h] = << >> /\ ~up'
    BY <1>3 DEF HostCrashes
  <2>2. QED
    BY <2>1 DEF InOrder
<1>4. CASE CommitMessage \/ \E c \in Click : CommitClick(c)
  <2>1. /\ up /\ up' /\ memory'.seq = saving.event.seq /\ saving.event \in Range(history)
        /\ memory.seq <= memory'.seq /\ UNCHANGED cred
    <3>1. ~HostCrashes
      BY <1>4, MemoryGrows DEF HostCrashes
    <3>2. UNCHANGED cred
      BY <1>4 DEF CommitMessage, CommitClick, guestVars
    <3>3. QED
      BY <1>4, <3>1, <3>2, MemoryGrows
  <2>2. PICK x : x = Canonical(saving.event)
    OBVIOUS
  <2>3. x \in Messages /\ Carries(x) = saving.event.seq /\ ~IsSnapshot(x)
    BY <2>1, <2>2, MessageTypes DEF Canonical, Carries, IsSnapshot
  <2>4. UNCHANGED toGuest \/ \E S : Broadcast(saving.event, S)
    BY <1>4 DEF CommitMessage, CommitClick
  <2>5. Sends(x)
    BY <2>2, <2>4, BroadcastSends DEF Sends
  <2>6. QED
    BY <1>1, <2>1, <2>3, <2>5, SendKeepsOrder
<1>5. CASE HostRestores
  <2>1. ~up /\ up' /\ memory' = durable /\ toGuest'[h] = toGuest[h] /\ cred'[h] = cred[h]
    BY <1>5 DEF HostRestores, guestVars, netVars
  <2>2. toGuest'[h] = << >>
    BY <1>1, <2>1 DEF InOrder
  <2>3. cred[h].replica.seq <= memory'.seq
    <3>1. durable.seq = Len(history) /\ cred[h].replica.seq <= Len(history)
      BY HostStates DEF IInv, GuestsOK
    <3>2. QED
      BY <2>1, <3>1
  <2>4. Caught(<< >>, cred[h].replica.seq, memory'.seq)
    BY <1>1, <2>3, CaughtEmpty
  <2>5. Caught(toGuest'[h], cred'[h].replica.seq, memory'.seq)
    BY <2>1, <2>2, <2>4
  <2>6. QED
    BY <2>1, <2>5 DEF InOrder
<1>6. CASE UNCHANGED <<up, memory, toGuest>> /\ cred'[h].replica.seq = cred[h].replica.seq
  BY <1>1, <1>6, OrderKept
<1>7. CASE UNCHANGED vars
  BY <1>6, <1>7 DEF vars, hostVars, guestVars, netVars
<1>8. ASSUME NEW g \in Guest, GuestReceives(g)
      PROVE  InOrder(h)'
  BY <1>1, <1>8, ReceiveKeepsOrder
<1>9. ASSUME NEW g \in Guest, GuestSubmits(g)
      PROVE  InOrder(h)'
  <2>1. UNCHANGED <<up, memory, toGuest>> /\ cred' = [cred EXCEPT ![g].next = @ + 1]
    BY <1>9 DEF GuestSubmits, hostVars
  <2>2. [cred[g] EXCEPT !.next = @ + 1].replica = cred[g].replica
    BY CredUpdates DEF IInv
  <2>3. cred'[h].replica = cred[h].replica
    BY <1>1, <2>1, <2>2
  <2>4. QED
    BY <1>6, <2>1, <2>3
<1>10. ASSUME NEW g \in Guest, GuestProbes(g)
       PROVE  InOrder(h)'
  <2>1. /\ UNCHANGED <<up, memory, toGuest>>
        /\ UNCHANGED cred \/ cred' = [cred EXCEPT ![g].replica = EmptyReplica]
    BY <1>10 DEF GuestProbes, hostVars
  <2>2. CASE cred'[h] = cred[h]
    BY <1>6, <2>1, <2>2
  <2>3. CASE cred'[h].replica.seq = 0
    <3>1. CASE up
      <4>1. Caught(toGuest[h], 0, memory.seq)
        <5>1. Caught(toGuest[h], cred[h].replica.seq, memory.seq) /\ toGuest[h] \in Seq(Messages)
          BY <1>1, <3>1 DEF InOrder
        <5>2. QED
          BY <1>1, <5>1, CaughtReset
      <4>2. Caught(toGuest'[h], cred'[h].replica.seq, memory'.seq)
        BY <2>1, <2>3, <4>1
      <4>3. QED
        BY <2>1, <3>1, <4>2 DEF InOrder
    <3>2. CASE ~up
      BY <1>1, <2>1, <3>2 DEF InOrder
    <3>3. QED
      BY <3>1, <3>2
  <2>4. cred'[h] = cred[h] \/ cred'[h].replica.seq = 0
    <3>1. \A c \in Credential : [c EXCEPT !.replica = EmptyReplica].replica = EmptyReplica
      BY DEF Credential
    <3>2. EmptyReplica.seq = 0
      BY DEF EmptyReplica, NoSnapshot
    <3>3. QED
      BY <1>1, <2>1, <3>1, <3>2
  <2>5. QED
    BY <2>2, <2>3, <2>4
<1>11. ASSUME NEW g \in Guest, GuestReloads(g) \/ Disconnect(g)
       PROVE  InOrder(h)'
  <2>1. UNCHANGED <<up, memory, cred>> /\ toGuest' = [toGuest EXCEPT ![g] = << >>]
    BY <1>11 DEF GuestReloads, Disconnect, Unlink, hostVars
  <2>2. CASE toGuest'[h] = toGuest[h]
    BY <1>1, <2>1, <2>2, OrderKept
  <2>3. CASE toGuest'[h] = << >>
    <3>1. CASE up
      <4>1. cred[h].replica.seq <= memory.seq
        BY <1>1, <3>1 DEF InOrder, Caught
      <4>2. Caught(<< >>, cred[h].replica.seq, memory.seq)
        BY <1>1, <4>1, CaughtEmpty
      <4>3. Caught(toGuest'[h], cred'[h].replica.seq, memory'.seq)
        BY <2>1, <2>3, <4>2
      <4>4. QED
        BY <2>1, <3>1, <4>3 DEF InOrder
    <3>2. CASE ~up
      BY <2>1, <2>3, <3>2 DEF InOrder
    <3>3. QED
      BY <3>1, <3>2
  <2>4. QED
    BY <1>1, <2>1, <2>2, <2>3
<1>12. ASSUME NEW g \in Guest, Connect(g)
       PROVE  InOrder(h)'
  BY <1>6, <1>12 DEF Connect
<1>13. CASE Stored
  BY <1>6, <1>13 DEF Stored, guestVars, netVars
<1>14. CASE UNCHANGED <<history, toGuest, cred>>
  <2>1. CASE UNCHANGED <<up, memory>>
    BY <1>6, <1>14, <2>1
  <2>2. QED
    BY <1>3, <1>4, <1>5, <1>7, <2>1, MemoryFrame
<1>15. QED
  BY <1>2, <1>3, <1>4, <1>7, <1>8, <1>9, <1>10, <1>11, <1>12, <1>13, <1>14, GuestFrame


-------------------------------------------------------------------------------
(***************************************************************************)
(* The mapping.                                                            *)
(***************************************************************************)

\* Taking events in never sets a replica back.
LEMMA ReplayGrows ==
    ASSUME NEW E, E \subseteq Entry, NEW r \in Replicas(E), NEW events \in Seq(E),
           Replayed(r, events) # Gone
    PROVE  r.seq <= Replayed(r, events).seq
<1> DEFINE N == Len(events)
           Ahead(q) == q = Gone \/ r.seq <= q.seq
<1>1. PICK f \in [0 .. N -> Replicas(E) \cup {Gone}] : ReplayRun(f, r, events)
  BY ReplayedValues
<1> DEFINE Bad == {n \in 0 .. N : ~Ahead(f[n])}
<1>2. N \in Nat /\ r.seq \in Nat /\ f[0] = r /\ \A n \in 1 .. N : f[n] = ApplyEvent(f[n - 1], events[n])
  BY <1>1 DEF ReplayRun, Replicas
<1>3. ASSUME NEW n \in 0 .. N, ~Ahead(f[n]), \A m \in 0 .. N : ~Ahead(f[m]) => n <= m
      PROVE  FALSE
  <2>1. Ahead(f[0])
    BY <1>2
  <2>2. n \in 1 .. N /\ n - 1 \in 0 .. N /\ n - 1 < n
    <3> HIDE DEF Ahead
    <3>1. QED
      BY <1>2, <1>3, <2>1
  <2>3. Ahead(f[n - 1])
    <3> HIDE DEF Ahead
    <3>1. QED
      BY <1>3, <2>2
  <2>4. PICK q, e : q = f[n - 1] /\ e = events[n]
    OBVIOUS
  <2>5. e \in Entry /\ e.seq \in Nat /\ q \in Replicas(E) \cup {Gone} /\ (q # Gone => q.seq \in Nat)
    <3>1. q \in Replicas(E) \cup {Gone}
      BY <1>1, <2>2, <2>4
    <3>2. e \in Entry
      BY <2>2, <2>4
    <3>3. QED
      BY <3>1, <3>2 DEF Entry, Replicas
  <2>6. f[n] = ApplyEvent(q, e)
    BY <1>2, <2>2, <2>4
  <2>7. ApplyEvent(q, e) \in {q, Gone} \/ (q # Gone /\ ApplyEvent(q, e).seq = e.seq /\ e.seq = q.seq + 1)
    <3> DEFINE p == CASE e.type = "admitted" -> [q EXCEPT !.members = Append(WithoutMember(@, e.who), e.who),
                                                          !.removed = @ \ {e.who}]
                      [] e.type = "removed"  -> [q EXCEPT !.removed = @ \cup ({e.who} \cap Range(q.members))]
                      [] e.type = "locked"   -> [q EXCEPT !.locked = TRUE]
                      [] e.type = "unlocked" -> [q EXCEPT !.locked = FALSE]
                      [] OTHER               -> [q EXCEPT !.messages = Window(Append(@, e))]
    <3>1. ApplyEvent(q, e) = IF q = Gone \/ e.seq <= q.seq THEN q
                             ELSE IF e.seq # q.seq + 1 THEN Gone ELSE [p EXCEPT !.seq = e.seq]
      BY DEF ApplyEvent
    <3>2. ApplyEvent(q, e) # Gone => q # Gone \/ ApplyEvent(q, e) = q
      BY <3>1
    <3>3. q # Gone => ApplyEvent(q, e) \in Replicas(E) \cup {Gone}
      BY <1>1, <2>2, <2>4, <2>5, ApplyEventType
    <3>4. q # Gone => "seq" \in DOMAIN p
      <4>1. q # Gone => DOMAIN q = {"seq", "locked", "members", "removed", "messages"}
        BY <2>5 DEF Replicas
      <4>2. q # Gone => DOMAIN p = DOMAIN q
        OBVIOUS
      <4>3. QED
        BY <4>1, <4>2
    <3> HIDE DEF p
    <3>5. q # Gone => [p EXCEPT !.seq = e.seq].seq = e.seq
      BY <3>4
    <3>6. QED
      BY <3>1, <3>5
  <2>8. Ahead(q)
    BY <2>3, <2>4
  <2>9. Ahead(f[n])
    BY <1>2, <2>5, <2>6, <2>7, <2>8
  <2>10. QED
    BY <1>3, <2>9
<1>4. Bad = {}
  <2>1. Bad \subseteq Nat /\ \A m : m \in Bad <=> m \in 0 .. N /\ ~Ahead(f[m])
    OBVIOUS
  <2> HIDE DEF Bad, Ahead
  <2>2. QED
    BY <1>3, <2>1, LeastNatural
<1>5. Ahead(f[N])
  <2> HIDE DEF Ahead
  <2>1. QED
    BY <1>2, <1>4
<1>6. QED
  BY <1>1, <1>5 DEF ReplayRun

\* A guest that takes a synchronisation in does not go back by it.
LEMMA TakesForward ==
    ASSUME IInv, OrderOK, NEW g \in Guest, GuestReceives(g), NEW s \in GoodSyncs,
           ApplySync(cred[g].replica, s) # Gone, s.mode = "snapshot" => IsSnapshot(Head(toGuest[g])),
           s.seq = Carries(Head(toGuest[g]))
    PROVE  cred[g].replica.seq <= s.seq
<1>1. PICK r : r = cred[g].replica
  OBVIOUS
<1>2. CASE s.mode = "snapshot"
  <2>1. up /\ Caught(toGuest[g], r.seq, memory.seq) /\ toGuest[g] # << >>
    BY <1>1 DEF GuestReceives, OrderOK, InOrder
  <2>2. toGuest[g] \in Seq(Messages)
    BY DEF IInv, GuestsOK
  <2>3. Head(toGuest[g]) = toGuest[g][1] /\ 1 \in 1 .. Len(toGuest[g])
    BY <2>1, <2>2
  <2>4. QED
    BY <1>1, <1>2, <2>1, <2>3 DEF Caught
<1>3. CASE s.mode # "snapshot"
  <2>1. r \in Replicas(Range(history)) /\ s.events \in Seq(Range(history)) /\ Range(history) \subseteq Entry
    BY <1>1, CredTypes, RangeHistory DEF IInv, GoodSyncs, Syncs
  <2>2. Replayed(r, s.events) # Gone /\ Replayed(r, s.events).seq = s.seq
    BY <1>1, <1>3 DEF ApplySync
  <2>3. QED
    BY <1>1, <2>1, <2>2, ReplayGrows
<1>4. QED
  BY <1>2, <1>3

\* What each guest knows.
View == [g \in Guest |-> cred[g].replica.seq]

LEMMA Learns ==
    ASSUME IInv, OrderOK, NEW g \in Guest, GuestReceives(g) \/ GuestProbes(g),
           GuestsOK'
    PROVE  /\ history' = history
           /\ \E n \in {0} \cup View[g] .. Len(history) : View' = [View EXCEPT ![g] = n]
<1>1. /\ cred \in [Guest -> Credential] /\ cred' \in [Guest -> Credential'] /\ Len(history) \in Nat
      /\ \A h \in Guest : cred[h].replica.seq \in Nat /\ cred[h].replica.seq <= Len(history)
      /\ history' = history
  BY CredTypes, HostStates DEF IInv, GuestsOK, GuestReceives, GuestProbes, Trouble, auxVars
<1>2. ASSUME NEW n, \A h \in Guest \ {g} : cred'[h].replica.seq = cred[h].replica.seq,
             cred'[g].replica.seq = n
      PROVE  View' = [View EXCEPT ![g] = n]
  BY <1>2 DEF View
<1>3. CASE \A h \in Guest : cred'[h].replica.seq = cred[h].replica.seq
  <2>1. PICK n : n = cred[g].replica.seq
    OBVIOUS
  <2>2. View' = [View EXCEPT ![g] = n] /\ n \in View[g] .. Len(history)
    BY <1>1, <1>2, <1>3, <2>1 DEF View
  <2>3. QED
    BY <1>1, <2>2
<1>4. CASE GuestProbes(g)
  <2>1. UNCHANGED cred \/ cred' = [cred EXCEPT ![g].replica = EmptyReplica]
    BY <1>4 DEF GuestProbes
  <2>2. \A c \in Credential : [c EXCEPT !.replica = EmptyReplica].replica.seq = 0
    BY DEF Credential, EmptyReplica, NoSnapshot
  <2>3. CASE cred' = [cred EXCEPT ![g].replica = EmptyReplica]
    <3>1. cred'[g].replica.seq = 0 /\ \A h \in Guest \ {g} : cred'[h] = cred[h]
      BY <1>1, <2>2, <2>3
    <3>2. View' = [View EXCEPT ![g] = 0]
      BY <1>2, <3>1
    <3>3. QED
      BY <1>1, <3>2
  <2>4. QED
    BY <1>3, <2>1, <2>3
<1>5. CASE GuestReceives(g)
  <2>1. PICK m : m = Head(toGuest[g])
    OBVIOUS
  <2>2. AskForSnapshot(g) => UNCHANGED cred
    BY DEF AskForSnapshot
  <2>3. ASSUME NEW s \in GoodSyncs, NEW v, TakeIn(g, s, v), s.seq = Carries(m),
               s.mode = "snapshot" => IsSnapshot(m), ~UNCHANGED cred
        PROVE  \E n \in {0} \cup View[g] .. Len(history) : View' = [View EXCEPT ![g] = n]
    <3>1. PICK r : r = cred[g].replica
      OBVIOUS
    <3>2. /\ \A h \in Guest \ {g} : cred'[h] = cred[h]
          /\ ApplySync(r, s) # Gone /\ cred'[g].replica = ApplySync(r, s) /\ cred'[g].replica.seq = s.seq
      BY <2>3, <3>1, TakeInCarries
    <3>3. r.seq <= s.seq
      BY <1>5, <2>1, <2>3, <3>1, <3>2, TakesForward
    <3>4. s.seq \in Nat /\ s.seq <= Len(history)
      BY DEF GoodSyncs, Syncs
    <3>5. View' = [View EXCEPT ![g] = s.seq] /\ s.seq \in View[g] .. Len(history)
      BY <1>1, <1>2, <3>1, <3>2, <3>3, <3>4 DEF View
    <3>6. QED
      BY <3>5
  <2>4. QED
    BY <1>1, <1>3, <1>5, <2>1, <2>2, <2>3, ReceiveForms
<1>6. QED
  BY <1>1, <1>4, <1>5


\* The rules of the log read on both sides of the mapping.
LEMMA SameLog ==
    /\ \A g \in Guest : /\ Log!Admitted(g) <=> EventsIn(history, "admitted", g) # {}
                        /\ Log!Removed(g) <=> EventsIn(history, "removed", g) # {}
                        /\ Log!Events("chat", g) = EventsIn(history, "chat", g)
    /\ Log!Locked <=> LockedIn(history)
    /\ \A S : Log!Cardinality(S) = Cardinality(S)
BY DEF Log!Admitted, Log!Removed, Log!Events, Log!Locked, EventsIn, LockedIn, Log!Cardinality, Cardinality

LEMMA SavedIsDue ==
    ASSUME IInv, ActsOK, DueOK, DescribedOK, IntentsOK, Stored, NEW e, e = saving.event
    PROVE  Log!Due(e)
<1>1. /\ e \in Entry /\ DueIn(durable, e) /\ e.seq = Len(history) + 1
      /\ durable \in States(Range(history)) /\ memory = durable
  <2>1. e \in Entry /\ e.seq = Len(history) + 1 /\ memory = durable
    BY StoredFacts
  <2>2. DueIn(durable, e)
    BY <2>1 DEF DueOK, Stored
  <2>3. QED
    BY <2>1, <2>2, HostStates DEF IInv
<1>2. /\ e.type \in EventType /\ e.who \in Guest \cup {Host} /\ Host \notin Guest
      /\ e.type \in {"admitted", "removed"} => e.who \in Guest
  BY <1>1, AuthorityAssumption DEF Entry
<1>3. /\ Members(durable) \subseteq Guest /\ durable.removed \subseteq Guest
      /\ \A g \in Guest : /\ g \in Members(durable) <=> Log!Admitted(g)
                          /\ g \in durable.removed <=> Log!Removed(g)
                          /\ durable.last[g] = Cardinality(Log!Events("chat", g))
      /\ durable.locked <=> Log!Locked
  <2>1. Members(durable) \subseteq Guest /\ durable.removed \subseteq Guest
    <3>1. durable.members \in Seq(Guest) /\ durable.removed \subseteq Guest
      BY <1>1 DEF States
    <3>2. QED
      BY <3>1, RangeOfSeq DEF Members
  <2>2. QED
    BY <2>1, SameLog DEF DescribedOK, Describes
<1>4. Log!Present = Members(durable) \ durable.removed
  BY <1>3 DEF Log!Present
<1>5. CASE e.type = "admitted"
  <2>1. AuthVerdict(durable, e.who) = "admitted"
    BY <1>1, <1>5 DEF DueIn
  <2>2. /\ e.who \notin Members(durable) /\ ~durable.locked
        /\ ~(Cardinality(Members(durable) \ durable.removed) >= MaxGuests)
    BY <2>1 DEF AuthVerdict
  <2>3. Cardinality(Members(durable) \ durable.removed) \in Nat /\ MaxGuests \in Nat
    <3>1. IsFiniteSet(Members(durable) \ durable.removed)
      BY <1>3, AuthorityAssumption, FS_Subset
    <3>2. QED
      BY <3>1, AuthorityAssumption, FS_CardinalityType
  <2>4. Cardinality(Members(durable) \ durable.removed) < MaxGuests
    BY <2>2, <2>3
  <2>5. ~Log!Admitted(e.who) /\ ~Log!Locked /\ Log!Cardinality(Log!Present) < MaxGuests
    <3>1. Log!Cardinality(Log!Present) < MaxGuests
      BY <1>4, <2>4, SameLog
    <3>2. QED
      BY <1>2, <1>3, <1>5, <2>2, <3>1
  <2>6. QED
    BY <1>1, <1>5, <2>5 DEF Log!Due
<1>6. CASE e.type = "removed"
  BY <1>1, <1>4, <1>6 DEF Log!Due, DueIn
<1>7. CASE e.type = "locked"
  BY <1>1, <1>3, <1>7 DEF Log!Due, DueIn
<1>8. CASE e.type = "unlocked"
  BY <1>1, <1>3, <1>8 DEF Log!Due, DueIn
<1>9. CASE e.type = "chat" /\ e.who \in Guest
  <2>1. ChatVerdict(durable, e.who, e.client) = "accepted"
    BY <1>1, <1>2, <1>9 DEF DueIn
  <2>2. e.who \in Log!Present /\ e.client = durable.last[e.who] + 1
    BY <1>4, <2>1 DEF ChatVerdict
  <2>3. e.client = Log!Cardinality(Log!Events("chat", e.who)) + 1
    BY <1>3, <1>9, <2>2, SameLog
  <2>4. \A i \in Log!Events("chat", e.who) : history[i].text < e.text
    <3>1. \A i \in ChatsOf(e.who) : history[i].text < e.text
      BY <1>9, SavedText DEF IntentsOK
    <3>2. QED
      BY <1>9, <3>1, SameLog DEF ChatsOf
  <2>5. QED
    BY <1>1, <1>9, <2>2, <2>3, <2>4 DEF Log!Due
<1>10. CASE e.type = "chat" /\ e.who \notin Guest
  BY <1>1, <1>10 DEF Log!Due
<1>11. QED
  BY <1>2, <1>5, <1>6, <1>7, <1>8, <1>9, <1>10 DEF EventType

\* What the host's log, the intents under way and the messages on their way have in common.
RInv == IInv /\ ActsOK /\ DueOK /\ DescribedOK /\ IntentsOK /\ OrderOK

LEMMA InitRefines == Init => RInv /\ Log!Init
<1> SUFFICES ASSUME Init
             PROVE  RInv /\ Log!Init
  OBVIOUS
<1>1. IInv
  BY InitInvariant
<1>2. history = << >> /\ Len(history) = 0 /\ durable = InitialState /\ memory = InitialState /\ saving = NoSave
      /\ clicks = [c \in Click |-> Unclicked] /\ handler = Idle
  BY DEF Init
<1>3. ActsOK /\ DueOK
  BY <1>2 DEF ActsOK, DueOK, Unclicked
<1>4. DescribedOK
  <2>1. \A type, g : EventsIn(history, type, g) = {}
    BY <1>2 DEF EventsIn
  <2>2. ~LockedIn(history) /\ InitialState.locked = FALSE /\ InitialState.removed = {}
        /\ InitialState.members = << >> /\ \A g \in Guest : InitialState.last[g] = 0
    BY <1>2 DEF LockedIn, InitialState
  <2>3. Members(InitialState) = {}
    BY <2>2 DEF Members, Range
  <2>4. QED
    BY <1>2, <2>1, <2>2, <2>3, FS_EmptySet DEF DescribedOK, Describes
<1>5. IntentsOK
  BY <1>2, IdleOK DEF Init, IntentsOK, IntentsOf, ChatsOf, EventsIn, Range, Ordered, Replayable
<1>6. OrderOK
  <2>1. memory.seq = 0 /\ handler.event.seq = 0
    BY <1>2 DEF InitialState, Idle, NoEvent
  <2>2. ASSUME NEW g \in Guest
        PROVE  InOrder(g)
    <3>1. up = TRUE /\ toGuest[g] = << >> /\ cred[g].replica.seq = 0
      BY DEF Init, NewCredential, EmptyReplica, NoSnapshot
    <3>2. QED
      BY <2>1, <3>1, CaughtEmpty DEF InOrder
  <2>3. QED
    BY <2>1, <2>2 DEF OrderOK
<1>7. Log!Init
  BY DEF Init, Log!Init, NewCredential, EmptyReplica, NoSnapshot
<1>8. QED
  BY <1>1, <1>3, <1>4, <1>5, <1>6, <1>7 DEF RInv

LEMMA InvariantStep == IInv /\ [Next]_vars => IInv'
BY LogStep, MemoryStep, QueueStep, SavingStep, ClosedStep, WiredStep, BindingsStep, GuestsStep
   DEF IInv, ConnectionsOK

LEMMA RStep == RInv /\ [Next]_vars => RInv'
BY InvariantStep, ActsStep, DueStep, DescribedStep, IntentsStep, OrderStep DEF RInv

LEMMA StepRefines == RInv /\ [Next]_vars => [Log!Next]_(Log!vars)
<1> SUFFICES ASSUME RInv, [Next]_vars
             PROVE  [Log!Next]_(Log!vars)
  OBVIOUS
<1>1. CASE UNCHANGED <<history, View>>
  BY <1>1 DEF Log!vars, View
<1>2. CASE Stored
  <2>1. PICK e : e = saving.event
    OBVIOUS
  <2>2. history' = Append(history, e) /\ e \in Entry /\ history \in Seq(Entry) /\ Log!Due(e)
    BY <1>2, <2>1, StoredFacts, SavedIsDue DEF RInv, IInv, LogOK
  <2>3. Len(history') = Len(history) + 1 /\ history'[Len(history) + 1] = e
    BY <2>2, LogGrown
  <2>4. UNCHANGED [g \in Guest |-> cred[g].replica.seq]
    BY <1>2 DEF Stored, guestVars
  <2>5. Log!Commit
    BY <2>2, <2>3, <2>4 DEF Log!Commit
  <2>6. QED
    BY <2>5 DEF Log!Next
<1>3. ASSUME NEW g \in Guest, GuestReceives(g) \/ GuestProbes(g)
      PROVE  [Log!Next]_(Log!vars)
  <2>1. GuestsOK'
    BY GuestsStep DEF RInv
  <2>2. /\ history' = history
        /\ \E n \in {0} \cup View[g] .. Len(history) : View' = [View EXCEPT ![g] = n]
    BY <1>3, <2>1, Learns DEF RInv
  <2>3. Log!Learn(g)
    BY <2>2 DEF Log!Learn, View
  <2>4. QED
    BY <2>3 DEF Log!Next
<1>4. ASSUME NEW g \in Guest, GuestSubmits(g)
      PROVE  UNCHANGED <<history, View>>
  <2>1. history' = history /\ cred' = [cred EXCEPT ![g].next = @ + 1] /\ cred \in [Guest -> Credential]
    BY <1>4 DEF GuestSubmits, auxVars, RInv, IInv, GuestsOK
  <2>2. [cred[g] EXCEPT !.next = @ + 1].replica = cred[g].replica
    BY CredUpdates DEF RInv, IInv
  <2>3. \A h \in Guest : cred'[h].replica = cred[h].replica
    BY <2>1, <2>2
  <2>4. QED
    BY <2>1, <2>3 DEF View
<1>5. CASE UNCHANGED <<history, cred>>
  BY <1>1, <1>5 DEF View
<1>6. Next => \/ UNCHANGED <<history, cred>> \/ Stored
              \/ \E g \in Guest : GuestReceives(g) \/ GuestProbes(g) \/ GuestSubmits(g)
  BY DEF Next, HostStep, UserStep, FaultStep, HostTakes, HostNoticesLeave, HostDerives,
         HostAuthenticates, HostJudgesIntent, HostSyncs, HostAnnounces, ClickRuns, CommitClick,
         CommitMessage, HostRestores, HostClicks, GuestReloads,
         HostCrashes, SaveFails, Connect, Disconnect, guestVars, auxVars, Trouble
<1>7. CASE UNCHANGED vars
  BY <1>5, <1>7 DEF vars, guestVars, auxVars
<1>8. QED
  BY <1>1, <1>2, <1>3, <1>4, <1>5, <1>6, <1>7

\* What the intents under way, the messages on their way and the log have to do with each other
\* holds in every reachable state: a text the host may still accept is beyond all that its guest
\* has committed, and a snapshot on its way is of no less than the guest has.
THEOREM PartyInvariance == Spec => []RInv
BY InitRefines, RStep, PTL DEF Spec

\* Whatever crashes, is lost, repeated or overtaken, the party keeps one log: it only grows, by
\* events that are due, and what a guest knows of it is never taken back but by its own user.
THEOREM PartyKeepsItsLog == Spec => ImplementsPartyLog
<1>1. Init => Log!Init
  BY InitRefines
<1>2. RInv /\ [Next]_vars => [Log!Next]_(Log!vars)
  BY StepRefines
<1>3. QED
  BY <1>1, <1>2, PartyInvariance, PTL DEF Spec, Log!Spec, ImplementsPartyLog

-------------------------------------------------------------------------------
(***************************************************************************)
(* Replicas. A replica is compared with the log up to its sequence: the     *)
(* chats it keeps are the last ones of that log, which is said of two       *)
(* sequences element by element.                                           *)
(***************************************************************************)
Ends(s, t) ==
    /\ Len(s) <= Len(t)
    /\ \A i \in 1 .. Len(s) : s[i] = t[i + (Len(t) - Len(s))]

LEMMA EndsIsSuffix ==
    ASSUME NEW T, NEW s \in Seq(T), NEW t \in Seq(T), Ends(s, t)
    PROVE  IsSuffix(s, t)
<1>1. PICK m, n : m = Len(s) /\ n = Len(t)
  OBVIOUS
<1>2. m \in Nat /\ n \in Nat /\ m <= n /\ \A i \in 1 .. m : s[i] = t[i + (n - m)]
  BY <1>1 DEF Ends
<1>3. PICK a, b : a = Reverse(s) /\ b = Reverse(t)
  OBVIOUS
<1>4. /\ a = [i \in 1 .. m |-> s[(m - i) + 1]] /\ b = [i \in 1 .. n |-> t[(n - i) + 1]]
  BY <1>1, <1>3 DEF Reverse
<1>5. a \in Seq(T) /\ b \in Seq(T) /\ Len(a) = m /\ Len(b) = n
  <2>1. \A i \in 1 .. m : (m - i) + 1 \in 1 .. m
    BY <1>2
  <2>2. \A i \in 1 .. n : (n - i) + 1 \in 1 .. n
    BY <1>2
  <2>3. /\ \A i \in 1 .. m : s[(m - i) + 1] \in T
        /\ \A i \in 1 .. n : t[(n - i) + 1] \in T
    BY <1>1, <2>1, <2>2
  <2>4. QED
    BY <1>2, <1>4, <2>3
<1>6. ASSUME NEW i \in 1 .. m
      PROVE  a[i] = b[i]
  <2>1. (m - i) + 1 \in 1 .. m /\ ((m - i) + 1) + (n - m) = (n - i) + 1 /\ i \in 1 .. n
    BY <1>2
  <2>2. s[(m - i) + 1] = t[(n - i) + 1]
    BY <1>2, <2>1
  <2>3. QED
    BY <1>4, <2>1, <2>2
<1>7. SubSeq(a, 1, m) = SubSeq(b, 1, m)
  <2>1. PICK p, q : p = SubSeq(a, 1, m) /\ q = SubSeq(b, 1, m)
    OBVIOUS
  <2>2. /\ p \in Seq(T) /\ q \in Seq(T) /\ Len(p) = m /\ Len(q) = m
        /\ \A i \in 1 .. m : p[i] = a[i] /\ q[i] = b[i]
    BY <1>2, <1>5, <2>1
  <2>3. QED
    BY <1>6, <2>1, <2>2, SeqEqual
<1>8. QED
  BY <1>2, <1>3, <1>5, <1>7 DEF IsSuffix, IsPrefix

LEMMA EndsAppend ==
    ASSUME NEW T, NEW s \in Seq(T), NEW t \in Seq(T), NEW x \in T, Ends(s, t)
    PROVE  Ends(Append(s, x), Append(t, x))
<1>1. PICK a, b : a = Append(s, x) /\ b = Append(t, x)
  OBVIOUS
<1>2. PICK m, n : m = Len(s) /\ n = Len(t)
  OBVIOUS
<1>3. /\ m \in Nat /\ n \in Nat /\ Len(a) = m + 1 /\ Len(b) = n + 1
      /\ a[m + 1] = x /\ b[n + 1] = x
      /\ \A i \in 1 .. m : a[i] = s[i]
      /\ \A i \in 1 .. n : b[i] = t[i]
  BY <1>1, <1>2, LogGrown
<1>4. m <= n /\ \A i \in 1 .. m : s[i] = t[i + (n - m)]
  BY <1>2 DEF Ends
<1>5. ASSUME NEW i \in 1 .. m + 1
      PROVE  a[i] = b[i + ((n + 1) - (m + 1))]
  <2>1. (n + 1) - (m + 1) = n - m
    BY <1>3
  <2>2. CASE i = m + 1
    <3>1. i + (n - m) = n + 1
      BY <1>3, <2>2
    <3>2. QED
      BY <1>3, <2>1, <2>2, <3>1
  <2>3. CASE i # m + 1
    <3>1. i \in 1 .. m /\ i + (n - m) \in 1 .. n
      BY <1>3, <1>4, <2>3
    <3>2. QED
      BY <1>3, <1>4, <2>1, <3>1
  <2>4. QED
    BY <2>2, <2>3
<1>6. Len(a) <= Len(b) /\ \A i \in 1 .. Len(a) : a[i] = b[i + (Len(b) - Len(a))]
  BY <1>3, <1>4, <1>5
<1>7. QED
  BY <1>1, <1>6 DEF Ends

LEMMA EndsOfEnds ==
    ASSUME NEW T, NEW s \in Seq(T), NEW t \in Seq(T), NEW u \in Seq(T), Ends(s, t), Ends(t, u)
    PROVE  Ends(s, u)
<1>1. PICK m, n, k : m = Len(s) /\ n = Len(t) /\ k = Len(u)
  OBVIOUS
<1>2. /\ m \in Nat /\ n \in Nat /\ k \in Nat /\ m <= n /\ n <= k
      /\ \A i \in 1 .. m : s[i] = t[i + (n - m)]
      /\ \A i \in 1 .. n : t[i] = u[i + (k - n)]
  <2>1. m \in Nat /\ n \in Nat /\ k \in Nat
    BY <1>1, LenProperties
  <2>2. m <= n /\ \A i \in 1 .. m : s[i] = t[i + (n - m)]
    BY <1>1 DEF Ends
  <2>3. n <= k /\ \A i \in 1 .. n : t[i] = u[i + (k - n)]
    BY <1>1 DEF Ends
  <2>4. QED
    BY <2>1, <2>2, <2>3
<1>3. ASSUME NEW i \in 1 .. m
      PROVE  s[i] = u[i + (k - m)]
  <2>1. i + (n - m) \in 1 .. n /\ (i + (n - m)) + (k - n) = i + (k - m)
    BY <1>2
  <2>2. QED
    BY <1>2, <2>1
<1>4. QED
  BY <1>1, <1>2, <1>3 DEF Ends

LEMMA EndsItself == ASSUME NEW T, NEW s \in Seq(T) PROVE Ends(s, s)
<1>1. Len(s) \in Nat /\ \A i \in 1 .. Len(s) : i + (Len(s) - Len(s)) = i
  BY LenProperties
<1>2. QED
  BY <1>1 DEF Ends

\* The window of a sequence ends it, and a window that is long enough is all that matters to the
\* next one.
LEMMA WindowEnds ==
    ASSUME NEW E, NEW events \in Seq(E)
    PROVE  /\ Window(events) \in Seq(E)
           /\ Ends(Window(events), events)
           /\ Len(Window(events)) = IF Len(events) > HistoryLimit THEN HistoryLimit ELSE Len(events)
<1>1. HistoryLimit \in Nat \ {0} /\ Len(events) \in Nat
  BY AuthorityAssumption
<1>2. PICK w, n : w = Window(events) /\ n = Len(events)
  OBVIOUS
<1>3. PICK d \in Nat : /\ w \in Seq(E) /\ Len(w) + d = n
                       /\ \A i \in 1 .. Len(w) : w[i] = events[i + d]
  BY <1>2, WindowType
<1>4. Len(w) \in Nat /\ n \in Nat /\ n - Len(w) = d /\ Len(w) <= n
  BY <1>1, <1>2, <1>3
<1>5. Ends(w, events)
  BY <1>2, <1>3, <1>4 DEF Ends
<1>6. Len(w) = IF n > HistoryLimit THEN HistoryLimit ELSE n
  <2>1. CASE n > HistoryLimit
    <3>1. w = SubSeq(events, n - HistoryLimit + 1, n)
      BY <1>2, <2>1 DEF Window
    <3>2. n - HistoryLimit + 1 \in 1 .. n /\ n - (n - HistoryLimit + 1) + 1 = HistoryLimit
      BY <1>1, <1>2, <2>1
    <3>3. QED
      BY <1>1, <1>2, <2>1, <3>1, <3>2
  <2>2. CASE ~(n > HistoryLimit)
    <3>1. w = SubSeq(events, 1, n)
      BY <1>2, <2>2 DEF Window
    <3>2. QED
      BY <1>1, <1>2, <2>2, <3>1
  <2>3. QED
    BY <2>1, <2>2
<1>7. QED
  BY <1>2, <1>3, <1>5, <1>6

\* Of two ends of the same sequence, those of the same length are the same.
LEMMA EndsOfSameLength ==
    ASSUME NEW T, NEW s \in Seq(T), NEW t \in Seq(T), NEW u \in Seq(T), Ends(s, u), Ends(t, u),
           Len(s) = Len(t)
    PROVE  s = t
<1>1. \A i \in 1 .. Len(s) : s[i] = t[i]
  BY DEF Ends
<1>2. QED
  BY <1>1, SeqEqual

LEMMA WindowOfWindow ==
    ASSUME NEW E, NEW events \in Seq(E), NEW e \in E
    PROVE  Window(Append(Window(events), e)) = Window(Append(events, e))
<1>1. HistoryLimit \in Nat \ {0} /\ Len(events) \in Nat
  BY AuthorityAssumption
<1>2. PICK w, a, b : w = Window(events) /\ a = Append(w, e) /\ b = Append(events, e)
  OBVIOUS
<1>3. /\ w \in Seq(E) /\ Ends(w, events)
      /\ Len(w) = IF Len(events) > HistoryLimit THEN HistoryLimit ELSE Len(events)
  BY <1>2, WindowEnds
<1>4. a \in Seq(E) /\ b \in Seq(E) /\ Len(a) = Len(w) + 1 /\ Len(b) = Len(events) + 1
  BY <1>2, <1>3
<1>5. Ends(a, b)
  BY <1>2, <1>3, EndsAppend
<1>6. PICK p, q : p = Window(a) /\ q = Window(b)
  OBVIOUS
<1>7. /\ p \in Seq(E) /\ Ends(p, a) /\ q \in Seq(E) /\ Ends(q, b)
      /\ Len(p) = IF Len(a) > HistoryLimit THEN HistoryLimit ELSE Len(a)
      /\ Len(q) = IF Len(b) > HistoryLimit THEN HistoryLimit ELSE Len(b)
  BY <1>4, <1>6, WindowEnds
<1>8. Len(p) = Len(q)
  BY <1>1, <1>3, <1>4, <1>7
<1>9. Ends(p, b)
  BY <1>4, <1>5, <1>7, EndsOfEnds
<1>10. p = q
  BY <1>4, <1>7, <1>8, <1>9, EndsOfSameLength
<1>11. QED
  BY <1>2, <1>6, <1>10

\* Only reads the set it is given no further than the sequence goes.
LEMMA OnlySame ==
    ASSUME NEW T, NEW s \in Seq(T), NEW S, NEW R, \A x \in Range(s) : x \in S <=> x \in R
    PROVE  Only(s, S) = Only(s, R)
<1>1. PICK N : N = Len(s)
  OBVIOUS
<1>2. N \in Nat /\ \A n \in 1 .. N : s[n] \in Range(s)
  BY <1>1, InRange
<1>3. PICK f \in [0 .. Len(s) -> Seq(T)] : OnlyRun(f, s, S)
  BY OnlyValues
<1>4. PICK g \in [0 .. Len(s) -> Seq(T)] : OnlyRun(g, s, R)
  BY OnlyValues
<1>5. StepAlike(f, g, N)
  BY <1>1, <1>2, <1>3, <1>4 DEF OnlyRun, StepAlike
<1>6. \A n \in 0 .. N : f[n] = g[n]
  BY <1>2, <1>5, SameValues
<1>7. f[N] = g[N]
  BY <1>2, <1>6
<1>8. QED
  BY <1>1, <1>3, <1>4, <1>7 DEF OnlyRun

LEMMA OnlyAll ==
    ASSUME NEW T, NEW s \in Seq(T), NEW S, Range(s) \subseteq S
    PROVE  Only(s, S) = s
<1>1. PICK N : N = Len(s)
  OBVIOUS
<1>2. N \in Nat /\ \A n \in 1 .. N : s[n] \in S
  BY <1>1, InRange
<1>3. PICK f \in [0 .. Len(s) -> Seq(T)] : OnlyRun(f, s, S)
  BY OnlyValues
<1>4. PICK g : g = [n \in 0 .. N |-> SubSeq(s, 1, n)]
  OBVIOUS
<1>5. ASSUME NEW n \in 1 .. N
      PROVE  g[n] = Append(g[n - 1], s[n])
  <2>1. n - 1 \in 0 .. N /\ n \in 0 .. N
    BY <1>2
  <2>2. g[n] = SubSeq(s, 1, n) /\ g[n - 1] = SubSeq(s, 1, n - 1)
    BY <1>4, <2>1
  <2>3. PICK a, b : a = SubSeq(s, 1, n) /\ b = SubSeq(s, 1, n - 1)
    OBVIOUS
  <2>4. /\ a \in Seq(T) /\ Len(a) = n /\ \A i \in 1 .. n : a[i] = s[i]
        /\ b \in Seq(T) /\ Len(b) = n - 1 /\ \A i \in 1 .. n - 1 : b[i] = s[i]
    BY <1>1, <1>2, <2>1, <2>3
  <2>5. PICK c : c = Append(b, s[n])
    OBVIOUS
  <2>6. s[n] \in T
    BY <1>1
  <2>7. c \in Seq(T) /\ Len(c) = n /\ c[n] = s[n] /\ \A i \in 1 .. n - 1 : c[i] = b[i]
    BY <1>2, <2>4, <2>5, <2>6
  <2>8. ASSUME NEW i \in 1 .. n
        PROVE  a[i] = c[i]
    <3>1. CASE i = n
      BY <2>4, <2>7, <3>1
    <3>2. CASE i # n
      <4>1. i \in 1 .. n - 1
        BY <1>2, <3>2
      <4>2. QED
        BY <2>4, <2>7, <4>1
    <3>3. QED
      BY <3>1, <3>2
  <2>9. a = c
    BY <2>4, <2>7, <2>8, SeqEqual
  <2>10. QED
    BY <2>2, <2>3, <2>5, <2>9
<1>6. g[0] = << >>
  BY <1>2, <1>4
<1>7. StepAlike(f, g, N)
  BY <1>1, <1>2, <1>3, <1>5, <1>6 DEF OnlyRun, StepAlike
<1>8. \A n \in 0 .. N : f[n] = g[n]
  BY <1>2, <1>7, SameValues
<1>9. f[N] = SubSeq(s, 1, N)
  BY <1>2, <1>4, <1>8
<1>10. QED
  BY <1>1, <1>3, <1>9, SubSeqFull DEF OnlyRun

\* What Only keeps of the end of a sequence ends what it keeps of the whole.
LEMMA OnlyOfEnd ==
    ASSUME NEW T, NEW s \in Seq(T), NEW t \in Seq(T), NEW S, Ends(s, t)
    PROVE  Ends(Only(s, S), Only(t, S))
<1>1. PICK M, N : M = Len(s) /\ N = Len(t)
  OBVIOUS
<1>2. PICK d : d = N - M
  OBVIOUS
<1>3. M \in Nat /\ N \in Nat /\ d \in Nat /\ N = M + d /\ \A i \in 1 .. M : s[i] = t[i + d]
  <2>1. M \in Nat /\ N \in Nat
    BY <1>1, LenProperties
  <2>2. M <= N /\ \A i \in 1 .. M : s[i] = t[i + (N - M)]
    BY <1>1 DEF Ends
  <2>3. QED
    BY <1>2, <2>1, <2>2
<1>4. PICK f \in [0 .. Len(s) -> Seq(T)] : OnlyRun(f, s, S)
  BY OnlyValues
<1>5. PICK g \in [0 .. Len(t) -> Seq(T)] : OnlyRun(g, t, S)
  BY OnlyValues
<1>6. /\ \A n \in 0 .. M : f[n] \in Seq(T) /\ g[n + d] \in Seq(T)
      /\ f[0] = << >> /\ Only(s, S) = f[M] /\ Only(t, S) = g[N]
  <2>1. \A n \in 0 .. M : n + d \in 0 .. N
    BY <1>3
  <2>2. QED
    BY <1>1, <1>4, <1>5, <2>1 DEF OnlyRun
<1> DEFINE Bad == {n \in 0 .. M : ~Ends(f[n], g[n + d])}
<1>7. ASSUME NEW n \in 0 .. M, ~Ends(f[n], g[n + d]), \A m \in 0 .. M : ~Ends(f[m], g[m + d]) => n <= m
      PROVE  FALSE
  <2>1. CASE n = 0
    <3>1. g[d] \in Seq(T) /\ 0 + d = d
      BY <1>3, <1>6
    <3>2. Ends(<< >>, g[d])
      <4>1. Len(<< >>) = 0 /\ Len(g[d]) \in Nat
        BY <3>1
      <4>2. QED
        BY <4>1 DEF Ends
    <3>3. QED
      BY <1>6, <1>7, <2>1, <3>1, <3>2
  <2>2. CASE n # 0
    <3>1. /\ n \in 1 .. M /\ n - 1 \in 0 .. M /\ n - 1 < n
          /\ n + d \in 1 .. N /\ (n + d) - 1 = (n - 1) + d
      BY <1>3, <2>2
    <3>2. Ends(f[n - 1], g[(n - 1) + d])
      BY <1>3, <1>7, <3>1
    <3>3. PICK x, p, q : x = s[n] /\ p = f[n - 1] /\ q = g[(n - 1) + d]
      OBVIOUS
    <3>4. x \in T /\ t[n + d] = x /\ p \in Seq(T) /\ q \in Seq(T) /\ Ends(p, q)
      BY <1>1, <1>3, <1>6, <3>1, <3>2, <3>3
    <3>5. f[n] = IF x \in S THEN Append(p, x) ELSE p
      BY <1>1, <1>4, <3>1, <3>3 DEF OnlyRun
    <3>6. g[n + d] = IF x \in S THEN Append(q, x) ELSE q
      <4>1. g[n + d] = IF t[n + d] \in S THEN Append(g[(n + d) - 1], t[n + d]) ELSE g[(n + d) - 1]
        BY <1>1, <1>5, <3>1 DEF OnlyRun
      <4>2. QED
        BY <3>1, <3>3, <3>4, <4>1
    <3>7. Ends(f[n], g[n + d])
      <4>1. Ends(Append(p, x), Append(q, x))
        BY <3>4, EndsAppend
      <4>2. QED
        BY <3>4, <3>5, <3>6, <4>1
    <3>8. QED
      BY <1>7, <3>7
  <2>3. QED
    BY <2>1, <2>2
<1>8. Bad = {}
  <2>1. Bad \subseteq Nat /\ \A m : m \in Bad <=> m \in 0 .. M /\ ~Ends(f[m], g[m + d])
    OBVIOUS
  <2> HIDE DEF Bad
  <2>2. QED
    BY <1>7, <2>1, LeastNatural
<1>9. Ends(f[M], g[M + d])
  <2>1. M \in 0 .. M
    BY <1>3
  <2>2. QED
    BY <1>8, <2>1
<1>10. QED
  BY <1>3, <1>6, <1>9

LEMMA OnlyShorter ==
    ASSUME NEW T, NEW s \in Seq(T), NEW S
    PROVE  Len(Only(s, S)) \in Nat /\ Len(Only(s, S)) <= Len(s)
<1>1. PICK N : N = Len(s)
  OBVIOUS
<1>2. PICK f \in [0 .. Len(s) -> Seq(T)] : OnlyRun(f, s, S)
  BY OnlyValues
<1>3. N \in Nat /\ \A n \in 0 .. N : f[n] \in Seq(T) /\ Len(f[n]) \in Nat
  BY <1>1, <1>2
<1> DEFINE Bad == {n \in 0 .. N : ~(Len(f[n]) <= n)}
<1>4. ASSUME NEW n \in 0 .. N, ~(Len(f[n]) <= n), \A m \in 0 .. N : ~(Len(f[m]) <= m) => n <= m
      PROVE  FALSE
  <2>1. f[0] = << >> /\ Len(<< >>) = 0
    BY <1>2 DEF OnlyRun
  <2>2. n \in 1 .. N /\ n - 1 \in 0 .. N /\ n - 1 < n
    BY <1>3, <1>4, <2>1
  <2>3. Len(f[n - 1]) <= n - 1
    BY <1>3, <1>4, <2>2
  <2>4. PICK q, x : q = f[n - 1] /\ x = s[n]
    OBVIOUS
  <2>5. q \in Seq(T) /\ x \in T
    BY <1>1, <1>3, <2>2, <2>4
  <2>6. f[n] = IF x \in S THEN Append(q, x) ELSE q
    BY <1>1, <1>2, <2>2, <2>4 DEF OnlyRun
  <2>7. Len(Append(q, x)) = Len(q) + 1 /\ Len(q) \in Nat
    BY <2>5
  <2>8. Len(f[n]) <= n
    BY <1>3, <2>2, <2>3, <2>4, <2>6, <2>7
  <2>9. QED
    BY <1>4, <2>8
<1>5. Bad = {}
  <2>1. Bad \subseteq Nat /\ \A m : m \in Bad <=> m \in 0 .. N /\ ~(Len(f[m]) <= m)
    OBVIOUS
  <2> HIDE DEF Bad
  <2>2. QED
    BY <1>4, <2>1, LeastNatural
<1>6. Len(f[N]) <= N /\ Len(f[N]) \in Nat
  BY <1>3, <1>5
<1>7. QED
  BY <1>1, <1>2, <1>6 DEF OnlyRun

\* The chats of a log, of one event more, and of its end.
ChatsOfType(E) == {e \in E : e.type = "chat"}

LEMMA ChatsValue ==
    ASSUME NEW E, NEW log \in Seq(E)
    PROVE  Chats(log) = Only(log, ChatsOfType(E))
<1>1. Range(log) \subseteq E
  BY RangeOfSeq
<1>2. \A e \in Range(log) : e \in {d \in Range(log) : d.type = "chat"} <=> e \in ChatsOfType(E)
  BY <1>1 DEF ChatsOfType
<1>3. QED
  BY <1>2, OnlySame DEF Chats

LEMMA ChatsGrow ==
    ASSUME NEW E, NEW log \in Seq(E), NEW e \in E
    PROVE  /\ Chats(log) \in Seq(E)
           /\ Chats(Append(log, e)) = IF e.type = "chat" THEN Append(Chats(log), e) ELSE Chats(log)
<1>1. Append(log, e) \in Seq(E)
  OBVIOUS
<1>2. /\ Chats(log) = Only(log, ChatsOfType(E))
      /\ Chats(Append(log, e)) = Only(Append(log, e), ChatsOfType(E))
  BY <1>1, ChatsValue
<1>3. e \in ChatsOfType(E) <=> e.type = "chat"
  BY DEF ChatsOfType
<1>4. PICK S : S = ChatsOfType(E)
  OBVIOUS
<1>5. /\ Only(log, S) \in Seq(E)
      /\ Only(Append(log, e), S) = IF e \in S THEN Append(Only(log, S), e) ELSE Only(log, S)
  BY OnlyAppend, OnlyType
<1>6. QED
  BY <1>2, <1>3, <1>4, <1>5

LEMMA ChatsOfEnd ==
    ASSUME NEW E, NEW s \in Seq(E), NEW t \in Seq(E), Ends(s, t)
    PROVE  /\ Chats(s) \in Seq(E) /\ Chats(t) \in Seq(E)
           /\ Ends(Chats(s), Chats(t))
           /\ Len(Chats(s)) \in Nat /\ Len(Chats(s)) <= Len(s)
<1>1. Chats(s) = Only(s, ChatsOfType(E)) /\ Chats(t) = Only(t, ChatsOfType(E))
  BY ChatsValue
<1>2. QED
  BY <1>1, OnlyOfEnd, OnlyType, OnlyShorter
\* The window grows by a chat at most, and holds no more than HistoryLimit of them.
LEMMA WindowChats ==
    ASSUME NEW E, NEW log \in Seq(E), NEW e \in E
    PROVE  /\ Len(Chats(Window(log))) \in Nat /\ Len(Chats(Window(Append(log, e)))) \in Nat
           /\ Len(Chats(Window(Append(log, e)))) <= HistoryLimit
           /\ e.type = "chat" => Len(Chats(Window(Append(log, e)))) <= Len(Chats(Window(log))) + 1
           /\ e.type # "chat" => Len(Chats(Window(Append(log, e)))) <= Len(Chats(Window(log)))
<1>1. PICK w, a, v : w = Window(log) /\ a = Append(w, e) /\ v = Window(a)
  OBVIOUS
<1>2. v = Window(Append(log, e))
  BY <1>1, WindowOfWindow
<1>3. w \in Seq(E)
  BY <1>1, WindowEnds
<1>4. a \in Seq(E)
  BY <1>1, <1>3
<1>5. v \in Seq(E) /\ Ends(v, a) /\ Len(v) <= HistoryLimit
  BY <1>1, <1>4, WindowEnds, WindowType
<1>6. /\ Chats(v) \in Seq(E) /\ Chats(a) \in Seq(E)
      /\ Ends(Chats(v), Chats(a))
      /\ Len(Chats(v)) \in Nat /\ Len(Chats(v)) <= Len(v)
  BY <1>4, <1>5, ChatsOfEnd
<1>7. Chats(w) \in Seq(E) /\ Chats(a) = IF e.type = "chat" THEN Append(Chats(w), e) ELSE Chats(w)
  BY <1>1, <1>3, ChatsGrow
<1>8. PICK x, y : x = Chats(w) /\ y = Chats(a)
  OBVIOUS
<1>9. Len(x) \in Nat /\ (e.type = "chat" => Len(y) = Len(x) + 1) /\ (e.type # "chat" => y = x)
  BY <1>7, <1>8
<1>10. Len(Chats(v)) <= Len(y)
  BY <1>6, <1>8 DEF Ends
<1>11. Len(v) \in Nat /\ HistoryLimit \in Nat /\ Len(y) \in Nat
  BY <1>5, <1>6, <1>8, AuthorityAssumption, LenProperties
<1>12. Len(Chats(v)) <= HistoryLimit
  BY <1>5, <1>6, <1>11
<1>13. QED
  BY <1>1, <1>2, <1>6, <1>8, <1>9, <1>10, <1>11, <1>12

\* The chats a guest keeps: the last ones of the log, and all those of its window.
Kept(messages, log) ==
    Ends(messages, Chats(log)) /\ Len(Chats(Window(log))) <= Len(messages)

LEMMA KeptGrow ==
    ASSUME NEW E, NEW m \in Seq(E), NEW log \in Seq(E), NEW e \in E, Kept(m, log)
    PROVE  /\ e.type = "chat" => Kept(Window(Append(m, e)), Append(log, e))
           /\ e.type # "chat" => Kept(m, Append(log, e))
<1>1. PICK c, d, k : c = Chats(log) /\ d = Chats(Append(log, e)) /\ k = Len(Chats(Window(Append(log, e))))
  OBVIOUS
<1>2. /\ c \in Seq(E) /\ Ends(m, c)
      /\ d = IF e.type = "chat" THEN Append(c, e) ELSE c
  BY <1>1, ChatsGrow DEF Kept
<1>3. PICK n : n = Len(Chats(Window(log)))
  OBVIOUS
<1>4. /\ k \in Nat /\ n \in Nat /\ k <= HistoryLimit /\ n <= Len(m)
      /\ e.type = "chat" => k <= n + 1
      /\ e.type # "chat" => k <= n
  BY <1>1, <1>3, WindowChats DEF Kept
<1>5. CASE e.type # "chat"
  <2>1. k <= Len(m)
    BY <1>4, <1>5, LenProperties
  <2>2. QED
    BY <1>1, <1>2, <1>5, <2>1 DEF Kept
<1>6. CASE e.type = "chat"
  <2>1. PICK a, w : a = Append(m, e) /\ w = Window(a)
    OBVIOUS
  <2>2. a \in Seq(E) /\ Len(a) = Len(m) + 1 /\ Len(m) \in Nat /\ d \in Seq(E)
    BY <1>2, <1>6, <2>1
  <2>3. Ends(a, d)
    BY <1>2, <1>6, <2>1, EndsAppend
  <2>4. /\ w \in Seq(E) /\ Ends(w, a)
        /\ Len(w) = IF Len(a) > HistoryLimit THEN HistoryLimit ELSE Len(a)
    BY <2>1, <2>2, WindowEnds
  <2>5. Ends(w, d)
    BY <2>2, <2>3, <2>4, EndsOfEnds
  <2>6. k <= Len(w)
    BY <1>4, <1>6, <2>2, <2>4, AuthorityAssumption
  <2>7. QED
    BY <1>1, <1>6, <2>1, <2>5, <2>6 DEF Kept
<1>7. QED
  BY <1>5, <1>6

\* What an event does to a replica it is next for.
LEMMA AppliedToReplica ==
    ASSUME NEW E, E \subseteq Entry, NEW r \in Replicas(E), NEW e \in E, e.seq = r.seq + 1
    PROVE  /\ ApplyEvent(r, e).seq = e.seq
           /\ ApplyEvent(r, e).locked = IF e.type = "locked" THEN TRUE
                                        ELSE IF e.type = "unlocked" THEN FALSE ELSE r.locked
           /\ ApplyEvent(r, e).members = IF e.type = "admitted"
                                         THEN Append(WithoutMember(r.members, e.who), e.who) ELSE r.members
           /\ ApplyEvent(r, e).removed = IF e.type = "admitted" THEN r.removed \ {e.who}
                                         ELSE IF e.type = "removed"
                                         THEN r.removed \cup ({e.who} \cap Range(r.members)) ELSE r.removed
           /\ ApplyEvent(r, e).messages = IF e.type = "chat" THEN Window(Append(r.messages, e)) ELSE r.messages
<1>1. PICK n, l, m, d, c : r = [seq |-> n, locked |-> l, members |-> m, removed |-> d, messages |-> c]
  BY DEF Replicas
<1>2. e.type \in EventType /\ e.seq \in Nat /\ r.seq \in Nat
  BY DEF Entry, Replicas
<1>3. r # Gone /\ ~(e.seq <= r.seq)
  BY <1>2, GoneFacts
<1>4. PICK x, y, z, w : /\ x = Append(WithoutMember(m, e.who), e.who) /\ y = d \ {e.who}
                        /\ z = d \cup ({e.who} \cap Range(m)) /\ w = Window(Append(c, e))
  OBVIOUS
<1> DEFINE p == CASE e.type = "admitted" -> [r EXCEPT !.members = Append(WithoutMember(@, e.who), e.who),
                                                      !.removed = @ \ {e.who}]
                  [] e.type = "removed"  -> [r EXCEPT !.removed = @ \cup ({e.who} \cap Range(r.members))]
                  [] e.type = "locked"   -> [r EXCEPT !.locked = TRUE]
                  [] e.type = "unlocked" -> [r EXCEPT !.locked = FALSE]
                  [] OTHER               -> [r EXCEPT !.messages = Window(Append(@, e))]
<1>5. ApplyEvent(r, e) = [p EXCEPT !.seq = e.seq]
  BY <1>3 DEF ApplyEvent
<1>6. /\ DOMAIN p = {"seq", "locked", "members", "removed", "messages"}
      /\ p.locked = IF e.type = "locked" THEN TRUE ELSE IF e.type = "unlocked" THEN FALSE ELSE l
      /\ p.members = IF e.type = "admitted" THEN x ELSE m
      /\ p.removed = IF e.type = "admitted" THEN y ELSE IF e.type = "removed" THEN z ELSE d
      /\ p.messages = IF e.type = "chat" THEN w ELSE c
  <2>1. CASE e.type = "admitted"
    <3>1. p = [r EXCEPT !.members = x, !.removed = y]
      BY <1>1, <1>4, <2>1
    <3> HIDE DEF p
    <3>2. QED
      BY <1>1, <2>1, <3>1
  <2>2. CASE e.type = "removed"
    <3>1. p = [r EXCEPT !.removed = z]
      BY <1>1, <1>4, <2>2
    <3> HIDE DEF p
    <3>2. QED
      BY <1>1, <2>2, <3>1
  <2>3. CASE e.type \in {"locked", "unlocked"}
    BY <1>1, <2>3
  <2>4. CASE e.type = "chat"
    <3>1. p = [r EXCEPT !.messages = w]
      BY <1>1, <1>4, <2>4
    <3> HIDE DEF p
    <3>2. QED
      BY <1>1, <2>4, <3>1
  <2>5. QED
    BY <1>2, <2>1, <2>2, <2>3, <2>4 DEF EventType
<1> HIDE DEF p
<1>7. PICK k : k = e.seq
  OBVIOUS
<1>8. PICK q : q = ApplyEvent(r, e)
  OBVIOUS
<1>9. q = [p EXCEPT !.seq = k]
  BY <1>5, <1>7, <1>8
<1>10. q.seq = k /\ q.locked = p.locked /\ q.members = p.members /\ q.removed = p.removed /\ q.messages = p.messages
  BY <1>6, <1>9
<1>11. QED
  BY <1>1, <1>4, <1>6, <1>7, <1>8, <1>10

\* What an event does to the host's list of members.
LEMMA AppliedMembers ==
    ASSUME NEW E, E \subseteq Entry, NEW s \in States(E), NEW e \in E
    PROVE  Applied(s, e).members = IF e.type = "admitted" THEN Append(s.members, e.who) ELSE s.members
<1> DEFINE p == CASE e.type = "admitted" -> [s EXCEPT !.members = Append(@, e.who)]
                  [] e.type = "removed"  -> [s EXCEPT !.removed = @ \cup {e.who}]
                  [] e.type = "locked"   -> [s EXCEPT !.locked = TRUE]
                  [] e.type = "unlocked" -> [s EXCEPT !.locked = FALSE]
                  [] e.type = "chat" /\ e.who # Host -> [s EXCEPT !.last[e.who] = e.client]
                  [] OTHER -> s
<1>1. Applied(s, e) = [p EXCEPT !.seq = e.seq, !.events = Window(Append(@, e))]
  BY DEF Applied, AppendEvent
<1>2. e.type \in EventType /\ DOMAIN s = {"seq", "locked", "members", "removed", "last", "events"}
  BY DEF Entry, States
<1>3. PICK m : m = Append(s.members, e.who)
  OBVIOUS
<1>4. p.members = (IF e.type = "admitted" THEN m ELSE s.members) /\ DOMAIN p = DOMAIN s
  <2>1. CASE e.type = "admitted"
    <3>1. p = [s EXCEPT !.members = m]
      BY <1>3, <2>1
    <3> HIDE DEF p
    <3>2. QED
      BY <1>2, <2>1, <3>1
  <2>2. CASE e.type \in {"removed", "locked", "unlocked"}
    BY <1>2, <2>2
  <2>3. CASE e.type = "chat"
    BY <1>2, <2>3
  <2>4. QED
    BY <1>2, <2>1, <2>2, <2>3 DEF EventType
<1> HIDE DEF p
<1>5. Applied(s, e).members = p.members
  <2>1. PICK w : w = Window(Append(p.events, e))
    OBVIOUS
  <2>2. Applied(s, e) = [p EXCEPT !.seq = e.seq, !.events = w]
    BY <1>1, <2>1
  <2>3. QED
    BY <1>2, <1>4, <2>2
<1>6. QED
  BY <1>3, <1>4, <1>5

\* A replica says what a state of the host and the log it came from say.
Mirrors(r, s, log) ==
    /\ r.locked = s.locked /\ r.members = s.members /\ r.removed = s.removed
    /\ Kept(r.messages, log)

LEMMA MirrorsGrow ==
    ASSUME NEW E, E \subseteq Entry, NEW r \in Replicas(E), NEW s \in States(E), NEW log \in Seq(E), NEW e \in E,
           Mirrors(r, s, log), DueIn(s, e), s.removed \subseteq Members(s), e.seq = r.seq + 1
    PROVE  Mirrors(ApplyEvent(r, e), Applied(s, e), Append(log, e))
<1>1. PICK q, t : q = ApplyEvent(r, e) /\ t = Applied(s, e)
  OBVIOUS
<1>2. /\ r.locked = s.locked /\ r.members = s.members /\ r.removed = s.removed /\ Kept(r.messages, log)
      /\ s.members \in Seq(Guest) /\ r.messages \in Seq(E)
      /\ e.type \in EventType /\ (e.type \in {"admitted", "removed"} => e.who \in Guest)
  BY DEF Mirrors, States, Replicas, Entry
<1>3. q.locked = t.locked
  <2>1. q.locked = IF e.type = "locked" THEN TRUE ELSE IF e.type = "unlocked" THEN FALSE ELSE r.locked
    BY <1>1, AppliedToReplica
  <2>2. t.locked = IF e.type = "locked" THEN TRUE ELSE IF e.type = "unlocked" THEN FALSE ELSE s.locked
    BY <1>1, AppliedFields
  <2>3. QED
    BY <1>2, <2>1, <2>2, Zenon
<1>4. e.type = "admitted" => e.who \notin Members(s)
  BY DEF DueIn, AuthVerdict
<1>5. q.members = t.members
  <2>1. t.members = IF e.type = "admitted" THEN Append(s.members, e.who) ELSE s.members
    BY <1>1, AppliedMembers
  <2>2. q.members = IF e.type = "admitted" THEN Append(WithoutMember(r.members, e.who), e.who) ELSE r.members
    BY <1>1, AppliedToReplica
  <2>3. e.type = "admitted" => WithoutMember(r.members, e.who) = r.members
    <3>1. SUFFICES ASSUME e.type = "admitted"
                   PROVE  Only(s.members, Guest \ {e.who}) = s.members
      BY <1>2 DEF WithoutMember
    <3>2. Range(s.members) \subseteq Guest \ {e.who}
      BY <1>2, <1>4, <3>1, RangeOfSeq DEF Members
    <3>3. QED
      BY <1>2, <3>2, OnlyAll
  <2>4. QED
    BY <1>2, <2>1, <2>2, <2>3
<1>6. q.removed = t.removed
  <2>1. t.removed = IF e.type = "removed" THEN s.removed \cup {e.who} ELSE s.removed
    BY <1>1, AppliedType
  <2>2. q.removed = IF e.type = "admitted" THEN r.removed \ {e.who}
                    ELSE IF e.type = "removed" THEN r.removed \cup ({e.who} \cap Range(r.members)) ELSE r.removed
    BY <1>1, AppliedToReplica
  <2>3. e.type = "admitted" => r.removed \ {e.who} = s.removed
    BY <1>2, <1>4
  <2>4. e.type = "removed" => {e.who} \cap Range(r.members) = {e.who}
    BY <1>2 DEF DueIn, Members
  <2>5. QED
    BY <1>2, <2>1, <2>2, <2>3, <2>4
<1>7. Kept(q.messages, Append(log, e))
  <2>1. q.messages = IF e.type = "chat" THEN Window(Append(r.messages, e)) ELSE r.messages
    BY <1>1, AppliedToReplica
  <2>2. QED
    BY <1>2, <2>1, KeptGrow
<1>8. QED
  BY <1>1, <1>3, <1>5, <1>6, <1>7 DEF Mirrors

\* What the host appends is due where it appends it, and the events its state keeps are the window
\* of the log -- at every point of the log, not at its end alone.
PrefixesOK ==
    \A n \in 0 .. Len(history) :
        LET s == StateOf(Prefix(n)) IN
        /\ s.removed \subseteq Members(s)
        /\ s.events = Window(Prefix(n))
        /\ n < Len(history) => DueIn(s, history[n + 1])

LEMMA PrefixKept ==
    ASSUME IInv, [Next]_vars, NEW n \in 0 .. Len(history)
    PROVE  /\ n \in 0 .. Len(history')
           /\ Prefix(n)' = Prefix(n)
           /\ StateOf(Prefix(n))' = StateOf(Prefix(n))
<1>1. /\ Len(history) <= Len(history') /\ Len(history) \in Nat /\ Len(history') \in Nat
      /\ \A i \in 1 .. Len(history) : i \in 1 .. Len(history') /\ history'[i] = history[i]
  BY HistoryGrows
<1>2. n \in 0 .. Len(history')
  BY <1>1
<1>3. LogOK /\ LogOK'
  BY LogStep DEF IInv
<1>4. PICK a, b : a = SubSeq(history, 1, n) /\ b = SubSeq(history', 1, n)
  OBVIOUS
<1>5. /\ history \in Seq(Entry) /\ history' \in Seq(Entry)
  BY <1>3 DEF LogOK
<1>6. /\ a \in Seq(Entry) /\ Len(a) = n /\ \A i \in 1 .. n : a[i] = history[i]
      /\ b \in Seq(Entry) /\ Len(b) = n /\ \A i \in 1 .. n : b[i] = history'[i]
  BY <1>1, <1>2, <1>4, <1>5
<1>7. \A i \in 1 .. n : a[i] = b[i]
  <2>1. \A i \in 1 .. n : i \in 1 .. Len(history)
    BY <1>1
  <2>2. QED
    BY <1>1, <1>6, <2>1
<1>8. a = b
  BY <1>6, <1>7, SeqEqual
<1>9. Prefix(n)' = Prefix(n)
  BY <1>4, <1>8 DEF Prefix
<1>10. QED
  BY <1>2, <1>9 DEF StateOf

LEMMA PrefixesStep == IInv /\ DueOK /\ PrefixesOK /\ [Next]_vars => PrefixesOK'
<1> SUFFICES ASSUME IInv, DueOK, PrefixesOK, [Next]_vars, NEW n \in 0 .. Len(history')
             PROVE  LET s == StateOf(Prefix(n))' IN
                    /\ s.removed \subseteq Members(s)
                    /\ s.events = Window(Prefix(n)')
                    /\ n < Len(history') => DueIn(s, history'[n + 1])
  BY DEF PrefixesOK, Members, DueIn, AuthVerdict, ChatVerdict
<1>1. /\ LogOK /\ LogOK' /\ Len(history) \in Nat /\ Len(history') \in Nat
      /\ \A i \in 1 .. Len(history) : history'[i] = history[i]
  BY LogStep, HistoryGrows DEF IInv
<1>2. PICK s, p : s = StateOf(Prefix(n)) /\ p = Prefix(n)
  OBVIOUS
<1>3. n \in 0 .. Len(history) => /\ s.removed \subseteq Members(s) /\ s.events = Window(p)
                                 /\ n < Len(history) => DueIn(s, history[n + 1])
                                 /\ StateOf(Prefix(n))' = s /\ Prefix(n)' = p
  BY <1>2, PrefixKept DEF PrefixesOK
<1>4. CASE UNCHANGED history
  BY <1>3, <1>4
<1>5. CASE Stored
  <2>1. PICK e : e = saving.event
    OBVIOUS
  <2>2. /\ e \in Entry /\ memory = durable /\ history' = Append(history, e) /\ durable' = Applied(durable, e)
    BY <1>5, <2>1, StoredFacts
  <2>3. history \in Seq(Entry) /\ durable = StateOf(history) /\ Prefix(Len(history)) = history
    BY <1>1, PrefixAll DEF LogOK
  <2>4. Len(history') = Len(history) + 1 /\ history'[Len(history) + 1] = e
    BY <2>2, <2>3, LogGrown
  <2>5. DueIn(durable, e)
    BY <1>5, <2>1, <2>2 DEF DueOK, Stored
  <2>6. CASE n < Len(history)
    <3>1. n \in 0 .. Len(history) /\ n + 1 \in 1 .. Len(history)
      BY <1>1, <2>6
    <3>2. QED
      BY <1>1, <1>3, <2>6, <3>1
  <2>7. CASE n = Len(history)
    <3>1. n \in 0 .. Len(history) /\ history'[n + 1] = e /\ s = durable
      BY <1>1, <1>2, <2>3, <2>4, <2>7
    <3>2. QED
      BY <1>3, <2>5, <2>7, <3>1
  <2>8. CASE n = Len(history) + 1
    <3>1. Prefix(n)' = history'
      <4>1. history' \in Seq(Entry) /\ n = Len(history')
        BY <1>1, <2>4, <2>8 DEF LogOK
      <4>2. SubSeq(history', 1, n) = history'
        BY <4>1, SubSeqFull
      <4>3. QED
        BY <4>2 DEF Prefix
    <3>2. StateOf(Prefix(n))' = durable'
      <4>1. durable' = StateOf(history)'
        BY <1>1 DEF LogOK
      <4>2. QED
        BY <3>1, <4>1 DEF StateOf
    <3>3. durable'.removed \subseteq Members(durable')
      BY <1>1 DEF LogOK, Members
    <3>4. durable'.events = Window(history')
      <4>1. Len(history) \in 0 .. Len(history)
        BY <1>1
      <4>2. durable.events = Window(history)
        BY <2>3, <4>1 DEF PrefixesOK
      <4>3. durable \in States(Entry)
        BY <2>3, StateOfType
      <4>4. durable'.events = Window(Append(durable.events, e))
        BY <2>2, <4>3, AppliedType
      <4>5. QED
        BY <2>2, <2>3, <4>2, <4>4, WindowOfWindow
    <3>5. ~(n < Len(history'))
      BY <1>1, <2>4, <2>8
    <3>6. QED
      BY <3>1, <3>2, <3>3, <3>4, <3>5
  <2>9. QED
    BY <1>1, <2>4, <2>6, <2>7, <2>8
<1>6. QED
  BY <1>4, <1>5, StoreFrame DEF vars, auxVars

\* A replica, and a snapshot on its way, say what the log says up to their sequence.
Tells(r) == Mirrors(r, StateOf(Prefix(r.seq)), Prefix(r.seq))

TrueMessages == {m \in Messages : IsSnapshot(m) => Tells(m.sync.snapshot)}

ToldOK ==
    /\ \A g \in Guest : Tells(cred[g].replica)
    /\ toGuest \in [Guest -> Seq(TrueMessages)]

LEMMA TellsKept ==
    ASSUME IInv, [Next]_vars, NEW r, r.seq \in 0 .. Len(history), Tells(r)
    PROVE  Tells(r)'
<1>1. PICK n \in 0 .. Len(history) : n = r.seq
  OBVIOUS
<1>2. Prefix(n)' = Prefix(n) /\ StateOf(Prefix(n))' = StateOf(Prefix(n))
  BY PrefixKept
<1>3. Mirrors(r, StateOf(Prefix(n)), Prefix(n))
  BY <1>1 DEF Tells
<1>4. Mirrors(r, StateOf(Prefix(n))', Prefix(n)')
  BY <1>2, <1>3
<1>5. QED
  BY <1>1, <1>4 DEF Tells

LEMMA TrueMessagesGrow ==
    ASSUME IInv, [Next]_vars
    PROVE  TrueMessages \subseteq TrueMessages' /\ Seq(TrueMessages) \subseteq Seq(TrueMessages')
<1>1. ASSUME NEW m \in TrueMessages
      PROVE  m \in TrueMessages'
  <2>1. m \in Messages /\ m \in Messages'
    BY MessagesGrow DEF TrueMessages
  <2>2. ASSUME IsSnapshot(m)
        PROVE  Tells(m.sync.snapshot)'
    <3>1. Tells(m.sync.snapshot)
      BY <2>2 DEF TrueMessages
    <3>2. m.sync \in GoodSyncs /\ m.sync.mode = "snapshot"
      BY <2>1, <2>2, MessageForms DEF IsSnapshot
    <3>3. m.sync.snapshot.seq \in 0 .. Len(history)
      <4>1. m.sync.seq \in Nat /\ m.sync.seq <= Len(history) /\ m.sync.snapshot.seq = m.sync.seq
        BY <3>2 DEF GoodSyncs, Syncs
      <4>2. Len(history) \in Nat
        BY HistoryGrows
      <4>3. QED
        BY <4>1, <4>2
    <3>4. QED
      BY <3>1, <3>3, TellsKept
  <2>3. QED
    BY <2>1, <2>2 DEF TrueMessages, IsSnapshot
<1>2. PICK M, N : M = TrueMessages /\ N = TrueMessages'
  OBVIOUS
<1>3. M \subseteq N
  BY <1>1, <1>2
<1>4. Seq(M) \subseteq Seq(N)
  BY <1>3, SeqMonotonic
<1>5. QED
  BY <1>2, <1>3, <1>4

\* A snapshot of the host's state says what the log says up to it.
LEMMA SnapshotTells ==
    ASSUME IInv, PrefixesOK, up
    PROVE  Tells(SnapshotFor(memory))
<1>1. /\ memory \in States(Range(history)) /\ Len(history) \in Nat /\ memory.seq \in Nat
      /\ memory.seq <= Len(history) /\ memory = StateOf(Prefix(memory.seq))
  BY HostStates, MemorySeq DEF IInv
<1>2. PICK n \in 0 .. Len(history) : n = memory.seq
  BY <1>1
<1>3. PICK log : log = Prefix(n)
  OBVIOUS
<1>4. log \in Seq(Range(history)) /\ memory.events = Window(log)
  BY <1>1, <1>2, <1>3, PrefixType DEF IInv, PrefixesOK
<1>5. PICK q : q = SnapshotFor(memory)
  OBVIOUS
<1>6. /\ q.seq = n /\ q.locked = memory.locked /\ q.members = memory.members /\ q.removed = memory.removed
      /\ q.messages = Chats(Window(log))
  BY <1>2, <1>4, <1>5 DEF SnapshotFor
<1>7. Kept(Chats(Window(log)), log)
  <2>1. Window(log) \in Seq(Range(history)) /\ Ends(Window(log), log)
    BY <1>4, WindowEnds
  <2>2. Ends(Chats(Window(log)), Chats(log)) /\ Len(Chats(Window(log))) \in Nat
    BY <1>4, <2>1, ChatsOfEnd
  <2>3. QED
    BY <2>2 DEF Kept
<1>8. Mirrors(q, memory, log)
  BY <1>6, <1>7 DEF Mirrors
<1>9. QED
  BY <1>1, <1>2, <1>3, <1>5, <1>6, <1>8 DEF Tells

\* One event of the log, taken in by a replica that tells it up to there.
LEMMA EventTells ==
    ASSUME LogOK, PrefixesOK, NEW r \in Replicas(Range(history)), r.seq <= Len(history), Tells(r),
           NEW e \in Range(history), ApplyEvent(r, e) # Gone
    PROVE  Tells(ApplyEvent(r, e)) /\ ApplyEvent(r, e).seq <= Len(history)
<1>1. Range(history) \subseteq Entry /\ Len(history) \in Nat /\ r.seq \in Nat
  BY RangeHistory DEF LogOK, Replicas
<1>2. PICK i \in 1 .. Len(history) : e = history[i] /\ e.seq = i
  BY InRange DEF LogOK
<1>3. CASE e.seq <= r.seq
  BY <1>3 DEF ApplyEvent
<1>4. CASE e.seq # r.seq + 1 /\ ~(e.seq <= r.seq)
  <2>1. r # Gone
    BY GoneFacts
  <2>2. QED
    BY <1>4, <2>1 DEF ApplyEvent
<1>5. CASE e.seq = r.seq + 1
  <2>1. PICK n : n = r.seq
    OBVIOUS
  <2>2. n \in 0 .. Len(history) /\ n < Len(history) /\ i = n + 1 /\ n + 1 \in 0 .. Len(history) /\ n + 1 \in 1 .. Len(history)
    BY <1>1, <1>2, <1>5, <2>1
  <2>3. PICK log, s : log = Prefix(n) /\ s = StateOf(log)
    OBVIOUS
  <2>4. log \in Seq(Range(history)) /\ Len(log) = n /\ s \in States(Range(history))
    BY <2>2, <2>3, PrefixType, StateOfPrefix
  <2>5. s.removed \subseteq Members(s) /\ DueIn(s, e)
    BY <1>2, <2>2, <2>3 DEF PrefixesOK
  <2>6. Mirrors(r, s, log)
    BY <2>1, <2>3 DEF Tells
  <2>7. Mirrors(ApplyEvent(r, e), Applied(s, e), Append(log, e))
    BY <1>1, <1>5, <2>4, <2>5, <2>6, MirrorsGrow
  <2>8. Prefix(n + 1) = Append(log, e)
    <3>1. PICK a, b : a = Prefix(n + 1) /\ b = Append(log, e)
      OBVIOUS
    <3>2. a \in Seq(Range(history)) /\ Len(a) = n + 1 /\ \A j \in 1 .. n + 1 : a[j] = history[j]
      BY <2>2, <3>1, PrefixType
    <3>3. \A j \in 1 .. n : log[j] = history[j]
      BY <2>2, <2>3, PrefixType
    <3>4. b \in Seq(Range(history)) /\ Len(b) = n + 1 /\ b[n + 1] = e /\ \A j \in 1 .. n : b[j] = log[j]
      BY <2>4, <3>1, LogGrown
    <3>5. ASSUME NEW j \in 1 .. n + 1
          PROVE  a[j] = b[j]
      <4>1. CASE j = n + 1
        BY <1>2, <2>2, <3>2, <3>4, <4>1
      <4>2. CASE j # n + 1
        <5>1. j \in 1 .. n
          BY <2>2, <4>2
        <5>2. QED
          BY <3>2, <3>3, <3>4, <5>1
      <4>3. QED
        BY <4>1, <4>2
    <3>6. QED
      BY <3>1, <3>2, <3>4, <3>5, SeqEqual
  <2>9. StateOf(Prefix(n + 1)) = Applied(s, e)
    BY <1>1, <2>3, <2>4, <2>8, StateOfAppend
  <2>10. ApplyEvent(r, e).seq = n + 1
    BY <1>1, <1>5, <2>1, AppliedToReplica
  <2>11. PICK q : q = ApplyEvent(r, e)
    OBVIOUS
  <2>12. q.seq = n + 1 /\ Mirrors(q, StateOf(Prefix(n + 1)), Prefix(n + 1))
    BY <2>7, <2>8, <2>9, <2>10, <2>11
  <2>13. Tells(q) /\ q.seq <= Len(history)
    BY <2>2, <2>12 DEF Tells
  <2>14. QED
    BY <2>11, <2>13
<1>6. QED
  BY <1>3, <1>4, <1>5

\* Events of the log taken in one after the other.
LEMMA ReplayTells ==
    ASSUME LogOK, PrefixesOK, NEW r \in Replicas(Range(history)), r.seq <= Len(history), Tells(r),
           NEW events \in Seq(Range(history)), Replayed(r, events) # Gone
    PROVE  Tells(Replayed(r, events))
<1> DEFINE E == Range(history)
           N == Len(events)
           Good(q) == q = Gone \/ (q \in Replicas(E) /\ Tells(q) /\ q.seq <= Len(history))
<1>1. E \subseteq Entry
  BY RangeHistory
<1>2. PICK f \in [0 .. N -> Replicas(E) \cup {Gone}] : ReplayRun(f, r, events)
  BY <1>1, ReplayedValues
<1>3. N \in Nat /\ f[0] = r /\ \A n \in 1 .. N : f[n] = ApplyEvent(f[n - 1], events[n])
  BY <1>2 DEF ReplayRun
<1> DEFINE Bad == {n \in 0 .. N : ~Good(f[n])}
<1>4. ASSUME NEW n \in 0 .. N, ~Good(f[n]), \A m \in 0 .. N : ~Good(f[m]) => n <= m
      PROVE  FALSE
  <2>1. Good(f[0])
    BY <1>3
  <2>2. n \in 1 .. N /\ n - 1 \in 0 .. N /\ n - 1 < n
    <3> HIDE DEF Good
    <3>1. QED
      BY <1>3, <1>4, <2>1
  <2>3. Good(f[n - 1])
    <3> HIDE DEF Good
    <3>1. QED
      BY <1>4, <2>2
  <2>4. PICK q, e : q = f[n - 1] /\ e = events[n]
    OBVIOUS
  <2>5. e \in E /\ q \in Replicas(E) \cup {Gone}
    BY <1>2, <2>2, <2>4
  <2>6. f[n] = ApplyEvent(q, e)
    BY <1>3, <2>2, <2>4
  <2>7. CASE q = Gone \/ ApplyEvent(q, e) = Gone
    <3>1. q = Gone => ApplyEvent(q, e) = Gone
      BY DEF ApplyEvent
    <3>2. QED
      BY <1>4, <2>6, <2>7, <3>1
  <2>8. CASE q # Gone /\ ApplyEvent(q, e) # Gone
    <3>1. q \in Replicas(E) /\ Tells(q) /\ q.seq <= Len(history)
      BY <2>3, <2>4, <2>8
    <3>2. Tells(ApplyEvent(q, e)) /\ ApplyEvent(q, e).seq <= Len(history)
      BY <2>5, <2>8, <3>1, EventTells
    <3>3. ApplyEvent(q, e) \in Replicas(E)
      <4>1. ApplyEvent(q, e) \in Replicas(E) \cup {Gone}
        BY <1>1, <2>5, ApplyEventType
      <4>2. QED
        BY <2>8, <4>1
    <3>4. QED
      BY <1>4, <2>6, <3>2, <3>3
  <2>9. QED
    BY <2>7, <2>8
<1>5. Bad = {}
  <2>1. Bad \subseteq Nat /\ \A m : m \in Bad <=> m \in 0 .. N /\ ~Good(f[m])
    OBVIOUS
  <2> HIDE DEF Bad, Good
  <2>2. QED
    BY <1>4, <2>1, LeastNatural
<1>6. Good(f[N])
  <2> HIDE DEF Good
  <2>1. QED
    BY <1>3, <1>5
<1>7. QED
  BY <1>2, <1>6 DEF ReplayRun

\* A guest that takes a message in tells the log up to where the message carries it.
LEMMA ReceiveTells ==
    ASSUME IInv, PrefixesOK, ToldOK, NEW g \in Guest, GuestReceives(g), NEW h \in Guest
    PROVE  Tells(cred'[h].replica)
<1>1. PICK m : m = Head(toGuest[g])
  OBVIOUS
<1>2. m \in TrueMessages
  <2>1. toGuest[g] \in Seq(TrueMessages) /\ toGuest[g] # << >>
    BY DEF ToldOK, GuestReceives
  <2>2. QED
    BY <1>1, <2>1
<1>3. CASE UNCHANGED cred
  BY <1>3 DEF ToldOK
<1>4. ASSUME NEW s \in GoodSyncs, NEW v, TakeIn(g, s, v), s.mode = "snapshot" => Tells(s.snapshot)
      PROVE  Tells(cred'[h].replica)
  <2>1. PICK r : r = cred[g].replica
    OBVIOUS
  <2>2. CASE h # g \/ UNCHANGED cred
    BY <1>3, <1>4, <2>2, TakeInCarries DEF ToldOK
  <2>3. CASE h = g /\ ~UNCHANGED cred
    <3>1. cred'[h].replica = ApplySync(r, s) /\ ApplySync(r, s) # Gone
      BY <1>4, <2>1, <2>3, TakeInCarries
    <3>2. CASE s.mode = "snapshot"
      BY <1>4, <3>1, <3>2 DEF ApplySync
    <3>3. CASE s.mode # "snapshot"
      <4>1. ApplySync(r, s) = Replayed(r, s.events) /\ Replayed(r, s.events) # Gone
        BY <3>1, <3>3 DEF ApplySync
      <4>2. r \in Replicas(Range(history)) /\ r.seq <= Len(history) /\ Tells(r)
        BY <2>1, CredTypes DEF IInv, GuestsOK, ToldOK
      <4>3. s.events \in Seq(Range(history))
        BY DEF GoodSyncs, Syncs
      <4>4. Tells(Replayed(r, s.events))
        BY <4>1, <4>2, <4>3, ReplayTells DEF IInv
      <4>5. QED
        BY <3>1, <4>1, <4>4
    <3>4. QED
      BY <3>2, <3>3
  <2>4. QED
    BY <2>2, <2>3
<1>5. m \in Messages /\ (IsSnapshot(m) => Tells(m.sync.snapshot))
  BY <1>2 DEF TrueMessages
<1>6. CASE m.type \in {"accepted", "rejected"} /\ m.sync # NoSync
  <2>1. \/ UNCHANGED cred \/ TakeIn(g, m.sync, "accepted") \/ TakeIn(g, m.sync, auth[g])
    BY <1>1, <1>6 DEF GuestReceives
  <2>2. m.sync \in GoodSyncs
    BY <1>5, <1>6, MessageForms
  <2>3. m.sync.mode = "snapshot" => Tells(m.sync.snapshot)
    BY <1>5, <1>6 DEF IsSnapshot
  <2>4. QED
    BY <1>3, <1>4, <2>1, <2>2, <2>3
<1>7. CASE m.type = "denied" \/ (m.type = "rejected" /\ m.sync = NoSync)
  BY <1>1, <1>3, <1>7 DEF GuestReceives
<1>8. CASE m.type = "event"
  <2>1. UNCHANGED cred \/ TakeIn(g, SyntheticSync(g, m.event), auth[g])
    BY <1>1, <1>8 DEF GuestReceives, AskForSnapshot
  <2>2. SyntheticSync(g, m.event) \in GoodSyncs
    BY <1>5, <1>8, MessageForms, SyntheticGood DEF IInv
  <2>3. SyntheticSync(g, m.event).mode # "snapshot"
    BY DEF SyntheticSync
  <2>4. QED
    BY <1>3, <1>4, <2>1, <2>2, <2>3
<1>9. QED
  BY <1>5, <1>6, <1>7, <1>8, MessageForms

LEMMA EmptyTells == LogOK => Tells(EmptyReplica)
<1> SUFFICES ASSUME LogOK
             PROVE  Tells(EmptyReplica)
  OBVIOUS
<1>1. EmptyReplica.seq = 0 /\ EmptyReplica.locked = FALSE /\ EmptyReplica.members = << >>
      /\ EmptyReplica.removed = {} /\ EmptyReplica.messages = << >>
  BY DEF EmptyReplica, NoSnapshot
<1>2. Prefix(0) = << >>
  <2>1. 0 \in 0 .. Len(history)
    BY DEF LogOK
  <2>2. Prefix(0) \in Seq(Range(history)) /\ Len(Prefix(0)) = 0
    BY <2>1, PrefixType
  <2>3. QED
    BY <2>2, EmptySeq
<1>3. InitialState.locked = FALSE /\ InitialState.members = << >> /\ InitialState.removed = {}
  BY DEF InitialState
<1>4. << >> \in Seq({}) /\ Len(<< >>) = 0
  OBVIOUS
<1>5. Window(<< >>) = << >>
  <2>1. Window(<< >>) \in Seq({}) /\ Ends(Window(<< >>), << >>)
    BY <1>4, WindowEnds
  <2>2. PICK w : w = Window(<< >>)
    OBVIOUS
  <2>3. w \in Seq({}) /\ Len(w) <= 0
    BY <1>4, <2>1, <2>2 DEF Ends
  <2>4. Len(w) = 0
    BY <2>3, LenProperties
  <2>5. QED
    BY <2>2, <2>3, <2>4, EmptySeq
<1>6. Chats(<< >>) = << >>
  BY OnlyEmpty DEF Chats
<1>7. Kept(<< >>, << >>)
  BY <1>4, <1>5, <1>6 DEF Kept, Ends
<1>8. QED
  BY <1>1, <1>2, <1>3, <1>7, StateOfEmpty DEF Tells, Mirrors

LEMMA ToldMessages ==
    ASSUME IInv, PrefixesOK, ToldOK, [Next]_vars
    PROVE  toGuest' \in [Guest -> Seq(TrueMessages')]
<1>1. PICK M, N : M = TrueMessages /\ N = TrueMessages'
  OBVIOUS
<1>2. M \subseteq N /\ Seq(M) \subseteq Seq(N)
  BY <1>1, TrueMessagesGrow
<1>3. toGuest \in [Guest -> Seq(N)] /\ toGuest \in [Guest -> Seq(M)]
  BY <1>1, <1>2 DEF ToldOK
<1>4. SUFFICES toGuest' \in [Guest -> Seq(N)]
  BY <1>1
<1>5. M = {x \in Messages : IsSnapshot(x) => Tells(x.sync.snapshot)}
  BY <1>1 DEF TrueMessages
<1>6. /\ Denied \in N /\ Rejected(NoSync) \in N
      /\ \A e \in Range(history) : Canonical(e) \in N
  <2>1. /\ ~IsSnapshot(Denied) /\ ~IsSnapshot(Rejected(NoSync)) /\ \A e : ~IsSnapshot(Canonical(e))
    BY DEF IsSnapshot, Denied, Rejected, Canonical
  <2>2. QED
    BY <1>2, <1>5, <2>1, MessageTypes
<1>7. ASSUME NEW g \in Guest, HostTakes(g)
      PROVE  toGuest' \in [Guest -> Seq(N)]
  <2>1. \/ UNCHANGED toGuest
        \/ \E k : SendTo(g, k, Denied) \/ SendTo(g, k, Rejected(NoSync))
    BY <1>7 DEF HostTakes
  <2>2. QED
    BY <1>3, <1>6, <2>1, SendToType
<1>8. CASE HostAuthenticates
  <2>1. UNCHANGED toGuest \/ SendTo(handler.g, handler.k, Denied)
    BY <1>8 DEF HostAuthenticates
  <2>2. QED
    BY <1>3, <1>6, <2>1, SendToType
<1>9. CASE HostSyncs
  <2>1. handler.g \in Guest /\ handler.cursor \in Nat /\ up
    <3>1. handler.pc = "sync" /\ Idle.pc = "idle"
      BY <1>9, IdleOK DEF HostSyncs
    <3>2. handler.g \in Guest /\ handler.cursor \in Nat
      BY <3>1 DEF IInv, QueueOK, HandlerOK, Handlers
    <3>3. handler # Idle
      BY <3>1
    <3>4. QED
      BY <3>2, <3>3 DEF IInv, ClosedOK
  <2>2. PICK sync : sync = SyncResponse(memory, handler.g, handler.cursor)
    OBVIOUS
  <2>3. memory \in States(Range(history)) /\ memory.seq <= Len(history) /\ Range(history) \subseteq Entry
    BY HostStates, RangeHistory DEF IInv
  <2>4. sync \in GoodSyncs
    BY <2>1, <2>2, <2>3, SyncType DEF GoodSyncs
  <2>5. sync.mode = "snapshot" => Tells(sync.snapshot)
    <3>1. sync.mode = "snapshot" => sync.snapshot = SnapshotFor(memory)
      BY <2>2 DEF SyncResponse
    <3>2. QED
      BY <2>1, <3>1, SnapshotTells
  <2>6. Accepted(sync) \in N /\ Rejected(sync) \in N
    <3>1. Accepted(sync) \in Messages /\ Rejected(sync) \in Messages
      BY <2>4, MessageTypes
    <3>2. Accepted(sync).sync = sync /\ Rejected(sync).sync = sync
      BY DEF Accepted, Rejected
    <3>3. QED
      BY <1>2, <1>5, <2>5, <3>1, <3>2 DEF IsSnapshot
  <2>7. \/ UNCHANGED toGuest
        \/ SendTo(handler.g, handler.k, Accepted(sync))
        \/ SendTo(handler.g, handler.k, Rejected(sync))
        \/ SendTo(handler.g, handler.k, Rejected(NoSync))
    BY <1>9, <2>2 DEF HostSyncs
  <2>8. QED
    BY <1>3, <1>6, <2>6, <2>7, SendToType
<1>10. CASE HostAnnounces
  <2>1. handler.pc = "announce" /\ Broadcast(handler.event, bound \ {<<handler.g, handler.k>>})
    BY <1>10 DEF HostAnnounces
  <2>2. handler.event \in Range(history)
    BY <2>1 DEF IInv, QueueOK, HandlerOK, Handlers
  <2>3. QED
    BY <1>3, <1>6, <2>1, <2>2, BroadcastType
<1>11. CASE CommitMessage \/ \E c \in Click : CommitClick(c)
  <2>1. saving.stored
    BY <1>11 DEF CommitMessage, CommitClick
  <2>2. saving.event \in Range(history)
    <3>1. history # << >> /\ history \in Seq(Entry) /\ saving.event = history[Len(history)]
      BY <2>1 DEF IInv, MemoryOK, LogOK
    <3>2. Len(history) \in 1 .. Len(history)
      BY <3>1
    <3>3. QED
      BY <3>1, <3>2, InRange
  <2>3. UNCHANGED toGuest \/ \E S : Broadcast(saving.event, S)
    BY <1>11 DEF CommitMessage, CommitClick
  <2>4. QED
    BY <1>3, <1>6, <2>2, <2>3, BroadcastType
<1>12. << >> \in Seq(N)
  OBVIOUS
<1>13. CASE HostCrashes
  BY <1>12, <1>13 DEF HostCrashes
<1>14. ASSUME NEW g \in Guest, GuestReloads(g) \/ Disconnect(g)
       PROVE  toGuest' \in [Guest -> Seq(N)]
  <2>1. toGuest' = [toGuest EXCEPT ![g] = << >>]
    BY <1>14 DEF GuestReloads, Disconnect, Unlink
  <2>2. QED
    BY <1>3, <1>12, <2>1
<1>15. ASSUME NEW g \in Guest, GuestReceives(g)
       PROVE  toGuest' \in [Guest -> Seq(N)]
  <2>1. toGuest[g] # << >> /\ toGuest' = [toGuest EXCEPT ![g] = Tail(@)]
    BY <1>15 DEF GuestReceives
  <2>2. Tail(toGuest[g]) \in Seq(N)
    BY <1>3, <2>1
  <2>3. QED
    BY <1>3, <2>1, <2>2
<1>16. CASE UNCHANGED toGuest
  BY <1>3, <1>16
<1>17. ASSUME NEW g \in Guest, GuestSubmits(g) \/ GuestProbes(g) \/ Connect(g)
       PROVE  UNCHANGED toGuest
  BY <1>17 DEF GuestSubmits, GuestProbes, Connect
<1>18. Stored => UNCHANGED toGuest
  BY DEF Stored, netVars
<1>19. QED
  BY <1>7, <1>8, <1>9, <1>10, <1>11, <1>13, <1>14, <1>15, <1>16, <1>17, <1>18, GuestFrame
     DEF vars, netVars

LEMMA ToldReplicas ==
    ASSUME IInv, PrefixesOK, ToldOK, [Next]_vars, NEW h \in Guest
    PROVE  Tells(cred[h].replica)'
<1>1. /\ cred \in [Guest -> Credential] /\ LogOK /\ GuestsOK
      /\ cred[h].replica.seq \in 0 .. Len(history) /\ Tells(cred[h].replica)
  <2>1. Len(history) \in Nat /\ cred[h].replica.seq \in Nat /\ cred[h].replica.seq <= Len(history)
    BY HistoryGrows, CredTypes DEF IInv, GuestsOK
  <2>2. QED
    BY <2>1 DEF IInv, GuestsOK, ToldOK
<1>2. PICK r : r = cred'[h].replica
  OBVIOUS
<1>3. SUFFICES Tells(r) /\ r.seq \in 0 .. Len(history)
  <2>1. ASSUME Tells(r) /\ r.seq \in 0 .. Len(history)
        PROVE  Tells(r)'
    BY <2>1, TellsKept
  <2>2. QED
    BY <1>2, <2>1 DEF Tells
<1>4. CASE r = cred[h].replica
  BY <1>1, <1>4
<1>5. CASE UNCHANGED cred
  BY <1>2, <1>4, <1>5
<1>6. ASSUME NEW g \in Guest, GuestReceives(g)
      PROVE  Tells(r) /\ r.seq \in 0 .. Len(history)
  <2>1. Tells(r)
    BY <1>2, <1>6, ReceiveTells
  <2>2. history' = history
    BY <1>6 DEF GuestReceives, auxVars
  <2>3. GuestsOK' /\ LogOK'
    BY GuestsStep, LogStep
  <2>4. r.seq \in Nat /\ r.seq <= Len(history) /\ Len(history) \in Nat
    BY <1>2, <2>2, <2>3 DEF GuestsOK, Credential, LogOK
  <2>5. QED
    BY <2>1, <2>4
<1>7. ASSUME NEW g \in Guest, GuestProbes(g)
      PROVE  Tells(r) /\ r.seq \in 0 .. Len(history)
  <2>1. UNCHANGED cred \/ cred' = [cred EXCEPT ![g].replica = EmptyReplica]
    BY <1>7 DEF GuestProbes
  <2>2. \A c \in Credential : [c EXCEPT !.replica = EmptyReplica].replica = EmptyReplica
    BY DEF Credential
  <2>3. CASE cred' = [cred EXCEPT ![g].replica = EmptyReplica]
    <3>1. CASE h = g
      <4>1. r = EmptyReplica /\ EmptyReplica.seq = 0
        BY <1>1, <1>2, <2>2, <2>3, <3>1 DEF EmptyReplica, NoSnapshot
      <4>2. 0 \in 0 .. Len(history)
        BY <1>1 DEF LogOK
      <4>3. QED
        BY <1>1, <4>1, <4>2, EmptyTells
    <3>2. CASE h # g
      <4>1. cred'[h] = cred[h]
        BY <1>1, <2>3, <3>2
      <4>2. QED
        BY <1>2, <1>4, <4>1
    <3>3. QED
      BY <3>1, <3>2
  <2>4. QED
    BY <1>5, <2>1, <2>3
<1>8. ASSUME NEW g \in Guest, GuestSubmits(g)
      PROVE  r = cred[h].replica
  <2>1. cred' = [cred EXCEPT ![g].next = @ + 1]
    BY <1>8 DEF GuestSubmits
  <2>2. PICK c : c = [cred[g] EXCEPT !.next = @ + 1]
    OBVIOUS
  <2>3. c.replica = cred[g].replica /\ cred' = [cred EXCEPT ![g] = c]
    BY <1>1, <2>1, <2>2, CredUpdates
  <2>4. QED
    BY <1>1, <1>2, <2>3
<1>9. ASSUME NEW g \in Guest, HostTakes(g) \/ GuestReloads(g) \/ Connect(g) \/ Disconnect(g)
      PROVE  UNCHANGED cred
  BY <1>9 DEF HostTakes, GuestReloads, Connect, Disconnect, guestVars
<1>10. HostAuthenticates \/ HostSyncs \/ HostAnnounces \/ CommitMessage \/ Stored \/ HostCrashes
       \/ (\E c \in Click : CommitClick(c)) => UNCHANGED cred
  BY DEF HostAuthenticates, HostSyncs, HostAnnounces, CommitMessage, CommitClick, Stored, HostCrashes, guestVars
<1>11. QED
  BY <1>4, <1>5, <1>6, <1>7, <1>8, <1>9, <1>10, GuestFrame DEF vars, guestVars

LEMMA ToldStep == IInv /\ PrefixesOK /\ ToldOK /\ [Next]_vars => ToldOK'
BY ToldMessages, ToldReplicas DEF ToldOK

\* The log at every point, the messages on their way and the guests' replicas.
MInv == RInv /\ PrefixesOK /\ ToldOK

LEMMA InitTold == Init => MInv
<1> SUFFICES ASSUME Init
             PROVE  MInv
  OBVIOUS
<1>1. RInv /\ LogOK /\ history = << >> /\ Len(history) = 0
  BY InitRefines DEF Init, RInv, IInv
<1>2. Prefix(0) = << >> /\ StateOf(Prefix(0)) = InitialState
  <2>1. Prefix(0) = << >>
    BY <1>1, PrefixAll
  <2>2. QED
    BY <2>1, StateOfEmpty
<1>3. PrefixesOK
  <2>1. ASSUME NEW n \in 0 .. Len(history)
        PROVE  n = 0
    BY <1>1
  <2>2. InitialState.removed = {} /\ InitialState.events = << >>
    BY DEF InitialState
  <2>3. Window(<< >>) = << >>
    <3>1. << >> \in Seq({}) /\ Len(<< >>) = 0
      OBVIOUS
    <3>2. PICK w : w = Window(<< >>)
      OBVIOUS
    <3>3. w \in Seq({}) /\ Ends(w, << >>)
      BY <3>1, <3>2, WindowEnds
    <3>4. Len(w) = 0
      BY <3>1, <3>3, LenProperties DEF Ends
    <3>5. QED
      BY <3>2, <3>3, <3>4, EmptySeq
  <2>4. QED
    BY <1>1, <1>2, <2>1, <2>2, <2>3 DEF PrefixesOK
<1>4. ToldOK
  <2>1. Tells(EmptyReplica)
    BY <1>1, EmptyTells
  <2>2. \A g \in Guest : cred[g].replica = EmptyReplica
    BY DEF Init, NewCredential
  <2>3. << >> \in Seq(TrueMessages)
    OBVIOUS
  <2>4. QED
    BY <2>1, <2>2, <2>3 DEF ToldOK, Init
<1>5. QED
  BY <1>1, <1>3, <1>4 DEF MInv

LEMMA MStep == MInv /\ [Next]_vars => MInv'
BY RStep, PrefixesStep, ToldStep DEF MInv, RInv

\* Every event of the log was due where it stands, and every replica, and every snapshot on its
\* way, says what the log says up to its sequence.
THEOREM ReplicaInvariance == Spec => []MInv
BY InitTold, MStep, PTL DEF Spec

\* A guest's replica is what the log says at the replica's sequence, whether it got there by
\* deltas, by snapshots or by both, and however often it was reset, cut off or crashed: the same
\* lock, members and removals, and chats that end the log's, with none of the window missing.
THEOREM ReplicasAreTheLog == Spec => []ReplicasMatchLog
<1>1. ASSUME MInv
      PROVE  ReplicasMatchLog
  <2>1. SUFFICES ASSUME NEW g \in Guest, NEW r, r = cred[g].replica, cred[g].cached, r.seq > 0,
                        NEW before, before = IF r.seq > HistoryLimit THEN r.seq - HistoryLimit ELSE 0
                 PROVE  LET s == StateOf(Prefix(r.seq)) IN
                        /\ r.locked = s.locked /\ r.members = s.members /\ r.removed = s.removed
                        /\ IsSuffix(r.messages, Chats(Prefix(r.seq)))
                        /\ Len(r.messages) >= Len(Chats(SubSeq(history, before + 1, r.seq)))
    BY DEF ReplicasMatchLog
  <2>2. /\ LogOK /\ GuestsOK /\ Tells(r)
        /\ r \in Replicas(Range(history)) /\ r.seq \in Nat /\ r.seq <= Len(history) /\ Len(history) \in Nat
    BY <1>1, <2>1, CredTypes DEF MInv, RInv, IInv, LogOK, GuestsOK, ToldOK
  <2>3. PICK n, log : n = r.seq /\ log = Prefix(n)
    OBVIOUS
  <2>4. /\ n \in 0 .. Len(history) /\ n \in Nat
        /\ log \in Seq(Range(history)) /\ Len(log) = n /\ \A i \in 1 .. n : log[i] = history[i]
    BY <2>2, <2>3, PrefixType
  <2>5. Mirrors(r, StateOf(log), log)
    BY <2>2, <2>3 DEF Tells
  <2>6. IsSuffix(r.messages, Chats(log))
    <3>1. r.messages \in Seq(Range(history))
      BY <2>2 DEF Replicas
    <3>2. Chats(log) \in Seq(Range(history))
      BY <2>4, EndsItself, ChatsOfEnd
    <3>3. QED
      BY <2>5, <3>1, <3>2, EndsIsSuffix DEF Mirrors, Kept
  <2>7. SubSeq(history, before + 1, n) = Window(log)
    <3>1. HistoryLimit \in Nat \ {0}
      BY AuthorityAssumption
    <3>2. before \in Nat /\ before <= n
          /\ Window(log) = SubSeq(log, before + 1, n)
      <4>1. CASE n > HistoryLimit
        <5>1. before = n - HistoryLimit /\ before + 1 = n - HistoryLimit + 1
          BY <2>1, <2>3, <2>4, <3>1, <4>1
        <5>2. Window(log) = SubSeq(log, n - HistoryLimit + 1, n)
          BY <2>4, <4>1 DEF Window
        <5>3. QED
          BY <2>4, <3>1, <4>1, <5>1, <5>2
      <4>2. CASE ~(n > HistoryLimit)
        BY <2>1, <2>3, <2>4, <3>1, <4>2 DEF Window
      <4>3. QED
        BY <4>1, <4>2
    <3>3. PICK a, b : a = SubSeq(history, before + 1, n) /\ b = SubSeq(log, before + 1, n)
      OBVIOUS
    <3>4. history \in Seq(Entry) /\ log \in Seq(Entry)
      <4>1. Range(history) \subseteq Entry
        BY <2>2, RangeHistory
      <4>2. QED
        BY <2>2, <2>4, <4>1 DEF LogOK
    <3>5. PICK k \in Nat : k = n - before
      BY <2>4, <3>2
    <3>6. /\ a \in Seq(Entry) /\ Len(a) = k /\ \A i \in 1 .. k : a[i] = history[i + before]
          /\ b \in Seq(Entry) /\ Len(b) = k /\ \A i \in 1 .. k : b[i] = log[i + before]
      BY <2>2, <2>4, <3>2, <3>3, <3>4, <3>5
    <3>7. \A i \in 1 .. k : a[i] = b[i]
      <4>1. \A i \in 1 .. k : i + before \in 1 .. n
        BY <2>4, <3>2, <3>5
      <4>2. QED
        BY <2>4, <3>6, <4>1
    <3>8. QED
      BY <3>2, <3>3, <3>6, <3>7, SeqEqual
  <2>8. Len(r.messages) >= Len(Chats(Window(log)))
    <3>1. Window(log) \in Seq(Range(history))
      BY <2>4, WindowEnds
    <3>2. Len(Chats(Window(log))) \in Nat
      BY <3>1, EndsItself, ChatsOfEnd
    <3>3. Len(r.messages) \in Nat
      BY <2>2 DEF Replicas
    <3>4. QED
      BY <2>5, <3>2, <3>3 DEF Mirrors, Kept
  <2>9. QED
    BY <2>3, <2>5, <2>6, <2>7, <2>8 DEF Mirrors
<1>2. QED
  BY <1>1, ReplicaInvariance, PTL

-------------------------------------------------------------------------------
(***************************************************************************)
(* Quiet guests. A guest that has been told it is accepted lacks what the  *)
(* host holds only while something that makes it good is under way: a      *)
(* message that carries it there, a request to be answered, or the         *)
(* announcement the host still owes to the pages that are bound. To keep   *)
(* that, a connected page of a member is bound, or its request to be       *)
(* authenticated has not been handled; and what the guest's earlier pages  *)
(* left in the line is handled before that request, so that an old page    *)
(* cannot take the place of the present one for good.                      *)
(***************************************************************************)
Has(s, k, t) == \E m \in Range(s) : m[1] = k /\ m[2].type = t
Brings(s, top) == \E m \in Range(s) : m.type \in {"accepted", "event"} /\ Carries(m) = top
Admits(s) == \E m \in Range(s) : m.type = "accepted"

\* What pages before k have sent comes before a request of page k to be authenticated.
Renewed(s, k) ==
    \A i \in 1 .. Len(s) : s[i][1] # k =>
        \E j \in i + 1 .. Len(s) : s[j][1] = k /\ s[j][2].type = "auth"

\* A request of the guest's present page is in the line.
Sent(g, t) == Has(inbox[g], page[g], t)

\* The host is at a request of the guest's present page, or of an earlier one.
AtAuth(g) == handler.g = g /\ handler.k = page[g] /\ handler.pc \in {"derive", "auth"}
AtSync(g) == handler.g = g /\ handler.k = page[g] /\ handler.pc = "sync" /\ handler.reason = "accepted"
Stale(g) == handler.g = g /\ handler.k # page[g] /\ handler.pc # "idle"

\* The last thing that has happened is an admission that is still to be announced.
Announcing ==
    /\ handler.pc = "announce" \/ (handler.pc = "sync" /\ handler.reason = "accepted")
    /\ handler.event # NoEvent /\ handler.event.seq = memory.seq

Awaits(g) == Announcing /\ transport[g] = page[g] /\ handler.g # g

\* The guest has been accepted, or is about to read so.
Welcome(g) == auth[g] = "accepted" \/ Admits(toGuest[g])
Newest(g) == Brings(toGuest[g], memory.seq)

Turns(g) == Renewed(inbox[g], page[g]) /\ (Stale(g) => Sent(g, "auth"))
Voiced(g) == g \in Members(memory) \ memory.removed => transport[g] = page[g] \/ Sent(g, "auth") \/ AtAuth(g)
CatchesUp(g) ==
    Welcome(g) /\ g \notin memory.removed =>
        \/ cred[g].replica.seq = memory.seq
        \/ Newest(g)
        \/ Sent(g, "auth") \/ Sent(g, "sync") \/ AtAuth(g) \/ AtSync(g)
        \/ Awaits(g)

Served(g) == Turns(g) /\ (Welcome(g) => g \in Members(memory)) /\ Voiced(g) /\ CatchesUp(g)

ServedOK == \A g \in Guest : link[g] = "up" => Served(g)

OnlineOK ==
    \A g \in Guest :
        /\ link[g] = "down" => toGuest[g] = << >>
        /\ link[g] = "up" => up /\ joined[g] = page[g]

\* Whoever is bound, or being answered, is a member; whoever is being announced has not been removed.
VoicesOK ==
    /\ \A g \in Guest : transport[g] # 0 => g \in Members(memory)
    /\ handler.pc = "sync" /\ handler.reason = "accepted" => handler.g \in Members(memory)
    /\ Announcing => handler.g \notin memory.removed

QInv == RInv /\ OnlineOK /\ VoicesOK /\ ServedOK

\* The first of a sequence and the others.
LEMMA TailRange ==
    ASSUME NEW T, NEW s \in Seq(T), s # << >>
    PROVE  /\ Tail(s) \in Seq(T) /\ Head(s) \in T
           /\ Range(s) = {Head(s)} \cup Range(Tail(s))
<1>1. PICK t : t = Tail(s)
  OBVIOUS
<1>2. /\ Len(s) \in Nat \ {0} /\ t \in Seq(T) /\ Len(t) = Len(s) - 1 /\ Head(s) = s[1] /\ s[1] \in T
      /\ \A i \in 1 .. Len(t) : t[i] = s[i + 1] /\ i + 1 \in 1 .. Len(s)
  BY <1>1
<1>3. \A x : x \in Range(s) <=> \E i \in 1 .. Len(s) : x = s[i]
  BY InRange
<1>4. \A x : x \in Range(t) <=> \E i \in 1 .. Len(t) : x = t[i]
  BY <1>2, InRange
<1>5. ASSUME NEW x \in Range(s)
      PROVE  x = Head(s) \/ x \in Range(t)
  <2>1. PICK i \in 1 .. Len(s) : x = s[i]
    BY <1>3
  <2>2. CASE i = 1
    BY <1>2, <2>1, <2>2
  <2>3. CASE i # 1
    <3>1. i - 1 \in 1 .. Len(t) /\ t[i - 1] = s[i - 1 + 1] /\ i - 1 + 1 = i
      BY <1>2, <2>1, <2>3
    <3>2. QED
      BY <1>4, <2>1, <3>1
  <2>4. QED
    BY <2>2, <2>3
<1>6. Head(s) \in Range(s)
  BY <1>2, <1>3
<1>7. ASSUME NEW x \in Range(t)
      PROVE  x \in Range(s)
  BY <1>2, <1>3, <1>4
<1>8. QED
  BY <1>1, <1>2, <1>5, <1>6, <1>7

\* Lines that get longer, and lines that move on.
LEMMA HasAppend ==
    ASSUME NEW T, NEW s \in Seq(T), NEW x \in T, NEW k, NEW t
    PROVE  Has(Append(s, x), k, t) <=> Has(s, k, t) \/ (x[1] = k /\ x[2].type = t)
BY RangeAppend DEF Has

\* What is in a line is at its head or in what remains.
LEMMA HasTail ==
    ASSUME NEW T, NEW s \in Seq(T), s # << >>, NEW k, NEW t
    PROVE  Has(s, k, t) <=> Has(Tail(s), k, t) \/ (Head(s)[1] = k /\ Head(s)[2].type = t)
BY TailRange DEF Has

\* The same for the messages that bring a guest up to date, or tell it that it is accepted.
LEMMA BringsAppend ==
    ASSUME NEW T, NEW s \in Seq(T), NEW x \in T
    PROVE  /\ \A top : Brings(Append(s, x), top) <=>
                  Brings(s, top) \/ (x.type \in {"accepted", "event"} /\ Carries(x) = top)
           /\ Admits(Append(s, x)) <=> Admits(s) \/ x.type = "accepted"
BY RangeAppend DEF Brings, Admits

LEMMA BringsTail ==
    ASSUME NEW T, NEW s \in Seq(T), s # << >>
    PROVE  /\ \A top : Brings(s, top) <=>
                  Brings(Tail(s), top) \/ (Head(s).type \in {"accepted", "event"} /\ Carries(Head(s)) = top)
           /\ Admits(s) <=> Admits(Tail(s)) \/ Head(s).type = "accepted"
BY TailRange DEF Brings, Admits

\* A message of the present page keeps the order of the pages; a request to be authenticated restores it.
LEMMA RenewedAppend ==
    ASSUME NEW T, NEW s \in Seq(T), NEW x \in T, NEW k, x[1] = k, Renewed(s, k) \/ x[2].type = "auth"
    PROVE  Renewed(Append(s, x), k)
<1>1. PICK t, n : t = Append(s, x) /\ n = Len(s)
  OBVIOUS
<1>2. n \in Nat /\ Len(t) = n + 1 /\ t[n + 1] = x /\ \A i \in 1 .. n : t[i] = s[i]
  BY <1>1
<1>3. ASSUME NEW i \in 1 .. n + 1, t[i][1] # k
      PROVE  \E j \in i + 1 .. n + 1 : t[j][1] = k /\ t[j][2].type = "auth"
  <2>1. i \in 1 .. n /\ t[i] = s[i]
    BY <1>2, <1>3
  <2>2. CASE x[2].type = "auth"
    <3>1. n + 1 \in i + 1 .. n + 1
      BY <1>2, <2>1
    <3>2. QED
      BY <1>2, <2>2, <3>1
  <2>3. CASE Renewed(s, k)
    <3>1. PICK j \in i + 1 .. n : s[j][1] = k /\ s[j][2].type = "auth"
      BY <1>1, <1>3, <2>1, <2>3 DEF Renewed
    <3>2. j \in 1 .. n /\ j \in i + 1 .. n + 1
      BY <1>2, <2>1
    <3>3. QED
      BY <1>2, <3>1, <3>2
  <2>4. QED
    BY <2>2, <2>3
<1>4. QED
  BY <1>1, <1>2, <1>3 DEF Renewed

\* When an earlier page's message is handled, the present page's request is still in the line.
LEMMA RenewedTail ==
    ASSUME NEW T, NEW s \in Seq(T), s # << >>, NEW k, Renewed(s, k)
    PROVE  Renewed(Tail(s), k) /\ (Head(s)[1] # k => Has(Tail(s), k, "auth"))
<1>1. PICK t, n : t = Tail(s) /\ n = Len(t)
  OBVIOUS
<1>2. /\ n \in Nat /\ Len(s) = n + 1 /\ t \in Seq(T) /\ Head(s) = s[1]
      /\ \A i \in 1 .. n : t[i] = s[i + 1]
  BY <1>1
<1>3. ASSUME NEW i \in 0 .. n, s[i + 1][1] # k
      PROVE  \E j \in i + 1 .. n : t[j][1] = k /\ t[j][2].type = "auth"
  <2>1. i + 1 \in 1 .. Len(s)
    BY <1>2
  <2>2. PICK j \in i + 1 + 1 .. Len(s) : s[j][1] = k /\ s[j][2].type = "auth"
    BY <1>3, <2>1 DEF Renewed
  <2>3. j - 1 \in i + 1 .. n /\ j - 1 \in 1 .. n /\ t[j - 1] = s[j - 1 + 1] /\ j - 1 + 1 = j
    BY <1>2, <2>2
  <2>4. QED
    BY <2>2, <2>3
<1>4. Renewed(t, k)
  <2>1. ASSUME NEW i \in 1 .. n, t[i][1] # k
        PROVE  \E j \in i + 1 .. n : t[j][1] = k /\ t[j][2].type = "auth"
    BY <1>2, <1>3, <2>1
  <2>2. QED
    BY <1>1, <2>1 DEF Renewed
<1>5. Head(s)[1] # k => Has(t, k, "auth")
  <2>1. ASSUME Head(s)[1] # k
        PROVE  Has(t, k, "auth")
    <3>1. PICK j \in 0 + 1 .. n : t[j][1] = k /\ t[j][2].type = "auth"
      BY <1>2, <1>3, <2>1
    <3>2. t[j] \in Range(t)
      <4>1. j \in 1 .. Len(t) /\ t \in Seq(T)
        BY <1>1, <1>2
      <4>2. QED
        BY <4>1, InRange
    <3>3. QED
      BY <3>1, <3>2 DEF Has
  <2>2. QED
    BY <2>1
<1>6. QED
  BY <1>1, <1>4, <1>5

\* The shapes of the variables, from the inductive invariant.
LEMMA Shapes ==
    ASSUME IInv
    PROVE  /\ link \in [Guest -> {"down", "up", "closing"}] /\ page \in [Guest -> 1 .. MaxPages]
           /\ joined \in [Guest -> 0 .. MaxPages] /\ transport \in [Guest -> 0 .. MaxPages]
           /\ inbox \in [Guest -> Seq(InboxEntry)] /\ toGuest \in [Guest -> Seq(Messages)]
           /\ auth \in [Guest -> {"pending", "accepted", "denied"}] /\ cred \in [Guest -> Credential]
BY DEF IInv, ConnectionsOK, Wired, Links, Transports, Inboxes, InboxEntry, GuestsOK

\* A guest's present page is bound when it is the guest's transport.
LEMMA BoundIsTransport ==
    ASSUME IInv, NEW g \in Guest, NEW k \in 1 .. MaxPages
    PROVE  <<g, k>> \in bound <=> transport[g] = k
<1>1. bound = Bindings(transport)
  BY DEF IInv, ConnectionsOK, BindingsAgree, Bindings
<1>2. k # 0
  BY HostAuthorityAssumption
<1>3. QED
  BY <1>1, <1>2, InBindings

-------------------------------------------------------------------------------
\* What the handler does in each step: it takes a message, or goes on with the one it has.
LEMMA HandlerFrame ==
    Next => \/ \E g \in Guest : HostTakes(g)
            \/ HostDerives \/ HostSyncs \/ HostAnnounces \/ HostAuthenticates \/ HostJudgesIntent
            \/ CommitMessage \/ HostCrashes \/ SaveFails
            \/ UNCHANGED handler
BY DEF Next, HostStep, UserStep, FaultStep, HostNoticesLeave, Stored, HostClicks, ClickRuns, CommitClick,
       HostRestores, GuestSubmits, GuestProbes,
       GuestReloads, Connect, Disconnect, GuestReceives, hostVars

\* A link that is closed was up.
LEMMA CloseSettles ==
    ASSUME IInv, NEW r, NEW k, Close(r, k) \/ UNCHANGED link, NEW g \in Guest
    PROVE  link'[g] = link[g] \/ (link[g] = "up" /\ link'[g] = "closing")
BY Shapes DEF Close, Reachable

\* Only those who are connected are sent anything.
LEMMA SentWhenUp ==
    ASSUME IInv, NEW r \in Guest, NEW k, NEW x, SendTo(r, k, x), NEW g \in Guest
    PROVE  toGuest'[g] = toGuest[g] \/ (g = r /\ k = page[g] /\ link[g] = "up" /\ toGuest'[g] = Append(toGuest[g], x))
BY Shapes DEF SendTo, Reachable

\* A broadcast adds a message to the line of a connected guest whose page is bound, and to no other.
LEMMA BroadcastWhenUp ==
    ASSUME IInv, NEW e, NEW S, Broadcast(e, S), NEW g \in Guest
    PROVE  /\ <<g, page[g]>> \in S /\ link[g] = "up" => toGuest'[g] = Append(toGuest[g], Canonical(e))
           /\ ~(<<g, page[g]>> \in S /\ link[g] = "up") => toGuest'[g] = toGuest[g]
BY DEF Broadcast

\* What the handler is at came from some page of some guest.
LEMMA HandlerGuest == IInv /\ handler.pc # "idle" => handler.g \in Guest /\ handler.k \in 1 .. MaxPages
BY DEF IInv, QueueOK, HandlerOK, Handlers

\* What the host's steps do to the connections of a guest who stays.
LEMMA OnlineStep == IInv /\ OnlineOK /\ [Next]_vars => OnlineOK'
<1> SUFFICES ASSUME IInv, OnlineOK, [Next]_vars, NEW g \in Guest
             PROVE  /\ link'[g] = "down" => toGuest'[g] = << >>
                    /\ link'[g] = "up" => up' /\ joined'[g] = page'[g]
  BY DEF OnlineOK
<1>1. /\ link[g] = "down" => toGuest[g] = << >>
      /\ link[g] = "up" => up /\ joined[g] = page[g]
  BY DEF OnlineOK
<1>2. CASE UNCHANGED <<up, joined, page>> /\ (link'[g] = link[g] \/ (link[g] = "up" /\ link'[g] = "closing"))
           /\ (toGuest'[g] = toGuest[g] \/ link[g] = "up")
  BY <1>1, <1>2
<1>3. ASSUME NEW h \in Guest, HostTakes(h)
      PROVE  UNCHANGED <<up, joined, page>> /\ (link'[g] = link[g] \/ (link[g] = "up" /\ link'[g] = "closing"))
             /\ (toGuest'[g] = toGuest[g] \/ link[g] = "up")
  <2>1. UNCHANGED <<up, joined, page>>
    BY <1>3 DEF HostTakes, guestVars
  <2>2. PICK k : k = Head(inbox[h])[1]
    OBVIOUS
  <2>3. Close(h, k) \/ UNCHANGED link
    BY <1>3, <2>2 DEF HostTakes
  <2>4. UNCHANGED toGuest \/ SendTo(h, k, Denied) \/ SendTo(h, k, Rejected(NoSync))
    BY <1>3, <2>2 DEF HostTakes
  <2>5. toGuest'[g] = toGuest[g] \/ link[g] = "up"
    BY <2>4, SentWhenUp
  <2>6. QED
    BY <2>1, <2>3, <2>5, CloseSettles
<1>4. ASSUME HostAuthenticates \/ HostSyncs
      PROVE  UNCHANGED <<up, joined, page>> /\ (link'[g] = link[g] \/ (link[g] = "up" /\ link'[g] = "closing"))
             /\ (toGuest'[g] = toGuest[g] \/ link[g] = "up")
  <2>1. UNCHANGED <<up, joined, page>> /\ handler.g \in Guest
    BY <1>4, HandlerGuest DEF HostAuthenticates, HostSyncs, guestVars
  <2>2. UNCHANGED link \/ \E r, k : Close(r, k)
    BY <1>4 DEF HostAuthenticates, HostSyncs, Bind
  <2>3. UNCHANGED toGuest \/ \E x : SendTo(handler.g, handler.k, x)
    BY <1>4 DEF HostAuthenticates, HostSyncs
  <2>4. toGuest'[g] = toGuest[g] \/ link[g] = "up"
    BY <2>1, <2>3, SentWhenUp
  <2>5. QED
    BY <2>1, <2>2, <2>4, CloseSettles
<1>5. ASSUME HostAnnounces \/ CommitMessage \/ \E c \in Click : CommitClick(c)
      PROVE  UNCHANGED <<up, joined, page>> /\ (link'[g] = link[g] \/ (link[g] = "up" /\ link'[g] = "closing"))
             /\ (toGuest'[g] = toGuest[g] \/ link[g] = "up")
  <2>1. UNCHANGED <<up, joined, page>>
    BY <1>5 DEF HostAnnounces, CommitMessage, CommitClick, guestVars
  <2>2. UNCHANGED link \/ \E r, k : Close(r, k)
    BY <1>5 DEF HostAnnounces, CommitMessage, CommitClick, Bind
  <2>3. UNCHANGED toGuest \/ \E e, S : Broadcast(e, S)
    BY <1>5 DEF HostAnnounces, CommitMessage, CommitClick
  <2>4. toGuest'[g] = toGuest[g] \/ link[g] = "up"
    BY <2>3, BroadcastWhenUp
  <2>5. QED
    BY <2>1, <2>2, <2>4, CloseSettles
<1>6. CASE \E c \in Click : ClickRuns(c)
  <2>1. UNCHANGED <<up, joined, page, toGuest>> /\ (UNCHANGED link \/ \E r, k : Close(r, k))
    BY <1>6 DEF ClickRuns, guestVars
  <2>2. QED
    BY <1>2, <2>1, CloseSettles
<1>7. ASSUME NEW h \in Guest, HostNoticesLeave(h)
      PROVE  /\ link'[g] = "down" => toGuest'[g] = << >>
             /\ link'[g] = "up" => up' /\ joined'[g] = page'[g]
  <2>1. /\ UNCHANGED <<up, page, link, toGuest>> /\ joined' = [joined EXCEPT ![h] = 0]
        /\ ~(joined[h] = page[h] /\ link[h] # "down")
    BY <1>7 DEF HostNoticesLeave, guestVars, netVars
  <2>2. link[g] = "up" => h # g
    BY <1>1, <2>1
  <2>3. QED
    BY <1>1, <2>1, <2>2, Shapes
<1>8. ASSUME NEW h \in Guest, Disconnect(h) \/ GuestReloads(h)
      PROVE  /\ link'[g] = "down" => toGuest'[g] = << >>
             /\ link'[g] = "up" => up' /\ joined'[g] = page'[g]
  <2>1. /\ UNCHANGED <<up, joined>> /\ link' = [link EXCEPT ![h] = "down"]
        /\ toGuest' = [toGuest EXCEPT ![h] = << >>]
        /\ UNCHANGED page \/ page' = [page EXCEPT ![h] = @ + 1]
    BY <1>8 DEF Disconnect, GuestReloads, Unlink, hostVars
  <2>2. CASE h = g
    BY <2>1, <2>2, Shapes
  <2>3. CASE h # g
    BY <1>1, <2>1, <2>3, Shapes
  <2>4. QED
    BY <2>2, <2>3
<1>9. ASSUME NEW h \in Guest, Connect(h)
      PROVE  /\ link'[g] = "down" => toGuest'[g] = << >>
             /\ link'[g] = "up" => up' /\ joined'[g] = page'[g]
  <2>1. /\ UNCHANGED <<up, page, toGuest>> /\ up /\ link' = [link EXCEPT ![h] = "up"]
        /\ joined' = [joined EXCEPT ![h] = page[h]]
    BY <1>9 DEF Connect
  <2>2. QED
    BY <1>1, <2>1, Shapes
<1>10. ASSUME NEW h \in Guest, GuestReceives(h)
       PROVE  /\ link'[g] = "down" => toGuest'[g] = << >>
              /\ link'[g] = "up" => up' /\ joined'[g] = page'[g]
  <2>1. /\ UNCHANGED <<up, joined, page, link>> /\ toGuest[h] # << >>
        /\ toGuest' = [toGuest EXCEPT ![h] = Tail(@)]
    BY <1>10 DEF GuestReceives, hostVars
  <2>2. link[g] = "down" => h # g
    BY <1>1, <2>1
  <2>3. QED
    BY <1>1, <2>1, <2>2, Shapes
<1>11. CASE HostCrashes
  BY <1>11 DEF HostCrashes
<1>12. CASE HostRestores
  BY <1>1, <1>12 DEF HostRestores, guestVars, netVars
<1>13. CASE \E h \in Guest : GuestSubmits(h) \/ GuestProbes(h)
  BY <1>1, <1>13 DEF GuestSubmits, GuestProbes, hostVars
<1>14. CASE UNCHANGED vars
  BY <1>1, <1>14 DEF vars, hostVars, guestVars, netVars
<1>15. CASE HostJudgesIntent \/ HostDerives \/ Stored \/ SaveFails \/ \E c \in Click : HostClicks(c)
  BY <1>1, <1>15 DEF HostJudgesIntent, HostDerives, Stored, SaveFails, HostClicks, guestVars, netVars
<1>16. QED
  BY <1>2, <1>3, <1>4, <1>5, <1>6, <1>7, <1>8, <1>9, <1>10, <1>11, <1>12, <1>13, <1>14, <1>15
     DEF Next, HostStep, UserStep, FaultStep

\* What a mutation that is assigned makes of the members.
LEMMA CommitFacts ==
    ASSUME IInv, CommitMessage \/ \E c \in Click : CommitClick(c)
    PROVE  /\ saving # NoSave /\ saving.event \in Entry /\ saving.event # NoEvent
           /\ memory'.seq = memory.seq + 1 /\ memory'.seq = saving.event.seq /\ memory.seq \in Nat
           /\ saving.event \in Range(history)
           /\ Members(memory') = IF saving.event.type = "admitted" THEN Members(memory) \cup {saving.event.who}
                                 ELSE Members(memory)
           /\ memory'.removed = IF saving.event.type = "removed" THEN memory.removed \cup {saving.event.who}
                                ELSE memory.removed
<1>1. saving.stored /\ memory' = saving.next
  BY DEF CommitMessage, CommitClick
<1>2. saving # NoSave
  BY <1>1, NoSaveFacts
<1>3. /\ saving.event \in Entry /\ saving.next = Applied(memory, saving.event)
      /\ saving.event.seq = memory.seq + 1 /\ memory.seq \in Nat
  BY <1>2, SavingTyped, MemorySeq DEF IInv
<1>4. saving.event # NoEvent
  BY <1>3, NoSaveFacts DEF Entry, EventType
<1>5. PICK e \in Range(history) : e = saving.event
  <2>1. saving.event = history[Len(history)] /\ history \in Seq(Entry) /\ history # << >>
    BY <1>1 DEF IInv, MemoryOK, LogOK
  <2>2. Len(history) \in 1 .. Len(history)
    BY <2>1
  <2>3. QED
    BY <2>1, <2>2, InRange
<1>6. Range(history) \subseteq Entry /\ memory \in States(Range(history))
  BY RangeHistory, MessagesCarry DEF IInv
<1>7. /\ Applied(memory, e).seq = e.seq
      /\ Members(Applied(memory, e)) = IF e.type = "admitted" THEN Members(memory) \cup {e.who} ELSE Members(memory)
      /\ Applied(memory, e).removed = IF e.type = "removed" THEN memory.removed \cup {e.who} ELSE memory.removed
  BY <1>6, AppliedType
<1>8. memory' = Applied(memory, e)
  BY <1>1, <1>3, <1>5
<1>9. QED
  BY <1>2, <1>3, <1>4, <1>5, <1>7, <1>8

\* What the host commits for a message, and for its user.
LEMMA CommitMessageFacts ==
    ASSUME IInv, CommitMessage
    PROVE  /\ handler.pc \in {"auth", "intent"} /\ handler.g \in Guest /\ handler.k \in 1 .. MaxPages
           /\ saving.event.who = handler.g
           /\ saving.event.type = IF handler.pc = "auth" THEN "admitted" ELSE "chat"
           /\ handler.pc = "auth" => handler.g \notin Members(memory)
<1>1. saving # NoSave /\ Head(queue) = "message"
  BY CommitFacts DEF CommitMessage
<1>2. QED
  BY <1>1, HandlerGuest DEF IInv, SavingOK

\* The same, when a click of the host is saved.
LEMMA CommitClickFacts ==
    ASSUME IInv, NEW c \in Click, CommitClick(c)
    PROVE  saving.event.type = clicks[c].op /\ saving.event.who = clicks[c].g /\ saving.event.type # "admitted"
<1>1. saving # NoSave /\ Head(queue) = c /\ c # "message"
  BY CommitFacts, HostAuthorityAssumption DEF CommitClick
<1>2. saving.event.type = clicks[c].op /\ saving.event.who = clicks[c].g
  BY <1>1 DEF IInv, SavingOK
<1>3. clicks[c].op \in {"none", "chat", "locked", "unlocked", "removed"}
  BY DEF IInv, QueueOK, ClicksOK, ClickRecords
<1>4. QED
  BY <1>2, <1>3

\* What the verdict on a request to be authenticated says about membership.
LEMMA VerdictFacts ==
    ASSUME NEW s, NEW g
    PROVE  /\ AuthVerdict(s, g) = "resumed" <=> g \in Members(s) \ s.removed
           /\ AuthVerdict(s, g) = "admitted" => g \notin Members(s)
BY DEF AuthVerdict

\* Whoever gets bound is a member.
LEMMA BoundStep ==
    ASSUME IInv, VoicesOK, [Next]_vars, NEW g \in Guest, transport'[g] # 0
    PROVE  g \in Members(memory')
<1>1. transport[g] # 0 => g \in Members(memory)
  BY DEF VoicesOK
<1>2. CASE transport'[g] = transport[g] /\ UNCHANGED memory
  BY <1>1, <1>2
<1>3. CASE HostAuthenticates
  <2>1. UNCHANGED memory /\ (UNCHANGED transport \/ (AuthVerdict(memory, handler.g) = "resumed" /\ Bind(handler.g, handler.k)))
    BY <1>3 DEF HostAuthenticates
  <2>2. CASE AuthVerdict(memory, handler.g) = "resumed" /\ Bind(handler.g, handler.k)
    <3>1. handler.g \in Members(memory) /\ transport' = [transport EXCEPT ![handler.g] = handler.k]
      BY <2>2, VerdictFacts DEF Bind
    <3>2. g = handler.g \/ transport'[g] = transport[g]
      BY <3>1, Shapes
    <3>3. QED
      BY <1>2, <2>1, <3>1, <3>2
  <2>3. QED
    BY <1>2, <2>1, <2>2
<1>4. CASE CommitMessage
  <2>1. Members(memory) \subseteq Members(memory') /\ (handler.pc = "auth" => handler.g \in Members(memory'))
    BY <1>4, CommitFacts, CommitMessageFacts
  <2>2. transport'[g] = transport[g] \/ (handler.pc = "auth" /\ g = handler.g)
    <3>1. UNCHANGED transport \/ (handler.pc = "auth" /\ transport' = [transport EXCEPT ![handler.g] = handler.k])
      BY <1>4 DEF CommitMessage, Bind
    <3>2. QED
      BY <3>1, Shapes
  <2>3. QED
    BY <1>1, <2>1, <2>2
<1>5. ASSUME NEW c \in Click, CommitClick(c)
      PROVE  g \in Members(memory')
  <2>1. Members(memory) \subseteq Members(memory')
    BY <1>5, CommitFacts
  <2>2. UNCHANGED transport \/ transport' = [transport EXCEPT ![clicks[c].g] = 0]
    BY <1>5 DEF CommitClick
  <2>3. transport'[g] = transport[g]
    BY <2>2, Shapes
  <2>4. QED
    BY <1>1, <2>1, <2>3
<1>6. CASE HostRestores
  <2>1. bound = {} /\ UNCHANGED transport
    BY <1>6 DEF HostRestores, IInv, ClosedOK
  <2>2. QED
    BY <2>1 DEF IInv, ConnectionsOK, BindingsAgree
<1>7. CASE HostCrashes
  BY <1>7 DEF HostCrashes
<1>8. ASSUME NEW h \in Guest, HostNoticesLeave(h)
      PROVE  g \in Members(memory')
  <2>1. UNCHANGED memory /\ transport' = [transport EXCEPT ![h] = IF @ = joined[h] THEN 0 ELSE @]
    BY <1>8 DEF HostNoticesLeave
  <2>2. transport'[g] = transport[g]
    BY <2>1, Shapes
  <2>3. QED
    BY <1>2, <2>1, <2>2
<1>9. ASSUME NEW h \in Guest, \/ HostTakes(h) \/ GuestSubmits(h) \/ GuestProbes(h)
                               \/ GuestReloads(h) \/ Connect(h) \/ Disconnect(h) \/ GuestReceives(h)
      PROVE  UNCHANGED <<memory, transport>>
  BY <1>9 DEF HostTakes, GuestSubmits, GuestProbes, GuestReloads, Connect, Disconnect, GuestReceives, hostVars
<1>10. CASE \E c \in Click : ClickRuns(c)
  BY <1>2, <1>10 DEF ClickRuns
<1>11. CASE UNCHANGED vars
  BY <1>2, <1>11 DEF vars, hostVars
<1>12. QED
  BY <1>2, <1>3, <1>4, <1>5, <1>6, <1>7, <1>8, <1>9, <1>10, <1>11, ConnectionFrame

\* Each step keeps: who is bound or answered is a member, and who is announced is not removed.
LEMMA VoicesStep == IInv /\ OrderOK /\ VoicesOK /\ [Next]_vars => VoicesOK'
<1> SUFFICES ASSUME IInv, OrderOK, VoicesOK, [Next]_vars
             PROVE  /\ handler'.pc = "sync" /\ handler'.reason = "accepted" => handler'.g \in Members(memory')
                    /\ Announcing' => handler'.g \notin memory'.removed
  BY BoundStep DEF VoicesOK
<1>1. /\ handler.pc = "sync" /\ handler.reason = "accepted" => handler.g \in Members(memory)
      /\ Announcing => handler.g \notin memory.removed
      /\ \A g \in Guest : transport[g] # 0 => g \in Members(memory)
  BY DEF VoicesOK
<1>2. CASE handler'.pc \notin {"sync", "announce"}
  BY <1>2 DEF Announcing
<1>3. CASE handler' = Idle
  BY <1>2, <1>3, IdleOK
<1>4. CASE UNCHANGED <<handler, memory>>
  BY <1>1, <1>4 DEF Announcing
<1>5. ASSUME NEW g \in Guest, HostTakes(g)
      PROVE  /\ handler'.pc = "sync" /\ handler'.reason = "accepted" => handler'.g \in Members(memory')
             /\ Announcing' => handler'.g \notin memory'.removed
  <2>1. PICK k, m : k = Head(inbox[g])[1] /\ m = Head(inbox[g])[2]
    OBVIOUS
  <2>2. PICK taken : taken = [Idle EXCEPT !.g = g, !.k = k, !.cursor = m.cursor, !.intent = m.intent]
    OBVIOUS
  <2>3. taken = [pc |-> "idle", g |-> g, k |-> k, cursor |-> m.cursor, intent |-> m.intent,
                 event |-> NoEvent, reason |-> "none", waits |-> {}]
    BY <2>2 DEF Idle
  <2>4. UNCHANGED memory /\ k \in 1 .. MaxPages
    <3>1. inbox[g] \in Seq(InboxEntry) /\ inbox[g] # << >>
      BY <1>5, InboxTypes DEF HostTakes
    <3>2. Head(inbox[g]) \in InboxEntry
      BY <3>1
    <3>3. QED
      BY <1>5, <2>1, <3>2 DEF HostTakes, InboxEntry
  <2>5. \/ handler' = handler \/ handler' = Idle
        \/ handler' = [taken EXCEPT !.pc = "derive"] \/ handler' = [taken EXCEPT !.pc = "intent"]
        \/ /\ handler' = [taken EXCEPT !.pc = "sync", !.reason = "accepted", !.waits = Range(queue)]
           /\ <<g, k>> \in bound
    BY <1>5, <2>1, <2>2 DEF HostTakes
  <2>6. CASE handler' = handler
    BY <1>4, <2>4, <2>6
  <2>7. CASE handler' = [taken EXCEPT !.pc = "derive"] \/ handler' = [taken EXCEPT !.pc = "intent"]
    BY <1>2, <2>3, <2>7
  <2>8. CASE /\ handler' = [taken EXCEPT !.pc = "sync", !.reason = "accepted", !.waits = Range(queue)]
             /\ <<g, k>> \in bound
    <3>1. transport[g] # 0
      BY <2>4, <2>8, BoundIsTransport
    <3>2. handler'.g = g /\ handler'.event = NoEvent
      BY <2>3, <2>8
    <3>3. QED
      BY <1>1, <2>4, <3>1, <3>2 DEF Announcing
  <2>9. QED
    BY <1>3, <2>5, <2>6, <2>7, <2>8
<1>6. CASE HostAuthenticates
  <2>1. /\ UNCHANGED memory /\ handler.pc = "auth" /\ handler \in Handlers(Range(history))
        /\ \/ UNCHANGED handler \/ handler' = Idle
           \/ AuthVerdict(memory, handler.g) = "resumed" /\ SyncThen("accepted")
    BY <1>6 DEF HostAuthenticates, IInv, QueueOK, HandlerOK
  <2>2. CASE AuthVerdict(memory, handler.g) = "resumed" /\ SyncThen("accepted")
    <3>1. handler'.g = handler.g
      BY <2>1, <2>2 DEF SyncThen, Handlers
    <3>2. handler.g \in Members(memory) \ memory.removed
      BY <2>2, VerdictFacts
    <3>3. QED
      BY <2>1, <3>1, <3>2
  <2>3. QED
    BY <1>3, <1>4, <2>1, <2>2
<1>7. CASE HostSyncs
  <2>1. /\ UNCHANGED memory /\ handler.pc = "sync" /\ handler \in Handlers(Range(history))
        /\ \/ handler' = Idle
           \/ /\ handler' = [handler EXCEPT !.pc = "announce"]
              /\ handler.reason = "accepted" /\ handler.event # NoEvent
    BY <1>7 DEF HostSyncs, IInv, QueueOK, HandlerOK
  <2>2. CASE /\ handler' = [handler EXCEPT !.pc = "announce"]
             /\ handler.reason = "accepted" /\ handler.event # NoEvent
    <3>1. handler'.g = handler.g /\ handler'.pc = "announce" /\ handler'.event = handler.event
      BY <2>1, <2>2 DEF Handlers
    <3>2. Announcing' => Announcing
      BY <2>1, <2>2, <3>1 DEF Announcing
    <3>3. QED
      BY <1>1, <2>1, <3>1, <3>2
  <2>3. QED
    BY <1>3, <2>1, <2>2
<1>8. CASE CommitMessage
  <2>1. \/ handler' = Idle
        \/ /\ handler' = [handler EXCEPT !.pc = "sync", !.reason = "accepted", !.event = saving.event,
                                         !.waits = Range(Tail(queue))]
           /\ handler.pc = "auth"
    BY <1>8 DEF CommitMessage
  <2>2. CASE /\ handler' = [handler EXCEPT !.pc = "sync", !.reason = "accepted", !.event = saving.event,
                                           !.waits = Range(Tail(queue))]
             /\ handler.pc = "auth"
    <3>1. handler'.g = handler.g
      BY <2>2 DEF IInv, QueueOK, HandlerOK, Handlers
    <3>2. saving.event.type = "admitted" /\ saving.event.who = handler.g /\ handler.g \notin Members(memory)
      BY <1>8, <2>2, CommitMessageFacts
    <3>3. memory.removed \subseteq Members(memory)
      BY DEF IInv, MemoryOK
    <3>4. handler.g \in Members(memory') /\ handler.g \notin memory'.removed
      BY <1>8, <3>2, <3>3, CommitFacts
    <3>5. QED
      BY <3>1, <3>4
  <2>3. QED
    BY <1>3, <2>1, <2>2
<1>9. ASSUME NEW c \in Click, CommitClick(c)
      PROVE  /\ handler'.pc = "sync" /\ handler'.reason = "accepted" => handler'.g \in Members(memory')
             /\ Announcing' => handler'.g \notin memory'.removed
  <2>1. UNCHANGED handler /\ Members(memory) \subseteq Members(memory') /\ memory'.seq = memory.seq + 1
        /\ memory.seq \in Nat
    BY <1>9, CommitFacts DEF CommitClick
  <2>2. handler.event.seq <= memory.seq /\ handler.event.seq \in Nat
    <3>1. handler.event \in Range(history) \cup {NoEvent} /\ Range(history) \subseteq Entry
      BY RangeHistory DEF IInv, QueueOK, HandlerOK, Handlers
    <3>2. QED
      BY <3>1 DEF OrderOK, Entry, NoEvent
  <2>3. ~Announcing'
    BY <2>1, <2>2 DEF Announcing
  <2>4. QED
    BY <1>1, <2>1, <2>3
<1>10. CASE HostRestores
  <2>1. UNCHANGED handler /\ handler = Idle
    BY <1>10 DEF HostRestores, IInv, ClosedOK
  <2>2. QED
    BY <1>3, <2>1
<1>11. CASE HostCrashes \/ HostAnnounces
  BY <1>3, <1>11 DEF HostCrashes, HostAnnounces
<1>12. CASE HostDerives
  <2>1. handler'.pc = "auth"
    BY <1>12 DEF HostDerives, IInv, QueueOK, HandlerOK, Handlers
  <2>2. QED
    BY <1>2, <2>1
<1>13. CASE HostJudgesIntent
  <2>1. PICK v : v = ChatVerdict(memory, handler.g, handler.intent.client)
    OBVIOUS
  <2>2. /\ UNCHANGED memory
        /\ \/ UNCHANGED handler
           \/ /\ v # "accepted"
              /\ handler' = [handler EXCEPT !.pc = "sync", !.reason = v, !.cursor = 0, !.waits = Range(Tail(queue))]
    BY <1>13, <2>1 DEF HostJudgesIntent
  <2>3. CASE /\ v # "accepted"
             /\ handler' = [handler EXCEPT !.pc = "sync", !.reason = v, !.cursor = 0, !.waits = Range(Tail(queue))]
    <3>1. handler'.pc = "sync" /\ handler'.reason = v
      BY <2>3 DEF IInv, QueueOK, HandlerOK, Handlers
    <3>2. QED
      BY <2>3, <3>1 DEF Announcing
  <2>4. QED
    BY <1>4, <2>2, <2>3
<1>14. CASE SaveFails
  <2>1. UNCHANGED memory /\ (handler' = Idle \/ UNCHANGED handler)
    BY <1>14 DEF SaveFails
  <2>2. QED
    BY <1>3, <1>4, <2>1
<1>15. CASE UNCHANGED vars
  BY <1>4, <1>15 DEF vars, hostVars
<1>16. CASE UNCHANGED handler /\ ~UNCHANGED memory
  BY <1>8, <1>9, <1>10, <1>11, <1>15, <1>16, MemoryFrame
<1>17. QED
  BY <1>4, <1>5, <1>6, <1>7, <1>8, <1>11, <1>12, <1>13, <1>14, <1>15, <1>16, HandlerFrame

\* A step that takes from a connected guest nothing it waits for, and tells it nothing but the newest.
LEMMA Undisturbed ==
    ASSUME IInv, NEW g \in Guest, Served(g),
           page'[g] = page[g], memory' = memory, transport'[g] = transport[g], auth'[g] = auth[g],
           cred'[g].replica.seq = cred[g].replica.seq,
           \/ inbox'[g] = inbox[g]
           \/ \E x \in InboxEntry : x[1] = page[g] /\ inbox'[g] = Append(inbox[g], x),
           \/ toGuest'[g] = toGuest[g]
           \/ \E x \in Messages : /\ toGuest'[g] = Append(toGuest[g], x)
                                  /\ x.type = "accepted" => g \in Members(memory) /\ Carries(x) = memory.seq,
           AtAuth(g) => AtAuth(g)', AtSync(g) => AtSync(g)' \/ Newest(g)',
           Awaits(g) => Awaits(g)' \/ Newest(g)', Stale(g)' => Stale(g)
    PROVE  Served(g)'
<1>1. inbox[g] \in Seq(InboxEntry) /\ toGuest[g] \in Seq(Messages)
  BY Shapes
<1>2. ASSUME NEW t, Sent(g, t)
      PROVE  Sent(g, t)'
  <2>1. CASE inbox'[g] = inbox[g]
    BY <1>2, <2>1 DEF Sent
  <2>2. ASSUME NEW x \in InboxEntry, inbox'[g] = Append(inbox[g], x)
        PROVE  Sent(g, t)'
    <3>1. Has(inbox'[g], page[g], t)
      BY <1>1, <1>2, <2>2, HasAppend DEF Sent
    <3>2. QED
      BY <3>1 DEF Sent
  <2>3. QED
    BY <2>1, <2>2
<1>3. Turns(g)'
  <2>1. Renewed(inbox'[g], page'[g])
    <3>1. Renewed(inbox[g], page[g])
      BY DEF Served, Turns
    <3>2. QED
      BY <1>1, <3>1, RenewedAppend
  <2>2. Stale(g)' => Sent(g, "auth")'
    BY <1>2 DEF Served, Turns
  <2>3. QED
    BY <2>1, <2>2 DEF Turns
<1>4. (Newest(g) => Newest(g)') /\ (Welcome(g)' => Welcome(g) \/ (Newest(g)' /\ g \in Members(memory)))
  <2>1. CASE toGuest'[g] = toGuest[g]
    BY <2>1 DEF Newest, Welcome
  <2>2. ASSUME NEW x \in Messages, toGuest'[g] = Append(toGuest[g], x),
               x.type = "accepted" => g \in Members(memory) /\ Carries(x) = memory.seq
        PROVE  (Newest(g) => Newest(g)') /\ (Welcome(g)' => Welcome(g) \/ (Newest(g)' /\ g \in Members(memory)))
    <3>1. /\ \A top : Brings(toGuest'[g], top) <=>
                  Brings(toGuest[g], top) \/ (x.type \in {"accepted", "event"} /\ Carries(x) = top)
          /\ Admits(toGuest'[g]) <=> Admits(toGuest[g]) \/ x.type = "accepted"
      BY <1>1, <2>2, BringsAppend
    <3>2. QED
      BY <2>2, <3>1 DEF Newest, Welcome
  <2>3. QED
    BY <2>1, <2>2
<1>5. Welcome(g)' => g \in Members(memory)
  BY <1>4 DEF Served
<1>6. Voiced(g)'
  BY <1>2 DEF Served, Voiced
<1>7. CatchesUp(g)'
  <2>1. SUFFICES ASSUME Welcome(g)', g \notin memory.removed, ~Newest(g)'
                 PROVE  \/ cred'[g].replica.seq = memory'.seq
                        \/ Sent(g, "auth")' \/ Sent(g, "sync")' \/ AtAuth(g)' \/ AtSync(g)' \/ Awaits(g)'
    BY DEF CatchesUp
  <2>2. \/ cred[g].replica.seq = memory.seq
        \/ Sent(g, "auth") \/ Sent(g, "sync") \/ AtAuth(g) \/ AtSync(g) \/ Awaits(g)
    BY <1>4, <2>1 DEF Served, CatchesUp
  <2>3. QED
    BY <1>2, <2>1, <2>2
<1>8. QED
  BY <1>3, <1>5, <1>6, <1>7 DEF Served

\* A page that connects asks to be authenticated, which is all it needs.
LEMMA ConnectServes ==
    ASSUME IInv, OnlineOK, NEW g \in Guest, Connect(g)
    PROVE  Served(g)'
<1>1. PICK x : x = <<page[g], AuthRequest(IF cred[g].cached THEN cred[g].replica.seq ELSE ForceSnapshot)>>
  OBVIOUS
<1>2. /\ UNCHANGED <<page, toGuest>> /\ link[g] = "down" /\ auth' = [auth EXCEPT ![g] = "pending"]
      /\ inbox' = [inbox EXCEPT ![g] = Append(@, x)]
  BY <1>1 DEF Connect
<1>3. x \in InboxEntry /\ x[1] = page[g] /\ x[2].type = "auth"
  <2>1. (IF cred[g].cached THEN cred[g].replica.seq ELSE ForceSnapshot) \in Nat
    BY CredTypes, RequestTypes DEF IInv
  <2>2. \A c \in Nat : AuthRequest(c) \in Requests /\ AuthRequest(c).type = "auth"
    BY RequestTypes DEF AuthRequest
  <2>3. page[g] \in 1 .. MaxPages
    BY Shapes
  <2>4. QED
    BY <1>1, <2>1, <2>2, <2>3 DEF InboxEntry
<1>4. inbox[g] \in Seq(InboxEntry) /\ inbox'[g] = Append(inbox[g], x)
  BY <1>2, Shapes
<1>5. Sent(g, "auth")'
  BY <1>2, <1>3, <1>4, HasAppend DEF Sent
<1>6. Renewed(inbox'[g], page'[g])
  BY <1>2, <1>3, <1>4, RenewedAppend
<1>7. ~Welcome(g)'
  <2>1. toGuest'[g] = << >> /\ auth'[g] = "pending"
    BY <1>2, Shapes DEF OnlineOK
  <2>2. Range(<< >>) = {}
    BY DEF Range
  <2>3. QED
    BY <2>1, <2>2 DEF Welcome, Admits
<1>8. QED
  BY <1>5, <1>6, <1>7 DEF Served, Turns, Voiced, CatchesUp

\* The host takes one of the guest's messages.
LEMMA TakeServes ==
    ASSUME IInv, OnlineOK, NEW g \in Guest, link[g] = "up", Served(g), HostTakes(g)
    PROVE  Served(g)'
<1>1. PICK k, m : k = Head(inbox[g])[1] /\ m = Head(inbox[g])[2]
  OBVIOUS
<1>2. PICK taken : taken = [Idle EXCEPT !.g = g, !.k = k, !.cursor = m.cursor, !.intent = m.intent]
  OBVIOUS
<1>3. taken = [pc |-> "idle", g |-> g, k |-> k, cursor |-> m.cursor, intent |-> m.intent,
               event |-> NoEvent, reason |-> "none", waits |-> {}]
  BY <1>2 DEF Idle
<1>4. /\ inbox[g] \in Seq(InboxEntry) /\ toGuest[g] \in Seq(Messages) /\ inbox[g] # << >>
      /\ inbox'[g] = Tail(inbox[g]) /\ k \in 1 .. MaxPages /\ page[g] \in 1 .. MaxPages
      /\ m \in Requests
  <2>1. inbox[g] \in Seq(InboxEntry) /\ inbox[g] # << >> /\ inbox' = [inbox EXCEPT ![g] = Tail(@)]
    BY Shapes DEF HostTakes
  <2>2. Head(inbox[g]) \in InboxEntry
    BY <2>1
  <2>3. QED
    BY <1>1, <2>1, <2>2, Shapes DEF InboxEntry
<1>5. /\ handler.pc = "idle" /\ joined[g] = page[g]
      /\ UNCHANGED <<memory, joined, transport, page, cred, auth>>
  BY DEF HostTakes, OnlineOK, guestVars
<1>6. \/ m.type = "auth" /\ joined[g] = k /\ handler' = [taken EXCEPT !.pc = "derive"]
      \/ m.type = "auth" /\ joined[g] # k /\ UNCHANGED handler
      \/ m.type # "auth" /\ <<g, k>> \notin bound /\ UNCHANGED handler
      \/ /\ m.type = "sync" /\ <<g, k>> \in bound
         /\ handler' = IF g \in memory.removed THEN Idle
                       ELSE [taken EXCEPT !.pc = "sync", !.reason = "accepted", !.waits = Range(queue)]
      \/ m.type = "intent" /\ handler' = [taken EXCEPT !.pc = "intent"]
  BY <1>1, <1>2 DEF HostTakes
<1>7. ~AtAuth(g) /\ ~AtSync(g) /\ ~Awaits(g)
  BY <1>5 DEF AtAuth, AtSync, Awaits, Announcing
<1>8. \A t : Sent(g, t) <=> Sent(g, t)' \/ (k = page[g] /\ m.type = t)
  BY <1>1, <1>4, <1>5, HasTail DEF Sent
<1>9. Sent(g, "auth") => Sent(g, "auth")' \/ AtAuth(g)'
  <2>1. CASE k = page[g] /\ m.type = "auth"
    <3>1. handler' = [taken EXCEPT !.pc = "derive"]
      BY <1>5, <1>6, <2>1
    <3>2. QED
      BY <1>3, <1>5, <2>1, <3>1 DEF AtAuth
  <2>2. QED
    BY <1>8, <2>1
<1>10. Renewed(inbox[g], page[g])
  BY DEF Served, Turns
<1>11. Turns(g)'
  <2>1. Renewed(inbox'[g], page'[g]) /\ (k # page[g] => Sent(g, "auth")')
    BY <1>1, <1>4, <1>5, <1>10, RenewedTail DEF Sent
  <2>2. Stale(g)' => k # page[g]
    <3>1. handler'.pc = "idle" \/ handler'.k = k
      BY <1>3, <1>5, <1>6, IdleOK
    <3>2. QED
      BY <1>5, <3>1 DEF Stale
  <2>3. QED
    BY <2>1, <2>2 DEF Turns
<1>12. (Newest(g) => Newest(g)') /\ (Welcome(g)' => Welcome(g))
  <2>1. UNCHANGED toGuest \/ SendTo(g, k, Denied) \/ SendTo(g, k, Rejected(NoSync))
    BY <1>1 DEF HostTakes
  <2>2. toGuest'[g] = toGuest[g] \/ \E x \in Messages : x.type # "accepted" /\ toGuest'[g] = Append(toGuest[g], x)
    <3>1. Denied \in Messages /\ Rejected(NoSync) \in Messages
      BY MessageTypes
    <3>2. Denied.type # "accepted" /\ Rejected(NoSync).type # "accepted"
      BY DEF Denied, Rejected
    <3>3. QED
      BY <2>1, <3>1, <3>2, SentWhenUp
  <2>3. CASE toGuest'[g] = toGuest[g]
    BY <1>5, <2>3 DEF Newest, Welcome
  <2>4. ASSUME NEW x \in Messages, x.type # "accepted", toGuest'[g] = Append(toGuest[g], x)
        PROVE  (Newest(g) => Newest(g)') /\ (Welcome(g)' => Welcome(g))
    <3>1. /\ \A top : Brings(toGuest[g], top) => Brings(toGuest'[g], top)
          /\ Admits(toGuest'[g]) => Admits(toGuest[g])
      BY <1>4, <2>4, BringsAppend
    <3>2. QED
      BY <1>5, <3>1 DEF Newest, Welcome
  <2>5. QED
    BY <2>2, <2>3, <2>4
<1>13. Voiced(g)'
  BY <1>5, <1>7, <1>9 DEF Served, Voiced
<1>14. CatchesUp(g)'
  <2>1. SUFFICES ASSUME Welcome(g), g \notin memory.removed, Sent(g, "sync"), ~Sent(g, "sync")'
                 PROVE  Sent(g, "auth")' \/ AtAuth(g)' \/ AtSync(g)'
    BY <1>5, <1>7, <1>9, <1>12 DEF Served, CatchesUp
  <2>2. k = page[g] /\ m.type = "sync"
    BY <1>8, <2>1
  <2>3. CASE transport[g] = page[g]
    <3>1. <<g, k>> \in bound
      BY <1>4, <2>2, <2>3, BoundIsTransport
    <3>2. handler' = [taken EXCEPT !.pc = "sync", !.reason = "accepted", !.waits = Range(queue)]
      BY <1>6, <2>1, <2>2, <3>1
    <3>3. QED
      BY <1>3, <1>5, <2>2, <3>2 DEF AtSync
  <2>4. CASE transport[g] # page[g]
    <3>1. g \in Members(memory) \ memory.removed
      BY <2>1 DEF Served
    <3>2. Sent(g, "auth")
      BY <1>7, <2>4, <3>1 DEF Served, Voiced
    <3>3. QED
      BY <1>9, <3>2
  <2>5. QED
    BY <2>3, <2>4
<1>15. Welcome(g)' => g \in Members(memory')
  BY <1>5, <1>12 DEF Served
<1>16. QED
  BY <1>11, <1>13, <1>14, <1>15 DEF Served

\* The host answers a request to be authenticated.
LEMMA AnswerServes ==
    ASSUME IInv, NEW g \in Guest, Served(g), HostAuthenticates
    PROVE  Served(g)'
<1>1. /\ handler.pc = "auth" /\ handler.g \in Guest /\ handler.k \in 1 .. MaxPages
      /\ UNCHANGED <<memory, page, cred, auth, inbox>> /\ handler \in Handlers(Range(history))
  BY HandlerGuest DEF HostAuthenticates, guestVars, IInv, QueueOK, HandlerOK
<1>2. \/ /\ AuthVerdict(memory, handler.g) # "resumed" /\ SendTo(handler.g, handler.k, Denied)
         /\ handler' = Idle /\ UNCHANGED transport
      \/ /\ AuthVerdict(memory, handler.g) = "resumed"
         /\ transport' = [transport EXCEPT ![handler.g] = handler.k]
         /\ handler' = [handler EXCEPT !.pc = "sync", !.reason = "accepted", !.waits = Range(Tail(queue))]
         /\ UNCHANGED toGuest
      \/ UNCHANGED <<transport, toGuest, handler>>
  BY DEF HostAuthenticates, SyncThen, Bind
<1>3. ~AtSync(g) /\ ~Awaits(g)
  BY <1>1 DEF AtSync, Awaits, Announcing
<1>4. toGuest'[g] = toGuest[g] \/ \E x \in Messages : x.type # "accepted" /\ toGuest'[g] = Append(toGuest[g], x)
  BY <1>1, <1>2, SentWhenUp, MessageTypes DEF Denied
<1>5. CASE UNCHANGED handler
  <2>1. UNCHANGED transport
    <3>1. handler'.pc = "auth"
      BY <1>1, <1>5
    <3>2. QED
      BY <1>1, <1>2, <3>1, IdleOK DEF Handlers
  <2>2. AtAuth(g) <=> AtAuth(g)'
    BY <1>1, <1>5 DEF AtAuth
  <2>3. Stale(g)' => Stale(g)
    BY <1>1, <1>5 DEF Stale
  <2>4. QED
    BY <1>1, <1>3, <1>4, <2>1, <2>2, <2>3, Undisturbed
<1>6. CASE handler.g # g
  <2>1. transport'[g] = transport[g]
    BY <1>1, <1>2, <1>6, Shapes
  <2>2. ~AtAuth(g)
    BY <1>6 DEF AtAuth
  <2>3. ~Stale(g)'
    <3>1. handler'.pc = "idle" \/ handler'.g = handler.g
      BY <1>1, <1>2, IdleOK DEF Handlers
    <3>2. QED
      BY <1>6, <3>1 DEF Stale
  <2>4. QED
    BY <1>1, <1>3, <1>4, <2>1, <2>2, <2>3, Undisturbed
<1>7. /\ toGuest[g] \in Seq(Messages) /\ Renewed(inbox'[g], page'[g])
      /\ \A t : Sent(g, t) <=> Sent(g, t)'
  BY <1>1, Shapes DEF Served, Turns, Sent
<1>8. Welcome(g)' => Welcome(g)
  BY <1>1, <1>4, <1>7, BringsAppend DEF Welcome
<1>9. CASE handler.g = g /\ AuthVerdict(memory, g) # "resumed" /\ handler' = Idle /\ UNCHANGED transport
  <2>1. g \notin Members(memory) \ memory.removed
    BY <1>9, VerdictFacts
  <2>2. ~Stale(g)'
    BY <1>9, IdleOK DEF Stale
  <2>3. Welcome(g)' => g \in Members(memory)
    BY <1>8 DEF Served
  <2>4. QED
    BY <1>1, <1>7, <2>1, <2>2, <2>3 DEF Served, Turns, Voiced, CatchesUp
<1>10. CASE /\ handler.g = g /\ UNCHANGED toGuest /\ transport' = [transport EXCEPT ![handler.g] = handler.k]
            /\ handler' = [handler EXCEPT !.pc = "sync", !.reason = "accepted", !.waits = Range(Tail(queue))]
  <2>1. /\ handler'.pc = "sync" /\ handler'.reason = "accepted" /\ handler'.g = g /\ handler'.k = handler.k
        /\ transport'[g] = handler.k
    BY <1>1, <1>10, Shapes DEF Handlers
  <2>2. CASE handler.k = page[g]
    <3>1. AtSync(g)' /\ ~Stale(g)' /\ transport'[g] = page'[g]
      BY <1>1, <2>1, <2>2 DEF AtSync, Stale
    <3>2. QED
      BY <1>1, <1>7, <1>8, <3>1 DEF Served, Turns, Voiced, CatchesUp
  <2>3. CASE handler.k # page[g]
    <3>1. Stale(g)
      BY <1>1, <1>10, <2>3 DEF Stale
    <3>2. Sent(g, "auth")'
      BY <1>7, <3>1 DEF Served, Turns
    <3>3. QED
      BY <1>1, <1>7, <1>8, <3>2 DEF Served, Turns, Voiced, CatchesUp
  <2>4. QED
    BY <2>2, <2>3
<1>11. QED
  BY <1>2, <1>5, <1>6, <1>9, <1>10

\* The host goes on with the message it has, up to its answer.
LEMMA AnswersReach ==
    ASSUME IInv, VoicesOK, NEW g \in Guest, link[g] = "up", Served(g),
           HostDerives \/ HostSyncs \/ HostAnnounces \/ HostJudgesIntent \/ SaveFails
    PROVE  Served(g)'
<1>1. /\ UNCHANGED <<memory, transport, page, cred, auth, inbox>> /\ handler \in Handlers(Range(history))
      /\ page[g] \in 1 .. MaxPages /\ toGuest[g] \in Seq(Messages)
  BY Shapes DEF HostDerives, HostSyncs, HostAnnounces, HostJudgesIntent, SaveFails, guestVars, netVars,
        IInv, QueueOK, HandlerOK
<1>2. ASSUME AtAuth(g) => AtAuth(g)', AtSync(g) => AtSync(g)' \/ Newest(g)',
             Awaits(g) => Awaits(g)' \/ Newest(g)', Stale(g)' => Stale(g),
             \/ toGuest'[g] = toGuest[g]
             \/ \E x \in Messages : /\ toGuest'[g] = Append(toGuest[g], x)
                                    /\ x.type = "accepted" => g \in Members(memory) /\ Carries(x) = memory.seq
      PROVE  Served(g)'
  BY <1>1, <1>2, Undisturbed
<1>3. CASE HostDerives
  <2>1. handler.pc = "derive" /\ handler' = [handler EXCEPT !.pc = "auth"] /\ UNCHANGED toGuest
    BY <1>3 DEF HostDerives, netVars
  <2>2. handler'.pc = "auth" /\ handler'.g = handler.g /\ handler'.k = handler.k
    BY <1>1, <2>1 DEF Handlers
  <2>3. (AtAuth(g) => AtAuth(g)') /\ ~AtSync(g) /\ ~Awaits(g) /\ (Stale(g)' => Stale(g))
    BY <1>1, <2>1, <2>2 DEF AtAuth, AtSync, Awaits, Announcing, Stale
  <2>4. QED
    BY <1>2, <2>1, <2>3
<1>4. CASE HostJudgesIntent
  <2>1. handler.pc = "intent" /\ UNCHANGED toGuest
    BY <1>4 DEF HostJudgesIntent, netVars
  <2>2. handler' = handler \/ \E v, w : handler' = [handler EXCEPT !.pc = "sync", !.reason = v, !.cursor = 0, !.waits = w]
    BY <1>4 DEF HostJudgesIntent
  <2>3. handler'.g = handler.g /\ handler'.k = handler.k
    BY <1>1, <2>2 DEF Handlers
  <2>4. ~AtAuth(g) /\ ~AtSync(g) /\ ~Awaits(g) /\ (Stale(g)' => Stale(g))
    BY <1>1, <2>1, <2>3 DEF AtAuth, AtSync, Awaits, Announcing, Stale
  <2>5. QED
    BY <1>2, <2>1, <2>4
<1>5. CASE HostAnnounces
  <2>1. /\ handler.pc = "announce" /\ Broadcast(handler.event, bound \ {<<handler.g, handler.k>>}) /\ handler' = Idle
    BY <1>5 DEF HostAnnounces
  <2>2. ~AtAuth(g) /\ ~AtSync(g) /\ ~Stale(g)'
    BY <2>1, IdleOK DEF AtAuth, AtSync, Stale
  <2>3. PICK x : x = Canonical(handler.event)
    OBVIOUS
  <2>4. x \in Messages /\ x.type = "event" /\ Carries(x) = handler.event.seq
    <3>1. handler.event \in Range(history)
      BY <2>1 DEF IInv, QueueOK, HandlerOK, Handlers
    <3>2. QED
      BY <2>3, <3>1, MessageTypes DEF Canonical, Carries
  <2>5. toGuest'[g] = toGuest[g] \/ toGuest'[g] = Append(toGuest[g], x)
    BY <2>1, <2>3, BroadcastWhenUp
  <2>6. Awaits(g) => Newest(g)'
    <3>1. SUFFICES ASSUME Awaits(g)
                   PROVE  Newest(g)'
      OBVIOUS
    <3>2. <<g, page[g]>> \in bound \ {<<handler.g, handler.k>>} /\ handler.event.seq = memory.seq
      BY <1>1, <3>1, BoundIsTransport DEF Awaits, Announcing
    <3>3. toGuest'[g] = Append(toGuest[g], x)
      BY <2>1, <2>3, <3>2, BroadcastWhenUp
    <3>4. Brings(toGuest'[g], memory.seq)
      BY <1>1, <2>4, <3>2, <3>3, BringsAppend
    <3>5. QED
      BY <1>1, <3>4 DEF Newest
  <2>7. QED
    BY <1>2, <2>2, <2>4, <2>5, <2>6
<1>6. CASE HostSyncs
  <2>1. PICK k, sync : k = handler.k /\ sync = SyncResponse(memory, handler.g, handler.cursor)
    OBVIOUS
  <2>2. /\ handler.pc = "sync" /\ handler.g \in Guest /\ handler.cursor \in Nat
    BY <1>1, <1>6, HandlerGuest DEF HostSyncs, Handlers
  <2>3. sync \in GoodSyncs /\ sync.seq = memory.seq /\ sync # NoSync
    <3>1. memory \in States(Range(history)) /\ Range(history) \subseteq Entry
      BY MessagesCarry, RangeHistory DEF IInv
    <3>2. /\ sync \in Syncs(Range(history)) /\ sync.seq = memory.seq
          /\ sync.mode = "snapshot" => sync.snapshot.seq = memory.seq
      BY <2>1, <2>2, <3>1, SyncType
    <3>3. memory.seq <= Len(history)
      BY HostStates DEF IInv
    <3>4. QED
      BY <3>2, <3>3, SyncIsNotNone DEF GoodSyncs
  <2>4. /\ Accepted(sync) \in Messages /\ Accepted(sync).type = "accepted" /\ Carries(Accepted(sync)) = memory.seq
        /\ Rejected(sync) \in Messages /\ Rejected(sync).type = "rejected"
        /\ Rejected(NoSync) \in Messages /\ Rejected(NoSync).type = "rejected"
    BY <2>3, MessageTypes DEF Accepted, Rejected, Carries
  <2>5. CASE handler.reason = "accepted"
    <3>1. /\ IF handler.g \in memory.removed THEN UNCHANGED toGuest ELSE SendTo(handler.g, k, Accepted(sync))
          /\ handler' = IF handler.g \in memory.removed \/ handler.event = NoEvent THEN Idle
                        ELSE [handler EXCEPT !.pc = "announce"]
      BY <1>6, <2>1, <2>5 DEF HostSyncs
    <3>2. handler.g \in Members(memory) /\ (Announcing => handler.g \notin memory.removed)
      BY <2>2, <2>5 DEF VoicesOK
    <3>3. ~AtAuth(g) /\ (Stale(g)' => Stale(g))
      <4>1. handler'.pc = "idle" \/ (handler'.g = handler.g /\ handler'.k = handler.k)
        BY <1>1, <3>1, IdleOK DEF Handlers
      <4>2. QED
        BY <1>1, <2>2, <4>1 DEF AtAuth, Stale
    <3>4. Awaits(g) => Awaits(g)'
      <4>1. SUFFICES ASSUME Awaits(g)
                     PROVE  Awaits(g)'
        OBVIOUS
      <4>2. handler' = [handler EXCEPT !.pc = "announce"]
        BY <3>1, <3>2, <4>1 DEF Awaits, Announcing
      <4>3. handler'.pc = "announce" /\ handler'.g = handler.g /\ handler'.event = handler.event
        BY <1>1, <4>2 DEF Handlers
      <4>4. QED
        BY <1>1, <4>1, <4>3 DEF Awaits, Announcing
    <3>5. CASE handler.g = g /\ k = page[g] /\ g \notin memory.removed
      <4>1. toGuest'[g] = Append(toGuest[g], Accepted(sync))
        BY <3>1, <3>5, Shapes DEF SendTo, Reachable
      <4>2. Brings(toGuest'[g], memory.seq)
        BY <1>1, <2>4, <4>1, BringsAppend
      <4>3. Newest(g)'
        BY <1>1, <4>2 DEF Newest
      <4>4. QED
        BY <1>2, <2>4, <3>2, <3>3, <3>4, <3>5, <4>1, <4>3
    <3>6. CASE ~(handler.g = g /\ k = page[g])
      <4>1. ~AtSync(g)
        BY <2>1, <3>6 DEF AtSync
      <4>2. toGuest'[g] = toGuest[g]
        BY <2>2, <3>1, <3>6, SentWhenUp
      <4>3. QED
        BY <1>2, <3>3, <3>4, <4>1, <4>2
    <3>7. CASE handler.g = g /\ g \in memory.removed
      <4>1. UNCHANGED toGuest /\ handler' = Idle /\ ~Announcing
        BY <3>1, <3>2, <3>7
      <4>2. ~AtAuth(g)' /\ ~Stale(g)' /\ ~Awaits(g)
        BY <4>1, IdleOK DEF AtAuth, Stale, Awaits
      <4>3. /\ Renewed(inbox'[g], page'[g]) /\ (Welcome(g)' => Welcome(g))
        BY <1>1, <4>1 DEF Served, Turns, Welcome
      <4>4. QED
        BY <1>1, <3>7, <4>2, <4>3 DEF Served, Turns, Voiced, CatchesUp
    <3>8. QED
      BY <3>5, <3>6, <3>7
  <2>6. CASE handler.reason # "accepted"
    <3>1. (SendTo(handler.g, k, Rejected(sync)) \/ SendTo(handler.g, k, Rejected(NoSync))) /\ handler' = Idle
      BY <1>6, <2>1, <2>6 DEF HostSyncs
    <3>2. ~AtAuth(g) /\ ~AtSync(g) /\ ~Awaits(g) /\ ~Stale(g)'
      BY <2>2, <2>6, <3>1, IdleOK DEF AtAuth, AtSync, Awaits, Announcing, Stale
    <3>3. toGuest'[g] = toGuest[g] \/ \E x \in Messages : x.type # "accepted" /\ toGuest'[g] = Append(toGuest[g], x)
      BY <2>2, <2>4, <3>1, SentWhenUp
    <3>4. QED
      BY <1>2, <3>2, <3>3
  <2>7. QED
    BY <2>5, <2>6
<1>7. CASE SaveFails
  <2>1. saving # NoSave /\ UNCHANGED toGuest
        /\ (IF Head(queue) = "message" THEN handler' = Idle ELSE UNCHANGED handler)
    BY <1>7 DEF SaveFails, netVars
  <2>2. CASE UNCHANGED handler
    <3>1. (AtAuth(g) => AtAuth(g)') /\ (AtSync(g) => AtSync(g)') /\ (Awaits(g) => Awaits(g)') /\ (Stale(g)' => Stale(g))
      BY <1>1, <2>2 DEF AtAuth, AtSync, Awaits, Announcing, Stale
    <3>2. QED
      BY <1>2, <2>1, <3>1
  <2>3. CASE Head(queue) = "message" /\ handler' = Idle
    <3>1. handler.pc \in {"auth", "intent"} /\ (handler.pc = "auth" => handler.g \notin Members(memory))
      BY <2>1, <2>3 DEF IInv, SavingOK
    <3>2. ~AtSync(g) /\ ~Awaits(g) /\ ~Stale(g)'
      BY <2>3, <3>1, IdleOK DEF AtSync, Awaits, Announcing, Stale
    <3>3. CASE ~AtAuth(g)
      BY <1>2, <2>1, <3>2, <3>3
    <3>4. CASE AtAuth(g)
      <4>1. g \notin Members(memory)
        BY <3>1, <3>4 DEF AtAuth
      <4>2. /\ Renewed(inbox'[g], page'[g]) /\ (Welcome(g)' => Welcome(g))
        BY <1>1, <2>1 DEF Served, Turns, Welcome
      <4>3. QED
        BY <1>1, <3>2, <4>1, <4>2 DEF Served, Turns, Voiced, CatchesUp
    <3>5. QED
      BY <3>3, <3>4
  <2>4. QED
    BY <2>1, <2>2, <2>3
<1>8. QED
  BY <1>3, <1>4, <1>5, <1>6, <1>7

\* A mutation is assigned: whoever is bound is told of it, and whoever is not has asked.
LEMMA CommitServes ==
    ASSUME IInv, VoicesOK, NEW g \in Guest, link[g] = "up", Served(g),
           CommitMessage \/ \E c \in Click : CommitClick(c)
    PROVE  Served(g)'
<1>1. PICK e : e = saving.event
  OBVIOUS
<1>2. /\ e \in Range(history) /\ e \in Entry /\ e # NoEvent /\ memory'.seq = e.seq
      /\ Members(memory') = IF e.type = "admitted" THEN Members(memory) \cup {e.who} ELSE Members(memory)
      /\ memory'.removed = IF e.type = "removed" THEN memory.removed \cup {e.who} ELSE memory.removed
  BY <1>1, CommitFacts
<1>3. /\ UNCHANGED <<page, cred, auth, inbox>> /\ page[g] \in 1 .. MaxPages /\ toGuest[g] \in Seq(Messages)
  BY Shapes DEF CommitMessage, CommitClick, guestVars
<1>4. Canonical(e) \in Messages /\ Canonical(e).type = "event" /\ Carries(Canonical(e)) = memory'.seq
  BY <1>2, MessageTypes DEF Canonical, Carries
<1>5. \A t : Sent(g, t) <=> Sent(g, t)'
  BY <1>3 DEF Sent
<1>6. ASSUME NEW S, Broadcast(e, S)
      PROVE  (Welcome(g)' => Welcome(g)) /\ (<<g, page[g]>> \in S => Newest(g)')
  <2>1. toGuest'[g] = toGuest[g] \/ toGuest'[g] = Append(toGuest[g], Canonical(e))
    BY <1>6, BroadcastWhenUp
  <2>2. Welcome(g)' => Welcome(g)
    BY <1>3, <1>4, <2>1, BringsAppend DEF Welcome
  <2>3. ASSUME <<g, page[g]>> \in S
        PROVE  Newest(g)'
    <3>1. toGuest'[g] = Append(toGuest[g], Canonical(e))
      BY <1>6, <2>3, BroadcastWhenUp
    <3>2. Brings(toGuest'[g], memory'.seq)
      BY <1>3, <1>4, <3>1, BringsAppend
    <3>3. QED
      BY <3>2 DEF Newest
  <2>4. QED
    BY <2>2, <2>3
<1>7. ASSUME Welcome(g)' => Welcome(g), Stale(g)' => Stale(g), AtAuth(g) => AtAuth(g)',
             g \in Members(memory) \ memory.removed /\ g \notin memory'.removed /\ transport[g] = page[g] =>
                 transport'[g] = page[g] /\ (Newest(g)' \/ Awaits(g)'),
             g \in Members(memory') \ memory'.removed =>
                 g \in Members(memory) \/ transport'[g] = page[g] \/ Sent(g, "auth")
      PROVE  Served(g)'
  <2>1. Turns(g)'
    BY <1>3, <1>5, <1>7 DEF Served, Turns
  <2>2. memory.removed \subseteq memory'.removed /\ Members(memory) \subseteq Members(memory')
    BY <1>2
  <2>3. Welcome(g)' => g \in Members(memory)
    BY <1>7 DEF Served
  <2>4. Voiced(g)'
    BY <1>3, <1>5, <1>7, <2>2 DEF Served, Voiced
  <2>5. CatchesUp(g)'
    <3>1. SUFFICES ASSUME Welcome(g)', g \notin memory'.removed
                   PROVE  Newest(g)' \/ Awaits(g)' \/ Sent(g, "auth")' \/ AtAuth(g)'
      BY DEF CatchesUp
    <3>2. g \in Members(memory) \ memory.removed
      BY <2>2, <2>3, <3>1
    <3>3. transport[g] = page[g] \/ Sent(g, "auth") \/ AtAuth(g)
      BY <3>2 DEF Served, Voiced
    <3>4. QED
      BY <1>5, <1>7, <3>1, <3>2, <3>3
  <2>6. QED
    BY <2>1, <2>2, <2>3, <2>4, <2>5 DEF Served
<1>8. CASE CommitMessage /\ handler.pc = "auth"
  <2>1. /\ e.type = "admitted" /\ e.who = handler.g /\ handler.g \in Guest /\ handler.g \notin Members(memory)
        /\ handler.k \in 1 .. MaxPages
    BY <1>1, <1>8, CommitMessageFacts
  <2>2. /\ transport' = [transport EXCEPT ![handler.g] = handler.k] /\ UNCHANGED toGuest
        /\ handler' = [handler EXCEPT !.pc = "sync", !.reason = "accepted", !.event = e, !.waits = Range(Tail(queue))]
    BY <1>1, <1>8 DEF CommitMessage, Bind
  <2>3. /\ handler'.pc = "sync" /\ handler'.reason = "accepted" /\ handler'.event = e
        /\ handler'.g = handler.g /\ handler'.k = handler.k
    BY <2>2 DEF IInv, QueueOK, HandlerOK, Handlers
  <2>4. (Welcome(g)' => Welcome(g)) /\ (Stale(g)' => Stale(g))
    BY <1>3, <1>8, <2>2, <2>3 DEF Welcome, Stale
  <2>5. CASE handler.g = g
    <3>1. ~Welcome(g) /\ g \notin Members(memory)
      BY <2>1, <2>5 DEF Served
    <3>2. CASE handler.k = page[g]
      <4>1. transport'[g] = page[g]
        BY <2>2, <2>5, <3>2, Shapes
      <4>2. QED
        BY <1>3, <2>4, <3>1, <4>1, <1>5, <1>2 DEF Served, Turns, Voiced, CatchesUp
    <3>3. CASE handler.k # page[g]
      <4>1. Sent(g, "auth")
        BY <1>8, <2>5, <3>3 DEF Served, Turns, Stale
      <4>2. QED
        BY <1>3, <2>4, <3>1, <4>1, <1>5, <1>2 DEF Served, Turns, Voiced, CatchesUp
    <3>4. QED
      BY <3>2, <3>3
  <2>6. CASE handler.g # g
    <3>1. transport'[g] = transport[g] /\ ~AtAuth(g)
      BY <2>2, <2>6, Shapes DEF AtAuth
    <3>2. transport[g] = page[g] => Awaits(g)'
      BY <1>2, <1>3, <2>3, <2>6, <3>1 DEF Awaits, Announcing
    <3>3. g \in Members(memory') => g \in Members(memory)
      BY <1>2, <2>1, <2>6
    <3>4. QED
      BY <1>7, <2>4, <3>1, <3>2, <3>3
  <2>7. QED
    BY <2>5, <2>6
<1>9. CASE CommitMessage /\ handler.pc # "auth"
  <2>1. handler.pc = "intent" /\ e.type = "chat"
    BY <1>1, <1>9, CommitMessageFacts
  <2>2. Broadcast(e, bound) /\ handler' = Idle /\ UNCHANGED transport
    BY <1>1, <1>9 DEF CommitMessage
  <2>3. ~AtAuth(g) /\ ~Stale(g)'
    BY <2>1, <2>2, IdleOK DEF AtAuth, Stale
  <2>4. transport[g] = page[g] => Newest(g)'
    BY <1>3, <1>6, <2>2, BoundIsTransport
  <2>5. g \in Members(memory') => g \in Members(memory)
    BY <1>2, <2>1
  <2>6. QED
    BY <1>6, <1>7, <2>2, <2>3, <2>4, <2>5
<1>10. ASSUME NEW c \in Click, CommitClick(c)
       PROVE  Served(g)'
  <2>1. e.type = clicks[c].op /\ e.who = clicks[c].g /\ e.type # "admitted" /\ UNCHANGED handler
    BY <1>1, <1>10, CommitClickFacts DEF CommitClick
  <2>2. (AtAuth(g) => AtAuth(g)') /\ (Stale(g)' => Stale(g))
    BY <1>3, <2>1 DEF AtAuth, Stale
  <2>3. g \in Members(memory') => g \in Members(memory)
    BY <1>2, <2>1
  <2>4. CASE clicks[c].op # "removed"
    <3>1. Broadcast(e, bound) /\ UNCHANGED transport
      BY <1>1, <1>10, <2>4 DEF CommitClick
    <3>2. transport[g] = page[g] => Newest(g)'
      BY <1>3, <1>6, <3>1, BoundIsTransport
    <3>3. QED
      BY <1>6, <1>7, <2>2, <2>3, <3>1, <3>2
  <2>5. CASE clicks[c].op = "removed"
    <3>1. /\ bound' = bound \ {<<clicks[c].g, transport[clicks[c].g]>>}
          /\ transport' = [transport EXCEPT ![clicks[c].g] = 0]
          /\ Broadcast(e, bound' \cup {<<clicks[c].g, clicks[c].k>>})
      BY <1>1, <1>10, <2>5 DEF CommitClick
    <3>2. ASSUME g \notin memory'.removed, transport[g] = page[g]
          PROVE  transport'[g] = page[g] /\ Newest(g)'
      <4>1. g # clicks[c].g
        BY <1>2, <2>1, <2>5, <3>2
      <4>2. transport'[g] = page[g]
        BY <3>1, <3>2, <4>1, Shapes
      <4>3. <<g, page[g]>> \in bound
        BY <1>3, <3>2, BoundIsTransport
      <4>4. <<g, page[g]>> \in bound' \cup {<<clicks[c].g, clicks[c].k>>}
        BY <3>1, <4>1, <4>3
      <4>5. QED
        BY <1>6, <3>1, <4>2, <4>4
    <3>3. Welcome(g)' => Welcome(g)
      BY <1>6, <3>1
    <3>4. QED
      BY <1>7, <2>2, <2>3, <3>2, <3>3
  <2>6. QED
    BY <2>4, <2>5
<1>11. QED
  BY <1>8, <1>9, <1>10

\* What is left of a message once it has been handled.
LEMMA ReceiveEnds ==
    ASSUME IInv, NEW g \in Guest, GuestReceives(g), NEW m, m = Head(toGuest[g])
    PROVE  \/ /\ UNCHANGED <<cred, inbox>> /\ m.type # "accepted" /\ auth'[g] \in {auth[g], "denied"}
              /\ m.type = "event" => Carries(m) <= cred[g].replica.seq
           \/ AskForSnapshot(g)
           \/ \E s \in GoodSyncs : \E v :
                /\ TakeIn(g, s, v)
                /\ s.seq = Carries(m)
                /\ s.mode = "snapshot" => IsSnapshot(m)
                /\ v = auth[g] \/ m.type = "accepted"
<1>1. m \in Messages
  <2>1. toGuest[g] \in Seq(Messages) /\ toGuest[g] # << >>
    BY DEF IInv, GuestsOK, GuestReceives
  <2>2. QED
    BY <2>1
<1>2. CASE m.type = "accepted"
  <2>1. TakeIn(g, m.sync, "accepted")
    BY <1>2 DEF GuestReceives
  <2>2. QED
    BY <1>1, <1>2, <2>1, MessageForms DEF Carries, IsSnapshot
<1>3. CASE m.type = "rejected"
  <2>1. UNCHANGED <<cred, auth, inbox>> \/ (m.sync # NoSync /\ TakeIn(g, m.sync, auth[g]))
    BY <1>3 DEF GuestReceives
  <2>2. QED
    BY <1>1, <1>3, <2>1, MessageForms DEF Carries, IsSnapshot
<1>4. CASE m.type = "denied"
  <2>1. UNCHANGED <<cred, inbox>> /\ auth' = [auth EXCEPT ![g] = "denied"]
    BY <1>4 DEF GuestReceives
  <2>2. auth'[g] = "denied"
    BY <2>1, Shapes
  <2>3. QED
    BY <1>4, <2>1, <2>2
<1>5. CASE m.type = "event"
  <2>1. m.sync = NoSync /\ SyntheticSync(g, m.event) \in GoodSyncs
    BY <1>1, <1>5, MessageForms, SyntheticGood DEF IInv
  <2>2. \/ UNCHANGED <<cred, auth, inbox>> /\ m.event.seq <= cred[g].replica.seq
        \/ AskForSnapshot(g) \/ TakeIn(g, SyntheticSync(g, m.event), auth[g])
    BY <1>5 DEF GuestReceives
  <2>3. SyntheticSync(g, m.event).seq = Carries(m) /\ SyntheticSync(g, m.event).mode # "snapshot"
        /\ Carries(m) = m.event.seq
    BY <2>1 DEF SyntheticSync, Carries
  <2>4. QED
    BY <1>5, <2>1, <2>2, <2>3
<1>6. QED
  BY <1>1, <1>2, <1>3, <1>4, <1>5, MessageForms

\* A guest that asks for a snapshot has its request in the line.
LEMMA AskSends ==
    ASSUME IInv, NEW g \in Guest, link[g] = "up", AskForSnapshot(g)
    PROVE  \E x \in InboxEntry : x[1] = page[g] /\ x[2].type = "sync" /\ inbox'[g] = Append(inbox[g], x)
<1>1. PICK x : x = <<page[g], SyncRequest(ForceSnapshot)>>
  OBVIOUS
<1>2. SyncRequest(ForceSnapshot) \in Requests /\ SyncRequest(ForceSnapshot).type = "sync"
  BY RequestTypes DEF SyncRequest
<1>3. x \in InboxEntry /\ x[1] = page[g] /\ x[2].type = "sync"
  BY <1>1, <1>2, Shapes DEF InboxEntry
<1>4. inbox'[g] = Append(inbox[g], x)
  BY <1>1, Shapes DEF AskForSnapshot, SendToHost
<1>5. QED
  BY <1>3, <1>4

\* A guest handles a message: it has what the message carries, or it asks.
LEMMA ReceiveServes ==
    ASSUME IInv, GuestsOK', OrderOK, OrderOK', OnlineOK, NEW g \in Guest, link[g] = "up", Served(g), GuestReceives(g)
    PROVE  Served(g)'
<1>1. PICK m : m = Head(toGuest[g])
  OBVIOUS
<1>2. /\ UNCHANGED <<up, memory, transport, handler, page>> /\ toGuest[g] # << >> /\ up
      /\ toGuest' = [toGuest EXCEPT ![g] = Tail(@)]
  BY DEF GuestReceives, hostVars, OnlineOK
<1>3. /\ toGuest[g] \in Seq(Messages) /\ toGuest'[g] = Tail(toGuest[g]) /\ inbox[g] \in Seq(InboxEntry)
      /\ m \in Messages /\ Carries(m) \in Nat /\ cred[g].replica.seq \in Nat /\ memory.seq \in Nat
  <2>1. toGuest[g] \in Seq(Messages) /\ toGuest'[g] = Tail(toGuest[g]) /\ inbox[g] \in Seq(InboxEntry)
    BY <1>2, Shapes
  <2>2. m \in Messages
    BY <1>1, <1>2, <2>1
  <2>3. QED
    BY <2>1, <2>2, MessagesCarry
<1>4. (AtAuth(g) <=> AtAuth(g)') /\ (AtSync(g) <=> AtSync(g)') /\ (Awaits(g) <=> Awaits(g)') /\ (Stale(g) <=> Stale(g)')
  BY <1>2 DEF AtAuth, AtSync, Awaits, Announcing, Stale
<1>5. cred[g].replica.seq <= memory.seq /\ cred'[g].replica.seq <= memory.seq
  <2>1. InOrder(g) /\ InOrder(g)'
    BY DEF OrderOK
  <2>2. QED
    BY <1>2, <2>1 DEF InOrder, Caught
<1>6. /\ Newest(g) => Newest(g)' \/ (m.type \in {"accepted", "event"} /\ Carries(m) = memory.seq)
      /\ Admits(toGuest'[g]) => Admits(toGuest[g])
      /\ m.type = "accepted" => Admits(toGuest[g])
  <2>1. /\ \A top : Brings(toGuest[g], top) <=>
               Brings(toGuest'[g], top) \/ (m.type \in {"accepted", "event"} /\ Carries(m) = top)
        /\ Admits(toGuest[g]) <=> Admits(toGuest'[g]) \/ m.type = "accepted"
    BY <1>1, <1>2, <1>3, BringsTail
  <2>2. Newest(g) => Newest(g)' \/ (m.type \in {"accepted", "event"} /\ Carries(m) = memory.seq)
    BY <1>2, <2>1 DEF Newest
  <2>3. QED
    BY <2>1, <2>2
<1>7. ASSUME \A t : Sent(g, t) => Sent(g, t)', Renewed(inbox'[g], page'[g]),
             auth'[g] = "accepted" => auth[g] = "accepted" \/ m.type = "accepted",
             \/ Sent(g, "sync")'
             \/ /\ cred[g].replica.seq <= cred'[g].replica.seq
                /\ m.type \in {"accepted", "event"} => Carries(m) <= cred'[g].replica.seq
      PROVE  Served(g)'
  <2>1. Turns(g)' /\ Voiced(g)'
    BY <1>2, <1>4, <1>7 DEF Served, Turns, Voiced
  <2>2. Welcome(g)' => Welcome(g)
    BY <1>6, <1>7 DEF Welcome
  <2>3. CatchesUp(g)'
    <3>1. SUFFICES ASSUME Welcome(g), g \notin memory.removed, ~Newest(g)', ~Sent(g, "sync")'
                   PROVE  \/ cred'[g].replica.seq = memory.seq
                          \/ Sent(g, "auth")' \/ AtAuth(g)' \/ AtSync(g)' \/ Awaits(g)'
      BY <1>2, <2>2 DEF CatchesUp
    <3>2. \/ cred[g].replica.seq = memory.seq \/ Newest(g)
          \/ Sent(g, "auth") \/ Sent(g, "sync") \/ AtAuth(g) \/ AtSync(g) \/ Awaits(g)
      BY <3>1 DEF Served, CatchesUp
    <3>3. /\ cred[g].replica.seq <= cred'[g].replica.seq
          /\ m.type \in {"accepted", "event"} => Carries(m) <= cred'[g].replica.seq
      BY <1>7, <3>1
    <3>4. cred'[g].replica.seq \in Nat
      BY DEF GuestsOK, Credential
    <3>5. cred[g].replica.seq = memory.seq \/ Newest(g) => cred'[g].replica.seq = memory.seq
      BY <1>3, <1>5, <1>6, <3>1, <3>3, <3>4
    <3>6. QED
      BY <1>4, <1>7, <3>1, <3>2, <3>5
  <2>4. QED
    BY <1>2, <2>1, <2>2, <2>3 DEF Served
<1>8. Renewed(inbox[g], page[g])
  BY DEF Served, Turns
<1>9. CASE inbox'[g] = inbox[g]
  <2>1. (\A t : Sent(g, t) => Sent(g, t)') /\ Renewed(inbox'[g], page'[g])
    BY <1>2, <1>8, <1>9 DEF Sent
  <2>2. CASE /\ UNCHANGED <<cred, inbox>> /\ m.type # "accepted" /\ auth'[g] \in {auth[g], "denied"}
             /\ m.type = "event" => Carries(m) <= cred[g].replica.seq
    BY <1>3, <1>7, <2>1, <2>2
  <2>3. ASSUME NEW s \in GoodSyncs, NEW v, TakeIn(g, s, v), ~AskForSnapshot(g), s.seq = Carries(m),
               s.mode = "snapshot" => IsSnapshot(m), v = auth[g] \/ m.type = "accepted"
        PROVE  Served(g)'
    <3>1. ApplySync(cred[g].replica, s) # Gone /\ cred'[g].replica.seq = s.seq
      BY <2>3, TakeInCarries
    <3>2. cred[g].replica.seq <= s.seq
      BY <1>1, <2>3, <3>1, TakesForward
    <3>3. auth'[g] = v
      <4>1. auth' = [auth EXCEPT ![g] = v]
        BY <2>3 DEF TakeIn
      <4>2. QED
        BY <4>1, Shapes
    <3>4. QED
      BY <1>3, <1>7, <2>1, <2>3, <3>1, <3>2, <3>3
  <2>4. ~AskForSnapshot(g)
    <3>1. ASSUME NEW x, inbox'[g] = Append(inbox[g], x), x \in InboxEntry
          PROVE  FALSE
      BY <1>3, <1>9, <3>1
    <3>2. QED
      BY <3>1, AskSends
  <2>5. QED
    BY <1>1, <2>2, <2>3, <2>4, ReceiveEnds
<1>10. CASE AskForSnapshot(g)
  <2>1. PICK x \in InboxEntry : x[1] = page[g] /\ x[2].type = "sync" /\ inbox'[g] = Append(inbox[g], x)
    BY <1>10, AskSends
  <2>2. \A t : Sent(g, t)' <=> Sent(g, t) \/ x[2].type = t
    BY <1>2, <1>3, <2>1, HasAppend DEF Sent
  <2>3. Renewed(inbox'[g], page'[g])
    BY <1>2, <1>3, <1>8, <2>1, RenewedAppend
  <2>4. UNCHANGED auth
    BY <1>10 DEF AskForSnapshot
  <2>5. QED
    BY <1>7, <2>1, <2>2, <2>3, <2>4
<1>11. AskForSnapshot(g) \/ inbox'[g] = inbox[g]
  <2>1. ASSUME NEW s, NEW v, TakeIn(g, s, v)
        PROVE  AskForSnapshot(g) \/ UNCHANGED inbox
    BY <2>1 DEF TakeIn
  <2>2. QED
    BY <1>1, <2>1, ReceiveEnds
<1>12. QED
  BY <1>9, <1>10, <1>11

\* What a guest's user does sends a request, or nothing that is asked for.
LEMMA UserServes ==
    ASSUME IInv, NEW g \in Guest, link[g] = "up", Served(g), GuestSubmits(g) \/ GuestProbes(g)
    PROVE  Served(g)'
<1>1. /\ UNCHANGED <<memory, transport, handler, page, toGuest, auth>>
      /\ toGuest[g] \in Seq(Messages) /\ inbox[g] \in Seq(InboxEntry) /\ lastIntent[g] \in Intents
      /\ cred \in [Guest -> Credential] /\ cred[g].next \in Nat /\ page[g] \in 1 .. MaxPages
  BY Shapes, CredTypes DEF GuestSubmits, GuestProbes, hostVars, IInv, GuestsOK
<1>2. (AtAuth(g) <=> AtAuth(g)') /\ (AtSync(g) <=> AtSync(g)') /\ (Awaits(g) <=> Awaits(g)') /\ (Stale(g) <=> Stale(g)')
  BY <1>1 DEF AtAuth, AtSync, Awaits, Announcing, Stale
<1>3. ASSUME NEW r \in Requests, SendToHost(g, r)
      PROVE  \E x \in InboxEntry : x[1] = page[g] /\ x[2] = r /\ inbox'[g] = Append(inbox[g], x)
  <2>1. <<page[g], r>> \in InboxEntry /\ inbox'[g] = Append(inbox[g], <<page[g], r>>)
    BY <1>1, <1>3, Shapes DEF SendToHost, InboxEntry
  <2>2. QED
    BY <2>1
<1>4. CASE cred'[g].replica = cred[g].replica /\ \E r \in Requests : SendToHost(g, r)
  <2>1. \E x \in InboxEntry : x[1] = page[g] /\ inbox'[g] = Append(inbox[g], x)
    BY <1>3, <1>4
  <2>2. QED
    BY <1>1, <1>2, <1>4, <2>1, Undisturbed
<1>5. CASE SendToHost(g, SyncRequest(0))
  <2>1. SyncRequest(0) \in Requests /\ SyncRequest(0).type = "sync"
    BY RequestTypes DEF SyncRequest
  <2>2. PICK x \in InboxEntry : x[1] = page[g] /\ x[2].type = "sync" /\ inbox'[g] = Append(inbox[g], x)
    BY <1>3, <1>5, <2>1
  <2>3. \A t : Sent(g, t)' <=> Sent(g, t) \/ x[2].type = t
    BY <1>1, <2>2, HasAppend DEF Sent
  <2>4. Renewed(inbox'[g], page'[g])
    BY <1>1, <2>2, RenewedAppend DEF Served, Turns
  <2>5. Welcome(g)' => Welcome(g)
    BY <1>1 DEF Welcome
  <2>6. QED
    BY <1>1, <1>2, <2>2, <2>3, <2>4, <2>5 DEF Served, Turns, Voiced, CatchesUp
<1>6. CASE GuestSubmits(g)
  <2>1. PICK i : i = [client |-> cred[g].next, text |-> typed[g] + 1]
    OBVIOUS
  <2>2. cred' = [cred EXCEPT ![g].next = @ + 1] /\ SendToHost(g, Intent(i)) /\ typed[g] + 1 \in Text
    BY <1>6, <2>1 DEF GuestSubmits
  <2>3. i \in Intents
    BY <1>1, <2>1, <2>2, HostAuthorityAssumption DEF Intents
  <2>4. [cred[g] EXCEPT !.next = @ + 1].replica = cred[g].replica
    BY CredUpdates DEF IInv
  <2>5. cred'[g].replica = cred[g].replica
    BY <1>1, <2>2, <2>4
  <2>6. QED
    BY <1>4, <2>2, <2>3, <2>5, RequestTypes
<1>7. CASE GuestProbes(g)
  <2>1. \/ SendToHost(g, Intent(lastIntent[g])) /\ UNCHANGED cred
        \/ SendToHost(g, SyncRequest(ForceSnapshot)) /\ UNCHANGED cred
        \/ SendToHost(g, SyncRequest(0))
    BY <1>7 DEF GuestProbes
  <2>2. Intent(lastIntent[g]) \in Requests /\ SyncRequest(ForceSnapshot) \in Requests
    BY <1>1, RequestTypes
  <2>3. QED
    BY <1>4, <1>5, <2>1, <2>2
<1>8. QED
  BY <1>6, <1>7

\* Each step leaves every connected guest served.
LEMMA ServedStep ==
    IInv /\ GuestsOK' /\ OrderOK /\ OrderOK' /\ OnlineOK /\ VoicesOK /\ ServedOK /\ [Next]_vars => ServedOK'
<1> SUFFICES ASSUME IInv, GuestsOK', OrderOK, OrderOK', OnlineOK, VoicesOK, ServedOK, [Next]_vars,
                    NEW g \in Guest, link'[g] = "up"
             PROVE  Served(g)'
  BY DEF ServedOK
<1>1. link[g] = "up" => Served(g)
  BY DEF ServedOK
<1>2. CASE Connect(g)
  BY <1>2, ConnectServes
<1>3. CASE UNCHANGED <<handler, memory>> /\ link[g] = "up" /\ page'[g] = page[g] /\ transport'[g] = transport[g]
           /\ auth'[g] = auth[g] /\ cred'[g] = cred[g] /\ inbox'[g] = inbox[g] /\ toGuest'[g] = toGuest[g]
  <2>1. (AtAuth(g) <=> AtAuth(g)') /\ (AtSync(g) <=> AtSync(g)') /\ (Awaits(g) <=> Awaits(g)') /\ (Stale(g) <=> Stale(g)')
    BY <1>3 DEF AtAuth, AtSync, Awaits, Announcing, Stale
  <2>2. QED
    BY <1>1, <1>3, <2>1, Undisturbed
<1>4. ASSUME NEW h \in Guest, HostTakes(h)
      PROVE  Served(g)'
  <2>1. Close(h, Head(inbox[h])[1]) \/ UNCHANGED link
    BY <1>4 DEF HostTakes
  <2>2. link[g] = "up"
    BY <2>1, CloseSettles
  <2>3. CASE h = g
    BY <1>1, <1>4, <2>2, <2>3, TakeServes
  <2>4. CASE h # g
    <3>1. /\ UNCHANGED <<memory, transport, page, auth, cred>> /\ handler.pc = "idle"
          /\ inbox'[g] = inbox[g]
      BY <1>4, <2>4, Shapes DEF HostTakes, guestVars
    <3>2. toGuest'[g] = toGuest[g]
      <4>1. UNCHANGED toGuest \/ SendTo(h, Head(inbox[h])[1], Denied) \/ SendTo(h, Head(inbox[h])[1], Rejected(NoSync))
        BY <1>4 DEF HostTakes
      <4>2. QED
        BY <2>4, <4>1, SentWhenUp
    <3>3. ~AtAuth(g) /\ ~AtSync(g) /\ ~Awaits(g)
      BY <3>1 DEF AtAuth, AtSync, Awaits, Announcing
    <3>4. ~Stale(g)'
      <4>1. PICK k, m : k = Head(inbox[h])[1] /\ m = Head(inbox[h])[2]
        OBVIOUS
      <4>2. PICK taken : taken = [Idle EXCEPT !.g = h, !.k = k, !.cursor = m.cursor, !.intent = m.intent]
        OBVIOUS
      <4>3. taken = [pc |-> "idle", g |-> h, k |-> k, cursor |-> m.cursor, intent |-> m.intent,
                     event |-> NoEvent, reason |-> "none", waits |-> {}]
        BY <4>2 DEF Idle
      <4>4. \/ UNCHANGED handler
            \/ handler' = [taken EXCEPT !.pc = "derive"]
            \/ handler' = Idle
            \/ handler' = [taken EXCEPT !.pc = "sync", !.reason = "accepted", !.waits = Range(queue)]
            \/ handler' = [taken EXCEPT !.pc = "intent"]
        BY <1>4, <4>1, <4>2 DEF HostTakes
      <4>5. handler'.pc = "idle" \/ handler'.g = h
        BY <3>1, <4>3, <4>4, IdleOK
      <4>6. QED
        BY <2>4, <4>5 DEF Stale
    <3>5. QED
      BY <1>1, <2>2, <3>1, <3>2, <3>3, <3>4, Undisturbed
  <2>5. QED
    BY <2>3, <2>4
<1>5. CASE HostAuthenticates \/ HostDerives \/ HostSyncs \/ HostAnnounces \/ HostJudgesIntent \/ SaveFails
  <2>1. UNCHANGED link \/ \E r, k : Close(r, k)
    BY <1>5 DEF HostAuthenticates, HostDerives, HostSyncs, HostAnnounces, HostJudgesIntent, SaveFails, Bind, netVars
  <2>2. link[g] = "up"
    BY <2>1, CloseSettles
  <2>3. QED
    BY <1>1, <1>5, <2>2, AnswerServes, AnswersReach
<1>6. CASE CommitMessage \/ \E c \in Click : CommitClick(c)
  <2>1. UNCHANGED link \/ \E r, k : Close(r, k)
    BY <1>6 DEF CommitMessage, CommitClick, Bind
  <2>2. link[g] = "up"
    BY <2>1, CloseSettles
  <2>3. QED
    BY <1>1, <1>6, <2>2, CommitServes
<1>7. ASSUME NEW h \in Guest, GuestReceives(h) \/ GuestSubmits(h) \/ GuestProbes(h)
      PROVE  Served(g)'
  <2>1. UNCHANGED <<handler, memory, page, transport, link>>
    BY <1>7 DEF GuestReceives, GuestSubmits, GuestProbes, hostVars
  <2>2. CASE h = g
    BY <1>1, <1>7, <2>1, <2>2, ReceiveServes, UserServes
  <2>3. CASE h # g
    <3>1. toGuest'[g] = toGuest[g] /\ auth'[g] = auth[g] /\ cred'[g] = cred[g] /\ inbox'[g] = inbox[g]
      <4>1. CASE GuestReceives(h)
        <5>1. toGuest'[g] = toGuest[g]
          BY <2>3, <4>1, Shapes DEF GuestReceives
        <5>2. AskForSnapshot(h) => auth'[g] = auth[g] /\ cred'[g] = cred[g] /\ inbox'[g] = inbox[g]
          BY <2>3, Shapes DEF AskForSnapshot, SendToHost
        <5>3. ASSUME NEW s, NEW v, TakeIn(h, s, v), ~AskForSnapshot(h)
              PROVE  auth'[g] = auth[g] /\ cred'[g] = cred[g] /\ inbox'[g] = inbox[g]
          <6>1. PICK c : c = [known |-> TRUE, next |-> s.accepted + 1, cached |-> TRUE,
                              replica |-> ApplySync(cred[h].replica, s)]
            OBVIOUS
          <6>2. cred' = [cred EXCEPT ![h] = c] /\ auth' = [auth EXCEPT ![h] = v] /\ UNCHANGED inbox
            BY <5>3, <6>1 DEF TakeIn
          <6>3. QED
            BY <2>3, <6>2, Shapes
        <5>4. PICK m : m = Head(toGuest[h])
          OBVIOUS
        <5>5. \/ auth' = [auth EXCEPT ![h] = "denied"] /\ UNCHANGED <<cred, inbox>>
              \/ UNCHANGED <<cred, auth, inbox>>
              \/ AskForSnapshot(h)
              \/ \E s, v : TakeIn(h, s, v)
          <6>1. m \in Messages
            <7>1. toGuest[h] \in Seq(Messages) /\ toGuest[h] # << >>
              BY <4>1, Shapes DEF GuestReceives
            <7>2. QED
              BY <5>4, <7>1
          <6>2. m.type \in {"accepted", "rejected", "denied", "event"}
            BY <6>1, MessageForms
          <6>3. CASE m.type = "accepted"
            BY <4>1, <5>4, <6>3 DEF GuestReceives
          <6>4. CASE m.type = "rejected"
            BY <4>1, <5>4, <6>4 DEF GuestReceives
          <6>5. CASE m.type = "denied"
            BY <4>1, <5>4, <6>5 DEF GuestReceives
          <6>6. CASE m.type = "event"
            BY <4>1, <5>4, <6>6 DEF GuestReceives
          <6>7. QED
            BY <6>2, <6>3, <6>4, <6>5, <6>6
        <5>6. auth' = [auth EXCEPT ![h] = "denied"] => auth'[g] = auth[g]
          BY <2>3, Shapes
        <5>7. QED
          BY <5>1, <5>2, <5>3, <5>5, <5>6
      <4>2. CASE GuestSubmits(h) \/ GuestProbes(h)
        <5>1. UNCHANGED <<toGuest, auth>> /\ \E x : SendToHost(h, x)
          BY <4>2 DEF GuestSubmits, GuestProbes
        <5>2. \/ UNCHANGED cred \/ cred' = [cred EXCEPT ![h].next = @ + 1]
              \/ cred' = [cred EXCEPT ![h].replica = EmptyReplica]
          BY <4>2 DEF GuestSubmits, GuestProbes
        <5>3. cred'[g] = cred[g] /\ inbox'[g] = inbox[g]
          BY <2>3, <5>1, <5>2, Shapes DEF SendToHost
        <5>4. QED
          BY <5>1, <5>3
      <4>3. QED
        BY <1>7, <4>1, <4>2
    <3>2. QED
      BY <1>3, <2>1, <3>1
  <2>4. QED
    BY <2>2, <2>3
<1>8. ASSUME NEW h \in Guest, Disconnect(h) \/ GuestReloads(h)
      PROVE  Served(g)'
  <2>1. UNCHANGED <<handler, memory, transport, cred>> /\ Unlink(h)
        /\ (UNCHANGED page \/ page' = [page EXCEPT ![h] = @ + 1])
    BY <1>8 DEF Disconnect, GuestReloads, hostVars
  <2>2. h # g
    BY <2>1, Shapes DEF Unlink
  <2>3. /\ link[g] = "up" /\ toGuest'[g] = toGuest[g] /\ auth'[g] = auth[g] /\ inbox'[g] = inbox[g]
        /\ page'[g] = page[g]
    BY <2>1, <2>2, Shapes DEF Unlink
  <2>4. QED
    BY <1>3, <2>1, <2>3
<1>9. ASSUME NEW h \in Guest \ {g}, Connect(h)
      PROVE  Served(g)'
  <2>1. UNCHANGED <<handler, memory, transport, cred, page, toGuest>>
    BY <1>9 DEF Connect
  <2>2. link[g] = "up" /\ auth'[g] = auth[g] /\ inbox'[g] = inbox[g]
    BY <1>9, Shapes DEF Connect
  <2>3. QED
    BY <1>3, <2>1, <2>2
<1>10. ASSUME NEW h \in Guest, HostNoticesLeave(h)
       PROVE  Served(g)'
  <2>1. /\ UNCHANGED <<handler, memory, page, cred, auth, link, inbox, toGuest>>
        /\ transport' = [transport EXCEPT ![h] = IF @ = joined[h] THEN 0 ELSE @]
        /\ ~(joined[h] = page[h] /\ link[h] # "down")
    BY <1>10 DEF HostNoticesLeave, guestVars, netVars
  <2>2. link[g] = "up" /\ h # g
    BY <2>1 DEF OnlineOK
  <2>3. transport'[g] = transport[g]
    BY <2>1, <2>2, Shapes
  <2>4. QED
    BY <1>3, <2>1, <2>2, <2>3
<1>11. CASE HostCrashes
  BY <1>11 DEF HostCrashes
<1>12. CASE HostRestores
  BY <1>12 DEF HostRestores, netVars, OnlineOK
<1>13. CASE \E c \in Click : ClickRuns(c)
  <2>1. /\ UNCHANGED <<handler, memory, transport, page, cred, auth, inbox, toGuest>>
        /\ UNCHANGED link \/ \E r, k : Close(r, k)
    BY <1>13 DEF ClickRuns, guestVars
  <2>2. link[g] = "up"
    BY <2>1, CloseSettles
  <2>3. QED
    BY <1>3, <2>1, <2>2
<1>14. CASE Stored \/ \E c \in Click : HostClicks(c)
  BY <1>3, <1>14 DEF Stored, HostClicks, guestVars, netVars
<1>15. CASE UNCHANGED vars
  BY <1>3, <1>15 DEF vars, hostVars, guestVars, netVars
<1>16. QED
  BY <1>2, <1>4, <1>5, <1>6, <1>7, <1>8, <1>9, <1>10, <1>11, <1>12, <1>13, <1>14, <1>15
     DEF Next, HostStep, UserStep, FaultStep

\* At first nobody is connected.
LEMMA InitQuiet == Init => QInv
<1> SUFFICES ASSUME Init
             PROVE  RInv /\ OnlineOK /\ VoicesOK /\ ServedOK
  BY DEF QInv
<1>1. RInv
  BY InitRefines
<1>2. OnlineOK /\ ServedOK
  BY DEF Init, OnlineOK, ServedOK
<1>3. VoicesOK
  <2>1. handler.pc = "idle" /\ \A g \in Guest : transport[g] = 0
    BY IdleOK DEF Init
  <2>2. QED
    BY <2>1 DEF VoicesOK, Announcing
<1>4. QED
  BY <1>1, <1>2, <1>3

\* The strengthening is inductive.
LEMMA QStep == QInv /\ [Next]_vars => QInv'
<1> SUFFICES ASSUME QInv, [Next]_vars
             PROVE  QInv'
  OBVIOUS
<1>1. IInv /\ OrderOK /\ OnlineOK /\ VoicesOK /\ ServedOK
  BY DEF QInv, RInv
<1>2. RInv'
  BY RStep DEF QInv
<1>3. GuestsOK' /\ OrderOK'
  BY <1>2 DEF RInv, IInv
<1>4. QED
  BY <1>1, <1>2, <1>3, OnlineStep, VoicesStep, ServedStep DEF QInv

\* The inductive invariant of what connected guests are owed.
THEOREM QuietInvariance == Spec => []QInv
<1>1. Init => QInv
  BY InitQuiet
<1>2. QInv /\ [Next]_vars => QInv'
  BY QStep
<1>3. QED
  BY <1>1, <1>2, PTL DEF Spec

\* Whenever nothing is under way, every accepted and connected guest that has not been removed
\* has all the host has.
THEOREM QuietGuestsHaveAll == Spec => []QuietGuestsAgree
<1>1. QInv => QuietGuestsAgree
  <2>1. SUFFICES ASSUME QInv, handler = Idle, NEW g \in Guest, inbox[g] = << >>, toGuest[g] = << >>,
                        g \notin memory.removed, link[g] = "up", auth[g] = "accepted"
                 PROVE  cred[g].replica.seq = memory.seq
    BY DEF QuietGuestsAgree
  <2>2. Welcome(g) /\ CatchesUp(g)
    BY <2>1 DEF Welcome, QInv, ServedOK, Served
  <2>3. Range(<< >>) = {}
    BY DEF Range
  <2>4. \A t : ~Sent(g, t)
    BY <2>1, <2>3 DEF Sent, Has
  <2>5. ~Newest(g)
    BY <2>1, <2>3 DEF Newest, Brings
  <2>6. ~AtAuth(g) /\ ~AtSync(g) /\ ~Awaits(g)
    BY <2>1, IdleOK DEF AtAuth, AtSync, Awaits, Announcing
  <2>7. QED
    BY <2>1, <2>2, <2>4, <2>5, <2>6 DEF CatchesUp
<1>2. QED
  BY <1>1, QuietInvariance, PTL
===============================================================================
