-------------------------- MODULE HostAuthorityProofs --------------------------
(***************************************************************************)
(* Proofs about HostAuthority for any number of guests, clicks, pages and   *)
(* faults, and any length of the history window.                           *)
(***************************************************************************)
EXTENDS HostAuthority, FilterProofs, FiniteSetTheorems

-------------------------------------------------------------------------------
(***************************************************************************)
(* Types. E is the set of events a value may hold.                         *)
(***************************************************************************)
Entry ==
    {e \in [seq : Nat \ {0}, type : EventType, who : Guest \cup {Host}, client : Nat, text : Nat] :
        e.type \in {"admitted", "removed"} => e.who \in Guest}

States(E) ==
    [seq : Nat, locked : BOOLEAN, members : Seq(Guest), removed : SUBSET Guest,
     last : [Guest -> Nat], events : Seq(E)]

Replicas(E) ==
    [seq : Nat, locked : BOOLEAN, members : Seq(Guest), removed : SUBSET Guest, messages : Seq(E)]

Syncs(E) ==
    [mode : {"delta", "snapshot"}, seq : Nat, accepted : Nat, events : Seq(E), snapshot : Replicas(E)]

Intents == [client : Nat, text : Nat]

\* The elements of a sequence, and of one that has grown.
LEMMA InRange ==
    ASSUME NEW T, NEW s \in Seq(T), NEW x
    PROVE  x \in Range(s) <=> \E i \in 1 .. Len(s) : x = s[i]
<1>1. DOMAIN s = 1 .. Len(s)
  OBVIOUS
<1>2. QED
  BY <1>1 DEF Range

LEMMA RangeAppend ==
    ASSUME NEW T, NEW s \in Seq(T), NEW x \in T
    PROVE  Range(Append(s, x)) = Range(s) \cup {x}
<1>1. Len(Append(s, x)) = Len(s) + 1 /\ Append(s, x)[Len(s) + 1] = x /\ Len(s) \in Nat
      /\ \A i \in 1 .. Len(s) : Append(s, x)[i] = s[i]
  OBVIOUS
<1>2. DOMAIN s = 1 .. Len(s) /\ DOMAIN Append(s, x) = 1 .. Len(s) + 1
  OBVIOUS
<1>3. 1 .. Len(s) + 1 = (1 .. Len(s)) \cup {Len(s) + 1}
  BY <1>1
<1>4. \A y : y \in Range(Append(s, x)) <=> \E i \in 1 .. Len(s) + 1 : Append(s, x)[i] = y
  BY <1>2 DEF Range
<1>5. \A y : y \in Range(s) <=> \E i \in 1 .. Len(s) : s[i] = y
  BY <1>2 DEF Range
<1>6. \A y : y \in Range(Append(s, x)) <=> y \in Range(s) \/ y = x
  BY <1>1, <1>3, <1>4, <1>5
<1>7. QED
  BY <1>6

-------------------------------------------------------------------------------
(***************************************************************************)
(* What the operators of AuthorityModel return. Each recursive function is   *)
(* the last value of a run, and what it does to a sequence with one element  *)
(* more follows by comparing two runs.                                      *)
(***************************************************************************)

\* The events a state keeps: the last ones, at most HistoryLimit of them.
LEMMA WindowType ==
    ASSUME NEW E, NEW events \in Seq(E)
    PROVE  /\ Window(events) \in Seq(E)
           /\ Len(Window(events)) <= HistoryLimit
           /\ Len(events) > 0 => Len(Window(events)) > 0
           /\ \E d \in Nat : /\ Len(Window(events)) + d = Len(events)
                            /\ \A i \in 1 .. Len(Window(events)) : Window(events)[i] = events[i + d]
<1> DEFINE from == IF Len(events) > HistoryLimit THEN Len(events) - HistoryLimit + 1 ELSE 1
<1>1. HistoryLimit \in Nat \ {0} /\ Len(events) \in Nat
  BY AuthorityAssumption
<1>2. from \in Nat \ {0} /\ from <= Len(events) + 1 /\ (Len(events) > 0 => from <= Len(events))
      /\ Len(events) - from + 1 <= HistoryLimit
  BY <1>1
<1>3. Window(events) = SubSeq(events, from, Len(events))
  BY DEF Window
<1> HIDE DEF from
<1>4. /\ Window(events) \in Seq(E)
      /\ Len(Window(events)) = Len(events) - from + 1
      /\ \A i \in 1 .. Len(events) - from + 1 : Window(events)[i] = events[i + (from - 1)]
  BY <1>1, <1>2, <1>3
<1>5. PICK d \in Nat : d = from - 1
  BY <1>2
<1>6. Len(Window(events)) + d = Len(events)
      /\ \A i \in 1 .. Len(Window(events)) : Window(events)[i] = events[i + d]
  BY <1>1, <1>2, <1>4, <1>5
<1>7. Window(events) \in Seq(E) /\ Len(Window(events)) <= HistoryLimit
      /\ (Len(events) > 0 => Len(Window(events)) > 0)
  BY <1>1, <1>2, <1>4
<1>8. QED
  BY <1>6, <1>7, Zenon

LEMMA AppliedType ==
    ASSUME NEW E, E \subseteq Entry, NEW s \in States(E), NEW e \in E
    PROVE  /\ Applied(s, e) \in States(E)
           /\ Applied(s, e).seq = e.seq
           /\ Applied(s, e).events = Window(Append(s.events, e))
           /\ Members(Applied(s, e)) = IF e.type = "admitted" THEN Members(s) \cup {e.who} ELSE Members(s)
           /\ Applied(s, e).removed = IF e.type = "removed" THEN s.removed \cup {e.who} ELSE s.removed
<1> DEFINE p == CASE e.type = "admitted" -> [s EXCEPT !.members = Append(@, e.who)]
                  [] e.type = "removed"  -> [s EXCEPT !.removed = @ \cup {e.who}]
                  [] e.type = "locked"   -> [s EXCEPT !.locked = TRUE]
                  [] e.type = "unlocked" -> [s EXCEPT !.locked = FALSE]
                  [] e.type = "chat" /\ e.who # Host -> [s EXCEPT !.last[e.who] = e.client]
                  [] OTHER -> s
<1>1. Applied(s, e) = [p EXCEPT !.seq = e.seq, !.events = Window(Append(@, e))]
  BY DEF Applied, AppendEvent
<1>2. e \in Entry /\ e.seq \in Nat /\ e.client \in Nat /\ e.type \in EventType
      /\ (e.type \in {"admitted", "removed"} => e.who \in Guest) /\ (e.who # Host => e.who \in Guest)
  BY DEF Entry
<1>3. /\ p \in States(E) /\ p.events = s.events
      /\ p.members = IF e.type = "admitted" THEN Append(s.members, e.who) ELSE s.members
      /\ p.removed = IF e.type = "removed" THEN s.removed \cup {e.who} ELSE s.removed
  <2>1. CASE e.type = "admitted"
    <3>1. p = [s EXCEPT !.members = Append(@, e.who)]
      BY <2>1
    <3> HIDE DEF p
    <3>2. s.members \in Seq(Guest) /\ e.who \in Guest
      BY <1>2, <2>1 DEF States
    <3>3. Append(s.members, e.who) \in Seq(Guest)
      BY <3>2
    <3>4. QED
      BY <2>1, <3>1, <3>3 DEF States
  <2>2. CASE e.type = "removed"
    BY <1>2, <2>2 DEF States
  <2>3. CASE e.type \in {"locked", "unlocked"}
    BY <1>2, <2>3 DEF States
  <2>4. CASE e.type = "chat"
    BY <1>2, <2>4 DEF States
  <2>5. QED
    BY <1>2, <2>1, <2>2, <2>3, <2>4 DEF EventType
<1> HIDE DEF p
<1>4. Append(p.events, e) \in Seq(E)
  BY <1>3 DEF States
<1>5. Window(Append(p.events, e)) \in Seq(E)
  BY <1>4, WindowType
<1>6. /\ Applied(s, e) \in States(E)
      /\ Applied(s, e).seq = e.seq
      /\ Applied(s, e).events = Window(Append(s.events, e))
      /\ Applied(s, e).members = p.members
      /\ Applied(s, e).removed = p.removed
  BY <1>1, <1>2, <1>3, <1>5 DEF States
<1>7. s.members \in Seq(Guest)
  BY DEF States
<1>8. e.type = "admitted" => Range(Append(s.members, e.who)) = Range(s.members) \cup {e.who}
  BY <1>2, <1>7, RangeAppend
<1>9. QED
  BY <1>3, <1>6, <1>8 DEF Members

\* What the host writes can be restored.
LEMMA AppliedRestorable ==
    ASSUME NEW E, E \subseteq Entry, NEW s \in States(E), NEW e \in E,
           Restorable(s), e.seq = s.seq + 1
    PROVE  Restorable(Applied(s, e))
<1>1. PICK all : all = Append(s.events, e)
  OBVIOUS
<1>2. PICK kept : kept = Window(all)
  OBVIOUS
<1>3. PICK n : n = Len(s.events)
  OBVIOUS
<1>4. s.events \in Seq(E) /\ n \in Nat /\ s.seq \in Nat
  BY <1>3 DEF States
<1>5. all \in Seq(E) /\ Len(all) = n + 1 /\ all[n + 1] = e /\ \A i \in 1 .. n : all[i] = s.events[i]
  BY <1>1, <1>3, <1>4
<1>6. /\ kept \in Seq(E) /\ Len(kept) <= HistoryLimit /\ Len(kept) > 0 /\ Len(kept) \in Nat
      /\ \E d \in Nat : Len(kept) + d = Len(all) /\ \A i \in 1 .. Len(kept) : kept[i] = all[i + d]
  <2>1. Len(all) > 0 /\ all \in Seq(E)
    BY <1>4, <1>5
  <2>2. /\ Window(all) \in Seq(E) /\ Len(Window(all)) <= HistoryLimit /\ Len(Window(all)) > 0
        /\ \E d \in Nat : /\ Len(Window(all)) + d = Len(all)
                         /\ \A i \in 1 .. Len(Window(all)) : Window(all)[i] = all[i + d]
    BY <2>1, WindowType, Zenon
  <2>3. Len(Window(all)) \in Nat
    BY <2>2, LenProperties
  <2>4. QED
    BY <1>2, <2>2, <2>3, Zenon
<1>7. PICK d \in Nat : Len(kept) + d = n + 1 /\ \A i \in 1 .. Len(kept) : kept[i] = all[i + d]
  BY <1>5, <1>6
<1>8. \A i \in 2 .. n + 1 : all[i].seq = all[i - 1].seq + 1
  <2>1. ASSUME NEW i \in 2 .. n + 1
        PROVE  all[i].seq = all[i - 1].seq + 1
    <3>1. CASE i = n + 1
      <4>1. n # 0 /\ s.events # << >> /\ all[i - 1] = s.events[n] /\ all[i] = e
        BY <1>3, <1>4, <1>5, <3>1
      <4>2. s.events[n].seq = s.seq
        BY <1>3, <4>1 DEF Restorable
      <4>3. QED
        BY <4>1, <4>2
    <3>2. CASE i # n + 1
      <4>1. i \in 2 .. n /\ i - 1 \in 1 .. n /\ i \in 1 .. n
        BY <1>4, <3>2
      <4>2. s.events # << >> /\ s.events[i].seq = s.events[i - 1].seq + 1
        BY <1>3, <1>4, <4>1 DEF Restorable
      <4>3. QED
        BY <1>5, <4>1, <4>2
    <3>3. QED
      BY <3>1, <3>2
  <2>2. QED
    BY <2>1
<1>9. \A i \in 2 .. Len(kept) : kept[i].seq = kept[i - 1].seq + 1
  <2>1. ASSUME NEW i \in 2 .. Len(kept)
        PROVE  kept[i].seq = kept[i - 1].seq + 1
    <3>1. i \in 1 .. Len(kept) /\ i - 1 \in 1 .. Len(kept) /\ i + d \in 2 .. n + 1
          /\ (i - 1) + d = (i + d) - 1
      BY <1>4, <1>6, <1>7
    <3>2. kept[i] = all[i + d] /\ kept[i - 1] = all[(i + d) - 1]
      BY <1>7, <3>1
    <3>3. QED
      BY <1>8, <3>1, <3>2
  <2>2. QED
    BY <2>1
<1>10. kept[Len(kept)] = e
  BY <1>4, <1>5, <1>6, <1>7
<1>11. Applied(s, e).events = kept /\ Applied(s, e).seq = e.seq
  BY <1>1, <1>2, AppliedType
<1>12. kept # << >>
  BY <1>6
<1>13. QED
  BY <1>6, <1>9, <1>10, <1>11, <1>12 DEF Restorable

\* What StateOf computes, event by event.
StateRun(f, log) ==
    /\ f[0] = InitialState
    /\ \A n \in 1 .. Len(log) : f[n] = Applied(f[n - 1], log[n])
    /\ StateOf(log) = f[Len(log)]

LEMMA InitialStateType == InitialState.seq = 0 /\ \A E : InitialState \in States(E)
BY DEF InitialState, States

LEMMA StateOfValues ==
    ASSUME NEW E, E \subseteq Entry, NEW log \in Seq(E)
    PROVE  \E f \in [0 .. Len(log) -> States(E)] : StateRun(f, log)
<1> DEFINE N == Len(log)
           X == States(E)
           step == [n \in 1 .. N |-> [s \in X |-> Applied(s, log[n])]]
           F(f) == [n \in 0 .. N |-> IF n = 0 THEN InitialState ELSE Applied(f[n - 1], log[n])]
<1>1. N \in Nat /\ InitialState \in X /\ \A n \in 1 .. N, s \in X : Applied(s, log[n]) \in X
  <2>1. N \in Nat /\ \A n \in 1 .. N : log[n] \in E
    OBVIOUS
  <2>2. QED
    BY <2>1, InitialStateType, AppliedType
<1> HIDE DEF X
<1>2. PICK f \in [0 .. N -> X] : Runs(f, N, InitialState, step)
  <2>1. step \in [1 .. N -> [X -> X]]
    BY <1>1
  <2> HIDE DEF step
  <2>2. QED
    BY <1>1, <2>1, RecursionExists
<1>3. f[0] = InitialState /\ \A n \in 1 .. N : f[n] = Applied(f[n - 1], log[n])
  <2>1. f[0] = InitialState
    BY <1>1, <1>2 DEF Runs
  <2>2. ASSUME NEW n \in 1 .. N
        PROVE  f[n] = Applied(f[n - 1], log[n])
    <3>1. f[n - 1] \in X
      BY <1>1, <1>2
    <3>2. f[n] = step[n][f[n - 1]]
      <4> HIDE DEF step
      <4>1. QED
        BY <1>2 DEF Runs
    <3>3. step[n] = [s \in X |-> Applied(s, log[n])]
      OBVIOUS
    <3> HIDE DEF step
    <3>4. QED
      BY <3>1, <3>2, <3>3
  <2>3. QED
    BY <2>1, <2>2
<1>4. f = F(f)
  BY <1>2, <1>3
<1> DEFINE h == CHOOSE h : h = F(h)
<1>5. h = F(h)
  BY <1>4
<1>6. StateOf(log) = h[N]
  BY DEF StateOf
<1> HIDE DEF h
<1>7. h[0] = InitialState /\ \A n \in 1 .. N : h[n] = Applied(h[n - 1], log[n])
  <2>1. \A n \in 0 .. N : h[n] = F(h)[n]
    BY <1>5
  <2>2. 0 \in 0 .. N /\ \A n \in 1 .. N : n \in 0 .. N /\ n # 0
    BY <1>1
  <2>3. QED
    BY <2>1, <2>2
<1> HIDE DEF F
<1>8. \A n \in 0 .. N : f[n] = h[n]
  <2>1. StepAlike(f, h, N)
    BY <1>3, <1>7 DEF StepAlike
  <2>2. QED
    BY <1>1, <2>1, SameValues
<1>9. StateOf(log) = f[N]
  BY <1>1, <1>6, <1>8
<1>10. QED
   BY <1>2, <1>3, <1>9 DEF StateRun, X

LEMMA StateOfEmpty == StateOf(<< >>) = InitialState
<1>1. << >> \in Seq({}) /\ Len(<< >>) = 0 /\ {} \subseteq Entry
  OBVIOUS
<1>2. PICK f \in [0 .. Len(<< >>) -> States({})] : StateRun(f, << >>)
  BY <1>1, StateOfValues
<1>3. QED
  BY <1>1, <1>2 DEF StateRun

LEMMA StateOfType ==
    ASSUME NEW E, E \subseteq Entry, NEW log \in Seq(E)
    PROVE  StateOf(log) \in States(E)
<1>1. Len(log) \in 0 .. Len(log)
  BY LenProperties
<1>2. PICK f \in [0 .. Len(log) -> States(E)] : StateRun(f, log)
  BY StateOfValues
<1>3. QED
  BY <1>1, <1>2 DEF StateRun

LEMMA StateOfAppend ==
    ASSUME NEW E, E \subseteq Entry, NEW log \in Seq(E), NEW e \in E
    PROVE  StateOf(Append(log, e)) = Applied(StateOf(log), e)
<1>1. PICK t : t = Append(log, e)
  OBVIOUS
<1>2. PICK N : N = Len(log)
  OBVIOUS
<1>3. N \in Nat /\ t \in Seq(E) /\ Len(t) = N + 1 /\ t[N + 1] = e
      /\ \A n \in 1 .. N : t[n] = log[n] /\ n \in 1 .. N + 1
  BY <1>1, <1>2
<1>4. PICK f \in [0 .. Len(log) -> States(E)] : StateRun(f, log)
  BY StateOfValues
<1>5. PICK g \in [0 .. Len(t) -> States(E)] : StateRun(g, t)
  BY <1>3, StateOfValues
<1>6. StepAlike(f, g, N)
  BY <1>2, <1>3, <1>4, <1>5 DEF StateRun, StepAlike
<1>7. \A n \in 0 .. N : f[n] = g[n]
  <2>1. N \in Nat
    BY <1>3
  <2>2. QED
    BY <1>6, <2>1, SameValues
<1>8. f[N] = g[N] /\ N + 1 \in 1 .. N + 1 /\ N + 1 - 1 = N
  BY <1>3, <1>7
<1>9. g[N + 1] = Applied(g[N], e)
  <2>1. \A n \in 1 .. Len(t) : g[n] = Applied(g[n - 1], t[n])
    BY <1>5 DEF StateRun
  <2>2. QED
    BY <1>3, <1>8, <2>1
<1>10. QED
  BY <1>1, <1>2, <1>3, <1>4, <1>5, <1>8, <1>9 DEF StateRun

\* Synchronisations carry events of the log, and what is to be after them.
LEMMA SyncType ==
    ASSUME NEW E, E \subseteq Entry, NEW s \in States(E), NEW g \in Guest, NEW cursor \in Nat
    PROVE  /\ SyncResponse(s, g, cursor) \in Syncs(E)
           /\ SyncResponse(s, g, cursor).seq = s.seq
           /\ SyncResponse(s, g, cursor).mode = "snapshot" =>
                 SyncResponse(s, g, cursor).snapshot.seq = s.seq
<1>1. s.events \in Seq(E) /\ s.seq \in Nat /\ s.last[g] \in Nat
  BY DEF States
<1>2. Only(s.events, {e \in Range(s.events) : e.seq > cursor}) \in Seq(E) /\ Chats(s.events) \in Seq(E)
  BY <1>1, OnlyType DEF Chats
<1>3. SnapshotFor(s) \in Replicas(E) /\ SnapshotFor(s).seq = s.seq
  BY <1>2 DEF SnapshotFor, States, Replicas
<1>4. NoSnapshot \in Replicas(E) /\ << >> \in Seq(E)
  BY DEF NoSnapshot, Replicas
<1>5. CASE CanDelta(s, cursor)
  <2>1. SyncResponse(s, g, cursor) =
          [mode |-> "delta", seq |-> s.seq, accepted |-> s.last[g],
           events |-> Only(s.events, {e \in Range(s.events) : e.seq > cursor}), snapshot |-> NoSnapshot]
    BY <1>5 DEF SyncResponse
  <2>2. QED
    BY <1>1, <1>2, <1>4, <2>1 DEF Syncs
<1>6. CASE ~CanDelta(s, cursor)
  <2>1. SyncResponse(s, g, cursor) =
          [mode |-> "snapshot", seq |-> s.seq, accepted |-> s.last[g],
           events |-> << >>, snapshot |-> SnapshotFor(s)]
    BY <1>6 DEF SyncResponse
  <2>2. QED
    BY <1>1, <1>3, <1>4, <2>1 DEF Syncs
<1>7. QED
  BY <1>5, <1>6

LEMMA GoneFacts == /\ Gone.seq = -1
                   /\ \A E : Gone \notin Replicas(E)
<1>1. Gone.seq = -1
  BY DEF Gone, EmptyReplica, NoSnapshot
<1>2. \A E : \A r \in Replicas(E) : r.seq \in Nat
  BY DEF Replicas
<1>3. QED
  BY <1>1, <1>2

\* A replica that takes an event in is a replica still, unless the event is out of turn.
LEMMA ApplyEventType ==
    ASSUME NEW E, E \subseteq Entry, NEW r \in Replicas(E) \cup {Gone}, NEW e \in E
    PROVE  ApplyEvent(r, e) \in Replicas(E) \cup {Gone}
<1> DEFINE p == CASE e.type = "admitted" -> [r EXCEPT !.members = Append(WithoutMember(@, e.who), e.who),
                                                      !.removed = @ \ {e.who}]
                  [] e.type = "removed"  -> [r EXCEPT !.removed = @ \cup ({e.who} \cap Range(r.members))]
                  [] e.type = "locked"   -> [r EXCEPT !.locked = TRUE]
                  [] e.type = "unlocked" -> [r EXCEPT !.locked = FALSE]
                  [] OTHER               -> [r EXCEPT !.messages = Window(Append(@, e))]
<1>1. SUFFICES ASSUME r # Gone
               PROVE  [p EXCEPT !.seq = e.seq] \in Replicas(E)
  BY DEF ApplyEvent
<1>2. r \in Replicas(E) /\ r.members \in Seq(Guest) /\ r.messages \in Seq(E)
  BY <1>1 DEF Replicas
<1>3. e.seq \in Nat /\ e.type \in EventType /\ (e.type \in {"admitted", "removed"} => e.who \in Guest)
  BY DEF Entry
<1>4. p \in Replicas(E)
  <2>1. CASE e.type = "admitted"
    <3>1. p = [r EXCEPT !.members = Append(WithoutMember(@, e.who), e.who), !.removed = @ \ {e.who}]
      BY <2>1
    <3>2. WithoutMember(r.members, e.who) \in Seq(Guest)
      BY <1>2, OnlyType DEF WithoutMember
    <3>3. Append(WithoutMember(r.members, e.who), e.who) \in Seq(Guest)
      BY <1>3, <2>1, <3>2
    <3> HIDE DEF p
    <3>4. QED
      BY <1>2, <3>1, <3>3 DEF Replicas
  <2>2. CASE e.type = "removed"
    BY <1>2, <1>3, <2>2 DEF Replicas
  <2>3. CASE e.type \in {"locked", "unlocked"}
    BY <1>2, <1>3, <2>3 DEF Replicas
  <2>4. CASE e.type = "chat"
    <3>1. p = [r EXCEPT !.messages = Window(Append(@, e))]
      BY <2>4
    <3>2. Window(Append(r.messages, e)) \in Seq(E)
      <4>1. Append(r.messages, e) \in Seq(E)
        BY <1>2
      <4>2. QED
        BY <4>1, WindowType
    <3> HIDE DEF p
    <3>3. QED
      BY <1>2, <3>1, <3>2 DEF Replicas
  <2>5. QED
    BY <1>3, <2>1, <2>2, <2>3, <2>4 DEF EventType
<1> HIDE DEF p
<1>5. QED
  BY <1>3, <1>4 DEF Replicas

\* What Replayed computes, event by event.
ReplayRun(f, r, events) ==
    /\ f[0] = r
    /\ \A n \in 1 .. Len(events) : f[n] = ApplyEvent(f[n - 1], events[n])
    /\ Replayed(r, events) = f[Len(events)]

LEMMA ReplayedValues ==
    ASSUME NEW E, E \subseteq Entry, NEW r \in Replicas(E) \cup {Gone}, NEW events \in Seq(E)
    PROVE  \E f \in [0 .. Len(events) -> Replicas(E) \cup {Gone}] : ReplayRun(f, r, events)
<1> DEFINE N == Len(events)
           X == Replicas(E) \cup {Gone}
           step == [n \in 1 .. N |-> [q \in X |-> ApplyEvent(q, events[n])]]
           F(f) == [n \in 0 .. N |-> IF n = 0 THEN r ELSE ApplyEvent(f[n - 1], events[n])]
<1>1. N \in Nat /\ r \in X /\ \A n \in 1 .. N, q \in X : ApplyEvent(q, events[n]) \in X
  <2>1. N \in Nat /\ \A n \in 1 .. N : events[n] \in E
    OBVIOUS
  <2>2. QED
    BY <2>1, ApplyEventType
<1> HIDE DEF X
<1>2. PICK f \in [0 .. N -> X] : Runs(f, N, r, step)
  <2>1. step \in [1 .. N -> [X -> X]]
    BY <1>1
  <2> HIDE DEF step
  <2>2. QED
    BY <1>1, <2>1, RecursionExists
<1>3. f[0] = r /\ \A n \in 1 .. N : f[n] = ApplyEvent(f[n - 1], events[n])
  <2>1. f[0] = r
    BY <1>1, <1>2 DEF Runs
  <2>2. ASSUME NEW n \in 1 .. N
        PROVE  f[n] = ApplyEvent(f[n - 1], events[n])
    <3>1. f[n - 1] \in X
      BY <1>1, <1>2
    <3>2. f[n] = step[n][f[n - 1]]
      <4> HIDE DEF step
      <4>1. QED
        BY <1>2 DEF Runs
    <3>3. step[n] = [q \in X |-> ApplyEvent(q, events[n])]
      OBVIOUS
    <3> HIDE DEF step
    <3>4. QED
      BY <3>1, <3>2, <3>3
  <2>3. QED
    BY <2>1, <2>2
<1>4. f = F(f)
  BY <1>2, <1>3
<1> DEFINE h == CHOOSE h : h = F(h)
<1>5. h = F(h)
  BY <1>4
<1>6. Replayed(r, events) = h[N]
  BY DEF Replayed
<1> HIDE DEF h
<1>7. h[0] = r /\ \A n \in 1 .. N : h[n] = ApplyEvent(h[n - 1], events[n])
  <2>1. \A n \in 0 .. N : h[n] = F(h)[n]
    BY <1>5
  <2>2. 0 \in 0 .. N /\ \A n \in 1 .. N : n \in 0 .. N /\ n # 0
    BY <1>1
  <2>3. QED
    BY <2>1, <2>2
<1> HIDE DEF F
<1>8. \A n \in 0 .. N : f[n] = h[n]
  <2>1. StepAlike(f, h, N)
    BY <1>3, <1>7 DEF StepAlike
  <2>2. QED
    BY <1>1, <2>1, SameValues
<1>9. Replayed(r, events) = f[N]
  BY <1>1, <1>6, <1>8
<1>10. QED
   BY <1>2, <1>3, <1>9 DEF ReplayRun, X

\* A synchronisation is taken in as a whole or not at all, and leaves the replica where the host
\* was when it answered.
LEMMA ApplySyncType ==
    ASSUME NEW E, E \subseteq Entry, NEW r \in Replicas(E), NEW sync \in Syncs(E),
           sync.mode = "snapshot" => sync.snapshot.seq = sync.seq,
           ApplySync(r, sync) # Gone
    PROVE  ApplySync(r, sync) \in Replicas(E) /\ ApplySync(r, sync).seq = sync.seq
<1>1. sync.events \in Seq(E) /\ sync.snapshot \in Replicas(E) /\ sync.seq \in Nat
  BY DEF Syncs
<1>2. PICK f \in [0 .. Len(sync.events) -> Replicas(E) \cup {Gone}] : ReplayRun(f, r, sync.events)
  BY <1>1, ReplayedValues
<1>3. Len(sync.events) \in 0 .. Len(sync.events)
  BY <1>1, LenProperties
<1>4. Replayed(r, sync.events) \in Replicas(E) \cup {Gone}
  BY <1>2, <1>3 DEF ReplayRun
<1>5. CASE sync.mode = "snapshot"
  BY <1>1, <1>5 DEF ApplySync
<1>6. CASE sync.mode # "snapshot"
  BY <1>4, <1>6, GoneFacts DEF ApplySync
<1>7. QED
  BY <1>5, <1>6
-------------------------------------------------------------------------------
(***************************************************************************)
(* Types of the host's and the guests' records.                            *)
(***************************************************************************)
Reasons ==
    {"none", "accepted", "unknown-member", "member-removed", "duplicate-or-replay", "sequence-gap"}

Handlers(E) ==
    [pc : {"idle", "derive", "auth", "sync", "announce", "intent"}, g : Guest \cup {Host},
     k : 0 .. MaxPages, cursor : Nat, intent : Intents, event : E \cup {NoEvent},
     reason : Reasons, waits : SUBSET (Click \cup {"message"})]

ClickRecords ==
    [pc : {"new", "queued", "done"}, op : {"none", "chat", "locked", "unlocked", "removed"},
     g : Guest \cup {Host}, k : 0 .. MaxPages]

Requests == [type : {"auth", "sync", "intent"}, cursor : Nat, intent : Intents]

-------------------------------------------------------------------------------
(***************************************************************************)
(* The inductive invariant.                                                *)
(***************************************************************************)

\* The log, and what the store holds of it.
LogOK ==
    /\ history \in Seq(Entry)
    /\ \A i \in 1 .. Len(history) : history[i].seq = i
    /\ durable = StateOf(history)
    /\ durable.removed \subseteq Members(durable)
    /\ Restorable(durable)

\* The host's copy is behind the store by the mutation that has been saved and not yet
\* assigned, if there is one.
MemoryOK ==
    /\ memory = IF ~up THEN InitialState
                ELSE IF saving.stored THEN StateOf(Prefix(Len(history) - 1)) ELSE durable
    /\ saving.stored => /\ history # << >> /\ saving.event = history[Len(history)]
                         /\ saving.next = durable
    /\ memory.removed \subseteq Members(memory)

\* The operations in the mutation queue: nobody waits there twice.
LineOK ==
    /\ queue \in Seq(Click \cup {"message"})
    /\ \A i, j \in 1 .. Len(queue) : queue[i] = queue[j] => i = j

\* The guest message being handled, which is in the queue while it waits for its mutation.
HandlerOK ==
    /\ handler \in Handlers(Range(history))
    /\ handler.pc # "idle" => handler.g \in Guest /\ handler.k # 0
    /\ handler.pc = "announce" => handler.event # NoEvent
    /\ handler.pc \in {"auth", "intent"} <=> "message" \in Range(queue)

\* The acts of the host's user: whoever is being removed is a member.
ClicksOK ==
    /\ clicks \in [Click -> ClickRecords]
    /\ \A c \in Click :
        /\ clicks[c].pc = "queued" <=> c \in Range(queue)
        /\ clicks[c].pc = "queued" => clicks[c].op # "none"
        /\ clicks[c].pc = "queued" /\ clicks[c].op = "removed" =>
              clicks[c].g \in Members(memory) /\ clicks[c].g \in Guest

QueueOK == LineOK /\ HandlerOK /\ ClicksOK

\* What the head of the queue is about to commit.
SavingOK ==
    saving # NoSave =>
        /\ saving = [next |-> Applied(memory, saving.event), event |-> saving.event,
                     stored |-> saving.stored]
        /\ saving.stored \in BOOLEAN
        /\ saving.event \in Entry /\ saving.event.seq = memory.seq + 1
        /\ queue # << >>
        /\ Head(queue) = "message" =>
              /\ handler.pc \in {"auth", "intent"}
              /\ saving.event.who = handler.g
              /\ saving.event.type = IF handler.pc = "auth" THEN "admitted" ELSE "chat"
              /\ handler.pc = "auth" => handler.g \notin Members(memory)
        /\ Head(queue) # "message" =>
              /\ saving.event.type = clicks[Head(queue)].op
              /\ saving.event.who = clicks[Head(queue)].g

\* The host's page is closed: nothing is left of it.
ClosedOK ==
    /\ up \in BOOLEAN
    /\ ~up => queue = << >> /\ saving = NoSave /\ handler = Idle /\ bound = {}

\* Who is connected, and which page speaks for which member.
Links == [Guest -> {"down", "up", "closing"}]
Inboxes == [Guest -> Seq((1 .. MaxPages) \X Requests)]
Transports == [Guest -> 0 .. MaxPages]

Wired ==
    /\ joined \in Transports /\ transport \in Transports
    /\ link \in Links
    /\ page \in [Guest -> 1 .. MaxPages]
    /\ inbox \in Inboxes

ConnectionsOK == Wired /\ BindingsAgree

\* A synchronisation tells of saved events only.
GoodSyncs ==
    {s \in Syncs(Range(history)) :
        s.seq <= Len(history) /\ (s.mode = "snapshot" => s.snapshot.seq = s.seq)}

Messages ==
    [type : {"accepted", "rejected"}, sync : GoodSyncs, event : {NoEvent}]
    \cup [type : {"denied", "rejected"}, sync : {NoSync}, event : {NoEvent}]
    \cup [type : {"event"}, sync : {NoSync}, event : Range(history)]

\* What is on its way to the guests, and what they keep.
GuestsOK ==
    /\ toGuest \in [Guest -> Seq(Messages)]
    /\ cred \in [Guest -> Credential]
    /\ \A g \in Guest : cred[g].replica.seq <= Len(history)
    /\ auth \in [Guest -> {"pending", "accepted", "denied"}]
    /\ lastIntent \in [Guest -> Intents]
    /\ typed \in [Guest -> Text \cup {0}]

IInv ==
    LogOK /\ MemoryOK /\ QueueOK /\ SavingOK /\ ClosedOK /\ ConnectionsOK /\ GuestsOK

-------------------------------------------------------------------------------
(***************************************************************************)
(* What each step leaves alone.                                            *)
(***************************************************************************)
LEMMA StoreFrame == Next => Stored \/ UNCHANGED <<history, durable>>
BY DEF Next, HostStep, UserStep, FaultStep, HostTakes, HostNoticesLeave, HostDerives,
       HostAuthenticates, HostJudgesIntent, HostSyncs, HostAnnounces, ClickRuns, CommitClick,
       CommitMessage, HostRestores, HostClicks, GuestSubmits, GuestProbes, GuestReloads,
       HostCrashes, SaveFails, Connect, Disconnect, GuestReceives, hostVars, auxVars, Trouble

LEMMA MemoryFrame ==
    Next => \/ \E c \in Click : CommitClick(c)
            \/ CommitMessage \/ HostRestores \/ HostCrashes
            \/ UNCHANGED <<up, memory>>
BY DEF Next, HostStep, UserStep, FaultStep, HostTakes, HostNoticesLeave, HostDerives,
       HostAuthenticates, HostJudgesIntent, HostSyncs, HostAnnounces, ClickRuns, Stored,
       HostClicks, GuestSubmits, GuestProbes, GuestReloads,
       SaveFails, Connect, Disconnect, GuestReceives, hostVars

LEMMA SavingFrame ==
    Next => \/ \E c \in Click : ClickRuns(c) \/ CommitClick(c)
            \/ HostAuthenticates \/ HostJudgesIntent \/ Stored \/ CommitMessage
            \/ HostCrashes \/ SaveFails
            \/ UNCHANGED saving
BY DEF Next, HostStep, UserStep, FaultStep, HostTakes, HostNoticesLeave, HostDerives,
       HostSyncs, HostAnnounces, HostRestores, HostClicks, GuestSubmits, GuestProbes,
       GuestReloads, Connect, Disconnect, GuestReceives, hostVars

LEMMA QueueFrame ==
    Next => \/ \E g \in Guest : HostTakes(g)
            \/ HostDerives \/ HostSyncs \/ HostAnnounces
            \/ \E c \in Click : HostClicks(c) \/ ClickRuns(c) \/ CommitClick(c)
            \/ HostAuthenticates \/ HostJudgesIntent \/ CommitMessage
            \/ HostCrashes \/ SaveFails
            \/ UNCHANGED <<queue, handler, clicks>>
BY DEF Next, HostStep, UserStep, FaultStep, HostNoticesLeave, Stored,
       HostRestores, GuestSubmits, GuestProbes,
       GuestReloads, Connect, Disconnect, GuestReceives, hostVars

LEMMA ConnectionFrame ==
    Next => \/ \E g \in Guest : \/ HostTakes(g) \/ HostNoticesLeave(g) \/ GuestSubmits(g) \/ GuestProbes(g)
                               \/ GuestReloads(g) \/ Connect(g) \/ Disconnect(g) \/ GuestReceives(g)
            \/ \E c \in Click : ClickRuns(c) \/ CommitClick(c)
            \/ HostAuthenticates \/ CommitMessage \/ HostRestores \/ HostCrashes
            \/ UNCHANGED <<joined, bound, transport, link, page, inbox, memory>>
BY DEF Next, HostStep, UserStep, FaultStep, HostDerives,
       HostJudgesIntent, HostSyncs, HostAnnounces, HostClicks, Stored, SaveFails,
       hostVars, guestVars, netVars

LEMMA GuestFrame ==
    Next => \/ \E g \in Guest : \/ HostTakes(g) \/ GuestSubmits(g) \/ GuestProbes(g)
                               \/ GuestReloads(g) \/ Connect(g) \/ Disconnect(g) \/ GuestReceives(g)
            \/ \E c \in Click : CommitClick(c)
            \/ HostAuthenticates \/ HostSyncs \/ HostAnnounces \/ CommitMessage \/ Stored \/ HostCrashes
            \/ UNCHANGED <<history, toGuest, cred, auth, lastIntent, typed>>
BY DEF Next, HostStep, UserStep, FaultStep, HostDerives, HostNoticesLeave,
       HostJudgesIntent, HostRestores, ClickRuns, HostClicks, SaveFails,
       hostVars, guestVars, netVars, auxVars, Trouble

-------------------------------------------------------------------------------
(***************************************************************************)
(* What the invariant says of the types of the host's states.               *)
(***************************************************************************)
LEMMA PrefixType ==
    ASSUME LogOK, NEW n \in 0 .. Len(history)
    PROVE  /\ Prefix(n) \in Seq(Range(history))
           /\ Len(Prefix(n)) = n
           /\ \A i \in 1 .. n : Prefix(n)[i] = history[i]
<1>1. history \in Seq(Entry) /\ Len(history) \in Nat
  BY DEF LogOK
<1>2. history \in Seq(Range(history))
  BY <1>1, SeqOfRange
<1>3. QED
  BY <1>1, <1>2 DEF Prefix

LEMMA RangeHistory == LogOK => Range(history) \subseteq Entry
BY DEF LogOK, Range

LEMMA PrefixAll == LogOK => Prefix(Len(history)) = history
BY SubSeqFull DEF LogOK, Prefix

\* The state a prefix of the log leads to has the number of the prefix.
LEMMA StateOfPrefix ==
    ASSUME LogOK, NEW n \in 0 .. Len(history)
    PROVE  StateOf(Prefix(n)) \in States(Range(history)) /\ StateOf(Prefix(n)).seq = n
<1>1. /\ Range(history) \subseteq Entry
      /\ Prefix(n) \in Seq(Range(history)) /\ Len(Prefix(n)) = n
      /\ \A i \in 1 .. n : Prefix(n)[i] = history[i]
  BY PrefixType, RangeHistory
<1>2. StateOf(Prefix(n)) \in States(Range(history))
  BY <1>1, StateOfType
<1>3. CASE n = 0
  <2>1. Prefix(n) = << >>
    BY <1>1, <1>3, EmptySeq
  <2>2. QED
    BY <1>2, <1>3, <2>1, StateOfEmpty, InitialStateType
<1>4. CASE n # 0
  <2>1. PICK f \in [0 .. Len(Prefix(n)) -> States(Range(history))] : StateRun(f, Prefix(n))
    BY <1>1, StateOfValues
  <2>2. n \in Nat /\ Len(history) \in Nat
    BY DEF LogOK
  <2>3. n \in 1 .. n /\ n - 1 \in 0 .. n /\ n \in 1 .. Len(history)
    BY <1>4, <2>2
  <2>4. f[n] = Applied(f[n - 1], Prefix(n)[n]) /\ StateOf(Prefix(n)) = f[n]
    BY <1>1, <2>1, <2>3 DEF StateRun
  <2>5. Prefix(n)[n] = history[n] /\ history[n] \in Range(history) /\ history[n].seq = n
    BY <1>1, <2>3 DEF LogOK, Range
  <2>6. f[n - 1] \in States(Range(history))
    BY <1>1, <2>1, <2>3
  <2>7. Applied(f[n - 1], history[n]).seq = n
    BY <1>1, <2>5, <2>6, AppliedType
  <2>8. QED
    BY <1>2, <2>4, <2>5, <2>7
<1>5. QED
  BY <1>2, <1>3, <1>4

LEMMA HostStates ==
    ASSUME LogOK, MemoryOK, SavingOK, ClosedOK
    PROVE  /\ memory \in States(Range(history)) /\ durable \in States(Range(history))
           /\ Len(history) \in Nat
           /\ durable.seq = Len(history) /\ memory.seq <= Len(history)
           /\ up => /\ memory.seq = IF saving.stored THEN Len(history) - 1 ELSE Len(history)
                    /\ memory = StateOf(Prefix(memory.seq))
<1>1. Len(history) \in Nat /\ Len(history) \in 0 .. Len(history)
  BY DEF LogOK
<1>2. durable = StateOf(Prefix(Len(history)))
  BY PrefixAll DEF LogOK
<1>3. durable \in States(Range(history)) /\ durable.seq = Len(history)
  BY <1>1, <1>2, StateOfPrefix
<1>4. CASE ~up
  <2>1. memory = InitialState
    BY <1>4 DEF MemoryOK
  <2>2. QED
    BY <1>1, <1>3, <1>4, <2>1, InitialStateType
<1>5. CASE up /\ saving.stored
  <2>1. history # << >> /\ Len(history) - 1 \in 0 .. Len(history)
    <3>1. history # << >> /\ history \in Seq(Entry)
      BY <1>5 DEF MemoryOK, LogOK
    <3>2. QED
      BY <3>1
  <2>2. memory = StateOf(Prefix(Len(history) - 1))
    BY <1>5 DEF MemoryOK
  <2>3. memory \in States(Range(history)) /\ memory.seq = Len(history) - 1
    BY <2>1, <2>2, StateOfPrefix
  <2>4. QED
    BY <1>1, <1>3, <1>5, <2>2, <2>3
<1>6. CASE up /\ ~saving.stored
  BY <1>1, <1>2, <1>3, <1>6 DEF MemoryOK
<1>7. QED
  BY <1>4, <1>5, <1>6


-------------------------------------------------------------------------------
(***************************************************************************)
(* Every step preserves each part of the invariant.                        *)
(***************************************************************************)

\* NoSave is not a mutation being saved.
LEMMA NoSaveFacts == NoSave.stored = FALSE /\ NoSave.event.type = "none" /\ NoEvent.type = "none"
BY DEF NoSave, NoEvent

LEMMA SavingTyped ==
    ASSUME SavingOK, saving # NoSave
    PROVE  /\ saving.event \in Entry /\ saving.next = Applied(memory, saving.event)
           /\ saving.event.seq = memory.seq + 1 /\ saving.stored \in BOOLEAN
BY DEF SavingOK

\* Whose operation is at the head of the queue.
LEMMA HeadFacts ==
    ASSUME QueueOK, queue # << >>
    PROVE  /\ Head(queue) \in Range(queue) /\ Head(queue) \in Click \cup {"message"}
           /\ Head(queue) # "message" => clicks[Head(queue)].pc = "queued"
<1>1. queue \in Seq(Click \cup {"message"}) /\ 1 \in DOMAIN queue /\ Head(queue) = queue[1]
  BY DEF QueueOK, LineOK, HandlerOK, ClicksOK
<1>2. Head(queue) \in Range(queue) /\ Head(queue) \in Click \cup {"message"}
  BY <1>1 DEF Range
<1>3. QED
  BY <1>2 DEF QueueOK, LineOK, HandlerOK, ClicksOK

LEMMA RemovalsAreOfMembers ==
    ASSUME QueueOK, SavingOK, saving # NoSave, saving.event.type = "removed"
    PROVE  saving.event.who \in Members(memory) /\ saving.event.who \in Guest
<1>1. queue # << >>
  BY DEF SavingOK
<1>2. Head(queue) # "message"
  BY DEF SavingOK
<1>3. PICK c \in Click : c = Head(queue)
  BY <1>1, <1>2, HeadFacts
<1>4. clicks[c].pc = "queued" /\ clicks[c].op = "removed" /\ saving.event.who = clicks[c].g
  BY <1>1, <1>2, <1>3, HeadFacts DEF SavingOK
<1>5. QED
  BY <1>4 DEF QueueOK, LineOK, HandlerOK, ClicksOK

\* The transaction under way is for the state the store holds.
LEMMA StoredFacts ==
    ASSUME IInv, Stored
    PROVE  /\ up /\ memory = durable
           /\ saving.event \in Entry /\ saving.event.seq = Len(history) + 1
           /\ history' = Append(history, saving.event)
           /\ durable' = Applied(durable, saving.event)
<1>1. saving # NoSave /\ ~saving.stored /\ history' = Append(history, saving.event) /\ durable' = saving.next
  BY DEF Stored
<1>2. up
  BY <1>1 DEF IInv, ClosedOK
<1>3. memory = durable
  BY <1>1, <1>2 DEF IInv, MemoryOK
<1>4. saving.event \in Entry /\ saving.next = Applied(memory, saving.event) /\ saving.event.seq = memory.seq + 1
  BY <1>1, SavingTyped DEF IInv
<1>5. durable.seq = Len(history)
  BY HostStates DEF IInv
<1>6. QED
  BY <1>1, <1>2, <1>3, <1>4, <1>5

LEMMA LogStep == IInv /\ [Next]_vars => LogOK'
<1> SUFFICES ASSUME IInv, [Next]_vars
             PROVE  LogOK'
  OBVIOUS
<1>1. CASE UNCHANGED <<history, durable>>
  BY <1>1 DEF IInv, LogOK, StateOf, Restorable, Members
<1>2. CASE Stored
  <2>1. PICK e : e = saving.event
    OBVIOUS
  <2>2. /\ memory = durable /\ e \in Entry /\ e.seq = Len(history) + 1
        /\ history' = Append(history, e) /\ durable' = Applied(durable, e)
    BY <1>2, <2>1, StoredFacts
  <2>3. history \in Seq(Entry) /\ \A i \in 1 .. Len(history) : history[i].seq = i
    BY DEF IInv, LogOK
  <2>4. history' \in Seq(Entry) /\ \A i \in 1 .. Len(history') : history'[i].seq = i
    BY <2>2, <2>3
  <2>5. durable' = StateOf(history')
    <3>1. durable = StateOf(history)
      BY DEF IInv, LogOK
    <3>2. QED
      BY <2>2, <2>3, <3>1, StateOfAppend
  <2>6. durable \in States(Entry) /\ durable.seq = Len(history) /\ Restorable(durable)
        /\ durable.removed \subseteq Members(durable)
    BY <2>3, StateOfType, HostStates DEF IInv, LogOK
  <2>7. Restorable(durable')
    <3>1. Restorable(Applied(durable, e))
      BY <2>2, <2>6, AppliedRestorable
    <3>2. QED
      BY <2>2, <3>1
  <2>8. durable'.removed \subseteq Members(durable')
    <3>1. /\ Members(Applied(durable, e)) = IF e.type = "admitted" THEN Members(durable) \cup {e.who} ELSE Members(durable)
          /\ Applied(durable, e).removed = IF e.type = "removed" THEN durable.removed \cup {e.who} ELSE durable.removed
      BY <2>2, <2>6, AppliedType
    <3>2. e.type = "removed" => e.who \in Members(durable)
      BY <1>2, <2>1, <2>2, RemovalsAreOfMembers DEF IInv, Stored
    <3>3. QED
      BY <2>2, <2>6, <3>1, <3>2
  <2>9. QED
    BY <2>4, <2>5, <2>7, <2>8 DEF LogOK
<1>3. QED
  BY <1>1, <1>2, StoreFrame DEF vars, hostVars, auxVars


LEMMA MemoryStep == IInv /\ [Next]_vars => MemoryOK'
<1> SUFFICES ASSUME IInv, [Next]_vars
             PROVE  MemoryOK'
  OBVIOUS
<1> USE NoSaveFacts
<1>1. LogOK /\ MemoryOK /\ SavingOK /\ ClosedOK
  BY DEF IInv
<1>2. CASE Stored
  <2>1. up /\ memory = durable /\ history' = Append(history, saving.event) /\ saving.event \in Entry
    BY <1>2, StoredFacts
  <2>2. saving' = [saving EXCEPT !.stored = TRUE] /\ durable' = saving.next /\ up' = up /\ memory' = memory
        /\ saving # NoSave
    BY <1>2 DEF Stored
  <2>3. saving'.stored = TRUE /\ saving'.event = saving.event /\ saving'.next = saving.next
    <3>1. saving = [next |-> Applied(memory, saving.event), event |-> saving.event, stored |-> saving.stored]
      BY <1>1, <2>2 DEF SavingOK
    <3>2. QED
      BY <2>2, <3>1
  <2>4. history \in Seq(Entry) /\ Len(history) \in Nat
    BY <1>1 DEF LogOK
  <2>5. history' # << >> /\ history'[Len(history')] = saving.event /\ Len(history') - 1 = Len(history)
        /\ SubSeq(history', 1, Len(history)) = history
    BY <2>1, <2>4
  <2>6. durable = StateOf(history)
    BY <1>1 DEF LogOK
  <2>7. memory' = StateOf(SubSeq(history', 1, Len(history') - 1))
    BY <2>1, <2>2, <2>5, <2>6
  <2>8. Members(memory') = Members(memory) /\ memory.removed \subseteq Members(memory)
    BY <1>1, <2>2 DEF MemoryOK
  <2>9. QED
    BY <2>1, <2>2, <2>3, <2>5, <2>7, <2>8 DEF MemoryOK, Members, Prefix
<1>3. CASE \/ \E c \in Click : CommitClick(c)
           \/ CommitMessage
  <2>1. saving.stored /\ memory' = saving.next /\ saving' = NoSave /\ up' = up /\ UNCHANGED <<history, durable>>
    BY <1>3 DEF CommitClick, CommitMessage, auxVars
  <2>2. up /\ memory' = durable
    BY <1>1, <2>1 DEF MemoryOK, ClosedOK
  <2>3. durable.removed \subseteq Members(durable)
    BY <1>1 DEF LogOK
  <2>4. QED
    BY <2>1, <2>2, <2>3 DEF MemoryOK, Members
<1>4. CASE HostCrashes
  BY <1>4 DEF HostCrashes, MemoryOK, InitialState
<1>5. CASE HostRestores
  <2>1. up' = TRUE /\ memory' = durable /\ UNCHANGED <<durable, history, saving>> /\ saving = NoSave
    BY <1>1, <1>5 DEF HostRestores, ClosedOK, auxVars
  <2>2. QED
    BY <1>1, <2>1 DEF MemoryOK, LogOK, Members
<1>6. CASE UNCHANGED <<up, memory, history, durable>> /\ (UNCHANGED saving \/ (~saving.stored /\ ~saving'.stored))
  BY <1>1, <1>6 DEF MemoryOK, Members, Prefix
<1>7. CASE \/ \E c \in Click : ClickRuns(c)
           \/ HostAuthenticates \/ HostJudgesIntent \/ SaveFails
  <2>1. UNCHANGED <<up, memory, history, durable>>
    BY <1>7 DEF ClickRuns, HostAuthenticates, HostJudgesIntent, SaveFails, Trouble, auxVars
  <2>2. UNCHANGED saving \/ (~saving.stored /\ ~saving'.stored)
    BY <1>7 DEF ClickRuns, HostAuthenticates, HostJudgesIntent, SaveFails, AtHead, Save
  <2>3. QED
    BY <1>6, <2>1, <2>2
<1>8. CASE UNCHANGED vars
  BY <1>6, <1>8 DEF vars, hostVars, auxVars
<1>9. CASE Next
  BY <1>2, <1>3, <1>4, <1>5, <1>6, <1>7, <1>9, StoreFrame, MemoryFrame, SavingFrame
<1>10. QED
  BY <1>8, <1>9

LEMMA ClosedStep == IInv /\ [Next]_vars => ClosedOK'
<1> SUFFICES ASSUME IInv, [Next]_vars
             PROVE  ClosedOK'
  OBVIOUS
<1> USE DEF IInv, ClosedOK
<1>1. CASE UNCHANGED vars
  BY <1>1 DEF vars, hostVars
<1>2. CASE ~up /\ Next
  <2>1. queue = << >> /\ saving = NoSave /\ handler = Idle /\ handler.pc = "idle" /\ bound = {}
        /\ ~saving.stored
    BY <1>2, NoSaveFacts DEF Idle
  <2>2. /\ ~HostAuthenticates /\ ~HostJudgesIntent /\ ~Stored /\ ~CommitMessage /\ ~HostCrashes /\ ~SaveFails
        /\ ~HostDerives /\ ~HostSyncs /\ ~HostAnnounces
        /\ \A c \in Click : ~ClickRuns(c) /\ ~CommitClick(c) /\ ~HostClicks(c)
        /\ \A g \in Guest : ~HostTakes(g) /\ ~HostNoticesLeave(g)
    BY <1>2, <2>1 DEF HostTakes, HostNoticesLeave, HostDerives,
       HostAuthenticates, HostJudgesIntent, HostSyncs, HostAnnounces, ClickRuns, CommitClick, Stored,
       CommitMessage, HostClicks, HostCrashes, SaveFails, AtHead
  <2>3. UNCHANGED <<queue, handler, saving>> /\ up' \in BOOLEAN
    BY <1>2, <2>2, QueueFrame, SavingFrame, MemoryFrame DEF HostRestores
  <2>4. UNCHANGED bound
    BY <1>2, <2>2, ConnectionFrame DEF GuestSubmits, GuestProbes, GuestReloads, Connect, Disconnect,
       GuestReceives, HostRestores, hostVars
  <2>5. QED
    BY <2>1, <2>3, <2>4
<1>3. CASE up
  BY <1>3, MemoryFrame DEF HostCrashes, CommitClick, CommitMessage, HostRestores, vars, hostVars
<1>4. QED
  BY <1>1, <1>2, <1>3


\* What a mutation under way needs of the queue, the handler and the clicks.
Owned(e) ==
    /\ Head(queue) = "message" =>
          /\ handler.pc \in {"auth", "intent"}
          /\ e.who = handler.g
          /\ e.type = IF handler.pc = "auth" THEN "admitted" ELSE "chat"
          /\ handler.pc = "auth" => handler.g \notin Members(memory)
    /\ Head(queue) # "message" =>
          /\ e.type = clicks[Head(queue)].op
          /\ e.who = clicks[Head(queue)].g

LEMMA SaveStep ==
    ASSUME NEW e, e \in Entry, e.seq = memory.seq + 1, Save(e), queue # << >>, Owned(e),
           UNCHANGED <<queue, handler, clicks, memory>>
    PROVE  SavingOK'
<1>1. saving' = [next |-> Applied(memory', e), event |-> e, stored |-> FALSE] /\ memory' = memory
  BY DEF Save
<1>2. saving'.event = e /\ saving'.stored = FALSE
  BY <1>1
<1>3. saving' = [next |-> Applied(memory', saving'.event), event |-> saving'.event, stored |-> saving'.stored]
  BY <1>1, <1>2
<1>4. QED
  BY <1>2, <1>3 DEF SavingOK, Owned, Members

LEMMA MemorySeq == IInv => memory.seq \in Nat
BY HostStates DEF IInv, States

\* While a mutation is being saved, the host's copy and whoever is at the head of the queue stay.
Held ==
    /\ UNCHANGED memory /\ queue' # << >> /\ Head(queue') = Head(queue)
    /\ Head(queue) = "message" => handler' = handler
    /\ Head(queue) # "message" => clicks'[Head(queue)] = clicks[Head(queue)]

LEMMA SavingHeld ==
    ASSUME IInv, Next, UNCHANGED saving, saving # NoSave
    PROVE  Held
<1>1. SavingOK /\ QueueOK
  BY DEF IInv
<1>2. queue # << >> /\ queue \in Seq(Click \cup {"message"}) /\ up
  BY <1>1 DEF SavingOK, QueueOK, LineOK, HandlerOK, ClicksOK, IInv, ClosedOK
<1>3. UNCHANGED memory
  BY <1>2, MemoryFrame, NoSaveFacts DEF HostCrashes, CommitClick, CommitMessage, HostRestores
<1>4. ASSUME NEW o, o \in Click \cup {"message"}, Enqueue(o)
      PROVE  queue' # << >> /\ Head(queue') = Head(queue)
  BY <1>2, <1>4 DEF Enqueue
<1>5. Head(queue) = "message" => handler.pc \in {"auth", "intent"}
  BY <1>1 DEF SavingOK
<1>6. CASE \E g \in Guest : HostTakes(g)
  <2>1. Head(queue) # "message"
    BY <1>5, <1>6 DEF HostTakes
  <2>2. UNCHANGED clicks /\ (UNCHANGED queue \/ Enqueue("message"))
    BY <1>6 DEF HostTakes
  <2>3. QED
    BY <1>2, <1>3, <1>4, <2>1, <2>2 DEF Held
<1>7. CASE HostDerives
  <2>1. Head(queue) # "message"
    BY <1>5, <1>7 DEF HostDerives
  <2>2. UNCHANGED clicks /\ Enqueue("message")
    BY <1>7 DEF HostDerives
  <2>3. QED
    BY <1>2, <1>3, <1>4, <2>1, <2>2 DEF Held
<1>8. CASE HostSyncs \/ HostAnnounces
  <2>1. Head(queue) # "message"
    BY <1>5, <1>8 DEF HostSyncs, HostAnnounces
  <2>2. UNCHANGED <<clicks, queue>>
    BY <1>8 DEF HostSyncs, HostAnnounces
  <2>3. QED
    BY <1>2, <1>3, <2>1, <2>2 DEF Held
<1>9. ASSUME NEW c \in Click, HostClicks(c)
      PROVE  Held
  <2>1. clicks[c].pc = "new" /\ Enqueue(c) /\ UNCHANGED handler
    BY <1>9 DEF HostClicks
  <2>2. Head(queue) # c
    BY <1>1, <1>2, <2>1, HeadFacts, HostAuthorityAssumption
  <2>3. Head(queue) # "message" => clicks'[Head(queue)] = clicks[Head(queue)]
    <3> SUFFICES ASSUME NEW d \in Click, d # c
                 PROVE  clicks'[d] = clicks[d]
      BY <1>2, <2>2, HeadFacts, <1>1
    <3>1. clicks \in [Click -> ClickRecords]
      BY <1>1 DEF QueueOK, LineOK, HandlerOK, ClicksOK
    <3>2. QED
      BY <1>9, <3>1 DEF HostClicks
  <2>4. QED
    BY <1>3, <1>4, <2>1, <2>3 DEF Held
<1>10. ~HostAuthenticates /\ ~HostJudgesIntent /\ ~CommitMessage /\ ~HostCrashes /\ ~SaveFails
      /\ \A c \in Click : ~ClickRuns(c) /\ ~CommitClick(c)
  BY DEF HostAuthenticates, HostJudgesIntent, CommitMessage, HostCrashes, SaveFails, ClickRuns,
         CommitClick, AtHead
<1>11. CASE UNCHANGED <<queue, handler, clicks>>
  BY <1>2, <1>3, <1>11 DEF Held
<1>12. QED
  BY <1>6, <1>7, <1>8, <1>9, <1>10, <1>11, QueueFrame

LEMMA SavingStep == IInv /\ [Next]_vars => SavingOK'
<1> SUFFICES ASSUME IInv, [Next]_vars
             PROVE  SavingOK'
  OBVIOUS
<1>1. SavingOK /\ QueueOK /\ memory.seq \in Nat
  BY MemorySeq DEF IInv
<1>2. CASE saving' = NoSave
  BY <1>2 DEF SavingOK
<1>3. CASE HostAuthenticates /\ saving' # saving
  <2>1. PICK e : e = Event(memory, "admitted", handler.g, 0, 0)
    OBVIOUS
  <2>2. /\ handler.pc = "auth" /\ AuthVerdict(memory, handler.g) = "admitted" /\ Save(e)
        /\ queue # << >> /\ Head(queue) = "message" /\ UNCHANGED <<queue, handler, clicks, memory>>
    BY <1>3, <2>1 DEF HostAuthenticates, AtHead
  <2>3. handler.g \in Guest /\ handler.g \notin Members(memory)
    BY <1>1, <2>2 DEF AuthVerdict, QueueOK, LineOK, HandlerOK, ClicksOK
  <2>4. e \in Entry /\ e.seq = memory.seq + 1 /\ e.who = handler.g /\ e.type = "admitted"
    BY <1>1, <2>1, <2>3 DEF Event, Entry, EventType
  <2>5. Owned(e)
    BY <2>2, <2>3, <2>4 DEF Owned
  <2>6. QED
    BY <2>2, <2>4, <2>5, SaveStep
<1>4. CASE HostJudgesIntent /\ saving' # saving
  <2>1. PICK e : e = Event(memory, "chat", handler.g, handler.intent.client, handler.intent.text)
    OBVIOUS
  <2>2. /\ handler.pc = "intent" /\ Save(e)
        /\ queue # << >> /\ Head(queue) = "message" /\ UNCHANGED <<queue, handler, clicks, memory>>
    BY <1>4, <2>1 DEF HostJudgesIntent, AtHead
  <2>3. handler.g \in Guest /\ handler.intent.client \in Nat /\ handler.intent.text \in Nat
    BY <1>1, <2>2 DEF QueueOK, LineOK, HandlerOK, ClicksOK, Handlers, Intents
  <2>4. e \in Entry /\ e.seq = memory.seq + 1 /\ e.who = handler.g /\ e.type = "chat"
    BY <1>1, <2>1, <2>3 DEF Event, Entry, EventType
  <2>5. Owned(e)
    BY <2>2, <2>3, <2>4 DEF Owned
  <2>6. QED
    BY <2>2, <2>4, <2>5, SaveStep
<1>5. ASSUME NEW c \in Click, ClickRuns(c), saving' # saving
      PROVE  SavingOK'
  <2>0. PICK n : n = IF clicks[c].op = "chat" THEN memory.seq + 1 ELSE 0
    OBVIOUS
  <2>1. PICK e : e = Event(memory, clicks[c].op, clicks[c].g, n, 0)
    OBVIOUS
  <2>2. Save(e) /\ queue # << >> /\ Head(queue) = c /\ UNCHANGED <<queue, handler, clicks, memory>>
    BY <1>5, <2>0, <2>1 DEF ClickRuns, AtHead
  <2>3. c # "message" /\ clicks[c].pc = "queued" /\ clicks[c] \in ClickRecords
    BY <1>1, <2>2, HeadFacts, HostAuthorityAssumption DEF QueueOK, LineOK, HandlerOK, ClicksOK
  <2>4. /\ clicks[c].op \in {"chat", "locked", "unlocked", "removed"} /\ clicks[c].g \in Guest \cup {Host}
        /\ clicks[c].op = "removed" => clicks[c].g \in Guest
    BY <1>1, <2>3 DEF QueueOK, LineOK, HandlerOK, ClicksOK, ClickRecords
  <2>5. e \in Entry /\ e.seq = memory.seq + 1 /\ e.who = clicks[c].g /\ e.type = clicks[c].op
    <3>1. n \in Nat
      BY <1>1, <2>0
    <3>2. e = [seq |-> memory.seq + 1, type |-> clicks[c].op, who |-> clicks[c].g, client |-> n, text |-> 0]
      BY <2>1 DEF Event
    <3>3. QED
      BY <1>1, <2>4, <3>1, <3>2 DEF Entry, EventType
  <2>6. Owned(e)
    BY <2>2, <2>3, <2>5 DEF Owned
  <2>7. QED
    BY <2>2, <2>5, <2>6, SaveStep
<1>6. CASE Stored
  <2>1. saving # NoSave /\ saving' = [saving EXCEPT !.stored = TRUE] /\ UNCHANGED <<memory, queue, handler, clicks>>
    BY <1>6 DEF Stored
  <2>2. saving = [next |-> Applied(memory, saving.event), event |-> saving.event, stored |-> saving.stored]
    BY <1>1, <2>1 DEF SavingOK
  <2>3. saving' = [next |-> Applied(memory, saving.event), event |-> saving.event, stored |-> TRUE]
    <3>1. PICK n, e, b : n = Applied(memory, saving.event) /\ e = saving.event /\ b = saving.stored
      OBVIOUS
    <3>2. saving = [next |-> n, event |-> e, stored |-> b] /\ saving' = [saving EXCEPT !.stored = TRUE]
      BY <2>1, <2>2, <3>1
    <3>3. saving' = [next |-> n, event |-> e, stored |-> TRUE]
      BY ONLY <3>2
    <3>4. QED
      BY <3>1, <3>3
  <2>4. saving'.event = saving.event /\ saving'.stored = TRUE
    BY <2>3
  <2>5. QED
    BY <1>1, <2>1, <2>3, <2>4 DEF SavingOK, Members
<1>8. CASE Next /\ UNCHANGED saving /\ saving # NoSave
  <2>1. Held
    BY <1>8, SavingHeld
  <2>2. QED
    BY <1>1, <1>8, <2>1 DEF SavingOK, Held, Members
<1>9. CASE UNCHANGED vars
  BY <1>1, <1>9 DEF vars, hostVars, SavingOK, Members
<1>10. CASE Next /\ ~UNCHANGED saving /\ saving' # NoSave
  <2>1. ~CommitMessage /\ ~HostCrashes /\ ~SaveFails /\ \A c \in Click : ~CommitClick(c)
    BY <1>10 DEF CommitMessage, HostCrashes, SaveFails, CommitClick
  <2>2. QED
    BY <1>3, <1>4, <1>5, <1>6, <1>10, <2>1, SavingFrame
<1>11. QED
  BY <1>2, <1>8, <1>9, <1>10


\* Nobody waits in the queue twice, so its head is not in its tail.
LEMMA QueuePop ==
    ASSUME LineOK, queue # << >>, Pop
    PROVE  LineOK' /\ Range(queue') = Range(queue) \ {Head(queue)}
<1> DEFINE T == Click \cup {"message"}
<1>1. queue \in Seq(T) /\ queue' = Tail(queue) /\ \A i, j \in 1 .. Len(queue) : queue[i] = queue[j] => i = j
  BY DEF LineOK, Pop
<1> HIDE DEF T
<1>2. PICK n : n = Len(queue)
  OBVIOUS
<1>3. n \in Nat \ {0} /\ queue' \in Seq(T) /\ Len(queue') = n - 1 /\ Head(queue) = queue[1]
      /\ \A i \in 1 .. n - 1 : queue'[i] = queue[i + 1]
  BY <1>1, <1>2
<1>4. LineOK'
  <2>1. \A i, j \in 1 .. Len(queue') : queue'[i] = queue'[j] => i = j
    BY <1>1, <1>2, <1>3
  <2>2. QED
    BY <1>3, <2>1 DEF LineOK, T
<1>5. ASSUME NEW x
      PROVE  x \in Range(queue') <=> x \in Range(queue) /\ x # Head(queue)
  <2>1. x \in Range(queue') <=> \E i \in 1 .. n - 1 : x = queue'[i]
    BY <1>3, InRange
  <2>2. x \in Range(queue) <=> \E i \in 1 .. n : x = queue[i]
    BY <1>1, <1>2, InRange
  <2>3. ASSUME NEW i \in 1 .. n - 1, x = queue'[i]
        PROVE  x \in Range(queue) /\ x # Head(queue)
    <3>1. i + 1 \in 1 .. n /\ 1 \in 1 .. n /\ i + 1 # 1 /\ x = queue[i + 1]
      BY <1>3, <2>3
    <3>2. QED
      BY <1>1, <1>2, <1>3, <2>2, <3>1
  <2>4. ASSUME NEW i \in 1 .. n, x = queue[i], x # Head(queue)
        PROVE  \E j \in 1 .. n - 1 : x = queue'[j]
    <3>1. i # 1
      BY <1>3, <2>4
    <3>2. i - 1 \in 1 .. n - 1 /\ queue'[i - 1] = queue[i]
      BY <1>3, <3>1
    <3>3. QED
      BY <2>4, <3>2
  <2>5. QED
    BY <2>1, <2>2, <2>3, <2>4
<1>6. QED
  BY <1>4, <1>5

LEMMA QueuePush ==
    ASSUME LineOK, NEW o, o \in Click \cup {"message"}, o \notin Range(queue), Enqueue(o)
    PROVE  LineOK' /\ Range(queue') = Range(queue) \cup {o}
<1> DEFINE T == Click \cup {"message"}
<1>1. queue \in Seq(T) /\ o \in T /\ queue' = Append(queue, o)
      /\ \A i, j \in 1 .. Len(queue) : queue[i] = queue[j] => i = j
  BY DEF LineOK, Enqueue
<1> HIDE DEF T
<1>2. Range(queue') = Range(queue) \cup {o}
  BY <1>1, RangeAppend
<1>3. PICK n : n = Len(queue)
  OBVIOUS
<1>4. n \in Nat /\ queue' \in Seq(T) /\ Len(queue') = n + 1 /\ queue'[n + 1] = o
      /\ \A i \in 1 .. n : queue'[i] = queue[i] /\ queue[i] \in Range(queue)
  <2>1. \A i \in 1 .. Len(queue) : queue[i] \in Range(queue)
    BY <1>1, InRange
  <2>2. QED
    BY <1>1, <1>3, <2>1
<1>5. \A i, j \in 1 .. n + 1 : queue'[i] = queue'[j] => i = j
  BY <1>1, <1>3, <1>4
<1>6. QED
  BY <1>2, <1>4, <1>5 DEF LineOK, T

\* Who is in the queue after a step, and that nobody is there twice.
LEMMA LineStep == IInv /\ [Next]_vars => LineOK'
<1> SUFFICES ASSUME IInv, [Next]_vars
             PROVE  LineOK'
  OBVIOUS
<1>1. LineOK /\ HandlerOK /\ ClicksOK /\ SavingOK /\ ClosedOK
  BY DEF IInv, QueueOK
<1>2. CASE UNCHANGED queue
  BY <1>1, <1>2 DEF LineOK
<1>3. CASE Pop /\ queue # << >>
  BY <1>1, <1>3, QueuePop
<1>4. CASE Enqueue("message") /\ handler.pc \notin {"auth", "intent"}
  BY <1>1, <1>4, QueuePush DEF HandlerOK
<1>5. ASSUME NEW c \in Click, HostClicks(c)
      PROVE  LineOK'
  <2>1. Enqueue(c) /\ clicks[c].pc = "new"
    BY <1>5 DEF HostClicks
  <2>2. c \notin Range(queue)
    BY <1>1, <2>1 DEF ClicksOK
  <2>3. QED
    BY <1>1, <2>1, <2>2, QueuePush
<1>6. CASE HostCrashes
  BY <1>6 DEF HostCrashes, LineOK
<1>7. CASE \/ \E g \in Guest : HostTakes(g)
           \/ HostDerives \/ HostSyncs \/ HostAnnounces
  BY <1>2, <1>4, <1>7 DEF HostTakes, HostDerives, HostSyncs, HostAnnounces
<1>8. CASE \/ HostAuthenticates \/ HostJudgesIntent
           \/ \E c \in Click : ClickRuns(c)
  BY <1>2, <1>3, <1>8 DEF HostAuthenticates, HostJudgesIntent, ClickRuns, AtHead, SyncThen
<1>9. CASE \/ CommitMessage \/ SaveFails
           \/ \E c \in Click : CommitClick(c)
  <2>1. saving # NoSave /\ Pop
    BY <1>9, NoSaveFacts DEF CommitMessage, SaveFails, CommitClick
  <2>2. queue # << >>
    BY <1>1, <2>1 DEF SavingOK
  <2>3. QED
    BY <1>3, <2>1, <2>2
<1>10. QED
  BY <1>2, <1>5, <1>6, <1>7, <1>8, <1>9, QueueFrame DEF vars, hostVars


\* The members the host knows are never forgotten while its page is open.
LEMMA MembersGrow ==
    ASSUME IInv, saving.stored, memory' = saving.next
    PROVE  Members(memory) \subseteq Members(memory')
<1>1. saving.event \in Entry /\ saving.next = Applied(memory, saving.event)
  BY NoSaveFacts DEF IInv, SavingOK
<1>2. memory \in States(Entry)
  <2>1. Range(history) \subseteq Entry /\ memory \in States(Range(history))
    BY RangeHistory, HostStates DEF IInv
  <2>2. memory.events \in Seq(Entry)
    BY <2>1, SeqMonotonic DEF States
  <2>3. QED
    BY <2>1, <2>2 DEF States
<1>3. Members(memory) \subseteq Members(Applied(memory, saving.event))
  <2>1. PICK e \in Entry : e = saving.event
    BY <1>1
  <2>2. Members(Applied(memory, e)) = IF e.type = "admitted" THEN Members(memory) \cup {e.who} ELSE Members(memory)
    BY <1>2, AppliedType
  <2>3. QED
    BY <2>1, <2>2
<1>4. QED
  BY <1>1, <1>3

LEMMA HistoryGrows ==
    ASSUME IInv, [Next]_vars
    PROVE  /\ Range(history) \subseteq Range(history')
           /\ Len(history) <= Len(history')
           /\ Len(history) \in Nat /\ Len(history') \in Nat
           /\ \A i \in 1 .. Len(history) : i \in 1 .. Len(history') /\ history'[i] = history[i]
<1>1. history \in Seq(Entry) /\ Len(history) \in Nat
  BY DEF IInv, LogOK
<1>2. CASE UNCHANGED history
  BY <1>1, <1>2
<1>3. CASE Stored
  <2>1. history' = Append(history, saving.event) /\ saving.event \in Entry
    BY <1>3, StoredFacts
  <2>2. Range(history') = Range(history) \cup {saving.event}
    BY <1>1, <2>1, RangeAppend
  <2>3. QED
    BY <1>1, <2>1, <2>2
<1>4. QED
  BY <1>2, <1>3, StoreFrame DEF vars, auxVars

LEMMA IdleOK == Idle \in Handlers({}) /\ Idle.pc = "idle"
<1>1. 0 \in 0 .. MaxPages
  BY HostAuthorityAssumption
<1>2. QED
  BY <1>1 DEF Idle, Handlers, NoIntent, Intents, Reasons

LEMMA HandlersGrow ==
    ASSUME NEW E, NEW F, E \subseteq F
    PROVE  Handlers(E) \subseteq Handlers(F)
BY DEF Handlers

LEMMA HandlerStep == IInv /\ [Next]_vars => HandlerOK'
<1> SUFFICES ASSUME IInv, [Next]_vars
             PROVE  HandlerOK'
  OBVIOUS
<1>1. LineOK /\ HandlerOK /\ ClicksOK /\ SavingOK /\ ClosedOK
  BY DEF IInv, QueueOK
<1>2. /\ handler \in Handlers(Range(history')) /\ Idle \in Handlers(Range(history')) /\ Idle.pc = "idle"
      /\ Range(queue) \subseteq Click \cup {"message"}
  <2>1. handler \in Handlers(Range(history)) /\ Range(history) \subseteq Range(history')
    BY <1>1, HistoryGrows DEF HandlerOK
  <2>2. {} \subseteq Range(history')
    OBVIOUS
  <2>3. QED
    BY <1>1, <2>1, <2>2, HandlersGrow, IdleOK, RangeOfSeq DEF LineOK
<1>3. ASSUME UNCHANGED handler, "message" \in Range(queue') <=> "message" \in Range(queue)
      PROVE  HandlerOK'
  BY <1>1, <1>2, <1>3 DEF HandlerOK
<1>4. ASSUME handler' = Idle, "message" \notin Range(queue')
      PROVE  HandlerOK'
  BY <1>2, <1>4 DEF HandlerOK
<1>5. ASSUME NEW g \in Guest, HostTakes(g)
      PROVE  HandlerOK'
  <2>1. PICK k, m : k = Head(inbox[g])[1] /\ m = Head(inbox[g])[2]
    OBVIOUS
  <2>2. k \in 1 .. MaxPages /\ m \in Requests
    <3>1. inbox[g] # << >> /\ inbox[g] \in Seq((1 .. MaxPages) \X Requests)
      BY <1>5 DEF HostTakes, IInv, ConnectionsOK, Wired, Transports, Inboxes
    <3>2. Head(inbox[g]) \in (1 .. MaxPages) \X Requests
      BY <3>1
    <3>3. QED
      BY <2>1, <3>2
  <2>3. k \in 0 .. MaxPages /\ k # 0 /\ m.cursor \in Nat /\ m.intent \in Intents
    BY <2>2, HostAuthorityAssumption DEF Requests
  <2>4. PICK taken : taken = [Idle EXCEPT !.g = g, !.k = k, !.cursor = m.cursor, !.intent = m.intent]
    OBVIOUS
  <2>5. taken = [pc |-> "idle", g |-> g, k |-> k, cursor |-> m.cursor, intent |-> m.intent,
                 event |-> NoEvent, reason |-> "none", waits |-> {}]
    BY <2>4 DEF Idle
  <2>6. handler.pc = "idle" /\ "message" \notin Range(queue)
    BY <1>1, <1>5 DEF HostTakes, HandlerOK
  <2>7. \/ handler' = [taken EXCEPT !.pc = "derive"] /\ UNCHANGED queue
        \/ UNCHANGED <<handler, queue>>
        \/ handler' = Idle /\ UNCHANGED queue
        \/ handler' = [taken EXCEPT !.pc = "sync", !.reason = "accepted", !.waits = Range(queue)] /\ UNCHANGED queue
        \/ handler' = [taken EXCEPT !.pc = "intent"] /\ Enqueue("message")
    BY <1>5, <2>1, <2>4 DEF HostTakes
  <2>8. CASE UNCHANGED <<handler, queue>>
    BY <1>3, <2>8
  <2>9. CASE handler' = Idle /\ UNCHANGED queue
    BY <1>4, <2>6, <2>9
  <2>10. ASSUME NEW p \in {"derive", "sync", "intent"}, NEW q \in Reasons, NEW w \in SUBSET (Click \cup {"message"}),
                handler' = [pc |-> p, g |-> g, k |-> k, cursor |-> m.cursor, intent |-> m.intent,
                            event |-> NoEvent, reason |-> q, waits |-> w],
                p = "intent" <=> "message" \in Range(queue')
         PROVE  HandlerOK'
    <3>1. handler'.pc = p /\ handler'.g = g /\ handler'.k = k
      BY <2>10
    <3>2. handler' \in Handlers(Range(history'))
      BY <2>3, <2>10 DEF Handlers
    <3>3. p # "idle" /\ p # "announce" /\ p # "auth"
      OBVIOUS
    <3>4. QED
      BY <2>3, <2>10, <3>1, <3>2, <3>3 DEF HandlerOK
  <2>11. CASE handler' = [taken EXCEPT !.pc = "derive"] /\ UNCHANGED queue
    <3>1. handler' = [pc |-> "derive", g |-> g, k |-> k, cursor |-> m.cursor, intent |-> m.intent,
                      event |-> NoEvent, reason |-> "none", waits |-> {}]
      BY <2>5, <2>11
    <3>2. "none" \in Reasons /\ {} \in SUBSET (Click \cup {"message"}) /\ "message" \notin Range(queue')
      BY <2>6, <2>11 DEF Reasons
    <3>3. QED
      BY <2>10, <3>1, <3>2
  <2>12. CASE handler' = [taken EXCEPT !.pc = "sync", !.reason = "accepted", !.waits = Range(queue)] /\ UNCHANGED queue
    <3>1. handler' = [pc |-> "sync", g |-> g, k |-> k, cursor |-> m.cursor, intent |-> m.intent,
                      event |-> NoEvent, reason |-> "accepted", waits |-> Range(queue)]
      BY <2>5, <2>12
    <3>2. "accepted" \in Reasons /\ "message" \notin Range(queue')
      BY <2>6, <2>12 DEF Reasons
    <3>3. QED
      BY <1>2, <2>10, <3>1, <3>2
  <2>13. CASE handler' = [taken EXCEPT !.pc = "intent"] /\ Enqueue("message")
    <3>1. handler' = [pc |-> "intent", g |-> g, k |-> k, cursor |-> m.cursor, intent |-> m.intent,
                      event |-> NoEvent, reason |-> "none", waits |-> {}]
      BY <2>5, <2>13
    <3>2. "message" \in Range(queue')
      BY <1>1, <2>6, <2>13, QueuePush
    <3>3. "none" \in Reasons /\ {} \in SUBSET (Click \cup {"message"})
      BY DEF Reasons
    <3>4. QED
      BY <2>10, <3>1, <3>2, <3>3
  <2>14. QED
    BY <2>7, <2>8, <2>9, <2>11, <2>12, <2>13
<1>6. PICK p0, g0, k0, c0, i0, e0, q0, w0 :
        handler = [pc |-> p0, g |-> g0, k |-> k0, cursor |-> c0, intent |-> i0,
                   event |-> e0, reason |-> q0, waits |-> w0]
  BY <1>2 DEF Handlers
<1>7. /\ q0 \in Reasons /\ w0 \in SUBSET (Click \cup {"message"}) /\ c0 \in Nat
      /\ e0 \in Range(history') \cup {NoEvent} /\ k0 \in 0 .. MaxPages /\ i0 \in Intents
      /\ handler.pc = p0 /\ handler.g = g0 /\ handler.event = e0
      /\ p0 # "idle" => g0 \in Guest /\ k0 # 0
  BY <1>1, <1>2, <1>6 DEF Handlers, HandlerOK
<1>8. ASSUME NEW p \in {"auth", "sync", "announce"}, NEW q \in Reasons, NEW w \in SUBSET (Click \cup {"message"}),
             NEW c \in Nat, NEW e \in Range(history') \cup {NoEvent}, p0 # "idle",
             handler' = [pc |-> p, g |-> g0, k |-> k0, cursor |-> c, intent |-> i0,
                         event |-> e, reason |-> q, waits |-> w],
             p = "announce" => e # NoEvent,
             p = "auth" <=> "message" \in Range(queue')
      PROVE  HandlerOK'
  <2>1. handler'.pc = p /\ handler'.g = g0 /\ handler'.k = k0 /\ handler'.event = e
    BY <1>8
  <2>2. handler' \in Handlers(Range(history'))
    BY <1>7, <1>8 DEF Handlers
  <2>3. p # "intent"
    OBVIOUS
  <2>4. QED
    BY <1>7, <1>8, <2>1, <2>2, <2>3 DEF HandlerOK
<1>9. CASE HostDerives
  <2>1. handler.pc = "derive" /\ handler' = [handler EXCEPT !.pc = "auth"] /\ Enqueue("message")
    BY <1>9 DEF HostDerives
  <2>2. "message" \notin Range(queue)
    BY <1>1, <2>1 DEF HandlerOK
  <2>3. "message" \in Range(queue')
    BY <1>1, <2>1, <2>2, QueuePush
  <2>4. handler' = [pc |-> "auth", g |-> g0, k |-> k0, cursor |-> c0, intent |-> i0,
                    event |-> e0, reason |-> q0, waits |-> w0]
    BY <1>6, <2>1
  <2>5. p0 # "idle"
    BY <1>7, <2>1
  <2>6. QED
    BY <1>7, <1>8, <2>3, <2>4, <2>5
<1>10. CASE HostSyncs \/ HostAnnounces
  <2>1. handler.pc \in {"sync", "announce"} /\ UNCHANGED queue
    BY <1>10 DEF HostSyncs, HostAnnounces
  <2>2. "message" \notin Range(queue')
    BY <1>1, <2>1 DEF HandlerOK
  <2>3. CASE handler' = Idle
    BY <1>4, <2>2, <2>3
  <2>4. CASE handler.event # NoEvent /\ handler' = [handler EXCEPT !.pc = "announce"]
    <3>1. handler' = [pc |-> "announce", g |-> g0, k |-> k0, cursor |-> c0, intent |-> i0,
                      event |-> e0, reason |-> q0, waits |-> w0]
      BY <1>6, <2>4
    <3>2. p0 # "idle" /\ e0 # NoEvent
      BY <1>7, <2>1, <2>4
    <3>3. QED
      BY <1>7, <1>8, <2>2, <3>1, <3>2
  <2>5. QED
    BY <1>10, <2>3, <2>4 DEF HostSyncs, HostAnnounces
<1>11. ASSUME queue # << >>, Head(queue) = "message", Pop
       PROVE  "message" \notin Range(queue') /\ Range(Tail(queue)) \subseteq Click \cup {"message"}
  BY <1>1, <1>2, <1>11, QueuePop DEF Pop
<1>12. CASE HostAuthenticates
  <2>1. handler.pc = "auth" /\ queue # << >> /\ Head(queue) = "message"
    BY <1>12 DEF HostAuthenticates, AtHead
  <2>2. CASE UNCHANGED <<handler, queue>>
    BY <1>3, <2>2
  <2>3. CASE handler' = Idle /\ Pop
    BY <1>4, <1>11, <2>1, <2>3
  <2>4. CASE SyncThen("accepted") /\ Pop
    <3>1. handler' = [pc |-> "sync", g |-> g0, k |-> k0, cursor |-> c0, intent |-> i0,
                      event |-> e0, reason |-> "accepted", waits |-> Range(Tail(queue))]
      BY <1>6, <2>4 DEF SyncThen
    <3>2. p0 # "idle" /\ "accepted" \in Reasons
      BY <1>7, <2>1 DEF Reasons
    <3>3. QED
      BY <1>7, <1>8, <1>11, <2>1, <2>4, <3>1, <3>2
  <2>5. QED
    BY <1>12, <2>2, <2>3, <2>4 DEF HostAuthenticates
<1>13. CASE HostJudgesIntent
  <2>1. handler.pc = "intent" /\ queue # << >> /\ Head(queue) = "message"
    BY <1>13 DEF HostJudgesIntent, AtHead
  <2>2. PICK v : v = ChatVerdict(memory, handler.g, handler.intent.client)
    OBVIOUS
  <2>3. v \in Reasons
    BY <2>2 DEF ChatVerdict, Reasons
  <2>4. CASE UNCHANGED <<handler, queue>>
    BY <1>3, <2>4
  <2>5. CASE /\ handler' = [handler EXCEPT !.pc = "sync", !.reason = v, !.cursor = 0, !.waits = Range(Tail(queue))]
             /\ Pop
    <3>1. handler' = [pc |-> "sync", g |-> g0, k |-> k0, cursor |-> 0, intent |-> i0,
                      event |-> e0, reason |-> v, waits |-> Range(Tail(queue))]
      BY <1>6, <2>5
    <3>2. p0 # "idle" /\ 0 \in Nat
      BY <1>7, <2>1
    <3>3. QED
      BY <1>7, <1>8, <1>11, <2>1, <2>3, <2>5, <3>1, <3>2
  <2>6. QED
    BY <1>13, <2>2, <2>4, <2>5 DEF HostJudgesIntent
<1>14. CASE CommitMessage
  <2>1. saving.stored /\ saving # NoSave /\ queue # << >> /\ Head(queue) = "message" /\ Pop /\ handler.pc # "idle"
    BY <1>1, <1>14, NoSaveFacts DEF CommitMessage, SavingOK
  <2>2. CASE handler' = Idle
    BY <1>4, <1>11, <2>1, <2>2
  <2>3. CASE handler' = [handler EXCEPT !.pc = "sync", !.reason = "accepted", !.event = saving.event,
                                        !.waits = Range(Tail(queue))]
    <3>1. saving.event \in Range(history')
      <4>1. history # << >> /\ history \in Seq(Entry) /\ saving.event = history[Len(history)]
        BY <2>1 DEF IInv, MemoryOK, LogOK
      <4>2. Len(history) \in 1 .. Len(history)
        BY <4>1
      <4>3. QED
        BY <4>1, <4>2, InRange, HistoryGrows
    <3>2. handler' = [pc |-> "sync", g |-> g0, k |-> k0, cursor |-> c0, intent |-> i0,
                      event |-> saving.event, reason |-> "accepted", waits |-> Range(Tail(queue))]
      BY <1>6, <2>3
    <3>3. p0 # "idle" /\ "accepted" \in Reasons
      BY <1>7, <2>1 DEF Reasons
    <3>4. QED
      BY <1>7, <1>8, <1>11, <2>1, <3>1, <3>2, <3>3
  <2>4. QED
    BY <1>14, <2>2, <2>3 DEF CommitMessage
<1>15. CASE SaveFails
  <2>1. queue # << >> /\ Pop
    BY <1>1, <1>15 DEF SaveFails, SavingOK
  <2>2. CASE Head(queue) = "message"
    BY <1>4, <1>11, <1>15, <2>1, <2>2 DEF SaveFails
  <2>3. CASE Head(queue) # "message"
    BY <1>1, <1>3, <1>15, <2>1, <2>3, QueuePop DEF SaveFails
  <2>4. QED
    BY <2>2, <2>3
<1>16. CASE HostCrashes
  BY <1>4, <1>16 DEF HostCrashes, Range
<1>17. ASSUME NEW c \in Click, HostClicks(c) \/ ClickRuns(c) \/ CommitClick(c)
       PROVE  HandlerOK'
  <2>1. c # "message"
    BY HostAuthorityAssumption
  <2>2. CASE HostClicks(c)
    <3>1. c \notin Range(queue) /\ Enqueue(c) /\ UNCHANGED handler
      BY <1>1, <2>2 DEF HostClicks, ClicksOK
    <3>2. QED
      BY <1>1, <1>3, <2>1, <3>1, QueuePush
  <2>3. CASE UNCHANGED <<handler, queue>>
    BY <1>3, <2>3
  <2>4. CASE UNCHANGED handler /\ Pop /\ queue # << >> /\ Head(queue) = c
    BY <1>1, <1>3, <2>1, <2>4, QueuePop
  <2>5. CASE ClickRuns(c)
    BY <2>3, <2>4, <2>5 DEF ClickRuns, AtHead
  <2>6. CASE CommitClick(c)
    <3>1. saving # NoSave
      BY <2>6, NoSaveFacts DEF CommitClick
    <3>2. QED
      BY <1>1, <2>4, <2>6, <3>1 DEF CommitClick, SavingOK
  <2>7. QED
    BY <1>17, <2>2, <2>5, <2>6
<1>18. CASE UNCHANGED <<queue, handler>>
  BY <1>3, <1>18
<1>19. QED
  BY <1>5, <1>9, <1>10, <1>12, <1>13, <1>14, <1>15, <1>16, <1>17, <1>18, QueueFrame DEF vars, hostVars


LEMMA ClicksStep == IInv /\ [Next]_vars => ClicksOK'
<1> SUFFICES ASSUME IInv, [Next]_vars
             PROVE  ClicksOK'
  OBVIOUS
<1>1. LineOK /\ HandlerOK /\ ClicksOK /\ SavingOK /\ ClosedOK /\ "message" \notin Click
  BY HostAuthorityAssumption DEF IInv, QueueOK
<1>2. clicks \in [Click -> ClickRecords]
  BY <1>1 DEF ClicksOK
<1>3. ASSUME UNCHANGED clicks, \A c \in Click : c \in Range(queue') <=> c \in Range(queue),
             Members(memory) \subseteq Members(memory') \/ \A c \in Click : c \notin Range(queue)
      PROVE  ClicksOK'
  BY <1>1, <1>3 DEF ClicksOK, Members
\* The act at the head is done with, and leaves the queue.
<1>4. ASSUME NEW c \in Click, clicks' = [clicks EXCEPT ![c].pc = "done"],
             Pop, queue # << >>, Head(queue) = c, Members(memory) \subseteq Members(memory')
      PROVE  ClicksOK'
  <2>1. Range(queue') = Range(queue) \ {c}
    BY <1>1, <1>4, QueuePop
  <2>2. clicks' \in [Click -> ClickRecords] /\ clicks'[c].pc = "done"
        /\ \A d \in Click \ {c} : clicks'[d] = clicks[d]
    BY <1>2, <1>4 DEF ClickRecords
  <2>3. QED
    BY <1>1, <1>4, <2>1, <2>2 DEF ClicksOK, Members
<1>5. ASSUME NEW c \in Click, HostClicks(c)
      PROVE  ClicksOK'
  <2>1. clicks[c].pc = "new" /\ Enqueue(c) /\ UNCHANGED memory
    BY <1>5 DEF HostClicks
  <2>2. c \notin Range(queue)
    BY <1>1, <2>1 DEF ClicksOK
  <2>3. Range(queue') = Range(queue) \cup {c}
    BY <1>1, <2>1, <2>2, QueuePush
  <2>4. memory.members \in Seq(Guest) /\ Members(memory) \subseteq Guest
    BY HostStates, RangeOfSeq DEF IInv, States, Members
  <2>5. transport \in [Guest -> 0 .. MaxPages] /\ 0 \in 0 .. MaxPages
    BY HostAuthorityAssumption DEF IInv, ConnectionsOK, Wired, Transports, Inboxes
  <2>6. PICK x : /\ clicks' = [clicks EXCEPT ![c] = x] /\ x \in ClickRecords /\ x.pc = "queued" /\ x.op # "none"
                 /\ x.op = "removed" => x.g \in Members(memory) /\ x.g \in Guest
    <3> DEFINE Acts ==
            {[pc |-> "queued", op |-> o, g |-> Host, k |-> 0] : o \in {"chat", "locked", "unlocked"}}
            \cup {[pc |-> "queued", op |-> "removed", g |-> g, k |-> transport[g]] : g \in Members(memory)}
    <3>1. PICK x \in Acts : clicks' = [clicks EXCEPT ![c] = x]
      BY <1>5 DEF HostClicks
    <3>2. ASSUME NEW o \in {"chat", "locked", "unlocked"}, x = [pc |-> "queued", op |-> o, g |-> Host, k |-> 0]
          PROVE  x \in ClickRecords /\ x.pc = "queued" /\ x.op # "none" /\ x.op # "removed"
      BY <2>5, <3>2 DEF ClickRecords
    <3>3. ASSUME NEW g \in Members(memory), x = [pc |-> "queued", op |-> "removed", g |-> g, k |-> transport[g]]
          PROVE  x \in ClickRecords /\ x.pc = "queued" /\ x.op # "none" /\ x.g \in Members(memory) /\ x.g \in Guest
      BY <2>4, <2>5, <3>3 DEF ClickRecords
    <3>4. x \in ClickRecords /\ x.pc = "queued" /\ x.op # "none"
          /\ (x.op = "removed" => x.g \in Members(memory) /\ x.g \in Guest)
      BY <3>2, <3>3
    <3> HIDE DEF Acts
    <3>5. QED
      BY <3>1, <3>4
  <2>7. clicks' \in [Click -> ClickRecords] /\ clicks'[c] = x /\ \A d \in Click \ {c} : clicks'[d] = clicks[d]
    BY <1>2, <2>6
  <2>8. QED
    BY <1>1, <2>1, <2>3, <2>6, <2>7 DEF ClicksOK, Members
<1>6. ASSUME NEW c \in Click, ClickRuns(c)
      PROVE  ClicksOK'
  <2>1. queue # << >> /\ Head(queue) = c /\ UNCHANGED memory
    BY <1>6 DEF ClickRuns, AtHead
  <2>2. CASE UNCHANGED <<clicks, queue>>
    BY <1>3, <2>1, <2>2
  <2>3. CASE clicks' = [clicks EXCEPT ![c].pc = "done"] /\ Pop
    BY <1>4, <2>1, <2>3
  <2>4. QED
    BY <1>6, <2>2, <2>3 DEF ClickRuns
<1>7. ASSUME NEW c \in Click, CommitClick(c)
      PROVE  ClicksOK'
  <2>1. saving.stored /\ saving # NoSave /\ memory' = saving.next /\ Pop /\ Head(queue) = c
        /\ clicks' = [clicks EXCEPT ![c].pc = "done"]
    BY <1>7, NoSaveFacts DEF CommitClick
  <2>2. queue # << >> /\ Members(memory) \subseteq Members(memory')
    BY <1>1, <2>1, MembersGrow DEF SavingOK
  <2>3. QED
    BY <1>4, <2>1, <2>2
<1>8. ASSUME Pop, queue # << >>, Head(queue) = "message", UNCHANGED clicks,
             Members(memory) \subseteq Members(memory')
      PROVE  ClicksOK'
  <2>1. Range(queue') = Range(queue) \ {"message"}
    BY <1>1, <1>8, QueuePop
  <2>2. QED
    BY <1>1, <1>3, <1>8, <2>1
<1>9. CASE CommitMessage
  <2>1. saving.stored /\ saving # NoSave /\ memory' = saving.next /\ Pop /\ Head(queue) = "message" /\ UNCHANGED clicks
    BY <1>9, NoSaveFacts DEF CommitMessage
  <2>2. queue # << >> /\ Members(memory) \subseteq Members(memory')
    BY <1>1, <2>1, MembersGrow DEF SavingOK
  <2>3. QED
    BY <1>8, <2>1, <2>2
<1>10. CASE SaveFails
  <2>1. queue # << >> /\ Pop /\ UNCHANGED memory
    BY <1>1, <1>10 DEF SaveFails, SavingOK
  <2>2. CASE Head(queue) = "message"
    BY <1>8, <1>10, <2>1, <2>2 DEF SaveFails
  <2>3. CASE Head(queue) # "message"
    <3>1. PICK c \in Click : c = Head(queue)
      BY <1>1, <2>1, <2>3, HeadFacts DEF QueueOK
    <3>2. clicks' = [clicks EXCEPT ![c].pc = "done"]
      BY <1>10, <2>3, <3>1 DEF SaveFails
    <3>3. QED
      BY <1>4, <2>1, <3>1, <3>2
  <2>4. QED
    BY <2>2, <2>3
<1>11. CASE HostAuthenticates \/ HostJudgesIntent
  <2>1. queue # << >> /\ Head(queue) = "message" /\ UNCHANGED <<clicks, memory>> /\ (UNCHANGED queue \/ Pop)
    BY <1>11 DEF HostAuthenticates, HostJudgesIntent, AtHead
  <2>2. QED
    BY <1>3, <1>8, <2>1
<1>12. CASE \/ \E g \in Guest : HostTakes(g)
            \/ HostDerives
  <2>1. UNCHANGED <<clicks, memory>> /\ (UNCHANGED queue \/ Enqueue("message")) /\ handler.pc \notin {"auth", "intent"}
    BY <1>12 DEF HostTakes, HostDerives
  <2>2. CASE UNCHANGED queue
    BY <1>3, <2>1, <2>2
  <2>3. CASE Enqueue("message")
    <3>1. Range(queue') = Range(queue) \cup {"message"}
      BY <1>1, <2>1, <2>3, QueuePush DEF HandlerOK
    <3>2. QED
      BY <1>1, <1>3, <2>1, <3>1
  <2>4. QED
    BY <2>1, <2>2, <2>3
<1>13. CASE HostSyncs \/ HostAnnounces
  BY <1>3, <1>13 DEF HostSyncs, HostAnnounces
<1>14. CASE HostCrashes
  <2>1. /\ clicks' = [c \in Click |-> IF clicks[c].pc = "queued" THEN [clicks[c] EXCEPT !.pc = "done"] ELSE clicks[c]]
        /\ queue' = << >>
    BY <1>14 DEF HostCrashes
  <2>2. \A c : c \notin Range(queue')
    BY <2>1 DEF Range
  <2>3. clicks' \in [Click -> ClickRecords] /\ \A c \in Click : clicks'[c].pc # "queued"
    BY <1>2, <2>1 DEF ClickRecords
  <2>4. QED
    BY <2>2, <2>3 DEF ClicksOK
<1>15. CASE UNCHANGED <<queue, handler, clicks>> /\ [Next]_vars
  <2>1. CASE UNCHANGED memory
    BY <1>3, <1>15, <2>1
  <2>2. CASE HostRestores
    <3>1. queue = << >>
      BY <1>1, <2>2 DEF HostRestores, ClosedOK
    <3>2. \A c \in Click : c \notin Range(queue)
      BY <3>1 DEF Range
    <3>3. QED
      BY <1>3, <1>15, <3>2
  <2>3. QED
    BY <1>7, <1>9, <1>14, <1>15, <2>1, <2>2, MemoryFrame DEF vars, hostVars
<1>16. QED
  BY <1>5, <1>6, <1>7, <1>9, <1>10, <1>11, <1>12, <1>13, <1>14, <1>15, QueueFrame DEF vars, hostVars

LEMMA QueueStep == IInv /\ [Next]_vars => QueueOK'
BY LineStep, HandlerStep, ClicksStep DEF QueueOK


-------------------------------------------------------------------------------
(***************************************************************************)
(* Connections: what is on its way to the host, and who speaks for whom.    *)
(***************************************************************************)
LEMMA CloseType == ASSUME NEW g, NEW k, link \in Links, Close(g, k) PROVE link' \in Links
BY DEF Close, Links

LEMMA BindType ==
    ASSUME NEW g \in Guest, NEW k \in 0 .. MaxPages, link \in Links, transport \in Transports, Bind(g, k)
    PROVE  link' \in Links /\ transport' \in Transports
BY CloseType DEF Bind, Transports

LEMMA SendType ==
    ASSUME NEW g \in Guest, NEW m \in Requests, Wired, SendToHost(g, m)
    PROVE  inbox' \in Inboxes
<1>1. PICK x : x = <<page[g], m>>
  OBVIOUS
<1>2. x \in (1 .. MaxPages) \X Requests /\ inbox[g] \in Seq((1 .. MaxPages) \X Requests)
  BY <1>1 DEF Wired, Inboxes
<1>3. Append(inbox[g], x) \in Seq((1 .. MaxPages) \X Requests)
  BY <1>2
<1>4. inbox' = [inbox EXCEPT ![g] = Append(inbox[g], x)] \/ inbox' = inbox
  BY <1>1 DEF SendToHost
<1>5. QED
  BY <1>3, <1>4 DEF Wired, Inboxes

LEMMA UnlinkType ==
    ASSUME NEW g \in Guest, Wired, Unlink(g)
    PROVE  inbox' \in Inboxes /\ link' \in Links
<1>1. inbox[g] \in Seq((1 .. MaxPages) \X Requests)
  BY DEF Wired, Inboxes
<1>2. PICK s : s = Only(inbox[g], {m \in Range(inbox[g]) : m[1] # page[g]})
  OBVIOUS
<1>3. s \in Seq((1 .. MaxPages) \X Requests)
  BY <1>1, <1>2, OnlyType
<1>4. inbox' = inbox \/ inbox' = [inbox EXCEPT ![g] = s]
  BY <1>2 DEF Unlink
<1>5. link' = [link EXCEPT ![g] = "down"]
  BY DEF Unlink
<1>6. QED
  BY <1>3, <1>4, <1>5 DEF Wired, Inboxes, Links

LEMMA RequestTypes ==
    /\ \A c \in Nat : AuthRequest(c) \in Requests /\ SyncRequest(c) \in Requests
    /\ \A i \in Intents : Intent(i) \in Requests
    /\ ForceSnapshot \in Nat /\ 0 \in Nat /\ NoIntent \in Intents
BY AuthorityAssumption DEF AuthRequest, SyncRequest, Intent, Requests, Intents, NoIntent

LEMMA CredTypes ==
    ASSUME GuestsOK, NEW g \in Guest
    PROVE  /\ cred[g].known \in BOOLEAN /\ cred[g].cached \in BOOLEAN
           /\ cred[g].next \in Nat \ {0}
           /\ cred[g].replica \in Replicas(Range(history))
           /\ cred[g].replica.seq \in Nat
BY DEF GuestsOK, Credential, Replicas

\* A guest takes the next number, or another replica.
LEMMA CredUpdates ==
    ASSUME GuestsOK, NEW g \in Guest
    PROVE  /\ [cred[g] EXCEPT !.next = @ + 1] \in Credential
           /\ [cred[g] EXCEPT !.next = @ + 1].replica = cred[g].replica
           /\ \A r \in Replicas(Range(history)) :
                  /\ [cred[g] EXCEPT !.replica = r] \in Credential
                  /\ [cred[g] EXCEPT !.replica = r].replica = r
<1>1. cred[g] \in Credential
  BY DEF GuestsOK
<1>2. PICK k \in BOOLEAN, n \in Nat \ {0}, d \in BOOLEAN, q \in Replicas(Range(history)) :
          cred[g] = [known |-> k, next |-> n, cached |-> d, replica |-> q]
  BY <1>1 DEF Credential, Replicas
<1>3. PICK c : c = cred[g]
  OBVIOUS
<1>4. c = [known |-> k, next |-> n, cached |-> d, replica |-> q]
  BY <1>2, <1>3
<1>5. [c EXCEPT !.next = @ + 1] = [known |-> k, next |-> n + 1, cached |-> d, replica |-> q]
  BY <1>4
<1>6. n + 1 \in Nat \ {0}
  BY <1>2
<1>7. [known |-> k, next |-> n + 1, cached |-> d, replica |-> q] \in Credential
  BY <1>2, <1>6 DEF Credential, Replicas
<1>8. ASSUME NEW r \in Replicas(Range(history))
      PROVE  [c EXCEPT !.replica = r] \in Credential /\ [c EXCEPT !.replica = r].replica = r
  <2>1. [c EXCEPT !.replica = r] = [known |-> k, next |-> n, cached |-> d, replica |-> r]
    BY <1>4
  <2>2. [known |-> k, next |-> n, cached |-> d, replica |-> r] \in Credential
    BY <1>2, <1>8 DEF Credential, Replicas
  <2>3. QED
    BY <2>1, <2>2
<1>9. [c EXCEPT !.next = @ + 1] \in Credential /\ [c EXCEPT !.next = @ + 1].replica = c.replica
  BY <1>4, <1>5, <1>7
<1>10. QED
  BY <1>3, <1>8, <1>9

LEMMA WiredStep == IInv /\ [Next]_vars => Wired'
<1> SUFFICES ASSUME IInv, [Next]_vars
             PROVE  Wired'
  OBVIOUS
<1> USE DEF Links
<1>1. Wired /\ GuestsOK /\ 0 \in 0 .. MaxPages /\ 1 .. MaxPages \subseteq 0 .. MaxPages
  BY HostAuthorityAssumption DEF IInv, ConnectionsOK, Wired, Transports, Inboxes
<1>2. link \in Links /\ transport \in Transports /\ joined \in Transports /\ inbox \in Inboxes
      /\ page \in [Guest -> 1 .. MaxPages]
  BY <1>1 DEF Wired
<1>3. handler.pc # "idle" => handler.g \in Guest /\ handler.k \in 0 .. MaxPages
  BY DEF IInv, QueueOK, HandlerOK, Handlers
<1>4. CASE UNCHANGED <<joined, transport, link, page, inbox>>
  BY <1>1, <1>4 DEF Wired
<1>5. ASSUME NEW g \in Guest, HostTakes(g)
      PROVE  Wired'
  <2>1. inbox' = [inbox EXCEPT ![g] = Tail(@)] /\ UNCHANGED <<joined, transport, page>> /\ inbox[g] # << >>
    BY <1>5 DEF HostTakes, guestVars
  <2>2. Tail(inbox[g]) \in Seq((1 .. MaxPages) \X Requests)
    BY <1>2, <2>1 DEF Inboxes
  <2>3. inbox' \in Inboxes
    BY <1>2, <2>1, <2>2 DEF Inboxes
  <2>4. link' \in Links
    BY <1>2, <1>5, CloseType DEF HostTakes
  <2>5. QED
    BY <1>2, <2>1, <2>3, <2>4 DEF Wired
<1>6. ASSUME NEW g \in Guest, HostNoticesLeave(g)
      PROVE  Wired'
  BY <1>1, <1>2, <1>6 DEF HostNoticesLeave, Wired, Transports, guestVars, netVars
<1>7. CASE HostAuthenticates
  <2>1. handler.g \in Guest /\ handler.k \in 0 .. MaxPages /\ UNCHANGED <<joined, page, inbox>>
    BY <1>3, <1>7 DEF HostAuthenticates, guestVars
  <2>2. link' \in Links /\ transport' \in Transports
    BY <1>2, <1>7, <2>1, CloseType, BindType DEF HostAuthenticates
  <2>3. QED
    BY <1>2, <2>1, <2>2 DEF Wired
<1>8. CASE CommitMessage
  <2>1. handler.g \in Guest /\ handler.k \in 0 .. MaxPages /\ UNCHANGED <<joined, page, inbox>>
    <3>1. saving # NoSave
      BY <1>8, NoSaveFacts DEF CommitMessage
    <3>2. handler.pc # "idle"
      BY <1>8, <3>1 DEF CommitMessage, IInv, SavingOK
    <3>3. QED
      BY <1>3, <1>8, <3>2 DEF CommitMessage, guestVars
  <2>2. link' \in Links /\ transport' \in Transports
    BY <1>2, <1>8, <2>1, BindType DEF CommitMessage
  <2>3. QED
    BY <1>2, <2>1, <2>2 DEF Wired
<1>9. ASSUME NEW c \in Click, ClickRuns(c) \/ CommitClick(c)
      PROVE  Wired'
  <2>1. UNCHANGED <<joined, page, inbox>>
    BY <1>9 DEF ClickRuns, CommitClick, guestVars
  <2>2. link' \in Links
    BY <1>2, <1>9, CloseType DEF ClickRuns, CommitClick
  <2>3. transport' \in Transports
    BY <1>1, <1>2, <1>9 DEF ClickRuns, CommitClick, Transports
  <2>4. QED
    BY <1>2, <2>1, <2>2, <2>3 DEF Wired
<1>10. CASE HostCrashes
  <2>1. /\ joined' = [g \in Guest |-> 0] /\ transport' = [g \in Guest |-> 0]
        /\ link' = [g \in Guest |-> "down"] /\ inbox' = [g \in Guest |-> << >>] /\ UNCHANGED page
    BY <1>10 DEF HostCrashes
  <2>2. << >> \in Seq((1 .. MaxPages) \X Requests)
    OBVIOUS
  <2>3. QED
    BY <1>1, <1>2, <2>1, <2>2 DEF Wired, Transports, Inboxes
<1>11. ASSUME NEW g \in Guest, GuestSubmits(g)
       PROVE  Wired'
  <2>1. PICK i : i = [client |-> cred[g].next, text |-> typed[g] + 1]
    OBVIOUS
  <2>2. SendToHost(g, Intent(i)) /\ UNCHANGED <<joined, transport, page, link>>
    BY <1>11, <2>1 DEF GuestSubmits, hostVars
  <2>3. i \in Intents
    BY <1>1, <1>11, <2>1, CredTypes, HostAuthorityAssumption DEF GuestSubmits, Intents
  <2>4. QED
    BY <1>1, <1>2, <2>2, <2>3, SendType, RequestTypes DEF Wired
<1>12. ASSUME NEW g \in Guest, GuestProbes(g)
       PROVE  Wired'
  <2>1. lastIntent[g] \in Intents
    BY <1>1 DEF GuestsOK
  <2>2. PICK m \in Requests : SendToHost(g, m)
    BY <1>12, <2>1, RequestTypes DEF GuestProbes
  <2>3. UNCHANGED <<joined, transport, page, link>>
    BY <1>12 DEF GuestProbes, hostVars
  <2>4. QED
    BY <1>1, <1>2, <2>2, <2>3, SendType DEF Wired
<1>13. ASSUME NEW g \in Guest, GuestReloads(g) \/ Disconnect(g)
       PROVE  Wired'
  <2>1. Unlink(g) /\ UNCHANGED <<joined, transport>> /\ page' \in [Guest -> 1 .. MaxPages]
    BY <1>2, <1>13, HostAuthorityAssumption DEF GuestReloads, Disconnect, hostVars
  <2>2. QED
    BY <1>1, <1>2, <2>1, UnlinkType DEF Wired
<1>14. ASSUME NEW g \in Guest, Connect(g)
       PROVE  Wired'
  <2>1. PICK m : m = AuthRequest(IF cred[g].cached THEN cred[g].replica.seq ELSE ForceSnapshot)
    OBVIOUS
  <2>2. m \in Requests
    BY <1>1, <2>1, CredTypes, RequestTypes
  <2>3. /\ link' = [link EXCEPT ![g] = "up"] /\ joined' = [joined EXCEPT ![g] = page[g]]
        /\ inbox' = [inbox EXCEPT ![g] = Append(@, <<page[g], m>>)] /\ UNCHANGED <<transport, page>>
    BY <1>14, <2>1 DEF Connect
  <2>4. Append(inbox[g], <<page[g], m>>) \in Seq((1 .. MaxPages) \X Requests)
    <3>1. <<page[g], m>> \in (1 .. MaxPages) \X Requests /\ inbox[g] \in Seq((1 .. MaxPages) \X Requests)
      BY <1>2, <2>2 DEF Inboxes
    <3>2. QED
      BY <3>1
  <2>5. inbox' \in Inboxes
    BY <1>2, <2>3, <2>4 DEF Inboxes
  <2>6. QED
    BY <1>1, <1>2, <2>3, <2>5 DEF Wired, Transports
<1>15. ASSUME NEW g \in Guest, GuestReceives(g)
       PROVE  Wired'
  <2>1. UNCHANGED <<joined, transport, page, link>>
    BY <1>15 DEF GuestReceives, hostVars
  <2>2. UNCHANGED inbox \/ SendToHost(g, SyncRequest(ForceSnapshot))
    <3>1. PICK m : m = Head(toGuest[g])
      OBVIOUS
    <3>2. \A sync, v : TakeIn(g, sync, v) => UNCHANGED inbox \/ SendToHost(g, SyncRequest(ForceSnapshot))
      BY DEF TakeIn, AskForSnapshot
    <3>3. m \in Messages
      <4>1. toGuest[g] \in Seq(Messages) /\ toGuest[g] # << >>
        BY <1>1, <1>15 DEF GuestsOK, GuestReceives
      <4>2. QED
        BY <3>1, <4>1
    <3>4. m.type \in {"accepted", "denied", "rejected", "event"}
      BY <3>3 DEF Messages
    <3>5. QED
      BY <1>15, <3>1, <3>2, <3>4 DEF GuestReceives, AskForSnapshot
  <2>3. QED
    BY <1>1, <1>2, <2>1, <2>2, SendType, RequestTypes DEF Wired
<1>16. CASE HostRestores
  BY <1>4, <1>16 DEF HostRestores, guestVars, netVars
<1>17. QED
  BY <1>4, <1>5, <1>6, <1>7, <1>8, <1>9, <1>10, <1>11, <1>12, <1>13, <1>14, <1>15, <1>16, ConnectionFrame
     DEF vars, hostVars, guestVars, netVars


\* The transports that speak for somebody, as transportByMember has them.
Bindings(t) == {<<g, t[g]>> : g \in {h \in Guest : t[h] # 0}}

LEMMA InBindings ==
    ASSUME NEW t, NEW x
    PROVE  x \in Bindings(t) <=> \E h \in Guest : t[h] # 0 /\ x = <<h, t[h]>>
BY DEF Bindings

LEMMA Rebound ==
    ASSUME NEW t \in Transports, NEW g \in Guest, NEW k \in 1 .. MaxPages
    PROVE  /\ Bindings([t EXCEPT ![g] = 0]) = Bindings(t) \ {<<g, t[g]>>}
           /\ Bindings([t EXCEPT ![g] = k]) = (Bindings(t) \ {<<g, t[g]>>}) \cup {<<g, k>>}
<1>1. \A x : x \in Bindings(t) \ {<<g, t[g]>>} <=> \E h \in Guest : h # g /\ t[h] # 0 /\ x = <<h, t[h]>>
  BY InBindings
<1>2. ASSUME NEW j \in 0 .. MaxPages, NEW u, u = [t EXCEPT ![g] = j], NEW x
      PROVE  x \in Bindings(u) <=> \/ \E h \in Guest : h # g /\ t[h] # 0 /\ x = <<h, t[h]>>
                                   \/ j # 0 /\ x = <<g, j>>
  <2>1. u[g] = j /\ \A h \in Guest : h # g => u[h] = t[h]
    BY <1>2 DEF Transports
  <2>2. QED
    BY <2>1, InBindings
<1>3. 0 \in 0 .. MaxPages /\ k \in 0 .. MaxPages /\ k # 0
  BY HostAuthorityAssumption
<1>4. \A x : x \in Bindings([t EXCEPT ![g] = 0]) <=> x \in Bindings(t) \ {<<g, t[g]>>}
  BY <1>1, <1>2, <1>3
<1>5. \A x : x \in Bindings([t EXCEPT ![g] = k]) <=> x \in (Bindings(t) \ {<<g, t[g]>>}) \cup {<<g, k>>}
  BY <1>1, <1>2, <1>3
<1>6. QED
  BY <1>4, <1>5

\* Binding a page to a member who is not removed keeps the two maps in agreement.
LEMMA BindAgrees ==
    ASSUME NEW g \in Guest, NEW k \in 1 .. MaxPages, Bind(g, k), transport \in Transports,
           bound = Bindings(transport)
    PROVE  bound' = Bindings(transport') /\ transport' = [transport EXCEPT ![g] = k]
<1>1. /\ bound' = (bound \ (IF transport[g] \in {0, k} THEN {} ELSE {<<g, transport[g]>>})) \cup {<<g, k>>}
      /\ transport' = [transport EXCEPT ![g] = k]
  BY DEF Bind
<1>2. CASE transport[g] \in {0, k}
  <2>1. bound' = bound \cup {<<g, k>>}
    BY <1>1, <1>2
  <2>2. transport[g] = 0 => <<g, transport[g]>> \notin bound
    BY InBindings
  <2>3. bound' = (bound \ {<<g, transport[g]>>}) \cup {<<g, k>>}
    BY <1>2, <2>1, <2>2
  <2>4. Bindings([transport EXCEPT ![g] = k]) = (Bindings(transport) \ {<<g, transport[g]>>}) \cup {<<g, k>>}
    BY Rebound
  <2>5. QED
    BY <1>1, <2>3, <2>4
<1>3. CASE transport[g] \notin {0, k}
  <2>1. bound' = (bound \ {<<g, transport[g]>>}) \cup {<<g, k>>}
    BY <1>1, <1>3
  <2>2. Bindings([transport EXCEPT ![g] = k]) = (Bindings(transport) \ {<<g, transport[g]>>}) \cup {<<g, k>>}
    BY Rebound
  <2>3. QED
    BY <1>1, <2>1, <2>2
<1>4. QED
  BY <1>2, <1>3

LEMMA BindingsStep == IInv /\ [Next]_vars => BindingsAgree'
<1> SUFFICES ASSUME IInv, [Next]_vars
             PROVE  BindingsAgree'
  OBVIOUS
<1>1. /\ transport \in Transports /\ joined \in Transports /\ bound = Bindings(transport)
      /\ \A g \in memory.removed : transport[g] = 0
  BY DEF IInv, ConnectionsOK, Wired, BindingsAgree, Bindings
<1>2. memory.removed \subseteq Guest /\ memory.removed \subseteq Members(memory)
  BY HostStates DEF IInv, MemoryOK, States
<1>3. ASSUME bound' = Bindings(transport'), \A g \in memory'.removed : transport'[g] = 0
      PROVE  BindingsAgree'
  BY <1>3 DEF BindingsAgree, Bindings
<1>4. CASE UNCHANGED <<bound, transport, memory>>
  BY <1>1, <1>3, <1>4
<1>5. handler.pc # "idle" => handler.g \in Guest /\ handler.k \in 1 .. MaxPages
  BY HostAuthorityAssumption DEF IInv, QueueOK, HandlerOK, Handlers
<1>6. ASSUME handler.pc # "idle", Bind(handler.g, handler.k), handler.g \notin memory.removed,
             memory'.removed = memory.removed
      PROVE  BindingsAgree'
  <2>1. bound' = Bindings(transport') /\ transport' = [transport EXCEPT ![handler.g] = handler.k]
    BY <1>1, <1>5, <1>6, BindAgrees
  <2>2. \A g \in memory'.removed : transport'[g] = 0
    BY <1>1, <1>2, <1>6, <2>1 DEF Transports
  <2>3. QED
    BY <1>3, <2>1, <2>2
<1>7. CASE HostAuthenticates
  <2>1. handler.pc # "idle" /\ UNCHANGED memory
    BY <1>7 DEF HostAuthenticates
  <2>2. CASE AuthVerdict(memory, handler.g) = "resumed" /\ Bind(handler.g, handler.k)
    <3>1. handler.g \notin memory.removed
      BY <2>2 DEF AuthVerdict
    <3>2. QED
      BY <1>6, <2>1, <2>2, <3>1
  <2>3. CASE UNCHANGED <<bound, transport>>
    BY <1>4, <2>1, <2>3
  <2>4. QED
    BY <1>7, <2>2, <2>3 DEF HostAuthenticates
\* The state a mutation leaves, and who is removed in it.
<1>8. ASSUME saving.stored
      PROVE  /\ saving # NoSave
             /\ saving.next.removed = IF saving.event.type = "removed" THEN memory.removed \cup {saving.event.who}
                                      ELSE memory.removed
  <2>1. saving # NoSave
    BY <1>8, NoSaveFacts
  <2>2. PICK e \in Entry : e = saving.event
    BY <2>1 DEF IInv, SavingOK
  <2>3. saving.next = Applied(memory, e)
    BY <2>1, <2>2 DEF IInv, SavingOK
  <2>4. memory \in States(Entry)
    <3>1. Range(history) \subseteq Entry /\ memory \in States(Range(history))
      BY RangeHistory, HostStates DEF IInv
    <3>2. memory.events \in Seq(Entry)
      BY <3>1, SeqMonotonic DEF States
    <3>3. QED
      BY <3>1, <3>2 DEF States
  <2>5. QED
    BY <2>1, <2>2, <2>3, <2>4, AppliedType
<1>9. CASE CommitMessage
  <2>1. saving.stored /\ Head(queue) = "message" /\ memory' = saving.next
    BY <1>9 DEF CommitMessage
  <2>2. saving.event.type # "removed" /\ handler.pc # "idle"
        /\ (handler.pc = "auth" => handler.g \notin Members(memory))
    BY <1>8, <2>1 DEF IInv, SavingOK
  <2>3. memory'.removed = memory.removed
    BY <1>8, <2>1, <2>2
  <2>4. CASE handler.pc = "auth"
    BY <1>2, <1>6, <1>9, <2>2, <2>3, <2>4 DEF CommitMessage
  <2>5. CASE handler.pc # "auth"
    BY <1>1, <1>3, <1>9, <2>3, <2>5 DEF CommitMessage
  <2>6. QED
    BY <2>4, <2>5
<1>10. ASSUME NEW c \in Click, CommitClick(c)
       PROVE  BindingsAgree'
  <2>1. saving.stored /\ Head(queue) = c /\ memory' = saving.next /\ c # "message"
    BY <1>10, HostAuthorityAssumption DEF CommitClick
  <2>2. saving.event.type = clicks[c].op /\ saving.event.who = clicks[c].g
    BY <1>8, <2>1 DEF IInv, SavingOK
  <2>3. CASE clicks[c].op = "removed"
    <3>1. PICK g : g = clicks[c].g
      OBVIOUS
    <3>2. g \in Guest /\ memory'.removed = memory.removed \cup {g}
      BY <1>8, <2>1, <2>2, <2>3, <3>1, RemovalsAreOfMembers DEF IInv
    <3>3. bound' = bound \ {<<g, transport[g]>>} /\ transport' = [transport EXCEPT ![g] = 0]
      BY <1>10, <2>3, <3>1 DEF CommitClick
    <3>4. 1 \in 1 .. MaxPages
      BY HostAuthorityAssumption
    <3>5. bound' = Bindings(transport')
      BY <1>1, <3>2, <3>3, <3>4, Rebound
    <3>6. \A h \in memory'.removed : transport'[h] = 0
      BY <1>1, <1>2, <3>2, <3>3 DEF Transports
    <3>7. QED
      BY <1>3, <3>5, <3>6
  <2>4. CASE clicks[c].op # "removed"
    <3>1. memory'.removed = memory.removed
      BY <1>8, <2>1, <2>2, <2>4
    <3>2. QED
      BY <1>1, <1>3, <1>10, <2>4, <3>1 DEF CommitClick
  <2>5. QED
    BY <2>3, <2>4
<1>11. ASSUME NEW g \in Guest, HostNoticesLeave(g)
       PROVE  BindingsAgree'
  <2>1. /\ bound' = bound \ {<<g, joined[g]>>} /\ joined[g] # 0 /\ UNCHANGED memory
        /\ transport' = [transport EXCEPT ![g] = IF @ = joined[g] THEN 0 ELSE @]
    BY <1>11 DEF HostNoticesLeave
  <2>2. CASE transport[g] = joined[g]
    <3>1. 1 \in 1 .. MaxPages
      BY HostAuthorityAssumption
    <3>2. transport' = [transport EXCEPT ![g] = 0]
      BY <2>1, <2>2
    <3>3. bound' = Bindings(transport')
      BY <1>1, <2>1, <2>2, <3>1, <3>2, Rebound
    <3>4. \A h \in memory'.removed : transport'[h] = 0
      BY <1>1, <1>2, <2>1, <3>2 DEF Transports
    <3>5. QED
      BY <1>3, <3>3, <3>4
  <2>3. CASE transport[g] # joined[g]
    <3>1. transport' = transport
      BY <1>1, <2>1, <2>3 DEF Transports
    <3>2. <<g, joined[g]>> \notin bound
      BY <1>1, <2>3, InBindings
    <3>3. QED
      BY <1>1, <1>3, <2>1, <3>1, <3>2
  <2>4. QED
    BY <2>2, <2>3
<1>12. CASE HostRestores
  <2>1. bound = {} /\ UNCHANGED <<bound, transport>>
    BY <1>12 DEF HostRestores, IInv, ClosedOK
  <2>2. \A g \in Guest : transport[g] = 0
    BY <1>1, <2>1, InBindings
  <2>3. memory'.removed \subseteq Guest
    BY <1>12, HostStates DEF HostRestores, IInv, States
  <2>4. QED
    BY <1>1, <1>3, <2>1, <2>2, <2>3
<1>13. CASE HostCrashes
  <2>1. bound' = {} /\ transport' = [g \in Guest |-> 0] /\ memory' = InitialState
    BY <1>13 DEF HostCrashes
  <2>2. \A x : x \notin Bindings(transport')
    BY <2>1, InBindings
  <2>3. QED
    BY <1>3, <2>1, <2>2 DEF InitialState
<1>14. CASE UNCHANGED vars
  BY <1>4, <1>14 DEF vars, hostVars
<1>15. ASSUME NEW c \in Click, ClickRuns(c)
       PROVE  BindingsAgree'
  BY <1>4, <1>15 DEF ClickRuns
<1>16. ASSUME NEW g \in Guest,
              \/ HostTakes(g) \/ GuestSubmits(g) \/ GuestProbes(g) \/ GuestReloads(g)
              \/ Connect(g) \/ Disconnect(g) \/ GuestReceives(g)
       PROVE  BindingsAgree'
  BY <1>4, <1>16 DEF HostTakes, GuestSubmits, GuestProbes, GuestReloads, Connect, Disconnect, GuestReceives,
     hostVars
<1>17. QED
  BY <1>4, <1>7, <1>9, <1>10, <1>11, <1>12, <1>13, <1>14, <1>15, <1>16, ConnectionFrame


-------------------------------------------------------------------------------
(***************************************************************************)
(* The guests: what they are told and what they keep is of the log.         *)
(***************************************************************************)
LEMMA SyncsGrow ==
    ASSUME NEW E, NEW F, E \subseteq F
    PROVE  Seq(E) \subseteq Seq(F) /\ Replicas(E) \subseteq Replicas(F) /\ Syncs(E) \subseteq Syncs(F)
<1>1. Seq(E) \subseteq Seq(F)
  BY SeqMonotonic
<1>2. Replicas(E) \subseteq Replicas(F)
  BY <1>1 DEF Replicas
<1>3. Syncs(E) \subseteq Syncs(F)
  BY <1>1, <1>2 DEF Syncs
<1>4. QED
  BY <1>1, <1>2, <1>3

\* What was well told stays so as the log grows.
LEMMA MessagesGrow ==
    ASSUME IInv, [Next]_vars
    PROVE  /\ GoodSyncs \subseteq GoodSyncs'
           /\ Messages \subseteq Messages' /\ Seq(Messages) \subseteq Seq(Messages')
           /\ Credential \subseteq Credential'
<1>1. /\ Range(history) \subseteq Range(history') /\ Len(history) <= Len(history')
      /\ Len(history) \in Nat /\ Len(history') \in Nat
  BY HistoryGrows
<1>2. /\ Seq(Range(history)) \subseteq Seq(Range(history'))
      /\ Syncs(Range(history)) \subseteq Syncs(Range(history'))
  BY <1>1, SyncsGrow
<1>3. \A s \in Syncs(Range(history)) : s.seq \in Nat
  BY DEF Syncs
<1>4. GoodSyncs \subseteq GoodSyncs'
  BY <1>1, <1>2, <1>3 DEF GoodSyncs
<1>5. Messages \subseteq Messages'
  BY <1>1, <1>4 DEF Messages
<1>6. Seq(Messages) \subseteq Seq(Messages')
  <2>1. PICK M, N : M = Messages /\ N = Messages'
    OBVIOUS
  <2>2. Seq(M) \subseteq Seq(N)
    BY <1>5, <2>1, SeqMonotonic
  <2>3. QED
    BY <2>1, <2>2
<1>7. Credential \subseteq Credential'
  BY <1>2 DEF Credential
<1>8. QED
  BY <1>4, <1>5, <1>6, <1>7

LEMMA MessageTypes ==
    /\ Denied \in Messages
    /\ Rejected(NoSync) \in Messages
    /\ \A s \in GoodSyncs : Accepted(s) \in Messages /\ Rejected(s) \in Messages
    /\ \A e \in Range(history) : Canonical(e) \in Messages
BY DEF Denied, Rejected, Accepted, Canonical, Messages

\* Sending a good message, to one or to many.
LEMMA SendToType ==
    ASSUME NEW M, toGuest \in [Guest -> Seq(M)], NEW g, NEW k, NEW m \in M, SendTo(g, k, m)
    PROVE  toGuest' \in [Guest -> Seq(M)]
<1>1. g \in Guest => Append(toGuest[g], m) \in Seq(M)
  OBVIOUS
<1>2. toGuest' = toGuest \/ toGuest' = [toGuest EXCEPT ![g] = Append(toGuest[g], m)]
  BY DEF SendTo
<1>3. QED
  BY <1>1, <1>2

LEMMA BroadcastType ==
    ASSUME NEW M, toGuest \in [Guest -> Seq(M)], NEW e, Canonical(e) \in M, NEW S, Broadcast(e, S)
    PROVE  toGuest' \in [Guest -> Seq(M)]
<1>1. PICK m \in M : m = Canonical(e)
  OBVIOUS
<1>2. \A g \in Guest : Append(toGuest[g], m) \in Seq(M) /\ toGuest[g] \in Seq(M)
  OBVIOUS
<1>3. QED
  BY <1>1, <1>2 DEF Broadcast

\* What a guest does with a synchronisation: it takes it in whole, or asks for another.
LEMMA TakeInType ==
    ASSUME IInv, NEW g \in Guest, NEW sync \in GoodSyncs, NEW v \in {"pending", "accepted", "denied"},
           TakeIn(g, sync, v)
    PROVE  /\ cred' \in [Guest -> Credential]
           /\ \A h \in Guest : cred'[h].replica.seq <= Len(history)
           /\ auth' \in [Guest -> {"pending", "accepted", "denied"}]
<1>1. /\ GuestsOK /\ Range(history) \subseteq Entry
      /\ cred \in [Guest -> Credential]
      /\ auth \in [Guest -> {"pending", "accepted", "denied"}]
      /\ \A h \in Guest : cred[h].replica.seq <= Len(history)
  BY RangeHistory DEF IInv, GuestsOK
<1>2. CASE AskForSnapshot(g)
  BY <1>1, <1>2 DEF AskForSnapshot
<1>3. CASE ~AskForSnapshot(g)
  <2>1. PICK next : next = ApplySync(cred[g].replica, sync)
    OBVIOUS
  <2>2. /\ next # Gone
        /\ cred' = [cred EXCEPT ![g] = [known |-> TRUE, next |-> sync.accepted + 1,
                                        cached |-> TRUE, replica |-> next]]
        /\ auth' = [auth EXCEPT ![g] = v]
    BY <1>3, <2>1 DEF TakeIn
  <2>3. sync \in Syncs(Range(history)) /\ sync.seq <= Len(history) /\ sync.accepted \in Nat
        /\ (sync.mode = "snapshot" => sync.snapshot.seq = sync.seq)
    BY DEF GoodSyncs, Syncs
  <2>4. cred[g].replica \in Replicas(Range(history))
    BY <1>1, CredTypes
  <2>5. next \in Replicas(Range(history)) /\ next.seq = sync.seq
    BY <1>1, <2>1, <2>2, <2>3, <2>4, ApplySyncType
  <2>6. PICK c : c = [known |-> TRUE, next |-> sync.accepted + 1, cached |-> TRUE, replica |-> next]
    OBVIOUS
  <2>7. c \in Credential /\ c.replica.seq <= Len(history)
    BY <2>3, <2>5, <2>6 DEF Credential, Replicas
  <2>8. QED
    BY <1>1, <2>2, <2>6, <2>7
<1>4. QED
  BY <1>2, <1>3

\* An event that arrives by itself is taken in as a synchronisation that carries nothing else.
LEMMA SyntheticGood ==
    ASSUME LogOK, GuestsOK, NEW g \in Guest, NEW e \in Range(history)
    PROVE  SyntheticSync(g, e) \in GoodSyncs
<1>1. PICK i \in 1 .. Len(history) : e = history[i]
  BY InRange DEF LogOK
<1>2. e.seq \in Nat /\ e.seq <= Len(history)
  BY <1>1 DEF LogOK
<1>3. cred[g].next \in Nat /\ (IF cred[g].next > 0 THEN cred[g].next - 1 ELSE 0) \in Nat
  BY CredTypes
<1>4. NoSnapshot \in Replicas(Range(history)) /\ <<e>> \in Seq(Range(history))
  <2>1. << >> \in Seq(Range(history)) /\ << >> \in Seq(Guest) /\ <<e>> \in Seq(Range(history))
    OBVIOUS
  <2>2. QED
    BY <2>1 DEF NoSnapshot, Replicas
<1>5. QED
  BY <1>2, <1>3, <1>4 DEF SyntheticSync, GoodSyncs, Syncs

LEMMA GuestsStep == IInv /\ [Next]_vars => GuestsOK'
<1> SUFFICES ASSUME IInv, [Next]_vars
             PROVE  GuestsOK'
  OBVIOUS
<1> DEFINE Verdicts == {"pending", "accepted", "denied"}
<1>1. /\ LogOK /\ QueueOK /\ GuestsOK /\ Range(history) \subseteq Entry
      /\ Range(history) \subseteq Range(history') /\ Len(history) <= Len(history')
      /\ Len(history) \in Nat /\ Len(history') \in Nat
  BY RangeHistory, HistoryGrows DEF IInv
<1>2. PICK M : M = Messages'
  OBVIOUS
<1>3. /\ Messages \subseteq M /\ GoodSyncs \subseteq GoodSyncs' /\ Credential \subseteq Credential'
      /\ toGuest \in [Guest -> Seq(M)]
  BY <1>1, <1>2, MessagesGrow DEF GuestsOK
<1>4. /\ cred \in [Guest -> Credential'] /\ cred \in [Guest -> Credential]
      /\ auth \in [Guest -> Verdicts]
      /\ lastIntent \in [Guest -> Intents] /\ typed \in [Guest -> Text \cup {0}]
      /\ \A g \in Guest : cred[g].replica.seq \in Nat /\ cred[g].replica.seq <= Len(history)
  BY <1>1, <1>3, CredTypes DEF GuestsOK
<1>5. \A g \in Guest : cred[g].replica.seq <= Len(history')
  BY <1>1, <1>4
<1>6. ASSUME toGuest' \in [Guest -> Seq(M)], UNCHANGED <<cred, auth, lastIntent, typed>>
      PROVE  GuestsOK'
  BY <1>2, <1>4, <1>5, <1>6 DEF GuestsOK
<1>7. ASSUME NEW g \in Guest, HostTakes(g)
      PROVE  GuestsOK'
  <2>1. UNCHANGED <<cred, auth, lastIntent, typed>>
    BY <1>7 DEF HostTakes, guestVars
  <2>2. Denied \in M /\ Rejected(NoSync) \in M
    BY <1>3, MessageTypes
  <2>3. \/ UNCHANGED toGuest
        \/ \E k : SendTo(g, k, Denied) \/ SendTo(g, k, Rejected(NoSync))
    BY <1>7 DEF HostTakes
  <2>4. QED
    BY <1>3, <1>6, <2>1, <2>2, <2>3, SendToType
<1>8. CASE HostAuthenticates
  <2>1. UNCHANGED <<cred, auth, lastIntent, typed>>
    BY <1>8 DEF HostAuthenticates, guestVars
  <2>2. Denied \in M
    BY <1>3, MessageTypes
  <2>3. UNCHANGED toGuest \/ SendTo(handler.g, handler.k, Denied)
    BY <1>8 DEF HostAuthenticates
  <2>4. QED
    BY <1>3, <1>6, <2>1, <2>2, <2>3, SendToType
<1>9. CASE HostSyncs
  <2>1. UNCHANGED <<cred, auth, lastIntent, typed>>
    BY <1>9 DEF HostSyncs, guestVars
  <2>2. handler.g \in Guest /\ handler.cursor \in Nat
    BY <1>1, <1>9 DEF HostSyncs, QueueOK, HandlerOK, Handlers
  <2>3. PICK sync : sync = SyncResponse(memory, handler.g, handler.cursor)
    OBVIOUS
  <2>4. memory \in States(Range(history)) /\ memory.seq <= Len(history)
    BY HostStates DEF IInv
  <2>5. sync \in GoodSyncs
    BY <1>1, <2>2, <2>3, <2>4, SyncType DEF GoodSyncs
  <2>6. Accepted(sync) \in M /\ Rejected(sync) \in M /\ Rejected(NoSync) \in M
    BY <1>3, <2>5, MessageTypes
  <2>7. \/ UNCHANGED toGuest
        \/ SendTo(handler.g, handler.k, Accepted(sync))
        \/ SendTo(handler.g, handler.k, Rejected(sync))
        \/ SendTo(handler.g, handler.k, Rejected(NoSync))
    BY <1>9, <2>3 DEF HostSyncs
  <2>8. QED
    BY <1>3, <1>6, <2>1, <2>6, <2>7, SendToType
<1>10. CASE HostAnnounces
  <2>1. UNCHANGED <<cred, auth, lastIntent, typed>> /\ handler.pc = "announce"
        /\ Broadcast(handler.event, bound \ {<<handler.g, handler.k>>})
    BY <1>10 DEF HostAnnounces, guestVars
  <2>2. handler.event \in Range(history)
    BY <1>1, <2>1 DEF QueueOK, HandlerOK, Handlers
  <2>3. Canonical(handler.event) \in M
    BY <1>3, <2>2, MessageTypes
  <2>4. QED
    BY <1>3, <1>6, <2>1, <2>3, BroadcastType
<1>11. CASE CommitMessage \/ \E c \in Click : CommitClick(c)
  <2>1. UNCHANGED <<cred, auth, lastIntent, typed>> /\ saving.stored
    BY <1>11 DEF CommitMessage, CommitClick, guestVars
  <2>2. saving.event \in Range(history)
    <3>1. history # << >> /\ history \in Seq(Entry) /\ saving.event = history[Len(history)]
      BY <2>1 DEF IInv, MemoryOK, LogOK
    <3>2. Len(history) \in 1 .. Len(history)
      BY <3>1
    <3>3. QED
      BY <3>1, <3>2, InRange
  <2>3. Canonical(saving.event) \in M
    BY <1>3, <2>2, MessageTypes
  <2>4. UNCHANGED toGuest \/ \E S : Broadcast(saving.event, S)
    BY <1>11 DEF CommitMessage, CommitClick
  <2>5. QED
    BY <1>3, <1>6, <2>1, <2>3, <2>4, BroadcastType
<1>12. CASE Stored
  BY <1>3, <1>6, <1>12 DEF Stored, guestVars, netVars
<1>13. CASE HostCrashes
  <2>1. /\ toGuest' = [g \in Guest |-> << >>] /\ auth' = [g \in Guest |-> "pending"]
        /\ UNCHANGED <<cred, lastIntent, typed>>
    BY <1>13 DEF HostCrashes
  <2>2. << >> \in Seq(M)
    OBVIOUS
  <2>3. QED
    BY <1>2, <1>4, <1>5, <2>1, <2>2 DEF GuestsOK
<1>14. ASSUME NEW g \in Guest, GuestSubmits(g)
       PROVE  GuestsOK'
  <2>1. PICK i : i = [client |-> cred[g].next, text |-> typed[g] + 1]
    OBVIOUS
  <2>2. /\ typed[g] + 1 \in Text /\ typed' = [typed EXCEPT ![g] = @ + 1]
        /\ cred' = [cred EXCEPT ![g].next = @ + 1] /\ lastIntent' = [lastIntent EXCEPT ![g] = i]
        /\ UNCHANGED <<auth, toGuest, history>>
    BY <1>14, <2>1 DEF GuestSubmits, auxVars
  <2>3. i \in Intents
    BY <1>1, <2>1, <2>2, CredTypes, HostAuthorityAssumption DEF Intents
  <2>4. PICK c : c = [cred[g] EXCEPT !.next = @ + 1]
    OBVIOUS
  <2>5. c \in Credential' /\ c.replica = cred[g].replica
    BY <1>1, <1>3, <2>4, CredUpdates
  <2>6. cred' = [cred EXCEPT ![g] = c]
    BY <2>2, <2>4
  <2>7. cred' \in [Guest -> Credential'] /\ \A h \in Guest : cred'[h].replica.seq <= Len(history')
    BY <1>4, <1>5, <2>5, <2>6
  <2>8. typed' \in [Guest -> Text \cup {0}] /\ lastIntent' \in [Guest -> Intents]
    BY <1>4, <2>2, <2>3
  <2>9. QED
    BY <1>2, <1>3, <1>4, <2>2, <2>7, <2>8 DEF GuestsOK
<1>15. ASSUME NEW g \in Guest, GuestProbes(g)
       PROVE  GuestsOK'
  <2>1. UNCHANGED <<auth, toGuest, history, lastIntent, typed>>
        /\ (UNCHANGED cred \/ cred' = [cred EXCEPT ![g].replica = EmptyReplica])
    BY <1>15 DEF GuestProbes, Trouble
  <2>2. EmptyReplica \in Replicas(Range(history)) /\ EmptyReplica.seq = 0
    <3>1. << >> \in Seq(Range(history)) /\ << >> \in Seq(Guest)
      OBVIOUS
    <3>2. QED
      BY <3>1 DEF EmptyReplica, NoSnapshot, Replicas
  <2>3. PICK c : c = [cred[g] EXCEPT !.replica = EmptyReplica]
    OBVIOUS
  <2>4. c \in Credential /\ c.replica.seq = 0
    BY <1>1, <2>2, <2>3, CredUpdates
  <2>5. cred' = cred \/ cred' = [cred EXCEPT ![g] = c]
    BY <2>1, <2>3
  <2>6. cred' \in [Guest -> Credential] /\ \A h \in Guest : cred'[h].replica.seq <= Len(history)
    <3>1. CASE cred' = cred
      BY <1>4, <3>1
    <3>2. CASE cred' = [cred EXCEPT ![g] = c]
      BY <1>1, <1>4, <2>4, <3>2
    <3>3. QED
      BY <2>5, <3>1, <3>2
  <2>7. cred' \in [Guest -> Credential'] /\ \A h \in Guest : cred'[h].replica.seq <= Len(history')
    BY <1>3, <2>1, <2>6
  <2>8. QED
    BY <1>2, <1>3, <1>4, <2>1, <2>7 DEF GuestsOK
<1>16. ASSUME NEW g \in Guest, GuestReloads(g) \/ Disconnect(g)
       PROVE  GuestsOK'
  <2>1. /\ toGuest' = [toGuest EXCEPT ![g] = << >>] /\ auth' = [auth EXCEPT ![g] = "pending"]
        /\ (UNCHANGED lastIntent \/ lastIntent' = [lastIntent EXCEPT ![g] = NoIntent])
        /\ UNCHANGED <<cred, typed>>
    BY <1>16 DEF GuestReloads, Disconnect, Unlink
  <2>2. << >> \in Seq(M) /\ NoIntent \in Intents
    BY RequestTypes
  <2>3. toGuest' \in [Guest -> Seq(M)] /\ auth' \in [Guest -> Verdicts] /\ lastIntent' \in [Guest -> Intents]
    BY <1>3, <1>4, <2>1, <2>2
  <2>4. QED
    BY <1>2, <1>4, <1>5, <2>1, <2>3 DEF GuestsOK
<1>17. ASSUME NEW g \in Guest, Connect(g)
       PROVE  GuestsOK'
  <2>1. UNCHANGED <<toGuest, cred, lastIntent, typed>> /\ auth' = [auth EXCEPT ![g] = "pending"]
    BY <1>17 DEF Connect
  <2>2. QED
    BY <1>2, <1>3, <1>4, <1>5, <2>1 DEF GuestsOK
<1>18. ASSUME NEW g \in Guest, GuestReceives(g)
       PROVE  GuestsOK'
  <2>1. PICK m : m = Head(toGuest[g])
    OBVIOUS
  <2>2. toGuest[g] # << >> /\ toGuest' = [toGuest EXCEPT ![g] = Tail(@)] /\ UNCHANGED <<history, lastIntent, typed>>
    BY <1>18 DEF GuestReceives, auxVars
  <2>3. m \in Messages /\ toGuest' \in [Guest -> Seq(M)]
    <3>1. toGuest[g] \in Seq(Messages) /\ toGuest[g] \in Seq(M)
      BY <1>1, <1>3 DEF GuestsOK
    <3>2. Tail(toGuest[g]) \in Seq(M) /\ Head(toGuest[g]) \in Messages
      BY <2>2, <3>1
    <3>3. QED
      BY <1>3, <2>1, <2>2, <3>2
  <2>4. \/ m.type = "accepted" /\ m.sync \in GoodSyncs
        \/ m.type = "rejected" /\ m.sync \in GoodSyncs \cup {NoSync}
        \/ m.type = "denied"
        \/ m.type = "event" /\ m.event \in Range(history)
    BY <2>3 DEF Messages
  <2>5. /\ cred' \in [Guest -> Credential]
        /\ \A h \in Guest : cred'[h].replica.seq <= Len(history)
        /\ auth' \in [Guest -> Verdicts]
    <3>1. CASE cred' = cred /\ auth' \in [Guest -> Verdicts]
      BY <1>4, <3>1
    <3>2. ASSUME NEW s \in GoodSyncs, NEW v \in Verdicts, TakeIn(g, s, v)
          PROVE  /\ cred' \in [Guest -> Credential]
                 /\ \A h \in Guest : cred'[h].replica.seq <= Len(history)
                 /\ auth' \in [Guest -> Verdicts]
      BY <3>2, TakeInType
    <3>3. auth[g] \in Verdicts /\ "accepted" \in Verdicts
      BY <1>4
    <3>4. CASE m.type = "accepted"
      <4>1. TakeIn(g, m.sync, "accepted") /\ m.sync \in GoodSyncs
        BY <1>18, <2>1, <2>4, <3>4 DEF GuestReceives
      <4>2. QED
        BY <3>2, <3>3, <4>1
    <3>5. CASE m.type = "denied"
      <4>1. auth' = [auth EXCEPT ![g] = "denied"] /\ cred' = cred
        BY <1>18, <2>1, <3>5 DEF GuestReceives
      <4>2. auth' \in [Guest -> Verdicts]
        BY <1>4, <4>1
      <4>3. QED
        BY <3>1, <4>1, <4>2
    <3>6. CASE m.type = "rejected"
      <4>1. UNCHANGED <<cred, auth>> \/ (m.sync # NoSync /\ TakeIn(g, m.sync, auth[g]))
        BY <1>18, <2>1, <3>6 DEF GuestReceives
      <4>2. m.sync # NoSync => m.sync \in GoodSyncs
        BY <2>4, <3>6
      <4>3. QED
        BY <1>4, <3>1, <3>2, <3>3, <4>1, <4>2
    <3>7. CASE m.type = "event"
      <4>1. UNCHANGED <<cred, auth>> \/ TakeIn(g, SyntheticSync(g, m.event), auth[g])
        BY <1>18, <2>1, <3>7 DEF GuestReceives, AskForSnapshot
      <4>2. PICK e \in Range(history) : e = m.event
        BY <2>4, <3>7
      <4>3. SyntheticSync(g, e) \in GoodSyncs
        BY <1>1, SyntheticGood
      <4>4. QED
        BY <1>4, <3>1, <3>2, <3>3, <4>1, <4>2, <4>3
    <3>8. QED
      BY <2>4, <3>4, <3>5, <3>6, <3>7
  <2>6. cred' \in [Guest -> Credential'] /\ \A h \in Guest : cred'[h].replica.seq <= Len(history')
    BY <1>3, <2>2, <2>5
  <2>7. QED
    BY <1>2, <1>4, <2>2, <2>3, <2>5, <2>6 DEF GuestsOK
<1>19. CASE UNCHANGED <<history, toGuest, cred, auth, lastIntent, typed>>
  BY <1>3, <1>6, <1>19
<1>20. QED
  BY <1>7, <1>8, <1>9, <1>10, <1>11, <1>12, <1>13, <1>14, <1>15, <1>16, <1>17, <1>18, <1>19, GuestFrame
     DEF vars, guestVars, netVars, auxVars

LEMMA InitInvariant == Init => IInv
<1> SUFFICES ASSUME Init
             PROVE  IInv
  OBVIOUS
<1> USE DEF Init
<1>1. LogOK
  <2>1. history = << >> /\ Len(history) = 0 /\ durable = StateOf(history)
    BY StateOfEmpty
  <2>2. durable.seq = 0 /\ durable.events = << >> /\ durable.members = << >> /\ durable.removed = {}
    BY DEF InitialState
  <2>3. Restorable(durable) /\ Range(durable.members) = {} /\ history \in Seq(Entry)
    BY <2>1, <2>2, AuthorityAssumption DEF Restorable, Range
  <2>4. QED
    BY <2>1, <2>2, <2>3 DEF LogOK, Members
<1>2. MemoryOK
  BY NoSaveFacts DEF MemoryOK, InitialState
<1>3. LineOK /\ \A x : x \notin Range(queue)
  BY DEF LineOK, Range
<1>4. HandlerOK
  <2>1. Idle \in Handlers(Range(history))
    BY IdleOK, HandlersGrow
  <2>2. QED
    BY <1>3, <2>1, IdleOK DEF HandlerOK
<1>5. ClicksOK
  <2>1. Unclicked \in ClickRecords /\ Unclicked.pc = "new"
    BY HostAuthorityAssumption DEF Unclicked, ClickRecords
  <2>2. QED
    BY <1>3, <2>1 DEF ClicksOK
<1>6. SavingOK
  BY DEF SavingOK
<1>7. ClosedOK
  BY DEF ClosedOK
<1>8. ConnectionsOK
  <2>1. Wired
    BY HostAuthorityAssumption DEF Wired, Transports, Links, Inboxes
  <2>2. BindingsAgree
    BY DEF BindingsAgree, InitialState
  <2>3. QED
    BY <2>1, <2>2 DEF ConnectionsOK
<1>9. GuestsOK
  <2>1. NewCredential \in Credential /\ NewCredential.replica.seq = 0
    <3>1. << >> \in Seq(Range(history)) /\ << >> \in Seq(Guest)
      OBVIOUS
    <3>2. QED
      BY <3>1 DEF NewCredential, Credential, EmptyReplica, NoSnapshot
  <2>2. << >> \in Seq(Messages) /\ Len(history) = 0
    OBVIOUS
  <2>3. QED
    BY <2>1, <2>2, RequestTypes DEF GuestsOK
<1>10. QED
  BY <1>1, <1>2, <1>3, <1>4, <1>5, <1>6, <1>7, <1>8, <1>9 DEF IInv, QueueOK

-------------------------------------------------------------------------------
(***************************************************************************)
(* The theorems.                                                           *)
(***************************************************************************)

\* Every reachable state satisfies the inductive invariant: log, store and memory agree, whoever is
\* in the mutation queue is there once, and all that is under way is of the log.
THEOREM HostInvariance == Spec => []IInv
<1>1. IInv /\ [Next]_vars => IInv'
  BY LogStep, MemoryStep, QueueStep, SavingStep, ClosedStep, WiredStep, BindingsStep, GuestsStep
     DEF IInv, ConnectionsOK
<1>2. QED
  BY <1>1, InitInvariant, PTL DEF Spec

\* A queue in which nobody waits twice is as long as its elements are many.
LEMMA QueueLength == LineOK => Len(queue) = Cardinality(Range(queue))
<1> SUFFICES ASSUME LineOK
             PROVE  Len(queue) = Cardinality(Range(queue))
  OBVIOUS
<1>1. queue \in Seq(Click \cup {"message"}) /\ Len(queue) \in Nat /\ DOMAIN queue = 1 .. Len(queue)
      /\ \A i, j \in 1 .. Len(queue) : queue[i] = queue[j] => i = j
  BY DEF LineOK
<1>2. queue \in Bijection(1 .. Len(queue), Range(queue))
  <2>1. queue \in [1 .. Len(queue) -> Range(queue)]
    BY <1>1 DEF Range
  <2>2. \A y \in Range(queue) : \E i \in 1 .. Len(queue) : queue[i] = y
    BY <1>1 DEF Range
  <2>3. queue \in Injection(1 .. Len(queue), Range(queue))
    BY <1>1, <2>1 DEF Injection, IsInjective
  <2>4. queue \in Surjection(1 .. Len(queue), Range(queue))
    BY <2>1, <2>2 DEF Surjection
  <2>5. QED
    BY <2>3, <2>4 DEF Bijection
<1>3. IsFiniteSet(1 .. Len(queue)) /\ Cardinality(1 .. Len(queue)) = Len(queue)
  BY <1>1, FS_Interval
<1>4. QED
  BY <1>2, <1>3, FS_Bijection DEF ExistsBijection

\* Every variable has its type, the queue holds nobody twice, and nothing is mutated while the
\* host's page is closed.
THEOREM HostTypes == Spec => []TypeOK
<1>1. IInv => TypeOK
  <2> SUFFICES ASSUME IInv
               PROVE  TypeOK
    OBVIOUS
  <2>1. LineOK /\ HandlerOK /\ ClicksOK /\ SavingOK /\ ClosedOK /\ Wired /\ GuestsOK /\ BindingsAgree
    BY DEF IInv, QueueOK, ConnectionsOK
  <2>2. Range(queue) \subseteq Click \cup {"message"} /\ Len(queue) = Cardinality(Range(queue))
    BY <2>1, RangeOfSeq, QueueLength DEF LineOK
  <2>3. saving # NoSave => queue # << >>
    BY <2>1 DEF SavingOK
  <2>4. /\ handler.pc \in {"idle", "derive", "auth", "sync", "announce", "intent"}
        /\ handler.pc \in {"auth", "intent"} <=> "message" \in Range(queue)
    BY <2>1 DEF HandlerOK, Handlers
  <2>5. bound \subseteq Guest \X (1 .. MaxPages)
    <3>1. ASSUME NEW x \in bound
          PROVE  x \in Guest \X (1 .. MaxPages)
      <4>1. PICK h \in Guest : transport[h] # 0 /\ x = <<h, transport[h]>>
        BY <2>1 DEF BindingsAgree
      <4>2. transport[h] \in 1 .. MaxPages
        BY <2>1, <4>1 DEF Wired, Transports
      <4>3. QED
        BY <4>1, <4>2
    <3>2. QED
      BY <3>1
  <2>6. QED
    BY <2>1, <2>2, <2>3, <2>4, <2>5 DEF TypeOK, ClicksOK, ClosedOK, Wired, Transports, Links, GuestsOK
<1>2. QED
  BY <1>1, HostInvariance, PTL

\* Durable before visible: nothing the host holds, has sent or the guests keep goes beyond what is
\* saved, and what is saved can be restored.
THEOREM SavedBeforeSeen == Spec => []NothingSeenBeforeSaved
<1>1. IInv => NothingSeenBeforeSaved
  <2> SUFFICES ASSUME IInv
               PROVE  NothingSeenBeforeSaved
    OBVIOUS
  <2>1. LogOK /\ MemoryOK /\ SavingOK /\ ClosedOK /\ GuestsOK /\ Len(history) \in Nat
    BY HostStates DEF IInv
  <2>2. up => memory.seq \in {Len(history) - 1, Len(history)} /\ memory = StateOf(Prefix(memory.seq))
    BY <2>1, HostStates
  <2>3. ASSUME NEW g \in Guest, NEW m \in Range(toGuest[g])
        PROVE  /\ m.event # NoEvent => m.event.seq <= Len(history) /\ history[m.event.seq] = m.event
               /\ m.sync # NoSync => m.sync.seq <= Len(history)
    <3>1. m \in Messages
      <4>1. toGuest[g] \in Seq(Messages)
        BY <2>1 DEF GuestsOK
      <4>2. QED
        BY <4>1, RangeOfSeq
    <3>2. m.event \in Range(history) \cup {NoEvent} /\ m.sync \in GoodSyncs \cup {NoSync}
      BY <3>1 DEF Messages
    <3>3. ASSUME m.event # NoEvent
          PROVE  m.event.seq <= Len(history) /\ history[m.event.seq] = m.event
      <4>1. PICK i \in 1 .. Len(history) : m.event = history[i]
        BY <2>1, <3>2, <3>3, InRange DEF LogOK
      <4>2. m.event.seq = i
        BY <2>1, <4>1 DEF LogOK
      <4>3. QED
        BY <2>1, <4>1, <4>2
    <3>4. m.sync # NoSync => m.sync.seq <= Len(history)
      BY <3>2 DEF GoodSyncs
    <3>5. QED
      BY <3>3, <3>4
  <2>4. QED
    BY <2>1, <2>2, <2>3 DEF NothingSeenBeforeSaved, LogOK, GuestsOK
<1>2. QED
  BY <1>1, HostInvariance, PTL

\* A member speaks through one page at most, the session's two maps agree on which, and whoever is
\* removed speaks through none.
THEOREM OneVoicePerMember == Spec => []BindingsAgree
<1>1. IInv => BindingsAgree
  BY DEF IInv, ConnectionsOK
<1>2. QED
  BY <1>1, HostInvariance, PTL

===============================================================================
