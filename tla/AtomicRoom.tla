------------------------------ MODULE AtomicRoom ------------------------------
(***************************************************************************)
(* What the room coordinator promises its callers: every call takes effect *)
(* at one instant between its invocation and its answer, on the room as it *)
(* is at that instant, or has no effect at all.  There is no revision to   *)
(* compare, no stale copy and no retry here.                               *)
(*                                                                         *)
(* Three things a caller must still live with are part of the promise: a   *)
(* call may fail without effect ("conflict", "unavailable"), a call may    *)
(* take effect although its answer is "unavailable", and a signal is       *)
(* stored or read some time after the room admitted the call.              *)
(***************************************************************************)
EXTENDS RoomRules

CONSTANTS
  Request,   \* the calls clients make; each is made at most once
  NoCall

VARIABLES
  created,   \* whether createRoom has stored the room
  store,     \* the room, or NoRoom
  signals,   \* the keys under which a signal is stored
  clock,
  call,      \* what each request asks for
  status,    \* "idle", "pending", "admitted" or "done"
  reply      \* the answer to each request

vars == <<created, store, signals, clock, call, status, reply>>

Reply ==
  [status   : {"none", "ok", "no_signal", "conflict", "unavailable"} \cup Refusals,
   revision : Nat,
   seat     : Member \cup {NoMember},
   present  : SUBSET Member]

Bare(s) == [status |-> s, revision |-> 0, seat |-> NoMember, present |-> {}]

Init ==
  /\ created = FALSE
  /\ store = NoRoom
  /\ signals = {}
  /\ clock = 0
  /\ call = [r \in Request |-> NoCall]
  /\ status = [r \in Request |-> "idle"]
  /\ reply = [r \in Request |-> Bare("none")]

Answer(r, a) ==
  /\ status' = [status EXCEPT ![r] = "done"]
  /\ reply' = [reply EXCEPT ![r] = a]

Create ==
  /\ ~created
  /\ created' = TRUE
  /\ store' = NewRoom(clock)
  /\ UNCHANGED <<signals, clock, call, status, reply>>

Invoke(r) ==
  /\ created
  /\ status[r] = "idle"
  /\ \E c \in Call : call' = [call EXCEPT ![r] = c]
  /\ status' = [status EXCEPT ![r] = "pending"]
  /\ UNCHANGED <<created, store, signals, clock, reply>>

Refuse(r) ==
  /\ status[r] = "pending"
  /\ Verdict(call[r], store, clock) # "ok"
  /\ Answer(r, Bare(Verdict(call[r], store, clock)))
  /\ UNCHANGED <<created, store, signals, clock, call>>

\* The call takes effect; its caller learns of it unless the answer is lost.
Commit(r) ==
  /\ status[r] = "pending"
  /\ call[r].op \notin SignalOps
  /\ store # NoRoom
  /\ \E now \in store.lastActivityAt .. clock, m \in Member \cup {NoMember} :
       /\ Verdict(call[r], store, now) = "ok"
       /\ IF call[r].op = "join" THEN m \in Member \ store.joined ELSE m = NoMember
       /\ store' = Effect(call[r], store, now, m)
       /\ \/ Answer(r, [status   |-> "ok",
                        revision |-> store.revision,
                        seat     |-> m,
                        present  |-> Present(store', now)])
          \/ Answer(r, Bare("unavailable"))
  /\ UNCHANGED <<created, signals, clock, call>>

Admit(r) ==
  /\ status[r] = "pending"
  /\ call[r].op \in SignalOps
  /\ Verdict(call[r], store, clock) = "ok"
  /\ status' = [status EXCEPT ![r] = "admitted"]
  /\ UNCHANGED <<created, store, signals, clock, call, reply>>

Publish(r) ==
  /\ status[r] = "admitted"
  /\ call[r].op \in PublishOps
  /\ signals' = signals \cup {KeyOf(call[r])}
  /\ \E s \in {"ok", "unavailable"} : Answer(r, Bare(s))
  /\ UNCHANGED <<created, store, clock, call>>

Read(r) ==
  /\ status[r] = "admitted"
  /\ call[r].op \in ReadOps
  /\ Answer(r, Bare(IF KeyOf(call[r]) \in signals THEN "ok" ELSE "no_signal"))
  /\ UNCHANGED <<created, store, signals, clock, call>>

\* The call ends without effect.
Abandon(r) ==
  /\ status[r] \in {"pending", "admitted"}
  /\ \E s \in {"conflict", "unavailable"} : Answer(r, Bare(s))
  /\ UNCHANGED <<created, store, signals, clock, call>>

Expire ==
  /\ store # NoRoom
  /\ clock - store.lastActivityAt >= RoomTTL
  /\ store' = NoRoom
  /\ UNCHANGED <<created, signals, clock, call, status, reply>>

ExpireSignal ==
  /\ \E k \in signals : signals' = signals \ {k}
  /\ UNCHANGED <<created, store, clock, call, status, reply>>

Tick ==
  /\ clock' = clock + 1
  /\ UNCHANGED <<created, store, signals, call, status, reply>>

Next ==
  \/ Create \/ Expire \/ ExpireSignal \/ Tick
  \/ \E r \in Request :
       \/ Invoke(r) \/ Refuse(r) \/ Commit(r)
       \/ Admit(r) \/ Publish(r) \/ Read(r) \/ Abandon(r)

Spec == Init /\ [][Next]_vars

=============================================================================
