------------------------------- MODULE PartyLog -------------------------------
(***************************************************************************)
(* What the host-authority party promises: one log that only grows, every   *)
(* event of which is due when it is appended, and guests that each know a    *)
(* prefix of it. No pages, no store, no messages: whatever crashes or is     *)
(* lost, an event that is in the log stays there, and a guest never learns   *)
(* of one that is not.                                                      *)
(***************************************************************************)
EXTENDS Integers, Sequences, FiniteSets

CONSTANTS Guest, MaxGuests

VARIABLES
    log,        \* the events committed
    view        \* how many of them each guest knows

vars == <<log, view>>

Init == log = << >> /\ view = [g \in Guest |-> 0]

Events(type, g) == {i \in 1 .. Len(log) : log[i].type = type /\ log[i].who = g}

Admitted(g) == Events("admitted", g) # {}
Removed(g) == Events("removed", g) # {}
Present == {g \in Guest : Admitted(g) /\ ~Removed(g)}

Locked ==
    \E i \in 1 .. Len(log) :
        /\ log[i].type = "locked"
        /\ \A j \in i .. Len(log) : log[j].type # "unlocked"

(***************************************************************************)
(* When an event is due. A guest is admitted once, never behind the lock    *)
(* and never beyond the limit; a chat message of a guest carries the number  *)
(* after that of its previous one, and a text never committed before.        *)
(***************************************************************************)
Due(e) ==
    /\ e.seq = Len(log) + 1
    /\ CASE e.type = "admitted" -> ~Admitted(e.who) /\ ~Locked /\ Cardinality(Present) < MaxGuests
         [] e.type = "removed"  -> e.who \in Present
         [] e.type = "locked"   -> ~Locked
         [] e.type = "unlocked" -> Locked
         [] e.type = "chat" /\ e.who \in Guest ->
                /\ e.who \in Present
                /\ e.client = Cardinality(Events("chat", e.who)) + 1
                /\ \A i \in Events("chat", e.who) : log[i].text < e.text
         [] OTHER -> e.type = "chat"

Commit ==
    /\ Len(log') = Len(log) + 1
    /\ log' = Append(log, log'[Len(log) + 1]) /\ Due(log'[Len(log) + 1])
    /\ UNCHANGED view

\* A guest learns of more, or its user makes it start over.
Learn(g) ==
    /\ view' \in {[view EXCEPT ![g] = n] : n \in {0} \cup view[g] .. Len(log)}
    /\ UNCHANGED log

Next == Commit \/ \E g \in Guest : Learn(g)

Spec == Init /\ [][Next]_vars
===============================================================================
