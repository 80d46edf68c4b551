------------------------------ MODULE RecentGames ------------------------------
(***************************************************************************)
(* The list of games played last (src/games/discovery): every page of a game *)
(* reads it from localStorage, puts its game in front and writes it back.    *)
(* The pages of one tab follow each other; those of two tabs may meet        *)
(* between the reading and the writing, as the browser keeps no lock.       *)
(***************************************************************************)
EXTENDS Naturals, Sequences, Functions, Filter

CONSTANTS Game, Tab, MaxRecent      \* MAX_RECENT_GAMES is 4

VARIABLES recent,   \* the list stored
          held      \* what a tab has read and not yet written back, with its game

vars == <<recent, held>>

Nothing == [reading |-> FALSE]

Init == recent = <<>> /\ held = [t \in Tab |-> Nothing]

\* [...new Set(list)]: the first of every game.
Firsts(list) ==
    LET upTo[n \in 0 .. Len(list)] ==
            IF n = 0 THEN << >>
            ELSE IF list[n] \in Range(upTo[n - 1]) THEN upTo[n - 1] ELSE Append(upTo[n - 1], list[n])
    IN  upTo[Len(list)]

Cut(list) == SubSeq(list, 1, IF Len(list) < MaxRecent THEN Len(list) ELSE MaxRecent)

\* readRecentGameIds drops what is double and what is too much.
Read(list) == Cut(Firsts(list))

InFrontTwice(g, list) == Cut(<<g>> \o list)                         \* mutant

InFront(g, list) == Cut(<<g>> \o Only(list, Game \ {g}))

\* A page of game g is opened in a tab.
ReadRecent(t, g) ==
    /\ held[t] = Nothing
    /\ held' = [held EXCEPT ![t] = [reading |-> TRUE, game |-> g, list |-> Read(recent)]]
    /\ UNCHANGED recent

WriteRecent(t) ==
    /\ held[t] # Nothing
    /\ recent' = InFront(held[t].game, held[t].list)
    /\ held' = [held EXCEPT ![t] = Nothing]

\* The storage refuses; the page goes on without it.
WriteRefused(t) ==
    /\ held[t] # Nothing
    /\ held' = [held EXCEPT ![t] = Nothing]
    /\ UNCHANGED recent

Next ==
    \E t \in Tab : WriteRecent(t) \/ WriteRefused(t) \/ \E g \in Game : ReadRecent(t, g)

-------------------------------------------------------------------------------
\* Two tabs may lose each other's games and bring back older ones, yet the list stays one a page can
\* show as it is: no game twice, none too many (recentGames.ts:19-63).
RecentIsAList == IsInjective(recent) /\ Len(recent) <= MaxRecent
================================================================================
