--------------------------- MODULE MonsterColorRush ---------------------------
(***************************************************************************)
(* The game src/games/monster-color-rush: the loop of one animation frame,  *)
(* the start key it consumes and the button of the panel React draws over   *)
(* the canvas. Positions are abstracted: whether the monster is close and   *)
(* which shapes the player touches is chosen in every frame. The score,     *)
(* which decides nothing, is left out.                                      *)
(***************************************************************************)
EXTENDS Integers, FiniteSets

CONSTANTS
    MaxHealth, Required, Hazards, Waves,    \* 10, 6, 14, 12 in the code
    WaveTime, RestTime,                     \* 45 and 7 seconds; here in frames
    MaxPresses                              \* bound: presses of start not yet consumed

VARIABLE rush   \* the runtime of the effect and the panel drawn, or Off

Off == [mounted |-> FALSE]
Mounted == rush # Off

\* found: shapes of the monster's colour collected; bad: wrong ones left; ended: why the run ended;
\* panel: the overlay last set; shown: the one React has drawn.
Ready ==
    [mode |-> "ready", wave |-> 1, timer |-> WaveTime, health |-> MaxHealth,
     found |-> 0, bad |-> 0, cool |-> FALSE, ended |-> "no",
     panel |-> "ready", shown |-> "ready", presses |-> 0]

BegunWave(s) ==
    [s EXCEPT !.mode = "wave", !.timer = WaveTime, !.health = MaxHealth,
              !.found = 0, !.bad = Hazards, !.cool = FALSE, !.ended = "no", !.panel = "none"]

Started(s) == BegunWave([s EXCEPT !.wave = 1])

GameOver(s, reason) == [s EXCEPT !.mode = "game-over", !.ended = reason, !.panel = "game-over"]

FinishedWave(s) ==
    IF s.wave >= Waves THEN [s EXCEPT !.mode = "win", !.panel = "win"]
    ELSE [s EXCEPT !.mode = "rest", !.timer = RestTime, !.panel = "rest"]

-------------------------------------------------------------------------------
(***************************************************************************)
(* One frame: the press first, then update().                              *)
(***************************************************************************)
Consumed(s) ==
    IF s.presses = 0 THEN s
    ELSE LET t == [s EXCEPT !.presses = @ - 1]
         IN  IF s.mode \in {"ready", "game-over", "win"} THEN Started(t) ELSE t

\* The half second without the monster that a wrong shape gives may be over.
Chased(s) ==
    UNION {{[s EXCEPT !.cool = cool]} \cup (IF cool THEN {} ELSE {GameOver([s EXCEPT !.cool = cool], "caught")}) :
              cool \in {s.cool, FALSE}}

\* The shapes of the monster's colour come first in objects, so that a wave may end before
\* a wrong one is looked at; the wrong ones hurt one after the other.
TouchedSome(s, good, bad) ==
    LET t == [s EXCEPT !.found = @ + good]
        wrong == IF bad < t.health THEN bad ELSE t.health
        u == [t EXCEPT !.health = @ - wrong, !.bad = @ - wrong, !.cool = @ \/ wrong > 0]
    IN  IF good > 0 /\ t.found = Required THEN FinishedWave(t)
        ELSE IF u.health <= 0 THEN GameOver(u, "health") ELSE u

Touched(s) ==
    IF s.mode # "wave" THEN {s}
    ELSE UNION {{TouchedSome(s, good, bad) : bad \in 0 .. s.bad} : good \in 0 .. Required - s.found}

TimedOutAnyway(s) == IF s.timer <= 0 THEN GameOver(s, "timeout") ELSE s  \* mutant

TimedOut(s) == IF s.mode = "wave" /\ s.timer <= 0 THEN GameOver(s, "timeout") ELSE s

Updated(s) ==
    LET t == [s EXCEPT !.timer = @ - 1]
    IN  CASE s.mode = "wave" -> {TimedOut(u) : u \in UNION {Touched(v) : v \in Chased(t)}}
          [] s.mode = "rest" -> {IF t.timer <= 0 THEN BegunWave([t EXCEPT !.wave = @ + 1]) ELSE t}
          [] OTHER -> {s}

-------------------------------------------------------------------------------
Init == rush = Off

\* The effect and its cleanup.
Mount == ~Mounted /\ rush' = Ready

Leave == Mounted /\ rush' = Off

Frame == Mounted /\ rush' \in Updated(Consumed(rush))

PressStart == Mounted /\ rush.presses < MaxPresses /\ rush' = [rush EXCEPT !.presses = @ + 1]

\* React draws the panel some time after setOverlay.
Draw == Mounted /\ rush' = [rush EXCEPT !.shown = rush.panel]

\* The button of the panel that is drawn, whatever the mode is by now.
ClickStart ==
    /\ Mounted /\ rush.shown \in {"ready", "game-over", "win"}
    /\ rush' = Started(rush)

Next == Mount \/ Leave \/ Frame \/ PressStart \/ Draw \/ ClickStart

-------------------------------------------------------------------------------
\* A run ends for the reason the player is told, and a wave goes on for as long as none holds: out
\* of health, out of time with colours missing, caught; a rest and the win come only with all the
\* shapes found, whatever happened in the same frame. It is about the early returns of update()
\* (MonsterColorRushGame.tsx:363-390), of which only the first condition met may count.
RunEndsForOneReason ==
    Mounted =>
        CASE rush.mode = "wave" -> rush.health > 0 /\ rush.found < Required /\ rush.timer > 0
          [] rush.mode \in {"rest", "win"} ->
                rush.health > 0 /\ rush.found = Required /\ (rush.mode = "win" <=> rush.wave = Waves)
          [] rush.mode = "game-over" ->
                /\ rush.found < Required
                /\ (rush.ended = "health") = (rush.health = 0)
                /\ rush.ended = "timeout" => rush.timer = 0
          [] OTHER -> rush.ended = "no"
================================================================================
