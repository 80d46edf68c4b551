------------------------------- MODULE NeonDrift -------------------------------
(***************************************************************************)
(* The game src/games/neon-drift: one frame of update() at a time, with the *)
(* presses it consumes first, and what comes between frames: the button of   *)
(* the panel, the timer that shows the panel, a lost focus. Who is near whom *)
(* is chosen in every frame. The score is counted in events, not in points.  *)
(***************************************************************************)
EXTENDS Integers, Sequences, SequencesExt, FiniteSetsExt, Filter

CONSTANTS
    MaxTurrets, TurretHp, MaxDrones, DroneHp,   \* 5, 4 hits, 22, 2 in the code
    MaxBullets, MaxScore, MaxPresses            \* bounds

VARIABLES drift,    \* the runtime of the effect, or Off
          best      \* localStorage neon-drift-best

vars == <<drift, best>>

Off == [mounted |-> FALSE]
Mounted == drift # Off

None == 0
TurretIds == 1 .. MaxTurrets + 1    \* an id is taken again only when nothing refers to it

\* panel: the overlay is visible; due: gameOverTimer is set; safe: invulnerable > 0;
\* cooling: turretCooldown > 0; presses: not yet consumed.
Reset(s) ==
    [s EXCEPT !.drones = <<>>, !.turrets = <<>>, !.bullets = 0, !.safe = TRUE, !.cooling = FALSE,
              !.score = 0, !.paused = FALSE, !.over = FALSE]

Fresh ==
    [running |-> FALSE, paused |-> FALSE, over |-> FALSE, panel |-> TRUE, due |-> FALSE,
     drones |-> <<>>, turrets |-> <<>>, bullets |-> 0, safe |-> TRUE, cooling |-> FALSE,
     score |-> 0, best |-> best, presses |-> {}]

StartedInHaste(s) == [Reset(s) EXCEPT !.running = TRUE, !.panel = FALSE]    \* mutant

Started(s) == [Reset(s) EXCEPT !.running = TRUE, !.panel = FALSE, !.due = FALSE]

TogglePause(s) == IF s.running /\ ~s.over THEN [s EXCEPT !.paused = ~@] ELSE s

Finish(s) ==
    IF s.over THEN s
    ELSE [s EXCEPT !.running = FALSE, !.over = TRUE, !.due = TRUE,
                   !.best = IF s.score > @ THEN s.score ELSE @]

Standing(s, ids) == Only(s.turrets, {t \in Range(s.turrets) : t.id \notin ids})

DestroyedOnly(s, ids) == [s EXCEPT !.turrets = Standing(s, ids)]     \* mutant

\* destroyTurret, of some turrets: the drones that were after them look for another.
Destroyed(s, ids) ==
    [s EXCEPT !.turrets = Standing(s, ids),
              !.drones = [i \in DOMAIN s.drones |->
                            IF s.drones[i].target \in ids THEN [s.drones[i] EXCEPT !.target = None]
                            ELSE s.drones[i]]]

Ids(s) == {s.turrets[i].id : i \in DOMAIN s.turrets}

FreeId(s) == Min(TurretIds \ Ids(s))

Deployed(s) ==
    IF ~s.running \/ s.paused \/ s.cooling THEN s
    ELSE LET t == IF Len(s.turrets) >= MaxTurrets THEN Destroyed(s, {s.turrets[1].id}) ELSE s
         IN  [t EXCEPT !.turrets = Append(@, [id |-> FreeId(s), hp |-> TurretHp]), !.cooling = TRUE]

\* processNeonDriftControlIntents: start, pause and deploy, in this order, each once.
Controlled(s) ==
    LET p == s.presses
        started == IF "start" \in p /\ (~s.running \/ s.over)
                   THEN Started([s EXCEPT !.presses = {}]) ELSE [s EXCEPT !.presses = {}]
        paused == IF "pause" \in p THEN TogglePause(started) ELSE started
    IN  IF "deploy" \in p /\ ~paused.over THEN Deployed(paused) ELSE paused

-------------------------------------------------------------------------------
(***************************************************************************)
(* The rest of a frame, in the order of update().                          *)
(***************************************************************************)
Then(states, Part(_)) == UNION {Part(s) : s \in states}

Scored(s) == {[s EXCEPT !.score = n] : n \in {s.score, IF s.score < MaxScore THEN s.score + 1 ELSE s.score}}

\* updatePlayer: the time without harm may be over.
PlayerMoved(s) == {[s EXCEPT !.safe = safe] : safe \in {s.safe, FALSE}}

Shots(s) == IF s.turrets = << >> \/ s.drones = << >> THEN {0} ELSE 0 .. Len(s.turrets)

Fired(s, shots, cooling) ==
    [s EXCEPT !.cooling = cooling, !.bullets = IF @ + shots > MaxBullets THEN MaxBullets ELSE @ + shots]

\* updateTurrets: some come to the end of their life, the others may shoot at a drone in range.
TurretsUpdated(s) ==
    UNION {{Fired(t, f[1], f[2]) : f \in Shots(t) \X {t.cooling, FALSE}} :
              t \in {Destroyed(s, ids) : ids \in SUBSET Ids(s)}}

HitTurret(s, id) ==
    LET at == CHOOSE i \in DOMAIN s.turrets : s.turrets[i].id = id
    IN  IF s.turrets[at].hp <= 1 THEN Destroyed(s, {id})
        ELSE [s EXCEPT !.turrets[at].hp = @ - 1]

Aimed(s, i, id) == [s EXCEPT !.drones[i].target = id]

\* A drone on its way to its turret may hit it; without one it is after the player.
Flown(s, id) ==
    IF id # None THEN {s, HitTurret(s, id)}
    ELSE Scored(s) \cup (IF s.safe THEN {} ELSE {Finish(s)})

\* It keeps its turret or takes one in range. updateDrones returns when the run is over.
DroneMoved(s, i) ==
    IF s.over THEN {s}
    ELSE UNION {Flown(Aimed(s, i, id), id) :
                   id \in IF s.drones[i].target \in Ids(s) THEN {s.drones[i].target} ELSE Ids(s) \cup {None}}

\* updateDrones goes from the last to the first.
DronesMoved(s) ==
    LET upTo[n \in 0 .. Len(s.drones)] ==
            IF n = 0 THEN {s} ELSE UNION {DroneMoved(t, Len(s.drones) + 1 - n) : t \in upTo[n - 1]}
    IN  upTo[Len(s.drones)]

Struck(s, i) ==
    IF s.drones[i].hp > 1 THEN [s EXCEPT !.drones[i].hp = @ - 1]
    ELSE [s EXCEPT !.drones = RemoveAt(@, i), !.score = IF @ < MaxScore THEN @ + 1 ELSE @]

\* A bullet is spent, strikes a drone or flies on.
BulletMoved(s) ==
    LET spent == [s EXCEPT !.bullets = @ - 1]
    IN  IF s.bullets = 0 THEN {s} ELSE {s, spent} \cup {Struck(spent, i) : i \in DOMAIN s.drones}

\* updateBullets, also in the frame in which the run has just ended.
BulletsMoved(s) ==
    LET upTo[n \in 0 .. s.bullets] ==
            IF n = 0 THEN {s} ELSE UNION {BulletMoved(t) : t \in upTo[n - 1]}
    IN  upTo[s.bullets]

\* updatePickupsAndObstacles.
Crossed(s) == UNION {{t} \cup (IF t.safe THEN {} ELSE {Finish(t)}) : t \in Scored(s)}

\* One drone, or two at once, while there are fewer than the limit.
Spawned(s) ==
    LET new == [hp |-> DroneHp, target |-> None]
    IN  {s} \cup (IF Len(s.drones) < MaxDrones
                  THEN {[s EXCEPT !.drones = @ \o more] : more \in {<<new>>, <<new, new>>}} ELSE {})

Updated(s) ==
    LET t == Controlled(s)
    IN  IF ~t.running \/ t.paused \/ t.over THEN {t}
        ELSE LET met == Then(Then(Then(Scored(t), PlayerMoved), TurretsUpdated), DronesMoved)
             IN  Then(Then(Then(met, BulletsMoved), Crossed), Spawned)

-------------------------------------------------------------------------------
Init == drift = Off /\ best = 0

\* The effect and its cleanup, which stops the timer.
Mount == ~Mounted /\ drift' = Fresh /\ UNCHANGED best

Leave == Mounted /\ drift' = Off /\ UNCHANGED best

Frame ==
    /\ Mounted
    /\ drift' \in Updated(drift)
    /\ best' = drift'.best

\* A key, a button, or the panel's start button, which presses "start" as the key does: the next
\* frame reads it.
Press(action) ==
    /\ Mounted /\ Cardinality(drift.presses) < MaxPresses
    /\ drift' = [drift EXCEPT !.presses = @ \cup {action}]
    /\ UNCHANGED best

\* 350 ms after the end.
ShowPanel ==
    /\ Mounted /\ drift.due
    /\ drift' = [drift EXCEPT !.due = FALSE, !.panel = TRUE]
    /\ UNCHANGED best

Blur ==
    /\ Mounted
    /\ drift' = IF drift.running THEN [drift EXCEPT !.paused = TRUE] ELSE drift
    /\ UNCHANGED best

Next ==
    \/ Mount \/ Leave \/ Frame \/ ShowPanel \/ Blur
    \/ \E action \in {"start", "pause", "deploy"} : Press(action)

-------------------------------------------------------------------------------
\* The panel with the start button is there, or about to come, exactly while no run goes on: a run
\* begun before the timer of the last one has fired is never covered, and the player is never left
\* with neither (NeonDriftGame.tsx:242-253, 261-282).
PanelBetweenRuns ==
    Mounted => /\ drift.running # (drift.panel \/ drift.due)
               /\ drift.running => ~drift.over

\* A drone is after a turret that stands, or after none, whatever took the turret away: drones,
\* its age, or a newer turret in its place (NeonDriftGame.tsx:329-341); and the turrets in place of
\* older ones stay within the limit.
DronesChaseStandingTurrets ==
    Mounted =>
        /\ \A i \in DOMAIN drift.drones :
              \/ drift.drones[i].target = None
              \/ \E k \in DOMAIN drift.turrets : drift.turrets[k].id = drift.drones[i].target
        /\ Len(drift.turrets) <= MaxTurrets
================================================================================
