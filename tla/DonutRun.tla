------------------------------- MODULE DonutRun -------------------------------
(***************************************************************************)
(* The page src/games/donut-run: the scene in the engine that PhaserMount   *)
(* loads, and the presses of jump that wait for its frames, from before the  *)
(* engine has come. The level is abstracted: whether the donut stands on the *)
(* ground, meets spikes (several in one step of the physics), a pad, or      *)
(* falls is chosen in every frame. The score is counted in steps.           *)
(***************************************************************************)
EXTENDS PhaserMount

CONSTANTS MaxPresses, MaxScore     \* bounds: presses pending, the score

VARIABLES scene,    \* the scene of the game alive, or Off
          presses,  \* pending presses of jump, of the page's input
          stored    \* localStorage donutDashBestScore

vars == <<attempts, scene, presses, stored>>

Off == [made |-> FALSE]
Made == scene # Off

\* body: the player's body is enabled; moving: the physics is not paused; fading: the tween of a
\* death runs; seen: the donut is not faded out; pad: a jump pad was used less than 300 ms ago.
Created ==
    [status |-> "menu", score |-> 0, best |-> stored, body |-> TRUE, moving |-> FALSE,
     fading |-> FALSE, seen |-> TRUE, ground |-> FALSE, pad |-> FALSE, title |-> "menu"]

StartedGame(s) ==
    [s EXCEPT !.status = "running", !.moving = TRUE, !.score = 0, !.body = TRUE, !.seen = TRUE,
              !.ground = FALSE, !.pad = FALSE, !.title = "none"]

Jumped(s) == IF s.status = "running" /\ s.ground THEN [s EXCEPT !.ground = FALSE] ELSE s

HandledAction(s) == IF s.status \in {"menu", "dead"} THEN StartedGame(s) ELSE Jumped(s)

HitPad(s) == IF s.status # "running" \/ s.pad THEN s ELSE [s EXCEPT !.pad = TRUE, !.ground = FALSE]

DiedForgetful(s) ==                                                 \* mutant
    IF s.status # "running" THEN s
    ELSE [s EXCEPT !.status = "dead", !.moving = FALSE, !.body = FALSE, !.fading = TRUE,
                   !.best = s.score, !.title = "crumbled"]

Died(s) ==
    IF s.status # "running" THEN s
    ELSE [s EXCEPT !.status = "dead", !.moving = FALSE, !.body = FALSE, !.fading = TRUE,
                   !.best = IF s.score > @ THEN s.score ELSE @, !.title = "crumbled"]

-------------------------------------------------------------------------------
(***************************************************************************)
(* One step of the engine: the physics with its callbacks, while it is not   *)
(* paused; the tween; and update(), which consumes one press first.         *)
(***************************************************************************)
Standing(s, g, p) == [s EXCEPT !.ground = g, !.pad = p]

Moved(s) == {Standing(s, x[1], x[2]) : x \in BOOLEAN \X {s.pad, FALSE}}

Collided(s) ==
    IF ~s.moving THEN {s}
    ELSE Moved(s) \cup {HitPad(t) : t \in Moved(s)} \cup {Died(t) : t \in Moved(s)}
                  \cup {Died(HitPad(t)) : t \in Moved(s)}

Faded(s) == IF s.fading THEN {s, [s EXCEPT !.fading = FALSE, !.seen = FALSE]} ELSE {s}

Scored(s) == IF s.status = "running" /\ s.score < MaxScore THEN [s EXCEPT !.score = @ + 1] ELSE s

Updated(s) ==
    LET t == IF presses > 0 THEN HandledAction(s) ELSE s
    IN  IF t.status # "running" THEN {t} ELSE {Scored(t), Died(Scored(t))}

Stepped == UNION {UNION {Updated(u) : u \in Faded(t)} : t \in Collided(scene)}

-------------------------------------------------------------------------------
Init == MountInit /\ scene = Off /\ presses = 0 /\ stored = 0

Quiet == UNCHANGED <<scene, presses, stored>>

OpenDonut(a) == OpenPage(a) /\ presses' = 0 /\ UNCHANGED <<scene, stored>>

EngineReady(a) == RuntimeLoaded(a) /\ scene' = Created /\ UNCHANGED <<presses, stored>>

EngineLate(a) == RuntimeLoadedLate(a) /\ Quiet

EngineFailed(a) == LoadFailed(a) /\ Quiet

EngineTimeout(a) == TimeoutFires(a) /\ Quiet

LeaveDonut(a) == LeavePage(a) /\ scene' = Off /\ presses' = 0 /\ UNCHANGED stored

Frame ==
    /\ Made
    /\ scene' \in Stepped
    /\ presses' = IF presses > 0 THEN presses - 1 ELSE 0
    /\ stored' = IF scene'.best # scene.best THEN scene'.best ELSE stored
    /\ UNCHANGED attempts

\* Space and the arrow count while the page is open, a tap on the picture once the engine is ready.
PressKey ==
    /\ \E a \in Attempts : Open(a)
    /\ presses < MaxPresses /\ presses' = presses + 1
    /\ UNCHANGED <<attempts, scene, stored>>

Tap ==
    /\ \E a \in Attempts : Open(a) /\ attempts[a].told = "ready"
    /\ presses < MaxPresses /\ presses' = presses + 1
    /\ UNCHANGED <<attempts, scene, stored>>

Next ==
    \/ \E a \in Attempts :
          \/ OpenDonut(a) \/ LeaveDonut(a)
          \/ EngineReady(a) \/ EngineLate(a) \/ EngineFailed(a) \/ EngineTimeout(a)
    \/ Frame \/ PressKey \/ Tap

-------------------------------------------------------------------------------
\* The best score outlives every run, every death and every time the page is left: it is never less
\* than the score of a run that has ended, what is stored is what the scene shows, and it never
\* falls (DonutRun.tsx:110-127, 515-541).
BestNeverFalls ==
    /\ [][stored' >= stored]_vars
    /\ [](Made => scene.best = stored /\ (scene.status = "dead" => scene.score <= scene.best))
================================================================================
