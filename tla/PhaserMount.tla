------------------------------ MODULE PhaserMount ------------------------------
(***************************************************************************)
(* usePhaserGame (src/games/shared/usePhaserGame.ts): a page that plays with *)
(* the Phaser engine loads it, makes the game when it has come, and takes    *)
(* the game down when the page is left. Every time the page is opened is an  *)
(* attempt; the load of one may end long after its page is gone.            *)
(***************************************************************************)
EXTENDS Naturals, FiniteSets

CONSTANT MaxAttempts    \* bound: times the page is opened

VARIABLE attempts

Attempts == 1 .. MaxAttempts

\* page: closed (not yet opened), open, left (didCancel); load: the promise of loadRuntime;
\* finished: didFinishStartup; timer: the startup timeout is pending; told: what the page shows.
Unopened ==
    [page |-> "closed", load |-> "none", finished |-> FALSE, timer |-> FALSE,
     told |-> "loading", game |-> "none"]

MountInit == attempts = [a \in Attempts |-> Unopened]

Open(a) == attempts[a].page = "open"

\* The page is opened; one at a time, in order.
OpenPage(a) ==
    /\ attempts[a].page = "closed"
    /\ \A b \in 1 .. a - 1 : attempts[b].page = "left"
    /\ attempts' = [attempts EXCEPT ![a] = [@ EXCEPT !.page = "open", !.load = "pending", !.timer = TRUE]]

FailStartup(at) ==
    IF at.page = "left" \/ at.finished THEN at ELSE [at EXCEPT !.finished = TRUE, !.told = "error"]

RuntimeLoadedWhenever(a) ==                                         \* mutant of RuntimeLoaded
    /\ attempts[a].load = "pending" /\ Open(a)
    /\ attempts' = [attempts EXCEPT ![a] =
            [@ EXCEPT !.load = "settled", !.game = "live", !.finished = TRUE, !.timer = FALSE, !.told = "ready"]]

\* The engine has come and the page still wants it: the game is made.
RuntimeLoaded(a) ==
    /\ attempts[a].load = "pending" /\ Open(a) /\ ~attempts[a].finished
    /\ attempts' = [attempts EXCEPT ![a] =
            [@ EXCEPT !.load = "settled", !.game = "live", !.finished = TRUE, !.timer = FALSE, !.told = "ready"]]

\* The engine has come too late: the page was left, or told that it could not start.
RuntimeLoadedLate(a) ==
    /\ attempts[a].load = "pending" /\ (~Open(a) \/ attempts[a].finished)
    /\ attempts' = [attempts EXCEPT ![a].load = "settled"]

\* The engine does not load, or createGame throws.
LoadFailed(a) ==
    /\ attempts[a].load = "pending"
    /\ attempts' = [attempts EXCEPT ![a] = FailStartup([@ EXCEPT !.load = "settled", !.timer = FALSE])]

TimeoutFires(a) ==
    /\ attempts[a].timer
    /\ attempts' = [attempts EXCEPT ![a] = FailStartup([@ EXCEPT !.timer = FALSE])]

\* The cleanup of the effect.
TornDown(at) ==
    [at EXCEPT !.page = "left", !.timer = FALSE, !.game = IF @ = "live" THEN "destroyed" ELSE @]

LeavePageOnly(a) ==                                                 \* mutant
    /\ Open(a)
    /\ attempts' = [attempts EXCEPT ![a] = [@ EXCEPT !.page = "left", !.timer = FALSE]]

LeavePage(a) ==
    /\ Open(a)
    /\ attempts' = [attempts EXCEPT ![a] = TornDown(@)]

-------------------------------------------------------------------------------
\* However late the engine comes, and however the page is left and opened again meanwhile, at most
\* one game is alive, and only on the page that is open (usePhaserGame.ts:61-79).
OneLiveGame ==
    /\ \A a \in Attempts : attempts[a].game = "live" => Open(a)
    /\ Cardinality({a \in Attempts : attempts[a].game = "live"}) <= 1

\* The page is told once: that the game is ready, and there is one, or that it could not start, and
\* then none ever comes, even if the engine does (usePhaserGame.ts:46-73).
ToldOnce ==
    [][\A a \in Attempts :
          /\ attempts[a].told # "loading" => attempts'[a].told = attempts[a].told
          /\ Open(a)' => (attempts[a].game = "live")' = (attempts[a].told = "ready")']_attempts
================================================================================
