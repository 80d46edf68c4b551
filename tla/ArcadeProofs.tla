----------------------------- MODULE ArcadeProofs -----------------------------
(***************************************************************************)
(* Proofs about the pages of Arcade, for any number of times a page is      *)
(* opened, any fingers, presses and scores.                                 *)
(***************************************************************************)
EXTENDS Arcade, FilterProofs, FiniteSetTheorems, TLAPS

-------------------------------------------------------------------------------
(***************************************************************************)
(* The engine: every opening of the page has its own attempt.              *)
(***************************************************************************)
AttemptRecords ==
    [page : {"closed", "open", "left"}, load : {"none", "pending", "settled"}, finished : BOOLEAN,
     timer : BOOLEAN, told : {"loading", "ready", "error"}, game : {"none", "live", "destroyed"}]

\* What an attempt has done: before its page is opened nothing, and it tells the page at most once.
AttemptOK(at) ==
    /\ at \in AttemptRecords
    /\ at.page = "closed" => /\ at.told = "loading" /\ at.game = "none" /\ ~at.finished
                             /\ at.load = "none" /\ ~at.timer
    /\ at.told # "loading" => at.finished
    /\ at.page = "open" => (at.game = "live" <=> at.told = "ready")
    /\ at.game = "live" => at.page = "open"

EngineOK ==
    /\ attempts \in [1 .. MaxAttempts -> AttemptRecords]
    /\ \A a \in 1 .. MaxAttempts : AttemptOK(attempts[a])
    /\ \A a, b \in 1 .. MaxAttempts : a < b /\ attempts[b].page # "closed" => attempts[a].page = "left"

\* A step of one attempt.
Stepped(at, next) ==
    /\ AttemptOK(next)
    /\ at.told # "loading" => next.told = at.told
    /\ next.page \in {at.page, "left"}

LEMMA FailStartupOK ==
    ASSUME NEW at \in AttemptRecords, AttemptOK(at), at.page # "closed"
    PROVE  D!FailStartup(at) \in AttemptRecords /\ Stepped(at, D!FailStartup(at))
BY DEF D!FailStartup, Stepped, AttemptOK, AttemptRecords

LEMMA AttemptSteps ==
    ASSUME EngineOK, NEW a \in 1 .. MaxAttempts,
           \/ D!RuntimeLoaded(a) \/ D!RuntimeLoadedLate(a) \/ D!LoadFailed(a)
           \/ D!TimeoutFires(a) \/ D!LeavePage(a)
    PROVE  \E next \in AttemptRecords :
             attempts' = [attempts EXCEPT ![a] = next] /\ Stepped(attempts[a], next)
<1>1. PICK at : at = attempts[a]
  OBVIOUS
<1>2. at \in AttemptRecords /\ AttemptOK(at)
  BY <1>1 DEF EngineOK
<1> USE DEF Stepped, AttemptOK, AttemptRecords
<1>3. CASE D!RuntimeLoaded(a)
  <2> DEFINE next == [at EXCEPT !.load = "settled", !.game = "live", !.finished = TRUE, !.timer = FALSE,
                                !.told = "ready"]
  <2>1. attempts' = [attempts EXCEPT ![a] = next] /\ at.page = "open" /\ ~at.finished
    BY <1>1, <1>3 DEF D!RuntimeLoaded, D!Open
  <2>2. /\ next \in AttemptRecords /\ next.page = "open" /\ next.told = "ready" /\ next.game = "live"
        /\ next.finished = TRUE /\ at.told = "loading"
    BY <1>2, <2>1
  <2>3. Stepped(at, next)
    BY ONLY <2>1, <2>2 DEF Stepped, AttemptOK
  <2>4. QED
    BY <1>1, <2>1, <2>2, <2>3
<1>4. CASE D!RuntimeLoadedLate(a)
  <2> DEFINE next == [at EXCEPT !.load = "settled"]
  <2>1. attempts' = [attempts EXCEPT ![a] = next] /\ at.load = "pending"
    BY <1>1, <1>4 DEF D!RuntimeLoadedLate, EngineOK
  <2>2. next \in AttemptRecords /\ Stepped(at, next)
    BY <1>2, <2>1
  <2>3. QED
    BY <1>1, <2>1, <2>2
<1>5. CASE D!LoadFailed(a)
  <2> DEFINE now == [at EXCEPT !.load = "settled", !.timer = FALSE]
  <2>0. at.load = "pending"
    BY <1>1, <1>5 DEF D!LoadFailed
  <2>1. attempts' = [attempts EXCEPT ![a] = D!FailStartup(now)]
    BY <1>1, <1>5 DEF D!LoadFailed, EngineOK
  <2>2. now \in AttemptRecords /\ AttemptOK(now) /\ now.page = at.page /\ now.told = at.told
        /\ now.page # "closed"
    BY <1>2, <2>0
  <2>3. Stepped(now, D!FailStartup(now))
    BY <2>2, FailStartupOK
  <2>4. QED
    BY <1>1, <2>1, <2>2, <2>3
<1>6. CASE D!TimeoutFires(a)
  <2> DEFINE now == [at EXCEPT !.timer = FALSE]
  <2>0. at.timer
    BY <1>1, <1>6 DEF D!TimeoutFires
  <2>1. attempts' = [attempts EXCEPT ![a] = D!FailStartup(now)]
    BY <1>1, <1>6 DEF D!TimeoutFires, EngineOK
  <2>2. now \in AttemptRecords /\ AttemptOK(now) /\ now.page = at.page /\ now.told = at.told
        /\ now.page # "closed"
    BY <1>2, <2>0
  <2>3. Stepped(now, D!FailStartup(now))
    BY <2>2, FailStartupOK
  <2>4. QED
    BY <1>1, <2>1, <2>2, <2>3
<1>7. CASE D!LeavePage(a)
  <2>1. attempts' = [attempts EXCEPT ![a] = D!TornDown(at)]
    BY <1>1, <1>7 DEF D!LeavePage
  <2>2. D!TornDown(at) \in AttemptRecords /\ Stepped(at, D!TornDown(at))
    BY <1>2 DEF D!TornDown
  <2>3. QED
    BY <1>1, <2>1, <2>2
<1>8. QED
  BY <1>3, <1>4, <1>5, <1>6, <1>7

\* What a step does to the attempts: one of them goes on, or the next page is opened.
LEMMA EngineFrame ==
    [Next]_vars =>
        \/ UNCHANGED attempts
        \/ \E a \in 1 .. MaxAttempts :
             \/ D!OpenPage(a) \/ D!RuntimeLoaded(a) \/ D!RuntimeLoadedLate(a) \/ D!LoadFailed(a)
             \/ D!TimeoutFires(a) \/ D!LeavePage(a)
BY DEF Next, On, vars, donutVars, D!Next, D!OpenDonut, D!LeaveDonut, D!EngineReady, D!EngineLate,
       D!EngineFailed, D!EngineTimeout, D!Frame, D!PressKey, D!Tap, D!Attempts

ToldKept ==
    \A a \in 1 .. MaxAttempts : attempts[a].told # "loading" => attempts'[a].told = attempts[a].told

LEMMA EngineStep == EngineOK /\ [Next]_vars => EngineOK' /\ ToldKept
<1> SUFFICES ASSUME EngineOK, [Next]_vars
             PROVE  EngineOK' /\ ToldKept
  OBVIOUS
<1>1. CASE UNCHANGED attempts
  BY <1>1 DEF EngineOK, ToldKept
<1>2. ASSUME NEW a \in 1 .. MaxAttempts, D!OpenPage(a)
      PROVE  EngineOK' /\ ToldKept
  <2>1. PICK at, next : /\ at = attempts[a]
                        /\ next = [at EXCEPT !.page = "open", !.load = "pending", !.timer = TRUE]
    OBVIOUS
  <2>2. /\ attempts' = [attempts EXCEPT ![a] = next] /\ at.page = "closed"
        /\ \A b \in 1 .. a - 1 : attempts[b].page = "left"
    BY <1>2, <2>1 DEF D!OpenPage
  <2>3. at \in AttemptRecords /\ AttemptOK(at)
    BY <2>1 DEF EngineOK
  <2>4. next \in AttemptRecords /\ AttemptOK(next) /\ next.told = at.told /\ next.page = "open"
    BY <2>1, <2>2, <2>3 DEF AttemptRecords, AttemptOK
  <2>5. ASSUME NEW b \in 1 .. MaxAttempts, NEW c \in 1 .. MaxAttempts, b < c, attempts'[c].page # "closed"
        PROVE  attempts'[b].page = "left"
    <3>1. \A d \in 1 .. MaxAttempts : attempts'[d] = IF d = a THEN next ELSE attempts[d]
      BY <2>2 DEF EngineOK
    <3>2. CASE c = a
      <4>1. b \in 1 .. a - 1 /\ b # a
        BY <2>5, <3>2
      <4>2. QED
        BY <2>2, <3>1, <4>1
    <3>3. CASE c # a
      <4>1. attempts[b].page = "left"
        BY <2>5, <3>1, <3>3 DEF EngineOK
      <4>2. b # a
        BY <2>1, <2>2, <4>1
      <4>3. QED
        BY <3>1, <4>1, <4>2
    <3>4. QED
      BY <3>2, <3>3
  <2>6. QED
    BY <2>1, <2>2, <2>3, <2>4, <2>5 DEF EngineOK, ToldKept
<1>3. ASSUME NEW a \in 1 .. MaxAttempts,
             \/ D!RuntimeLoaded(a) \/ D!RuntimeLoadedLate(a) \/ D!LoadFailed(a)
             \/ D!TimeoutFires(a) \/ D!LeavePage(a)
      PROVE  EngineOK' /\ ToldKept
  <2>1. PICK next \in AttemptRecords : attempts' = [attempts EXCEPT ![a] = next] /\ Stepped(attempts[a], next)
    BY <1>3, AttemptSteps
  <2>2. /\ \A b \in 1 .. MaxAttempts : attempts'[b] = IF b = a THEN next ELSE attempts[b]
        /\ attempts' \in [1 .. MaxAttempts -> AttemptRecords]
    BY <2>1 DEF EngineOK
  <2>3. ASSUME NEW b \in 1 .. MaxAttempts
        PROVE  attempts'[b].page \in {attempts[b].page, "left"}
    BY <2>1, <2>2 DEF Stepped
  <2>4. \A b \in 1 .. MaxAttempts : AttemptOK(attempts'[b])
    BY <2>1, <2>2 DEF EngineOK, Stepped
  <2>5. ToldKept
    BY <2>1, <2>2 DEF ToldKept, Stepped
  <2>6. ASSUME NEW b \in 1 .. MaxAttempts, NEW c \in 1 .. MaxAttempts, b < c, attempts'[c].page # "closed"
        PROVE  attempts'[b].page = "left"
    <3>1. attempts[c].page # "closed"
      BY <2>1, <2>2, <2>6, <1>3 DEF D!RuntimeLoaded, D!RuntimeLoadedLate, D!LoadFailed, D!TimeoutFires,
            D!LeavePage, D!Open, EngineOK, AttemptOK
    <3>2. attempts[b].page = "left"
      BY <2>6, <3>1 DEF EngineOK
    <3>3. QED
      BY <2>3, <3>2
  <2>7. QED
    BY <2>2, <2>4, <2>5, <2>6 DEF EngineOK
<1>4. QED
  BY <1>1, <1>2, <1>3, EngineFrame

LEMMA EngineInit == Init => EngineOK
<1> SUFFICES ASSUME Init
             PROVE  EngineOK
  OBVIOUS
<1>1. attempts = [a \in 1 .. MaxAttempts |-> D!Unopened]
  BY DEF Init, D!Init, D!MountInit, D!Attempts
<1>2. D!Unopened \in AttemptRecords /\ AttemptOK(D!Unopened) /\ D!Unopened.page = "closed"
  BY DEF D!Unopened, AttemptRecords, AttemptOK
<1>3. QED
  BY <1>1, <1>2 DEF EngineOK

\* What the attempts know of the pages, the engine and the games they made.
THEOREM EngineInvariance == Spec => []EngineOK
BY EngineInit, EngineStep, PTL DEF Spec

\* However late the engine comes, and however the page is left and opened again meanwhile, at most
\* one game is alive, and only on the page that is open (usePhaserGame.ts:61-79).
THEOREM OneGameAtMost == Spec => []OneLiveGame
<1>1. EngineOK => OneLiveGame
  <2> SUFFICES ASSUME EngineOK
               PROVE  OneLiveGame
    OBVIOUS
  <2> DEFINE Live == {a \in 1 .. MaxAttempts : attempts[a].game = "live"}
  <2>1. \A a \in Live : attempts[a].page = "open"
    BY DEF EngineOK, AttemptOK
  <2>2. \A a, b \in Live : a = b
    <3>1. 1 .. MaxAttempts \subseteq Int
      OBVIOUS
    <3>2. \A a, b \in 1 .. MaxAttempts : attempts[a].page = "open" /\ a < b => attempts[b].page = "closed"
      BY DEF EngineOK
    <3>3. \A a, b \in Live : ~(a < b)
      BY <2>1, <3>2
    <3>4. QED
      BY <3>1, <3>3
  <2>3. IsFiniteSet(Live) /\ Cardinality(Live) <= 1
    <3>1. CASE Live = {}
      BY <3>1, FS_EmptySet
    <3>2. CASE \E a : Live = {a}
      <4>1. PICK a : Live = {a}
        BY <3>2
      <4>2. IsFiniteSet({a}) /\ Cardinality({a}) = 1
        BY FS_Singleton
      <4>3. QED
        BY <4>1, <4>2
    <3>3. QED
      BY <2>2, <3>1, <3>2
  <2>4. D!Cardinality(Live) = Cardinality(Live)
    BY DEF D!Cardinality, Cardinality
  <2>5. QED
    BY <2>1, <2>3, <2>4 DEF OneLiveGame, D!OneLiveGame, D!Attempts, D!Open
<1>2. QED
  BY <1>1, EngineInvariance, PTL

\* The page is told once: that the game is ready, and there is one, or that it could not start, and
\* then none ever comes, even if the engine does (usePhaserGame.ts:46-73).
THEOREM ThePageIsToldOnce == Spec => ToldOnce
<1>1. EngineOK /\ [Next]_vars =>
        [\A a \in D!Attempts :
           /\ attempts[a].told # "loading" => attempts'[a].told = attempts[a].told
           /\ D!Open(a)' => (attempts[a].game = "live")' = (attempts[a].told = "ready")']_attempts
  <2> SUFFICES ASSUME EngineOK, [Next]_vars, NEW a \in D!Attempts
               PROVE  /\ attempts[a].told # "loading" => attempts'[a].told = attempts[a].told
                      /\ D!Open(a)' => (attempts[a].game = "live")' = (attempts[a].told = "ready")'
    OBVIOUS
  <2>1. a \in 1 .. MaxAttempts
    BY DEF D!Attempts
  <2>2. EngineOK' /\ ToldKept
    BY EngineStep
  <2>3. AttemptOK(attempts[a])'
    BY <2>1, <2>2 DEF EngineOK
  <2>4. QED
    BY <2>1, <2>2, <2>3 DEF ToldKept, AttemptOK, D!Open
<1>2. QED
  BY <1>1, EngineInvariance, PTL DEF Spec, ToldOnce, D!ToldOnce

-------------------------------------------------------------------------------
(***************************************************************************)
(* Donut Run: the best score.                                              *)
(***************************************************************************)
Scenes ==
    [status : {"menu", "running", "dead"}, score : Nat, best : Nat, body : BOOLEAN, moving : BOOLEAN,
     fading : BOOLEAN, seen : BOOLEAN, ground : BOOLEAN, pad : BOOLEAN, title : {"menu", "none", "crumbled"}]

\* A scene whose best score is at least b, and at least that of a run that has ended.
Keeps(s, b) ==
    /\ s \in Scenes
    /\ s.best >= b
    /\ s.status = "dead" => s.score <= s.best

SceneOK ==
    /\ stored \in Nat
    /\ D!Made => Keeps(scene, stored) /\ scene.best = stored

LEMMA SceneParts ==
    ASSUME NEW b \in Nat, NEW s, Keeps(s, b)
    PROVE  /\ Keeps(D!StartedGame(s), b)
           /\ Keeps(D!Jumped(s), b)
           /\ Keeps(D!HitPad(s), b)
           /\ Keeps(D!Died(s), b)
           /\ Keeps(D!Scored(s), b)
           /\ \A g, p \in BOOLEAN : Keeps(D!Standing(s, g, p), b)
           /\ Keeps([s EXCEPT !.fading = FALSE, !.seen = FALSE], b)
<1> USE DEF Keeps, Scenes
<1>1. Keeps(D!StartedGame(s), b)
  BY DEF D!StartedGame
<1>2. Keeps(D!Jumped(s), b)
  BY DEF D!Jumped
<1>3. Keeps(D!HitPad(s), b)
  BY DEF D!HitPad
<1>4. Keeps(D!Died(s), b)
  <2>1. PICK top : top = IF s.score > s.best THEN s.score ELSE s.best
    OBVIOUS
  <2>2. top \in Nat /\ top >= b /\ s.score <= top
    BY <2>1
  <2>3. D!Died(s) \in {s, [s EXCEPT !.status = "dead", !.moving = FALSE, !.body = FALSE, !.fading = TRUE,
                                     !.best = top, !.title = "crumbled"]}
    BY <2>1 DEF D!Died
  <2>4. QED
    BY <2>2, <2>3
<1>5. Keeps(D!Scored(s), b)
  BY DEF D!Scored
<1>6. \A g, p \in BOOLEAN : Keeps(D!Standing(s, g, p), b)
  BY DEF D!Standing
<1>7. Keeps([s EXCEPT !.fading = FALSE, !.seen = FALSE], b)
  OBVIOUS
<1>8. QED
  BY <1>1, <1>2, <1>3, <1>4, <1>5, <1>6, <1>7

LEMMA MovedKeeps ==
    ASSUME NEW b \in Nat, NEW s, Keeps(s, b), NEW u \in D!Moved(s)
    PROVE  Keeps(u, b)
<1>1. PICK x \in BOOLEAN \X {s.pad, FALSE} : u = D!Standing(s, x[1], x[2])
  BY DEF D!Moved
<1>2. s.pad \in BOOLEAN
  BY DEF Keeps, Scenes
<1>3. x[1] \in BOOLEAN /\ x[2] \in BOOLEAN
  BY <1>1, <1>2
<1>4. QED
  BY <1>1, <1>3, SceneParts

\* No frame makes the best score less, or leaves it behind the run it has ended.
LEMMA FrameKeeps ==
    ASSUME NEW b \in Nat, Keeps(scene, b), NEW next \in D!Stepped
    PROVE  Keeps(next, b)
<1>1. ASSUME NEW s, Keeps(s, b), NEW t \in D!Collided(s)
      PROVE  Keeps(t, b)
  <2>1. \/ t = s
        \/ \E u \in D!Moved(s) : t = u \/ t = D!HitPad(u) \/ t = D!Died(u) \/ t = D!Died(D!HitPad(u))
    BY <1>1, Zenon DEF D!Collided
  <2>2. ASSUME NEW u \in D!Moved(s)
        PROVE  Keeps(u, b)
    BY <1>1, <2>2, MovedKeeps
  <2>3. ASSUME NEW u \in D!Moved(s)
        PROVE  Keeps(D!HitPad(u), b) /\ Keeps(D!Died(u), b) /\ Keeps(D!Died(D!HitPad(u)), b)
    <3>1. Keeps(D!HitPad(u), b) /\ Keeps(D!Died(u), b)
      BY <2>2, SceneParts
    <3>2. QED
      BY <3>1, SceneParts
  <2>4. QED
    BY <1>1, <2>1, <2>2, <2>3
<1>2. ASSUME NEW s, Keeps(s, b), NEW t \in D!Faded(s)
      PROVE  Keeps(t, b)
  BY <1>2, SceneParts DEF D!Faded
<1>3. ASSUME NEW s, Keeps(s, b), NEW t \in D!Updated(s)
      PROVE  Keeps(t, b)
  <2>1. PICK u : u = IF presses > 0 THEN D!HandledAction(s) ELSE s
    OBVIOUS
  <2>2. Keeps(u, b)
    BY <1>3, <2>1, SceneParts DEF D!HandledAction
  <2>3. t \in {u, D!Scored(u), D!Died(D!Scored(u))}
    BY <1>3, <2>1 DEF D!Updated
  <2>4. QED
    BY <2>2, <2>3, SceneParts
<1>4. PICK t \in D!Collided(scene) : \E u \in D!Faded(t) : next \in D!Updated(u)
  BY DEF D!Stepped
<1>5. QED
  BY <1>1, <1>2, <1>3, <1>4

LEMMA SceneFrame ==
    [Next]_vars =>
        \/ UNCHANGED <<scene, stored>>
        \/ D!Frame
        \/ scene' \in {D!Created, D!Off} /\ UNCHANGED stored
BY DEF Next, On, vars, donutVars, D!Next, D!OpenDonut, D!LeaveDonut, D!EngineReady, D!EngineLate,
       D!EngineFailed, D!EngineTimeout, D!PressKey, D!Tap, D!Quiet

LEMMA SceneStep == SceneOK /\ [Next]_vars => SceneOK' /\ stored' >= stored
<1> SUFFICES ASSUME SceneOK, [Next]_vars
             PROVE  SceneOK' /\ stored' >= stored
  OBVIOUS
<1>1. CASE UNCHANGED <<scene, stored>>
  BY <1>1 DEF SceneOK, D!Made, D!Off
<1>2. CASE D!Frame
  <2>1. /\ D!Made /\ scene' \in D!Stepped
        /\ stored' = IF scene'.best # scene.best THEN scene'.best ELSE stored
    BY <1>2 DEF D!Frame
  <2>2. stored \in Nat /\ Keeps(scene, stored) /\ scene.best = stored
    BY <2>1 DEF SceneOK
  <2>3. Keeps(scene', stored)
    BY <2>1, <2>2, FrameKeeps
  <2>4. stored' = scene'.best /\ scene'.best \in Nat /\ scene'.best >= stored
    BY <2>1, <2>2, <2>3 DEF Keeps, Scenes
  <2>5. Keeps(scene', stored')
    BY <2>3, <2>4 DEF Keeps
  <2>6. QED
    BY <2>4, <2>5 DEF SceneOK
<1>3. CASE scene' \in {D!Created, D!Off} /\ UNCHANGED stored
  <2>1. Keeps(D!Created, stored) /\ D!Created.best = stored
    BY DEF Keeps, Scenes, D!Created, SceneOK
  <2>2. stored' = stored /\ stored \in Nat
    BY <1>3 DEF SceneOK
  <2>3. CASE scene' = D!Created
    BY <2>1, <2>2, <2>3 DEF SceneOK
  <2>4. CASE scene' = D!Off
    BY <2>2, <2>4 DEF SceneOK, D!Made, D!Off
  <2>5. QED
    BY <1>3, <2>3, <2>4
<1>4. QED
  BY <1>1, <1>2, <1>3, SceneFrame

\* The best score outlives every run, every death and every time the page is left: it is never less
\* than the score of a run that has ended, what is stored is what the scene shows, and it never
\* falls (DonutRun.tsx:110-127, 515-541).
THEOREM TheBestOnlyRises == Spec => BestNeverFalls
<1>1. Init => SceneOK
  BY DEF Init, D!Init, SceneOK, D!Made
<1>2. SceneOK /\ [Next]_vars => [stored' >= stored]_(D!vars)
  BY SceneStep
<1>3. SceneOK => (D!Made => scene.best = stored /\ (scene.status = "dead" => scene.score <= scene.best))
  BY DEF SceneOK, Keeps
<1>4. QED
  BY <1>1, <1>2, <1>3, SceneStep, PTL DEF Spec, BestNeverFalls, D!BestNeverFalls

-------------------------------------------------------------------------------
(***************************************************************************)
(* The shared input.                                                       *)
(***************************************************************************)
SourceNames == {"key", "hold:keyboard", "hold", "tap", "stick"}

Inputs == [moves : SUBSET SourceNames, held : SUBSET SourceNames, presses : Nat]

ControlNames == {"hold", "tap", "stick"}

Parts == [shown : BOOLEAN, owner : [ControlNames -> Finger \cup {NoFinger}], suppress : BOOLEAN]

Users ==
    [key : BOOLEAN, on : [Finger -> ControlNames \cup {"nothing"}],
     focus : {"page", "hold", "tap", "away"}, captured : SUBSET Finger, alone : Finger \cup {NoFinger}]

Requests == [least : Nat, most : Nat]

\* What a source holds is physically down, with nothing left of a key while the window is away.
KeysOK ==
    /\ "key" \in input.held \cup input.moves => user.key /\ user.focus # "away"
    /\ "hold:keyboard" \in input.held => user.key /\ user.focus = "hold"

\* A finger that owns a control is on it, controls that are hidden have no owner, and a finger that has
\* had the pressed button to itself owns it.
PointersOK ==
    /\ \A c \in ControlNames :
         parts.owner[c] # NoFinger => parts.shown /\ parts.owner[c] \in Finger /\ user.on[parts.owner[c]] = c
    /\ \A c \in {"hold", "stick"} : c \in input.held \cup input.moves => parts.owner[c] # NoFinger
    /\ user.alone # NoFinger =>
         parts.owner["tap"] = user.alone /\ \A g \in Finger : user.on[g] = "tap" => g = user.alone

CountsOK == asked.least <= input.presses /\ input.presses <= asked.most

InputTypes ==
    /\ input \in Inputs
    /\ parts \in Parts
    /\ user \in Users
    /\ asked \in Requests

InputOK == InputTypes /\ KeysOK /\ PointersOK /\ CountsOK

LEMMA InputFrame ==
    [Next]_vars => UNCHANGED inputVars \/ I!Next
BY DEF Next, On, vars

\* What the writer of the input does to the sources.
LEMMA ClearSteps ==
    ASSUME NEW in \in Inputs, NEW source
    PROVE  /\ I!ClearSource(in, source) \in Inputs
           /\ I!ClearSource(in, source).moves = in.moves \ {source}
           /\ I!ClearSource(in, source).held = in.held \ {source}
           /\ I!ClearSource(in, source).presses = in.presses
BY DEF I!ClearSource, Inputs

LEMMA PulseSteps ==
    ASSUME NEW in \in Inputs
    PROVE  /\ I!Pulse(in) \in Inputs /\ I!Pulse(in).held = in.held /\ I!Pulse(in).moves = in.moves
           /\ I!Pulse(in).presses = in.presses + 1
BY DEF I!Pulse, Inputs

LEMMA KeyHeldSteps ==
    ASSUME NEW in \in Inputs
    PROVE  /\ I!KeyHeld(in) \in Inputs /\ I!KeyHeld(in).held = in.held \cup {"key"}
           /\ I!KeyHeld(in).moves = in.moves \cup {"key"} /\ I!KeyHeld(in).presses = in.presses
BY DEF I!KeyHeld, I!SetMove, I!SetAction, Inputs, SourceNames

LEMMA AskedSteps ==
    ASSUME asked \in Requests, NEW sure \in BOOLEAN, NEW perhaps \in BOOLEAN
    PROVE  /\ I!Asked(sure, perhaps) \in Requests
           /\ I!Asked(sure, perhaps).least = IF sure THEN asked.least + 1 ELSE asked.least
           /\ I!Asked(sure, perhaps).most = IF perhaps THEN asked.most + 1 ELSE asked.most
BY DEF I!Asked, Requests

LEMMA NothingAsked == I!NotAsked \in Requests /\ I!NotAsked.least = 0 /\ I!NotAsked.most = 0
BY DEF I!NotAsked, Requests

LEMMA NothingHeld ==
    I!NoInput \in Inputs /\ I!NoInput.held = {} /\ I!NoInput.moves = {} /\ I!NoInput.presses = 0
BY DEF I!NoInput, Inputs

LEMMA KeySteps ==
    ASSUME InputOK,
           \/ I!KeyDown \/ I!KeyRepeats \/ I!KeyUp \/ I!KeyClick \/ I!WindowBlur \/ I!Reset \/ I!ConsumePress
           \/ \E to \in {"page", "hold", "tap"} : I!MoveFocus(to) \/ I!WindowFocus(to)
    PROVE  InputOK'
<1> USE DEF InputOK, InputTypes, KeysOK, PointersOK, CountsOK
<1>0. /\ input \in Inputs /\ input.presses \in Nat /\ user \in Users
      /\ asked \in Requests /\ asked.least \in Nat /\ asked.most \in Nat
  BY DEF Inputs, Requests
<1>1. CASE I!KeyDown
  <2>1. /\ user' = [user EXCEPT !.key = TRUE] /\ parts' = parts
        /\ input' = CASE user.focus = "page" -> I!Pulse(I!KeyHeld(input))
                      [] user.focus = "hold" -> I!SetAction(input, "hold:keyboard", TRUE)
                      [] OTHER -> input
        /\ asked' = I!Asked(user.focus = "page", user.focus = "page")
    BY <1>1 DEF I!KeyDown
  <2>2. user' \in Users /\ user'.key = TRUE /\ user'.focus = user.focus /\ user'.on = user.on /\ user'.alone = user.alone
    BY <2>1 DEF Users
  <2>0. /\ asked' \in Requests
        /\ asked'.least = IF user.focus = "page" THEN asked.least + 1 ELSE asked.least
        /\ asked'.most = IF user.focus = "page" THEN asked.most + 1 ELSE asked.most
    BY <1>0, <2>1, AskedSteps
  <2>3. CASE user.focus = "page"
    <3>1. /\ input' \in Inputs /\ input'.held = input.held \cup {"key"} /\ input'.moves = input.moves \cup {"key"}
          /\ input'.presses = input.presses + 1
      BY <2>1, <2>3, KeyHeldSteps, PulseSteps
    <3>2. QED
      BY <1>0, <2>0, <2>1, <2>2, <2>3, <3>1
  <2>4. CASE user.focus = "hold"
    <3>1. /\ input' \in Inputs /\ input'.held = input.held \cup {"hold:keyboard"} /\ input'.moves = input.moves
          /\ input'.presses = input.presses
      BY <2>1, <2>4 DEF I!SetAction, Inputs, SourceNames
    <3>2. QED
      BY <1>0, <2>0, <2>1, <2>2, <2>4, <3>1
  <2>5. CASE user.focus \notin {"page", "hold"}
    <3>1. input' = input
      BY <2>1, <2>5
    <3>2. QED
      BY <1>0, <2>0, <2>1, <2>2, <2>5, <3>1
  <2>6. QED
    BY <2>3, <2>4, <2>5
<1>2. CASE I!KeyRepeats
  <2>1. /\ user.key /\ UNCHANGED <<parts, user, asked>>
        /\ input' = CASE user.focus = "page" -> I!KeyHeld(input)
                      [] user.focus = "hold" -> I!SetAction(input, "hold:keyboard", TRUE)
                      [] OTHER -> input
    BY <1>2 DEF I!KeyRepeats
  <2>2. CASE user.focus = "page"
    <3>1. /\ input' \in Inputs /\ input'.held = input.held \cup {"key"} /\ input'.moves = input.moves \cup {"key"}
          /\ input'.presses = input.presses
      BY <2>1, <2>2, KeyHeldSteps
    <3>2. QED
      BY <2>1, <2>2, <3>1
  <2>3. CASE user.focus = "hold"
    <3>1. /\ input' \in Inputs /\ input'.held = input.held \cup {"hold:keyboard"} /\ input'.moves = input.moves
          /\ input'.presses = input.presses
      BY <2>1, <2>3 DEF I!SetAction, Inputs, SourceNames
    <3>2. QED
      BY <2>1, <2>3, <3>1
  <2>4. CASE user.focus \notin {"page", "hold"}
    BY <2>1, <2>4
  <2>5. QED
    BY <2>2, <2>3, <2>4
<1>3. CASE I!KeyUp
  <2>1. /\ user' = [user EXCEPT !.key = FALSE] /\ UNCHANGED <<parts, asked>>
        /\ input' = CASE user.focus = "away" -> input
                      [] user.focus = "hold" -> I!ClearSource(I!ClearSource(input, "hold:keyboard"), "key")
                      [] OTHER -> I!ClearSource(input, "key")
    BY <1>3 DEF I!KeyUp
  <2>2. user' \in Users /\ user'.focus = user.focus /\ user'.on = user.on /\ user'.alone = user.alone
    BY <2>1 DEF Users
  <2>3. /\ input' \in Inputs /\ input'.presses = input.presses
        /\ input'.held \subseteq input.held /\ input'.moves \subseteq input.moves
        /\ user.focus # "away" => "key" \notin input'.held \cup input'.moves
        /\ user.focus = "hold" => "hold:keyboard" \notin input'.held
    <3>1. CASE user.focus = "away"
      BY <2>1, <3>1
    <3>2. CASE user.focus = "hold"
      <4>1. PICK in \in Inputs : /\ in = I!ClearSource(input, "hold:keyboard")
                                 /\ in.held = input.held \ {"hold:keyboard"} /\ in.presses = input.presses
                                 /\ in.moves = input.moves \ {"hold:keyboard"}
        BY ClearSteps
      <4>2. input' = I!ClearSource(in, "key")
        BY <2>1, <3>2, <4>1
      <4>3. /\ input' \in Inputs /\ input'.held = in.held \ {"key"} /\ input'.moves = in.moves \ {"key"}
            /\ input'.presses = in.presses
        BY <4>2, ClearSteps
      <4>4. QED
        BY <4>1, <4>3
    <3>3. CASE user.focus \notin {"away", "hold"}
      <4>1. input' = I!ClearSource(input, "key")
        BY <2>1, <3>3
      <4>2. QED
        BY <3>3, <4>1, ClearSteps
    <3>4. QED
      BY <3>1, <3>2, <3>3
  <2>4. QED
    BY <2>1, <2>2, <2>3
<1>4. CASE I!KeyClick
  <2>1. /\ parts' = [parts EXCEPT !.suppress = FALSE] /\ input' = I!Pulse(input)
        /\ asked' = I!Asked(TRUE, TRUE) /\ user' = user
    BY <1>4 DEF I!KeyClick
  <2>2. parts' \in Parts /\ parts'.shown = parts.shown /\ parts'.owner = parts.owner
    BY <2>1 DEF Parts
  <2>3. asked' \in Requests /\ asked'.least = asked.least + 1 /\ asked'.most = asked.most + 1
    BY <1>0, <2>1, AskedSteps
  <2>4. /\ input' \in Inputs /\ input'.held = input.held /\ input'.moves = input.moves
        /\ input'.presses = input.presses + 1
    BY <1>0, <2>1, PulseSteps
  <2>5. PointersOK' /\ KeysOK'
    BY <2>1, <2>2, <2>4
  <2>6. CountsOK'
    BY <1>0, <2>3, <2>4
  <2>7. QED
    BY <1>0, <2>1, <2>2, <2>3, <2>4, <2>5, <2>6
<1>5. CASE I!WindowBlur \/ I!Reset
  <2>1. /\ input' = I!NoInput /\ asked' = I!NotAsked /\ parts' = parts
        /\ user' \in {user, [user EXCEPT !.focus = "away"]}
    BY <1>5 DEF I!WindowBlur, I!Reset
  <2>2. user' \in Users /\ user'.on = user.on /\ user'.alone = user.alone
    BY <2>1 DEF Users
  <2>3. /\ input' \in Inputs /\ input'.held = {} /\ input'.moves = {} /\ input'.presses = 0
        /\ asked' \in Requests /\ asked'.least = 0 /\ asked'.most = 0
    BY <2>1, NothingHeld, NothingAsked
  <2>4. QED
    BY <2>1, <2>2, <2>3
<1>6. CASE I!ConsumePress
  <2>1. /\ input' = [input EXCEPT !.presses = @ - 1] /\ UNCHANGED <<parts, user>> /\ input.presses > 0
        /\ asked' = [least |-> IF asked.least = 0 THEN 0 ELSE asked.least - 1, most |-> asked.most - 1]
    BY <1>6 DEF I!ConsumePress
  <2>2. input' \in Inputs /\ input'.held = input.held /\ input'.moves = input.moves
        /\ input'.presses = input.presses - 1
    BY <1>0, <2>1 DEF Inputs
  <2>3. /\ asked' \in Requests /\ asked'.most = asked.most - 1
        /\ asked'.least = IF asked.least = 0 THEN 0 ELSE asked.least - 1
    BY <1>0, <2>1 DEF Requests
  <2>4. QED
    BY <1>0, <2>1, <2>2, <2>3
<1>7. ASSUME NEW to \in {"page", "hold", "tap"}, I!MoveFocus(to)
      PROVE  InputOK'
  <2>1. /\ user.focus \notin {"away", to} /\ user' = [user EXCEPT !.focus = to] /\ UNCHANGED <<parts, asked>>
        /\ input' = IF user.focus = "hold" THEN I!ClearSource(input, "hold:keyboard") ELSE input
    BY <1>7 DEF I!MoveFocus
  <2>2. user' \in Users /\ user'.on = user.on /\ user'.alone = user.alone /\ user'.key = user.key /\ user'.focus = to
    BY <2>1 DEF Users
  <2>3. /\ input' \in Inputs /\ input'.presses = input.presses
        /\ input'.held \subseteq input.held /\ input'.moves \subseteq input.moves
        /\ "hold:keyboard" \notin input'.held
    <3>1. CASE user.focus = "hold"
      BY <2>1, <3>1, ClearSteps
    <3>2. CASE user.focus # "hold"
      BY <2>1, <3>2
    <3>3. QED
      BY <3>1, <3>2
  <2>4. QED
    BY <2>1, <2>2, <2>3
<1>8. ASSUME NEW to \in {"page", "hold", "tap"}, I!WindowFocus(to)
      PROVE  InputOK'
  <2>1. user.focus = "away" /\ user' = [user EXCEPT !.focus = to] /\ UNCHANGED <<input, parts, asked>>
    BY <1>8 DEF I!WindowFocus
  <2>2. user' \in Users /\ user'.on = user.on /\ user'.alone = user.alone /\ user'.key = user.key /\ user'.focus = to
    BY <2>1 DEF Users
  <2>3. QED
    BY <2>1, <2>2
<1>9. QED
  BY <1>1, <1>2, <1>3, <1>4, <1>5, <1>6, <1>7, <1>8

LEMMA PointerSteps ==
    ASSUME InputOK, NEW f \in Finger, NEW c \in ControlNames, NEW inside \in BOOLEAN, NEW click \in BOOLEAN, NEW touch \in BOOLEAN,
           I!PointerDown(f, c, touch) \/ I!PointerMove(f, c, inside) \/ I!PointerUp(f, c, inside, click)
           \/ I!PointerCancel(f, c)
    PROVE  InputOK'
<1> USE DEF InputOK, InputTypes, KeysOK, PointersOK, CountsOK
<1>0. /\ input \in Inputs /\ input.presses \in Nat /\ user \in Users /\ parts \in Parts /\ NoFinger \notin Finger
      /\ c \in SourceNames /\ c \notin {"key", "hold:keyboard"}
  BY ArcadeAssumption DEF Inputs, ControlNames, SourceNames
<1>1. CASE I!PointerDown(f, c, touch)
  <2>0. PICK captured, first :
          /\ captured = IF touch \/ I!Owns(NoFinger, c) THEN user.captured \cup {f} ELSE user.captured
          /\ first = IF c # "tap" THEN user.alone
                     ELSE IF \E g \in Finger : user.on[g] = "tap" THEN NoFinger ELSE f
    OBVIOUS
  <2>1. /\ user.on[f] = "nothing" /\ parts.shown /\ asked' = asked
        /\ user' = [user EXCEPT !.on[f] = c, !.captured = captured, !.alone = first]
    BY <1>0, <1>1, <2>0 DEF I!PointerDown, Users
  <2>2. /\ user' \in Users /\ user'.key = user.key /\ user'.focus = user.focus /\ user'.alone = first
        /\ \A g \in Finger : user'.on[g] = IF g = f THEN c ELSE user.on[g]
    <3>1. captured \in SUBSET Finger /\ first \in Finger \cup {NoFinger}
      BY <1>0, <2>0 DEF Users
    <3>2. QED
      BY <1>0, <2>1, <3>1 DEF Users
  <2>3. \A d \in ControlNames : parts.owner[d] # f
    BY <1>0, <2>1 DEF ControlNames
  <2>6. user'.alone # NoFinger =>
          \/ /\ user'.alone = user.alone /\ c # "tap" /\ parts.owner["tap"] = user.alone
             /\ \A g \in Finger : user'.on[g] = "tap" => g = user.alone
          \/ /\ user'.alone = f /\ c = "tap" /\ parts.owner[c] = NoFinger
             /\ \A g \in Finger : user'.on[g] = "tap" => g = f
    BY <1>0, <2>0, <2>2 DEF ControlNames
  <2>4. CASE parts.owner[c] # NoFinger
    <3>1. UNCHANGED <<input, parts>>
      BY <1>1, <2>4 DEF I!PointerDown, I!Owns
    <3>2. QED
      BY <1>0, <2>1, <2>2, <2>3, <2>4, <2>6, <3>1
  <2>5. CASE parts.owner[c] = NoFinger
    <3>1. /\ parts' = [parts EXCEPT !.owner[c] = f]
          /\ \/ c = "hold" /\ input' = I!SetAction(input, "hold", TRUE)
             \/ c = "stick" /\ \E beyond \in BOOLEAN : input' = I!SetMove(input, "stick", beyond)
             \/ input' = input
      BY <1>1, <2>5 DEF I!PointerDown, I!Owns
    <3>2. /\ parts' \in Parts /\ parts'.shown = parts.shown
          /\ \A d \in ControlNames : parts'.owner[d] = IF d = c THEN f ELSE parts.owner[d]
      BY <1>0, <3>1 DEF Parts
    <3>3. /\ input' \in Inputs /\ input'.presses = input.presses
          /\ input'.held \subseteq input.held \cup {c} /\ input'.moves \subseteq input.moves \cup {c}
      BY <1>0, <3>1 DEF I!SetAction, I!SetMove, Inputs
    <3>4. InputTypes' /\ KeysOK' /\ CountsOK'
      BY <1>0, <2>1, <2>2, <3>2, <3>3
    <3>5. ASSUME NEW d \in ControlNames, parts'.owner[d] # NoFinger
          PROVE  parts'.shown /\ parts'.owner[d] \in Finger /\ user'.on[parts'.owner[d]] = d
      <4>1. CASE d = c
        BY <2>1, <2>2, <3>2, <4>1
      <4>2. CASE d # c
        BY <2>2, <2>3, <3>2, <3>5, <4>2
      <4>3. QED
        BY <4>1, <4>2
    <3>6. ASSUME NEW d \in {"hold", "stick"}, d \in input'.held \cup input'.moves
          PROVE  parts'.owner[d] # NoFinger
      BY <1>0, <3>2, <3>3, <3>6 DEF ControlNames
    <3>7. user'.alone # NoFinger =>
            /\ parts'.owner["tap"] = user'.alone
            /\ \A g \in Finger : user'.on[g] = "tap" => g = user'.alone
      BY <2>6, <3>2 DEF ControlNames
    <3>8. QED
      BY <3>4, <3>5, <3>6, <3>7
  <2>7. QED
    BY <2>4, <2>5
<1>2. CASE I!PointerMove(f, c, inside)
  <2>1. /\ user.on[f] = c /\ parts.owner[c] = f /\ UNCHANGED <<parts, user, asked>>
        /\ \/ c = "hold" /\ input' = I!SetAction(input, "hold", inside)
           \/ c = "stick" /\ input' = I!SetMove(input, "stick", inside)
           \/ input' = input
    BY <1>2 DEF I!PointerMove, I!Owns
  <2>2. /\ input' \in Inputs /\ input'.presses = input.presses
        /\ input'.held \subseteq input.held \cup {c} /\ input'.moves \subseteq input.moves \cup {c}
    BY <1>0, <2>1 DEF I!SetAction, I!SetMove, Inputs
  <2>3. QED
    BY <1>0, <2>1, <2>2
<1>3. ASSUME I!PointerUp(f, c, inside, click) \/ I!PointerCancel(f, c)
      PROVE  InputOK'
  <2>0. PICK gone \in BOOLEAN : gone = I!LetsGo(f, c)
    BY DEF I!LetsGo, I!Owns
  <2>1. user.on[f] = c /\ user' = I!Lifted(f)
    BY <1>3 DEF I!PointerUp, I!PointerCancel
  <2>2. /\ user' \in Users /\ user'.key = user.key /\ user'.focus = user.focus
        /\ \A g \in Finger : user'.on[g] = IF g = f THEN "nothing" ELSE user.on[g]
        /\ user'.alone = IF user.alone = f THEN NoFinger ELSE user.alone
    BY <1>0, <2>1 DEF Users, I!Lifted
  <2>3. parts.owner[c] = f => gone
    BY <2>0 DEF I!LetsGo, I!Owns
  <2>4. /\ parts' \in Parts /\ parts'.shown = parts.shown
        /\ \A d \in ControlNames : parts'.owner[d] = IF d = c /\ gone THEN NoFinger ELSE parts.owner[d]
        /\ input' \in Inputs
        /\ input'.held = IF gone THEN input.held \ {c} ELSE input.held
        /\ input'.moves = IF gone THEN input.moves \ {c} ELSE input.moves
        /\ asked' \in Requests /\ CountsOK'
    <3>1. CASE I!PointerUp(f, c, inside, click)
      <4>1. PICK pulses \in BOOLEAN, suppress \in BOOLEAN, onTap \in BOOLEAN :
              /\ pulses = (c = "tap" /\ inside /\ I!Owns(f, c))
              /\ suppress = (parts.suppress \/ pulses)
              /\ onTap = (c = "tap" /\ (inside \/ click))
        BY DEF I!Owns
      <4>2. PICK released, left : /\ released = IF pulses THEN I!Pulse(input) ELSE input
                                  /\ left = IF gone THEN I!ClearSource(released, c) ELSE released
        OBVIOUS
      <4>3. /\ click => c = "tap"
            /\ parts' = [parts EXCEPT !.owner[c] = IF gone THEN NoFinger ELSE @, !.suppress = suppress /\ ~click]
            /\ input' = IF click THEN I!Clicked(left, suppress) ELSE left
            /\ asked' = I!Asked(c = "tap" /\ inside /\ user.alone = f, onTap)
        BY <3>1, <2>0, <4>1, <4>2 DEF I!PointerUp
      <4>4. /\ released \in Inputs /\ released.held = input.held /\ released.moves = input.moves
            /\ released.presses = IF pulses THEN input.presses + 1 ELSE input.presses
        BY <1>0, <4>2, PulseSteps
      <4>5. /\ left \in Inputs /\ left.presses = released.presses
            /\ left.held = IF gone THEN input.held \ {c} ELSE input.held
            /\ left.moves = IF gone THEN input.moves \ {c} ELSE input.moves
        <5>1. CASE gone
          BY <4>2, <4>4, <5>1, ClearSteps
        <5>2. CASE ~gone
          BY <4>2, <4>4, <5>2
        <5>3. QED
          BY <5>1, <5>2
      <4>6. /\ input' \in Inputs /\ input'.held = left.held /\ input'.moves = left.moves
            /\ input'.presses = IF click /\ ~suppress THEN left.presses + 1 ELSE left.presses
        BY <4>3, <4>5, PulseSteps DEF I!Clicked
      <4>7. PICK sure \in BOOLEAN : sure = (c = "tap" /\ inside /\ user.alone = f)
        OBVIOUS
      <4>8. sure => pulses
        BY <1>0, <4>1, <4>7 DEF I!Owns
      <4>9. /\ asked' \in Requests
            /\ asked'.least = IF sure THEN asked.least + 1 ELSE asked.least
            /\ asked'.most = IF onTap THEN asked.most + 1 ELSE asked.most
        BY <1>0, <4>3, <4>7, AskedSteps
      <4>10. (pulses => onTap /\ suppress) /\ (click => onTap)
        BY <4>1, <4>3
      <4>11. asked.least \in Nat /\ asked.most \in Nat
        BY <1>0 DEF Requests
      <4>12. CountsOK'
        BY <1>0, <4>4, <4>5, <4>6, <4>8, <4>9, <4>10, <4>11
      <4>13. /\ parts' \in Parts /\ parts'.shown = parts.shown
             /\ \A d \in ControlNames : parts'.owner[d] = IF d = c /\ gone THEN NoFinger ELSE parts.owner[d]
        BY <1>0, <4>3 DEF Parts
      <4>14. QED
        BY <4>5, <4>6, <4>9, <4>12, <4>13
    <3>2. CASE I!PointerCancel(f, c)
      <4>1. CASE gone
        <5>1. parts' = [parts EXCEPT !.owner[c] = NoFinger] /\ input' = I!ClearSource(input, c) /\ asked' = asked
          BY <2>0, <3>2, <4>1 DEF I!PointerCancel
        <5>2. /\ parts' \in Parts /\ parts'.shown = parts.shown
              /\ \A d \in ControlNames : parts'.owner[d] = IF d = c THEN NoFinger ELSE parts.owner[d]
          BY <1>0, <5>1 DEF Parts
        <5>3. QED
          BY <1>0, <4>1, <5>1, <5>2, ClearSteps
      <4>2. CASE ~gone
        BY <1>0, <2>0, <3>2, <4>2 DEF I!PointerCancel
      <4>3. QED
        BY <4>1, <4>2
    <3>3. QED
      BY <1>3, <3>1, <3>2
  <2>5. InputTypes' /\ KeysOK' /\ CountsOK'
    BY <1>0, <2>2, <2>4
  <2>6. ASSUME NEW d \in ControlNames, parts'.owner[d] # NoFinger
        PROVE  parts'.shown /\ parts'.owner[d] \in Finger /\ user'.on[parts'.owner[d]] = d
    BY <2>1, <2>2, <2>3, <2>4, <2>6
  <2>7. ASSUME NEW d \in {"hold", "stick"}, d \in input'.held \cup input'.moves
        PROVE  parts'.owner[d] # NoFinger
    <3>1. d \in ControlNames
      BY DEF ControlNames
    <3>2. QED
      BY <2>4, <2>7, <3>1
  <2>8. ASSUME user'.alone # NoFinger
        PROVE  /\ parts'.owner["tap"] = user'.alone
               /\ \A g \in Finger : user'.on[g] = "tap" => g = user'.alone
    <3>1. user'.alone = user.alone /\ user.alone # f /\ user.alone # NoFinger
      BY <2>2, <2>8
    <3>2. parts.owner["tap"] = user.alone /\ \A g \in Finger : user.on[g] = "tap" => g = user.alone
      BY <3>1
    <3>3. c # "tap"
      BY <2>1, <3>1, <3>2
    <3>4. QED
      BY <2>2, <2>4, <3>1, <3>2, <3>3 DEF ControlNames
  <2>9. QED
    BY <2>5, <2>6, <2>7, <2>8
<1>4. QED
  BY <1>1, <1>2, <1>3

LEMMA ControlSteps ==
    ASSUME InputOK, I!HideControls \/ I!ShowControls
    PROVE  InputOK'
<1> USE DEF InputOK, InputTypes, KeysOK, PointersOK, CountsOK
<1>0. /\ input \in Inputs /\ user \in Users /\ parts \in Parts
      /\ I!NoParts \in Parts /\ I!NoParts.shown /\ \A c \in ControlNames : I!NoParts.owner[c] = NoFinger
  BY DEF Inputs, Parts, I!NoParts, I!Control, ControlNames
<1>1. CASE I!HideControls
  <2>1. /\ parts' = [I!NoParts EXCEPT !.shown = FALSE] /\ asked' = asked
        /\ user' = [user EXCEPT !.focus = IF @ \in {"hold", "tap"} THEN "page" ELSE @,
                                !.on = [f \in Finger |-> "nothing"], !.captured = {}, !.alone = NoFinger]
        /\ input' = I!ClearSource(I!ClearSource(I!ClearSource(input, "hold"), "hold:keyboard"), "stick")
    BY <1>1 DEF I!HideControls
  <2>2. parts' \in Parts /\ \A c \in ControlNames : parts'.owner[c] = NoFinger
    BY <1>0, <2>1 DEF Parts
  <2>3. /\ user' \in Users /\ user'.key = user.key
        /\ user'.focus = "away" => user.focus = "away"
        /\ user'.alone = NoFinger
    BY <1>0, <2>1 DEF Users
  <2>4. PICK one \in Inputs : /\ one = I!ClearSource(input, "hold") /\ one.presses = input.presses
                              /\ one.held = input.held \ {"hold"} /\ one.moves = input.moves \ {"hold"}
    BY <1>0, ClearSteps
  <2>5. PICK two \in Inputs : /\ two = I!ClearSource(one, "hold:keyboard") /\ two.presses = one.presses
                              /\ two.held = one.held \ {"hold:keyboard"}
                              /\ two.moves = one.moves \ {"hold:keyboard"}
    BY ClearSteps
  <2>6. /\ input' \in Inputs /\ input'.presses = two.presses
        /\ input'.held = two.held \ {"stick"} /\ input'.moves = two.moves \ {"stick"}
    BY <2>1, <2>4, <2>5, ClearSteps
  <2>7. QED
    BY <2>1, <2>2, <2>3, <2>4, <2>5, <2>6
<1>2. CASE I!ShowControls
  <2>1. ~parts.shown /\ parts' = I!NoParts /\ UNCHANGED <<input, user, asked>>
    BY <1>2 DEF I!ShowControls
  <2>2. /\ \A c \in ControlNames : parts.owner[c] = NoFinger
        /\ user.alone = NoFinger
    BY <2>1 DEF ControlNames
  <2>3. QED
    BY <1>0, <2>1, <2>2 DEF ControlNames
<1>3. QED
  BY <1>1, <1>2

LEMMA InputInit == Init => InputOK
<1> SUFFICES ASSUME I!Init
             PROVE  InputOK
  BY DEF Init
<1>1. /\ user \in Users /\ user.alone = NoFinger
      /\ parts \in Parts /\ \A c \in ControlNames : parts.owner[c] = NoFinger
  BY DEF I!Init, I!Untouched, I!NoParts, I!Control, Users, Parts, ControlNames
<1>2. QED
  BY <1>1, NothingHeld, NothingAsked DEF I!Init, InputOK, InputTypes, KeysOK, PointersOK, CountsOK, ControlNames

LEMMA InputStep == InputOK /\ [Next]_vars => InputOK'
<1> SUFFICES ASSUME InputOK, [Next]_vars
             PROVE  InputOK'
  OBVIOUS
<1>1. CASE UNCHANGED inputVars
  BY <1>1 DEF inputVars, InputOK, InputTypes, KeysOK, PointersOK, CountsOK
<1>2. CASE I!Next
  <2>1. CASE \E f \in Finger, c \in I!Control :
               \/ I!PointerCancel(f, c)
               \/ \E touch \in BOOLEAN : I!PointerDown(f, c, touch)
               \/ \E inside \in BOOLEAN : I!PointerMove(f, c, inside)
               \/ \E inside, click \in BOOLEAN : I!PointerUp(f, c, inside, click)
    <3>1. I!Control = ControlNames
      BY DEF I!Control, ControlNames
    <3>2. PICK f \in Finger, c \in ControlNames :
               \/ I!PointerCancel(f, c)
               \/ \E touch \in BOOLEAN : I!PointerDown(f, c, touch)
               \/ \E inside \in BOOLEAN : I!PointerMove(f, c, inside)
               \/ \E inside, click \in BOOLEAN : I!PointerUp(f, c, inside, click)
      BY <2>1, <3>1
    <3>3. PICK inside \in BOOLEAN, click \in BOOLEAN, touch \in BOOLEAN :
               \/ I!PointerDown(f, c, touch) \/ I!PointerCancel(f, c)
               \/ I!PointerMove(f, c, inside) \/ I!PointerUp(f, c, inside, click)
      BY <3>2
    <3>4. QED
      BY <3>3, PointerSteps
  <2>2. QED
    BY <1>2, <2>1, KeySteps, ControlSteps DEF I!Next
<1>3. QED
  BY <1>1, <1>2, InputFrame

\* Types of the shared input, and what each source stands for: a key is down in a window that is not
\* away, the held button's key is down with the focus on it, a control in use is on the screen and
\* under the finger that owns it.
THEOREM InputInvariance == Spec => []InputOK
BY InputInit, InputStep, PTL DEF Spec

\* What a game takes as held is physically down, for any number of fingers, through releases while
\* the window is away, lost captures and controls that vanish (semanticInput.ts:106-122).
THEOREM HeldIsReallyDown == Spec => []HeldIsDown
<1>1. InputOK => HeldIsDown
  BY DEF InputOK, InputTypes, Parts, KeysOK, PointersOK, ControlNames, HeldIsDown, I!HeldIsDown, I!Owns
<1>2. QED
  BY <1>1, InputInvariance, PTL

\* A finger that has the pressed button to itself is never swallowed, and no release is counted again as
\* the click that comes with it, for any number of fingers that take the button from each other, clicks
\* that come late and captures that are lost (ActionButton.tsx:69-163).
THEOREM PressesCountOnce == Spec => []EveryPressCountsOnce
<1>1. InputOK => EveryPressCountsOnce
  BY DEF InputOK, CountsOK, EveryPressCountsOnce, I!EveryPressCountsOnce
<1>2. QED
  BY <1>1, InputInvariance, PTL

-------------------------------------------------------------------------------
(***************************************************************************)
(* Monster Color Rush: why a run has ended.                                *)
(***************************************************************************)
RushPanels == {"ready", "none", "rest", "win", "game-over"}

RushRecords ==
    [mode : {"ready", "wave", "rest", "win", "game-over"}, wave : 1 .. Waves, timer : Int,
     health : 0 .. MaxHealth, found : 0 .. Required, bad : 0 .. Hazards, cool : BOOLEAN,
     ended : {"no", "health", "timeout", "caught"}, panel : RushPanels, shown : RushPanels,
     presses : 0 .. MaxPresses]

\* What the mode of a run says of its health, its shapes and its time, once a frame is over.
RunOK(s) ==
    /\ s.mode \in {"ready", "wave", "rest", "win"} => s.ended = "no"
    /\ s.mode = "wave" => s.health > 0 /\ s.found < Required /\ s.timer > 0
    /\ s.mode = "rest" => s.health > 0 /\ s.found = Required /\ s.wave < Waves
    /\ s.mode = "win" => s.health > 0 /\ s.found = Required /\ s.wave = Waves
    /\ s.mode = "game-over" => /\ s.found < Required
                               /\ s.ended = "health" <=> s.health = 0
                               /\ s.ended = "timeout" => s.timer = 0

RushOK == rush # R!Off => rush \in RushRecords /\ RunOK(rush)

LEMMA RushConstants ==
    /\ MaxHealth \in Nat /\ Required \in Nat /\ Waves \in Nat /\ WaveTime \in Nat
    /\ MaxHealth > 0 /\ Required > 0 /\ Waves > 0 /\ WaveTime > 0
    /\ Hazards \in Nat /\ RestTime \in Nat /\ MaxPresses \in Nat
BY ArcadeAssumption

LEMMA BegunRun ==
    ASSUME NEW s \in RushRecords
    PROVE  R!BegunWave(s) \in RushRecords /\ RunOK(R!BegunWave(s))
<1>1. PICK t, u, v, w :
        /\ t = [s EXCEPT !.mode = "wave", !.timer = WaveTime]
        /\ u = [t EXCEPT !.health = MaxHealth, !.found = 0]
        /\ v = [u EXCEPT !.bad = Hazards, !.cool = FALSE]
        /\ w = [v EXCEPT !.ended = "no", !.panel = "none"]
  OBVIOUS
<1>2. R!BegunWave(s) = w
  BY <1>1 DEF R!BegunWave
<1>3. t \in RushRecords /\ t.mode = "wave" /\ t.timer = WaveTime
  <2>1. WaveTime \in Int
    BY RushConstants
  <2>2. QED
    BY ONLY <1>1, <2>1, s \in RushRecords DEF RushRecords
<1>4. u \in RushRecords /\ u.mode = "wave" /\ u.timer = WaveTime /\ u.health = MaxHealth /\ u.found = 0
  <2>1. MaxHealth \in 0 .. MaxHealth /\ 0 \in 0 .. Required
    BY RushConstants
  <2>2. QED
    BY ONLY <1>1, <1>3, <2>1 DEF RushRecords
<1>5. v \in RushRecords /\ v.mode = "wave" /\ v.timer = WaveTime /\ v.health = MaxHealth /\ v.found = 0
  <2>1. Hazards \in 0 .. Hazards
    BY RushConstants
  <2>2. QED
    BY ONLY <1>1, <1>4, <2>1 DEF RushRecords
<1>6. /\ w \in RushRecords /\ w.mode = "wave" /\ w.ended = "no" /\ w.health = MaxHealth
      /\ w.found = 0 /\ w.timer = WaveTime
  <2>1. w = [v EXCEPT !.ended = "no", !.panel = "none"]
    BY <1>1
  <2>2. QED
    BY ONLY <1>5, <2>1 DEF RushRecords, RushPanels
<1>7. RunOK(w)
  BY <1>6, RushConstants DEF RunOK
<1>8. QED
  BY <1>2, <1>6, <1>7

LEMMA StartedRun ==
    ASSUME NEW s \in RushRecords
    PROVE  R!Started(s) \in RushRecords /\ RunOK(R!Started(s))
<1>1. [s EXCEPT !.wave = 1] \in RushRecords
  BY RushConstants DEF RushRecords
<1>2. QED
  BY <1>1, BegunRun DEF R!Started

LEMMA ConsumedRun ==
    ASSUME NEW s \in RushRecords, RunOK(s)
    PROVE  R!Consumed(s) \in RushRecords /\ RunOK(R!Consumed(s))
<1>1. CASE s.presses = 0
  BY <1>1 DEF R!Consumed
<1>2. CASE s.presses # 0
  <2>1. PICK t : t = [s EXCEPT !.presses = @ - 1]
    OBVIOUS
  <2>2. t \in RushRecords /\ RunOK(t)
    BY <1>2, <2>1, RushConstants DEF RushRecords, RunOK
  <2>3. R!Consumed(s) \in {t, R!Started(t)}
    BY <1>2, <2>1 DEF R!Consumed
  <2>4. QED
    BY <2>2, <2>3, StartedRun
<1>3. QED
  BY <1>1, <1>2

\* A wave in which a frame goes on, and whatever the frame makes of it.
InWave(s) ==
    /\ s \in RushRecords /\ s.mode = "wave" /\ s.ended = "no"
    /\ s.health > 0 /\ s.found < Required /\ s.timer >= 0

Judged(s) == s \in RushRecords /\ (InWave(s) \/ (s.mode # "wave" /\ RunOK(s)))

LEMMA ChasedRun ==
    ASSUME NEW s, InWave(s), NEW t \in R!Chased(s)
    PROVE  Judged(t)
<1>1. PICK cool \in {s.cool, FALSE} :
        t \in {[s EXCEPT !.cool = cool]}
                \cup (IF cool THEN {} ELSE {R!GameOver([s EXCEPT !.cool = cool], "caught")})
  BY DEF R!Chased
<1>2. cool \in BOOLEAN
  BY <1>1 DEF InWave, RushRecords
<1>3. PICK u : u = [s EXCEPT !.cool = cool]
  OBVIOUS
<1>4. InWave(u)
  BY <1>2, <1>3 DEF InWave, RushRecords
<1>5. t = u \/ t = R!GameOver(u, "caught")
  BY <1>1, <1>3
<1>6. CASE t = u
  BY <1>4, <1>6 DEF Judged, InWave
<1>7. CASE t = R!GameOver(u, "caught")
  <2>1. /\ t \in RushRecords /\ t.mode = "game-over" /\ t.ended = "caught" /\ t.found = u.found
        /\ t.health = u.health
    BY <1>4, <1>7 DEF R!GameOver, InWave, RushRecords, RushPanels
  <2>2. QED
    BY <1>4, <2>1 DEF Judged, InWave, RunOK
<1>8. QED
  BY <1>5, <1>6, <1>7

LEMMA TouchedRun ==
    ASSUME NEW s, Judged(s), NEW t \in R!Touched(s)
    PROVE  Judged(t)
<1>1. CASE s.mode # "wave"
  BY <1>1 DEF R!Touched
<1>2. CASE s.mode = "wave"
  <2>0. InWave(s)
    BY <1>2 DEF Judged
  <2>1. PICK good \in 0 .. Required - s.found, bad \in 0 .. s.bad : t = R!TouchedSome(s, good, bad)
    BY <1>2 DEF R!Touched
  <2>2. PICK g : g = [s EXCEPT !.found = @ + good]
    OBVIOUS
  <2>3. /\ g \in RushRecords /\ g.mode = "wave" /\ g.ended = "no" /\ g.health > 0 /\ g.timer >= 0
        /\ g.found = s.found + good /\ g.health = s.health /\ g.bad = s.bad /\ g.cool = s.cool
    BY <2>0, <2>1, <2>2, RushConstants DEF InWave, RushRecords
  <2>4. CASE good > 0 /\ g.found = Required
    <3>1. t = R!FinishedWave(g)
      BY <2>1, <2>2, <2>4 DEF R!TouchedSome
    <3>2. CASE g.wave >= Waves
      <4>1. /\ t \in RushRecords /\ t.mode = "win" /\ t.ended = "no" /\ t.found = Required
            /\ t.health > 0 /\ t.wave = g.wave /\ g.wave \in 1 .. Waves
        BY <2>3, <2>4, <3>1, <3>2, RushConstants DEF R!FinishedWave, RushRecords, RushPanels
      <4>2. QED
        BY <3>2, <4>1, RushConstants DEF Judged, RunOK
    <3>3. CASE ~(g.wave >= Waves)
      <4>1. /\ t \in RushRecords /\ t.mode = "rest" /\ t.ended = "no" /\ t.found = Required
            /\ t.health > 0 /\ t.wave = g.wave /\ g.wave \in 1 .. Waves
        <5>1. t = [g EXCEPT !.mode = "rest", !.timer = RestTime, !.panel = "rest"]
          BY <3>1, <3>3 DEF R!FinishedWave
        <5>2. RestTime \in Int
          BY RushConstants
        <5>3. QED
          BY ONLY <2>3, <2>4, <5>1, <5>2 DEF RushRecords, RushPanels
      <4>2. QED
        BY <3>3, <4>1, RushConstants DEF Judged, RunOK
    <3>4. QED
      BY <3>2, <3>3
  <2>5. CASE ~(good > 0 /\ g.found = Required)
    <3>1. PICK wrong : wrong = IF bad < g.health THEN bad ELSE g.health
      OBVIOUS
    <3>2. PICK u : u = [g EXCEPT !.health = @ - wrong, !.bad = @ - wrong, !.cool = @ \/ wrong > 0]
      OBVIOUS
    <3>3. t = IF u.health <= 0 THEN R!GameOver(u, "health") ELSE u
      BY <2>1, <2>2, <2>5, <3>1, <3>2 DEF R!TouchedSome
    <3>4. wrong \in 0 .. g.health /\ wrong <= g.bad /\ g.health \in 0 .. MaxHealth /\ g.bad \in 0 .. Hazards
      BY <2>1, <2>3, <3>1, RushConstants DEF RushRecords
    <3>5. g.found < Required
      BY <2>0, <2>1, <2>3, <2>5, RushConstants DEF InWave, RushRecords
    <3>6. g.health - wrong \in 0 .. MaxHealth /\ g.bad - wrong \in 0 .. Hazards /\ (g.cool \/ wrong > 0) \in BOOLEAN
      BY <3>4, RushConstants
    <3>7. /\ u \in RushRecords /\ u.mode = "wave" /\ u.ended = "no" /\ u.timer >= 0 /\ u.found < Required
      BY <2>3, <3>2, <3>5, <3>6 DEF RushRecords
    <3>8. CASE u.health <= 0
      <4>1. t = R!GameOver(u, "health") /\ u.health = 0
        BY <3>3, <3>7, <3>8, RushConstants DEF RushRecords
      <4>2. QED
        BY <3>7, <4>1 DEF R!GameOver, Judged, RunOK, RushRecords, RushPanels
    <3>9. CASE ~(u.health <= 0)
      BY <3>3, <3>7, <3>9, RushConstants DEF Judged, InWave, RushRecords
    <3>10. QED
      BY <3>8, <3>9
  <2>6. QED
    BY <2>4, <2>5
<1>3. QED
  BY <1>1, <1>2

LEMMA TimedOutRun ==
    ASSUME NEW s, Judged(s)
    PROVE  R!TimedOut(s) \in RushRecords /\ RunOK(R!TimedOut(s))
<1>1. CASE s.mode = "wave" /\ s.timer <= 0
  <2>1. PICK t : t = R!TimedOut(s)
    OBVIOUS
  <2>2. InWave(s)
    BY <1>1 DEF Judged
  <2>3. /\ t \in RushRecords /\ t.mode = "game-over" /\ t.ended = "timeout" /\ t.found = s.found
        /\ t.health = s.health /\ t.timer = 0
    <3>1. t = R!GameOver(s, "timeout") /\ s.timer = 0
      BY <1>1, <2>1, <2>2 DEF R!TimedOut, InWave, RushRecords
    <3>2. QED
      BY <2>2, <3>1 DEF R!GameOver, InWave, RushRecords, RushPanels
  <2>4. QED
    BY <2>1, <2>2, <2>3 DEF InWave, RunOK
<1>2. CASE ~(s.mode = "wave" /\ s.timer <= 0)
  BY <1>2 DEF R!TimedOut, Judged, InWave, RunOK, RushRecords
<1>3. QED
  BY <1>1, <1>2

LEMMA UpdatedRun ==
    ASSUME NEW s \in RushRecords, RunOK(s), NEW next \in R!Updated(s)
    PROVE  next \in RushRecords /\ RunOK(next)
<1>1. PICK t : t = [s EXCEPT !.timer = @ - 1]
  OBVIOUS
<1>2. t \in RushRecords /\ t.mode = s.mode
  BY <1>1 DEF RushRecords
<1>3. CASE s.mode = "wave"
  <2>1. InWave(t)
    BY <1>1, <1>3 DEF InWave, RunOK, RushRecords
  <2>2. PICK v \in R!Chased(t) : \E u \in R!Touched(v) : next = R!TimedOut(u)
    BY <1>1, <1>3 DEF R!Updated
  <2>5. PICK u \in R!Touched(v) : next = R!TimedOut(u)
    BY <2>2
  <2>3. Judged(u)
    BY <2>1, <2>2, <2>5, ChasedRun, TouchedRun
  <2>4. QED
    BY <2>5, <2>3, TimedOutRun
<1>4. CASE s.mode = "rest"
  <2>1. next = IF t.timer <= 0 THEN R!BegunWave([t EXCEPT !.wave = @ + 1]) ELSE t
    BY <1>1, <1>4 DEF R!Updated
  <2>2. [t EXCEPT !.wave = @ + 1] \in RushRecords
    <3>1. t.wave + 1 \in 1 .. Waves
      BY <1>1, <1>4, RushConstants DEF RunOK, RushRecords
    <3>2. QED
      BY <1>2, <3>1 DEF RushRecords
  <2>3. RunOK(t)
    BY <1>1, <1>4 DEF RunOK, RushRecords
  <2>4. QED
    BY <1>2, <2>1, <2>2, <2>3, BegunRun
<1>5. CASE s.mode \notin {"wave", "rest"}
  BY <1>5 DEF R!Updated
<1>6. QED
  BY <1>3, <1>4, <1>5

LEMMA RushInit == Init => RushOK
BY DEF Init, R!Init, RushOK

LEMMA RushFrame == [Next]_vars => UNCHANGED rush \/ R!Next
BY DEF Next, On, vars

LEMMA RushStep == RushOK /\ [Next]_vars => RushOK'
<1> SUFFICES ASSUME RushOK, [Next]_vars
             PROVE  RushOK'
  OBVIOUS
<1>1. CASE UNCHANGED rush
  BY <1>1 DEF RushOK
<1>2. CASE R!Mount
  <2>1. rush' = R!Ready
    BY <1>2 DEF R!Mount
  <2>2. R!Ready \in RushRecords /\ RunOK(R!Ready)
    BY RushConstants DEF R!Ready, RushRecords, RushPanels, RunOK
  <2>3. QED
    BY <2>1, <2>2 DEF RushOK
<1>3. CASE R!Leave
  BY <1>3 DEF R!Leave, RushOK
<1>4. ASSUME rush # R!Off, rush \in RushRecords, RunOK(rush)
      PROVE  /\ R!Frame => RushOK'
             /\ R!PressStart => RushOK'
             /\ R!Draw => RushOK'
             /\ R!ClickStart => RushOK'
  <2>1. R!Frame => RushOK'
    BY <1>4, ConsumedRun, UpdatedRun DEF R!Frame, RushOK
  <2>2. R!PressStart => RushOK'
    BY <1>4, RushConstants DEF R!PressStart, RushOK, RushRecords, RunOK
  <2>3. R!Draw => RushOK'
    BY <1>4 DEF R!Draw, RushOK, RushRecords, RunOK
  <2>4. R!ClickStart => RushOK'
    BY <1>4, StartedRun DEF R!ClickStart, RushOK
  <2>5. QED
    BY <2>1, <2>2, <2>3, <2>4
<1>5. QED
  BY <1>1, <1>2, <1>3, <1>4, RushFrame DEF R!Next, R!Frame, R!PressStart, R!Draw, R!ClickStart, R!Mounted, RushOK

\* The inductive invariant of Monster Color Rush: what each mode of a run says of its health, its
\* shapes, its wave and its time (MonsterColorRushGame.tsx:200-276, 363-390).
THEOREM RushInvariance == Spec => []RushOK
BY RushInit, RushStep, PTL DEF Spec

\* A run ends for the reason the player is told, and a wave goes on for as long as none holds, for any
\* health, shapes, waves and times (MonsterColorRushGame.tsx:363-390).
THEOREM RunsEndForOneReason == Spec => []RunEndsForOneReason
<1>1. RushOK => RunEndsForOneReason
  BY RushConstants DEF RushOK, RunOK, RushRecords, RunEndsForOneReason, R!RunEndsForOneReason, R!Mounted
<1>2. QED
  BY <1>1, RushInvariance, PTL

-------------------------------------------------------------------------------
(***************************************************************************)
(* Bit Planes: what a bullet and a life are good for.                      *)
(***************************************************************************)
PlaneRecords ==
    [lives : 0 .. Lives, down : Nat, fired : Nat, spawned : Nat, bullets : Nat, shots : Nat, enemies : Nat,
     far : Nat, wait : Nat, spawn : Nat, gun : Nat, prompt : BOOLEAN, fire : BOOLEAN, restart : BOOLEAN]

\* Every hit has cost a bullet and an enemy, and the enemies placed too far away are among all.
RoundOK(s) ==
    /\ s \in PlaneRecords
    /\ s.down + s.bullets <= s.fired
    /\ s.down + s.enemies <= s.spawned
    /\ s.far <= s.enemies

PlanesOK == planes # P!Off => RoundOK(planes)

\* A part of a frame that does not hurt the player.
Unhurt(s, t) == RoundOK(t) /\ t.lives = s.lives /\ t.wait = s.wait

\* What a frame may do to the player.
Hurt(s, t) ==
    /\ RoundOK(t)
    /\ t.lives < s.lives => t.lives = s.lives - 1 /\ s.wait = 0

LEMMA PlaneConstants ==
    /\ Lives \in Nat /\ Lives > 0 /\ FirstEnemies \in Nat /\ FirstEnemies > 0 /\ PlaneRest \in Nat /\ PlaneRest > 0
    /\ MaxEnemies \in Nat /\ SpawnDelay \in Nat /\ FireDelay \in Nat /\ FirstFire \in Nat /\ MaxShots \in Nat
BY ArcadeAssumption

LEMMA NewRoundOK ==
    ASSUME NEW s, s.fire \in BOOLEAN, s.restart \in BOOLEAN
    PROVE  RoundOK(P!NewRound(s)) /\ P!NewRound(s).lives = Lives
BY PlaneConstants DEF P!NewRound, RoundOK, PlaneRecords

LEMMA TickedRound ==
    ASSUME NEW s, RoundOK(s)
    PROVE  RoundOK(P!Ticked(s)) /\ P!Ticked(s).lives = s.lives /\ P!Ticked(s).wait = P!Down(s.wait)
<1>1. PICK wait, spawn, gun : wait = P!Down(s.wait) /\ spawn = P!Down(s.spawn) /\ gun = P!Down(s.gun)
  OBVIOUS
<1>2. wait \in Nat /\ spawn \in Nat /\ gun \in Nat
  BY <1>1 DEF P!Down, RoundOK, PlaneRecords
<1>3. P!Ticked(s) = [s EXCEPT !.wait = wait, !.spawn = spawn, !.gun = gun]
  BY <1>1 DEF P!Ticked, RoundOK, PlaneRecords
<1>4. QED
  BY <1>1, <1>2, <1>3 DEF RoundOK, PlaneRecords

LEMMA FiredRound ==
    ASSUME NEW s, RoundOK(s)
    PROVE  Unhurt(s, P!FiredBullet(s))
<1>1. CASE ~s.fire
  BY <1>1 DEF P!FiredBullet, Unhurt
<1>2. CASE s.fire
  <2>1. PICK bullets, fired : bullets = s.bullets + 1 /\ fired = s.fired + 1
    OBVIOUS
  <2>2. bullets \in Nat /\ fired \in Nat /\ s.down + bullets <= fired
    BY <2>1 DEF RoundOK, PlaneRecords
  <2>3. P!FiredBullet(s) = [s EXCEPT !.fire = FALSE, !.bullets = bullets, !.fired = fired]
    BY <1>2, <2>1 DEF P!FiredBullet, RoundOK, PlaneRecords
  <2>4. QED
    BY <2>2, <2>3 DEF Unhurt, RoundOK, PlaneRecords
<1>3. QED
  BY <1>1, <1>2

LEMMA SpawnedRound ==
    ASSUME NEW s, RoundOK(s)
    PROVE  Unhurt(s, P!SpawnedEnemy(s))
<1>1. CASE s.enemies >= MaxEnemies \/ s.spawn > 0
  BY <1>1 DEF P!SpawnedEnemy, Unhurt
<1>2. CASE ~(s.enemies >= MaxEnemies \/ s.spawn > 0)
  <2>1. PICK enemies, spawned, spawn :
          enemies = s.enemies + 1 /\ spawned = s.spawned + 1 /\ spawn = SpawnDelay
    OBVIOUS
  <2>2. enemies \in Nat /\ spawned \in Nat /\ spawn \in Nat /\ s.far <= enemies /\ s.down + enemies <= spawned
    BY <2>1, PlaneConstants DEF RoundOK, PlaneRecords
  <2>3. P!SpawnedEnemy(s) = [s EXCEPT !.enemies = enemies, !.spawned = spawned, !.spawn = spawn]
    BY <1>2, <2>1 DEF P!SpawnedEnemy, RoundOK, PlaneRecords
  <2>4. QED
    BY <2>2, <2>3 DEF Unhurt, RoundOK, PlaneRecords
<1>3. QED
  BY <1>1, <1>2

LEMMA EnemyFiredRound ==
    ASSUME NEW s, RoundOK(s)
    PROVE  Unhurt(s, P!EnemyFired(s))
<1>1. CASE s.gun > 0 \/ s.enemies = 0
  BY <1>1 DEF P!EnemyFired, Unhurt
<1>2. CASE ~(s.gun > 0 \/ s.enemies = 0)
  <2>1. PICK n : n = IF s.shots < MaxShots THEN s.shots + 1 ELSE s.shots
    OBVIOUS
  <2>2. n \in Nat
    BY <2>1, PlaneConstants DEF RoundOK, PlaneRecords
  <2>3. P!EnemyFired(s) = [s EXCEPT !.shots = n, !.gun = FireDelay]
    BY <1>2, <2>1 DEF P!EnemyFired, RoundOK, PlaneRecords
  <2>4. QED
    BY <2>2, <2>3, PlaneConstants DEF Unhurt, RoundOK, PlaneRecords
<1>3. QED
  BY <1>1, <1>2

\* What the loops may have made of bullets and enemies: every hit counted is missing from both.
Fights(b, e) ==
    {c \in [bullets : SUBSET (1 .. b), enemies : SUBSET (1 .. e), hits : Nat] :
        Cardinality(c.bullets) + c.hits = b /\ Cardinality(c.enemies) + c.hits = e}

LEMMA ActiveAreFinite ==
    ASSUME NEW n \in Nat, NEW S \in SUBSET (1 .. n)
    PROVE  IsFiniteSet(S) /\ Cardinality(S) \in Nat
<1>1. IsFiniteSet(1 .. n)
  BY FS_Interval
<1>2. IsFiniteSet(S)
  BY <1>1, FS_Subset
<1>3. QED
  BY <1>2, FS_CardinalityType

\* One turn of the loops, whatever bullet and enemy it looks at.
LEMMA MetFights ==
    ASSUME NEW b \in Nat, NEW e \in Nat, NEW c \in Fights(b, e), NEW i, NEW j, NEW d \in P!Met(c, i, j)
    PROVE  d \in Fights(b, e)
<1>1. CASE d = c
  BY <1>1
<1>2. CASE d # c
  <2>1. i \in c.bullets /\ j \in c.enemies /\ d = P!Hit(c, i, j)
    BY <1>2 DEF P!Met
  <2>2. PICK bs \in SUBSET (1 .. b), es \in SUBSET (1 .. e), n \in Nat :
          /\ bs = c.bullets /\ es = c.enemies /\ n = c.hits
          /\ Cardinality(bs) + n = b /\ Cardinality(es) + n = e
    BY DEF Fights
  <2>3. PICK lessB, lessE : lessB = bs \ {i} /\ lessE = es \ {j}
    OBVIOUS
  <2>4. lessB \in SUBSET (1 .. b) /\ lessE \in SUBSET (1 .. e)
    BY <2>3
  <2>5. /\ IsFiniteSet(bs) /\ Cardinality(bs) \in Nat
        /\ IsFiniteSet(es) /\ Cardinality(es) \in Nat
    BY ActiveAreFinite
  <2>6. Cardinality(lessB) = Cardinality(bs) - 1 /\ Cardinality(lessE) = Cardinality(es) - 1
    BY <2>1, <2>2, <2>3, <2>5, FS_RemoveElement
  <2>7. d = [bullets |-> lessB, enemies |-> lessE, hits |-> n + 1]
    BY <2>1, <2>2, <2>3 DEF P!Hit
  <2>8. Cardinality(lessB) + (n + 1) = b /\ Cardinality(lessE) + (n + 1) = e /\ n + 1 \in Nat
    BY <2>2, <2>5, <2>6
  <2>9. QED
    BY <2>4, <2>7, <2>8 DEF Fights
<1>3. QED
  BY <1>1, <1>2

\* The loops, turn by turn.
LEMMA CombatsFights ==
    ASSUME NEW b \in Nat, NEW e \in Nat
    PROVE  P!Combats(b, e) \subseteq Fights(b, e)
<1> DEFINE size == b * e
           fresh == {[bullets |-> 1 .. b, enemies |-> 1 .. e, hits |-> 0]}
           Grown(n, q) == UNION {P!Met(c, 1 + ((n - 1) \div e), 1 + ((n - 1) % e)) : c \in q}
           step == [n \in 1 .. size |-> [q \in (SUBSET Fights(b, e)) |-> Grown(n, q)]]
           Rec(f) == [n \in 0 .. size |-> IF n = 0 THEN fresh
                        ELSE UNION {P!Met(c, 1 + ((n - 1) \div e), 1 + ((n - 1) % e)) : c \in f[n - 1]}]
<1>1. size \in Nat /\ fresh \in (SUBSET Fights(b, e))
  <2>1. Cardinality(1 .. b) = b /\ Cardinality(1 .. e) = e
    BY FS_Interval
  <2>2. QED
    BY <2>1 DEF Fights
<1>2. \A n \in 1 .. size, q \in (SUBSET Fights(b, e)) : Grown(n, q) \in (SUBSET Fights(b, e))
  BY MetFights
<1>3. PICK f \in [0 .. size -> (SUBSET Fights(b, e))] : Runs(f, size, fresh, step)
  <2> HIDE DEF Grown
  <2>1. step \in [1 .. size -> [(SUBSET Fights(b, e)) -> (SUBSET Fights(b, e))]]
    BY <1>2
  <2> HIDE DEF step, size, fresh
  <2>2. QED
    BY <1>1, <2>1, RecursionExists
<1>4. f[0] = fresh /\ \A n \in 1 .. size : f[n - 1] \in (SUBSET Fights(b, e)) /\ f[n] = Grown(n, f[n - 1])
  <2>1. f[0] = fresh
    BY <1>1, <1>3 DEF Runs
  <2>2. ASSUME NEW n \in 1 .. size
        PROVE  f[n - 1] \in (SUBSET Fights(b, e)) /\ f[n] = Grown(n, f[n - 1])
    <3> HIDE DEF Grown, fresh
    <3>1. f[n - 1] \in (SUBSET Fights(b, e))
      <4> HIDE DEF size
      <4>1. QED
        BY <1>1, <1>3
    <3>2. f[n] = step[n][f[n - 1]]
      <4> HIDE DEF step
      <4>1. QED
        BY <1>3 DEF Runs
    <3>3. step[n] = [q \in (SUBSET Fights(b, e)) |-> Grown(n, q)]
      OBVIOUS
    <3> HIDE DEF step
    <3>4. QED
      BY <3>1, <3>2, <3>3
  <2>3. QED
    BY <2>1, <2>2
<1>5. f = Rec(f)
  <2>1. f = [n \in 0 .. size |-> IF n = 0 THEN fresh ELSE Grown(n, f[n - 1])]
    <3> HIDE DEF Grown, fresh, size
    <3>1. QED
      BY <1>1, <1>3, <1>4
  <2>2. QED
    BY <2>1
<1> DEFINE h == CHOOSE h : h = Rec(h)
<1>6. h = Rec(h)
  BY <1>5
<1>7. P!Combats(b, e) = h[size]
  BY DEF P!Combats
<1> HIDE DEF h
<1>8. h[0] = fresh /\ \A n \in 1 .. size : h[n] = Grown(n, h[n - 1])
  <2>1. \A n \in 0 .. size : h[n] = Rec(h)[n]
    BY <1>6
  <2>2. 0 \in 0 .. size /\ \A n \in 1 .. size : n \in 0 .. size /\ n # 0
    <3> HIDE DEF size
    <3>1. QED
      BY <1>1
  <2> HIDE DEF size, fresh
  <2>3. QED
    BY <2>1, <2>2
<1> HIDE DEF Grown, Rec, size, fresh
<1>9. \A n \in 0 .. size : f[n] = h[n]
  <2>1. StepAlike(f, h, size)
    BY <1>4, <1>8 DEF StepAlike
  <2>2. QED
    BY <1>1, <2>1, SameValues
<1>10. size \in 0 .. size
  BY <1>1
<1>11. QED
  BY <1>3, <1>7, <1>9, <1>10

LEMMA ShotDownRound ==
    ASSUME NEW s, RoundOK(s), NEW t \in P!ShotDown(s)
    PROVE  Unhurt(s, t)
<1>1. PICK b, e : b = s.bullets /\ e = s.enemies - s.far
  OBVIOUS
<1>2. b \in Nat /\ e \in Nat
  BY <1>1 DEF RoundOK, PlaneRecords
<1>3. PICK c \in P!Combats(b, e) :
        t = [s EXCEPT !.bullets = Cardinality(c.bullets), !.enemies = s.far + Cardinality(c.enemies),
                      !.down = @ + c.hits]
  <2>1. \A S : P!Cardinality(S) = Cardinality(S)
    BY DEF P!Cardinality, Cardinality
  <2>2. QED
    BY <1>1, <2>1 DEF P!ShotDown
<1>4. c \in Fights(b, e)
  BY <1>2, CombatsFights
<1>5. PICK n \in Nat : /\ n = c.hits
                       /\ Cardinality(c.bullets) \in Nat /\ Cardinality(c.bullets) + n = b
                       /\ Cardinality(c.enemies) \in Nat /\ Cardinality(c.enemies) + n = e
  <2>1. /\ c.bullets \in SUBSET (1 .. b) /\ c.enemies \in SUBSET (1 .. e) /\ c.hits \in Nat
        /\ Cardinality(c.bullets) + c.hits = b /\ Cardinality(c.enemies) + c.hits = e
    BY <1>4 DEF Fights
  <2>2. QED
    BY <1>2, <2>1, ActiveAreFinite
<1>6. PICK bullets, enemies, more :
        bullets = Cardinality(c.bullets) /\ enemies = s.far + Cardinality(c.enemies) /\ more = s.down + n
  OBVIOUS
<1>7. /\ bullets \in Nat /\ enemies \in Nat /\ more \in Nat /\ s.far <= enemies
      /\ more + bullets = s.down + s.bullets /\ more + enemies = s.down + s.enemies
  BY <1>1, <1>2, <1>5, <1>6 DEF RoundOK, PlaneRecords
<1>8. t = [s EXCEPT !.bullets = bullets, !.enemies = enemies, !.down = more]
  BY <1>3, <1>5, <1>6 DEF RoundOK, PlaneRecords
<1>9. QED
  BY <1>7, <1>8 DEF Unhurt, RoundOK, PlaneRecords

LEMMA HitRound ==
    ASSUME NEW s, RoundOK(s)
    PROVE  /\ Hurt(s, P!HitPlayer(s))
           /\ P!HitPlayer(s).lives = s.lives \/ P!HitPlayer(s).wait > 0
           /\ P!HitPlayer(s).lives <= s.lives
           /\ P!HitPlayer(s).shots = s.shots /\ P!HitPlayer(s).enemies = s.enemies /\ P!HitPlayer(s).far = s.far
           /\ s.wait > 0 => P!HitPlayer(s) = s
<1>1. CASE P!GameOver(s) \/ s.wait > 0
  BY <1>1 DEF P!HitPlayer, Hurt, RoundOK, PlaneRecords
<1>2. CASE ~(P!GameOver(s) \/ s.wait > 0)
  <2>1. PICK lives, prompt, t : lives = s.lives - 1 /\ prompt = (s.lives = 1) /\ t = P!HitPlayer(s)
    OBVIOUS
  <2>2. lives \in 0 .. Lives /\ prompt \in BOOLEAN /\ s.wait = 0
    BY <1>2, <2>1, PlaneConstants DEF P!GameOver, RoundOK, PlaneRecords
  <2>3. t = [s EXCEPT !.lives = lives, !.wait = PlaneRest, !.prompt = prompt]
    BY <1>2, <2>1 DEF P!HitPlayer, RoundOK, PlaneRecords
  <2>4. /\ RoundOK(t) /\ t.lives = s.lives - 1 /\ t.wait > 0 /\ t.shots = s.shots /\ t.enemies = s.enemies
        /\ t.far = s.far
    BY <2>1, <2>2, <2>3, PlaneConstants DEF RoundOK, PlaneRecords
  <2>5. s.lives \in Int
    BY PlaneConstants DEF RoundOK, PlaneRecords
  <2>6. QED
    BY <2>1, <2>2, <2>4, <2>5 DEF Hurt
<1>3. QED
  BY <1>1, <1>2

LEMMA StruckRound ==
    ASSUME NEW s, RoundOK(s), NEW t \in P!Struck(s)
    PROVE  Hurt(s, t)
<1>1. PICK b \in 0 .. s.shots : \E r \in 0 .. s.enemies - s.far : t = P!StruckBy(s, b, r)
  BY DEF P!Struck
<1>2. PICK r \in 0 .. s.enemies - s.far : t = P!StruckBy(s, b, r)
  BY <1>1
<1>3. PICK one : one = IF b + r > 0 THEN P!HitPlayer(s) ELSE s
  OBVIOUS
<1>4. PICK two : two = IF b + r > 1 THEN P!HitPlayer(one) ELSE one
  OBVIOUS
<1>5. t = [two EXCEPT !.shots = @ - b, !.enemies = @ - r]
  BY <1>2, <1>3, <1>4 DEF P!StruckBy
<1>6. /\ Hurt(s, one) /\ (one.lives = s.lives \/ one.wait > 0)
      /\ one.shots = s.shots /\ one.enemies = s.enemies /\ one.far = s.far /\ one.lives <= s.lives
      /\ s.wait > 0 => one = s
  BY <1>3, HitRound DEF Hurt, RoundOK, PlaneRecords
<1>7. /\ Hurt(one, two)
      /\ two.shots = s.shots /\ two.enemies = s.enemies /\ two.far = s.far
      /\ one.wait > 0 => two = one
      /\ two.lives <= one.lives
  <2>1. RoundOK(one) /\ one.lives \in Int
    BY <1>6 DEF Hurt, RoundOK, PlaneRecords
  <2>2. CASE b + r > 1
    <3>1. two = P!HitPlayer(one)
      BY <1>4, <2>2
    <3>2. QED
      BY <1>6, <2>1, <3>1, HitRound
  <2>3. CASE ~(b + r > 1)
    BY <1>4, <1>6, <2>1, <2>3 DEF Hurt
  <2>4. QED
    BY <2>2, <2>3
<1>8. RoundOK(two) /\ (two.lives < s.lives => two.lives = s.lives - 1 /\ s.wait = 0)
  <2>1. s.lives \in Int /\ one.lives \in Int /\ two.lives \in Int /\ s.wait \in Nat /\ one.wait \in Nat
    BY <1>6, <1>7, PlaneConstants DEF Hurt, RoundOK, PlaneRecords
  <2>2. CASE one.lives = s.lives
    <3>1. one.wait = 0 => s.wait = 0
      BY <1>6, <2>1
    <3>2. QED
      BY <1>6, <1>7, <2>1, <2>2, <3>1 DEF Hurt
  <2>3. CASE one.lives # s.lives
    BY <1>6, <1>7, <2>1, <2>3 DEF Hurt
  <2>4. QED
    BY <2>2, <2>3
<1>9. PICK shots, enemies : shots = two.shots - b /\ enemies = two.enemies - r
  OBVIOUS
<1>10. shots \in Nat /\ enemies \in Nat /\ two.far <= enemies /\ two.down + enemies <= two.spawned
  BY <1>1, <1>2, <1>7, <1>8, <1>9 DEF RoundOK, PlaneRecords
<1>11. t = [two EXCEPT !.shots = shots, !.enemies = enemies]
  BY <1>5, <1>8, <1>9 DEF RoundOK, PlaneRecords
<1>12. RoundOK(t) /\ t.lives = two.lives
  BY <1>8, <1>10, <1>11 DEF RoundOK, PlaneRecords
<1>13. QED
  BY <1>8, <1>12 DEF Hurt

LEMMA CleanedUpRound ==
    ASSUME NEW s, RoundOK(s), NEW t \in P!CleanedUp(s)
    PROVE  Unhurt(s, t)
<1>1. PICK left \in (0 .. s.bullets) \X (0 .. s.shots) \X (0 .. s.enemies - s.far) :
        t = P!Left(s, left[1], left[2], left[3])
  BY DEF P!CleanedUp
<1>2. PICK b, m, e : b = left[1] /\ m = left[2] /\ e = left[3]
  OBVIOUS
<1>3. b \in 0 .. s.bullets /\ m \in 0 .. s.shots /\ e \in 0 .. s.enemies - s.far
  BY <1>2
<1>4. t = [s EXCEPT !.bullets = b, !.shots = m, !.enemies = e, !.far = 0]
  BY <1>1, <1>2 DEF P!Left
<1>5. b \in Nat /\ m \in Nat /\ e \in Nat /\ b <= s.bullets
  BY <1>3 DEF RoundOK, PlaneRecords
<1>6. PICK zero : zero = 0 /\ t = [s EXCEPT !.bullets = b, !.shots = m, !.enemies = e, !.far = zero]
  BY <1>4
<1>7. s \in PlaneRecords /\ s.down + b <= s.fired /\ s.down + e <= s.spawned /\ zero \in Nat /\ zero <= e
  BY <1>3, <1>5, <1>6 DEF RoundOK, PlaneRecords
<1>8. t \in PlaneRecords /\ t.lives = s.lives /\ t.wait = s.wait
  BY ONLY <1>5, <1>6, <1>7 DEF PlaneRecords
<1>9. /\ t.down = s.down /\ t.bullets = b /\ t.fired = s.fired /\ t.spawned = s.spawned /\ t.far = zero /\ t.enemies = e
  BY ONLY <1>6, <1>7 DEF PlaneRecords
<1>10. QED
  BY <1>7, <1>8, <1>9 DEF Unhurt, RoundOK

LEMMA UpdatedRound ==
    ASSUME NEW s, RoundOK(s), NEW next \in P!Updated(s)
    PROVE  RoundOK(next) /\ (next.lives < s.lives => next.lives = s.lives - 1 /\ s.wait <= 1)
<1>1. PICK t : t = P!Ticked(s)
  OBVIOUS
<1>2. RoundOK(t) /\ t.lives = s.lives /\ t.wait = P!Down(s.wait)
  BY <1>1, TickedRound
<1>3. s.lives \in Int /\ s.lives <= Lives /\ Lives \in Int /\ s.wait \in Nat
  BY PlaneConstants DEF RoundOK, PlaneRecords
<1>4. CASE P!GameOver(s)
  <2>0. PICK r : r = [t EXCEPT !.restart = FALSE]
    OBVIOUS
  <2>1. PICK u : u = IF s.restart THEN P!NewRound(r) ELSE t
    OBVIOUS
  <2>2. next \in P!CleanedUp(u)
    BY <1>1, <1>4, <2>0, <2>1 DEF P!Updated
  <2>3. r.fire \in BOOLEAN /\ r.restart \in BOOLEAN
    BY <1>2, <2>0 DEF RoundOK, PlaneRecords
  <2>4. RoundOK(u) /\ (u.lives = s.lives \/ u.lives = Lives)
    <3>1. CASE s.restart
      BY <2>1, <2>3, <3>1, NewRoundOK
    <3>2. CASE ~s.restart
      BY <1>2, <2>1, <3>2
    <3>3. QED
      BY <3>1, <3>2
  <2>5. QED
    BY <1>3, <2>2, <2>4, CleanedUpRound DEF Unhurt
<1>5. CASE ~P!GameOver(s)
  <2>1. PICK u : u = P!EnemyFired(P!SpawnedEnemy(P!FiredBullet(t)))
    OBVIOUS
  <2>2. RoundOK(u) /\ u.lives = t.lives /\ u.wait = t.wait
    BY <1>2, <2>1, FiredRound, SpawnedRound, EnemyFiredRound DEF Unhurt
  <2>3. next \in P!Then(P!Then(P!ShotDown(u), P!Struck), P!CleanedUp)
    BY <1>1, <1>5, <2>1 DEF P!Updated
  <2>4. PICK w \in P!Then(P!ShotDown(u), P!Struck) : next \in P!CleanedUp(w)
    BY <2>3 DEF P!Then
  <2>5. PICK v \in P!ShotDown(u) : w \in P!Struck(v)
    BY <2>4 DEF P!Then
  <2>6. RoundOK(v) /\ v.lives = t.lives /\ v.wait = t.wait
    BY <2>2, <2>5, ShotDownRound DEF Unhurt
  <2>7. RoundOK(w) /\ (w.lives < t.lives => w.lives = t.lives - 1 /\ t.wait = 0)
    BY <2>5, <2>6, StruckRound DEF Hurt
  <2>8. RoundOK(next) /\ next.lives = w.lives
    BY <2>4, <2>7, CleanedUpRound DEF Unhurt
  <2>9. t.wait = 0 => s.wait <= 1
    BY <1>2, <1>3 DEF P!Down
  <2>10. QED
    BY <1>2, <2>7, <2>8, <2>9
<1>6. QED
  BY <1>4, <1>5

OneLifeLost ==
    planes # P!Off /\ planes' # P!Off /\ planes'.lives < planes.lives
        => planes'.lives = planes.lives - 1 /\ planes.wait <= 1

LEMMA PlanesFrame == [Next]_vars => UNCHANGED planes \/ P!Next
BY DEF Next, On, vars

LEMMA KeyedRound ==
    ASSUME NEW s, RoundOK(s), NEW b \in BOOLEAN
    PROVE  /\ RoundOK([s EXCEPT !.fire = b]) /\ [s EXCEPT !.fire = b].lives = s.lives
           /\ RoundOK([s EXCEPT !.restart = b]) /\ [s EXCEPT !.restart = b].lives = s.lives
BY DEF RoundOK, PlaneRecords

LEMMA PlanesStep == PlanesOK /\ [Next]_vars => PlanesOK' /\ OneLifeLost
<1> SUFFICES ASSUME PlanesOK, [Next]_vars
             PROVE  PlanesOK' /\ OneLifeLost
  OBVIOUS
<1>0. planes # P!Off => planes.lives \in Int /\ planes.lives <= Lives
  BY PlaneConstants DEF PlanesOK, RoundOK, PlaneRecords
<1>1. CASE UNCHANGED planes
  <2>1. PlanesOK'
    BY <1>1 DEF PlanesOK
  <2>2. OneLifeLost
    BY <1>0, <1>1 DEF OneLifeLost
  <2>3. QED
    BY <2>1, <2>2
<1>2. CASE P!Mount
  <2>1. RoundOK(planes')
    <3>1. PICK s : s = [fire |-> FALSE, restart |-> FALSE]
      OBVIOUS
    <3>2. s.fire \in BOOLEAN /\ s.restart \in BOOLEAN /\ planes' = P!NewRound(s)
      BY <1>2, <3>1 DEF P!Mount
    <3>3. QED
      BY <3>2, NewRoundOK
  <2>2. QED
    BY <1>2, <2>1 DEF P!Mount, P!Mounted, PlanesOK, OneLifeLost
<1>3. CASE P!Leave
  BY <1>3 DEF P!Leave, PlanesOK, OneLifeLost
<1>4. CASE P!Frame
  <2>1. planes # P!Off /\ RoundOK(planes) /\ planes' \in P!Updated(planes)
    BY <1>4 DEF P!Frame, P!Mounted, PlanesOK
  <2>2. QED
    BY <2>1, UpdatedRound DEF PlanesOK, OneLifeLost
<1>5. CASE P!ClickPrompt
  <2>1. planes # P!Off /\ RoundOK(planes) /\ planes' = P!NewRound(planes)
    BY <1>5 DEF P!ClickPrompt, P!Mounted, PlanesOK
  <2>2. planes.fire \in BOOLEAN /\ planes.restart \in BOOLEAN
    BY <2>1 DEF RoundOK, PlaneRecords
  <2>3. RoundOK(planes') /\ planes'.lives = Lives
    BY <2>1, <2>2, NewRoundOK
  <2>4. QED
    BY <1>0, <2>1, <2>3, PlaneConstants DEF PlanesOK, OneLifeLost
<1>6. CASE P!PressFire \/ P!ReleaseFire \/ P!PressRestart \/ P!ReleaseRestart
  <2>1. planes # P!Off /\ RoundOK(planes)
    BY <1>6 DEF P!PressFire, P!ReleaseFire, P!PressRestart, P!ReleaseRestart, P!Mounted, PlanesOK
  <2>2. \E b \in BOOLEAN : planes' = [planes EXCEPT !.fire = b] \/ planes' = [planes EXCEPT !.restart = b]
    BY <1>6 DEF P!PressFire, P!ReleaseFire, P!PressRestart, P!ReleaseRestart
  <2>3. RoundOK(planes') /\ planes'.lives = planes.lives
    BY <2>1, <2>2, KeyedRound
  <2>4. QED
    BY <1>0, <2>1, <2>3 DEF PlanesOK, OneLifeLost
<1>7. QED
  BY <1>1, <1>2, <1>3, <1>4, <1>5, <1>6, PlanesFrame DEF P!Next

LEMMA PlanesInit == Init => PlanesOK
BY DEF Init, P!Init, PlanesOK

\* Types of the planes' scene, with the three facts that keep its counts honest: the hits counted and the
\* bullets in the air were all fired in this round, the hits counted and the enemies there are were all
\* spawned in it, and the enemies still too far away are among those there are (BitPlanesGame.tsx:303-331).
THEOREM PlanesInvariance == Spec => []PlanesOK
BY PlanesInit, PlanesStep, PTL DEF Spec

\* A bullet downs one enemy at most and an enemy goes down once, for any number of bullets and enemies the
\* two loops walk and any of them near each other (BitPlanesGame.tsx:308-331).
THEOREM BulletsDownOneEach == Spec => []EveryBulletDownsOne
<1>1. PlanesOK => EveryBulletDownsOne
  BY DEF PlanesOK, RoundOK, EveryBulletDownsOne, P!EveryBulletDownsOne, P!Mounted
<1>2. QED
  BY <1>1, PlanesInvariance, PTL

\* Whatever strikes the player in one frame costs one life, and none before the cooldown has passed, for
\* any number of lives, planes and shots and any cooldown (BitPlanesGame.tsx:370-378).
THEOREM LivesGoOneByOne == Spec => OneLifeAtATime
<1>1. PlanesOK /\ [Next]_vars
        => [P!Mounted /\ planes' # P!Off /\ planes'.lives < planes.lives
              => planes'.lives = planes.lives - 1 /\ planes.wait <= 1]_planes
  BY PlanesStep DEF OneLifeLost, P!Mounted
<1>2. QED
  BY <1>1, PlanesInvariance, PTL DEF Spec, OneLifeAtATime, P!OneLifeAtATime

-------------------------------------------------------------------------------
(***************************************************************************)
(* Warrior: the bosses.                                                    *)
(***************************************************************************)
WarriorFields ==
    {"over", "won", "score", "hp", "swing", "cool", "invuln", "monsters", "cleaver", "done", "banana",
     "andrew", "spawned"}

WarriorMonsters == [hp : Int, rest : Int, struck : BOOLEAN]

WarriorBosses == [active : BOOLEAN, hp : Int, rest : Int]

WarriorShape(s) ==
    /\ DOMAIN s = WarriorFields
    /\ s.monsters \in Seq(WarriorMonsters)
    /\ s.banana \in WarriorBosses /\ s.andrew \in WarriorBosses

WarriorOK == warrior # W!Off => WarriorShape(warrior) /\ ~(warrior.banana.active /\ warrior.andrew.active)

\* A part of a frame in which a boss may fall but none comes.
Falls(s, t) ==
    /\ WarriorShape(t)
    /\ t.banana.active => s.banana.active
    /\ t.andrew.active => s.andrew.active

Kept(s, t) ==
    DOMAIN t = DOMAIN s /\ t.monsters = s.monsters /\ t.banana = s.banana /\ t.andrew = s.andrew

LEMMA WarriorConstants ==
    /\ HitRest \in Nat /\ MonsterHp \in Nat /\ BananaHp \in Nat /\ AndrewHp \in Nat /\ FirstMonsters \in Nat
BY ArcadeAssumption

LEMMA KeptFalls ==
    ASSUME NEW s, WarriorShape(s), NEW t, Kept(s, t)
    PROVE  Falls(s, t)
BY DEF Kept, Falls, WarriorShape

LEMMA FallsOn ==
    ASSUME NEW s, NEW t, NEW u, Falls(s, t), Falls(t, u)
    PROVE  Falls(s, u)
BY DEF Falls

LEMMA ReadiedBosses ==
    ASSUME NEW s, WarriorShape(s)
    PROVE  Kept(s, W!Readied(s)) /\ Kept(s, W!Judged(s)) /\ Kept(s, W!Wounded(s))
<1>1. Kept(s, W!Readied(s))
  BY DEF W!Readied, Kept, WarriorShape, WarriorFields
<1>2. Kept(s, W!Judged(s))
  BY DEF W!Judged, Kept, WarriorShape, WarriorFields
<1>3. Kept(s, W!Wounded(s))
  BY DEF W!Wounded, Kept, WarriorShape, WarriorFields
<1>4. QED
  BY <1>1, <1>2, <1>3

LEMMA HitBossFalls ==
    ASSUME NEW s, WarriorShape(s), NEW boss \in {"banana", "andrew"}
    PROVE  Falls(s, W!HitBoss(s, boss)) /\ W!HitBoss(s, boss).monsters = s.monsters
<1>1. CASE ~s[boss].active \/ s[boss].rest > 0
  BY <1>1 DEF W!HitBoss, Falls
<1>2. CASE ~(~s[boss].active \/ s[boss].rest > 0)
  <2>1. PICK new, score : /\ new = [active |-> s[boss].hp > 1, hp |-> s[boss].hp - 1, rest |-> HitRest]
                          /\ score = IF s[boss].hp > 1 THEN s.score ELSE s.score + BossScore
    OBVIOUS
  <2>2. s[boss] \in WarriorBosses
    BY DEF WarriorShape
  <2>3. new \in WarriorBosses
    BY <2>1, <2>2, WarriorConstants DEF WarriorBosses
  <2>4. W!HitBoss(s, boss) = [s EXCEPT ![boss] = new, !.score = score]
    BY <1>2, <2>1 DEF W!HitBoss, WarriorShape, WarriorFields
  <2>5. CASE boss = "banana"
    BY <1>2, <2>3, <2>4, <2>5 DEF Falls, WarriorShape, WarriorFields
  <2>6. CASE boss = "andrew"
    BY <1>2, <2>3, <2>4, <2>6 DEF Falls, WarriorShape, WarriorFields
  <2>7. QED
    BY <2>5, <2>6
<1>3. QED
  BY <1>1, <1>2

LEMMA ReachedFalls ==
    ASSUME NEW s, WarriorShape(s), NEW reached
    PROVE  Falls(s, W!Reached(s, reached))
<1>1. PICK b : b = IF W!Banana \in reached THEN W!HitBananaBoss(s) ELSE s
  OBVIOUS
<1>2. PICK a : a = IF W!Andrewsous \in reached THEN W!HitAndrewsous(b) ELSE b
  OBVIOUS
<1>3. Falls(s, b) /\ b.monsters = s.monsters
  BY <1>1, HitBossFalls DEF W!HitBananaBoss, Falls
<1>4. Falls(s, a) /\ WarriorShape(a)
  <2>1. WarriorShape(b)
    BY <1>3 DEF Falls
  <2>2. Falls(b, a)
    BY <1>2, <2>1, HitBossFalls DEF W!HitAndrewsous, Falls
  <2>3. QED
    BY <1>3, <2>2, FallsOn DEF Falls
<1>5. PICK ms : ms = [i \in DOMAIN s.monsters |->
            IF i \in reached /\ ~s.monsters[i].struck
            THEN [hp |-> s.monsters[i].hp - 1, rest |-> HitRest, struck |-> TRUE] ELSE s.monsters[i]]
  OBVIOUS
<1>6. W!Reached(s, reached) = [a EXCEPT !.monsters = ms]
  BY <1>1, <1>2, <1>5 DEF W!Reached
<1>7. ms \in Seq(WarriorMonsters)
  <2>1. PICK n \in Nat : n = Len(s.monsters)
    BY DEF WarriorShape
  <2>2. DOMAIN s.monsters = 1 .. n /\ \A i \in 1 .. n : s.monsters[i] \in WarriorMonsters
    BY <2>1 DEF WarriorShape
  <2>3. ASSUME NEW i \in 1 .. n
        PROVE  ms[i] \in WarriorMonsters
    <3>1. s.monsters[i] \in WarriorMonsters
      BY <2>2
    <3>2. [hp |-> s.monsters[i].hp - 1, rest |-> HitRest, struck |-> TRUE] \in WarriorMonsters
      BY <3>1, WarriorConstants DEF WarriorMonsters
    <3>3. QED
      BY <1>5, <2>2, <3>1, <3>2
  <2>4. ms \in [1 .. n -> WarriorMonsters]
    BY <1>5, <2>2, <2>3
  <2>5. QED
    BY <2>4
<1>8. QED
  BY <1>4, <1>6, <1>7 DEF Falls, WarriorShape, WarriorFields

LEMMA FlownFalls ==
    ASSUME NEW s, WarriorShape(s), NEW t \in W!Flown(s)
    PROVE  Falls(s, t)
<1>1. PICK back, caught : back = [s EXCEPT !.cleaver = "back"] /\ caught = [s EXCEPT !.cleaver = "held"]
  OBVIOUS
<1>2. Falls(s, s) /\ Falls(s, back) /\ Falls(s, caught) /\ WarriorShape(back)
  BY <1>1 DEF Falls, WarriorShape, WarriorFields
<1>3. t \in {s, caught} \cup W!Strikes(s) \cup W!Strikes(back)
  BY <1>1 DEF W!Flown
<1>4. ASSUME NEW u \in {s, back}, t \in W!Strikes(u)
      PROVE  Falls(s, t)
  <2>1. PICK reached : t = W!Reached(u, reached)
    BY <1>4 DEF W!Strikes
  <2>2. Falls(u, t)
    BY <1>2, <2>1, ReachedFalls
  <2>3. QED
    BY <1>2, <2>2, FallsOn
<1>5. QED
  BY <1>2, <1>3, <1>4

LEMMA BossMovedFalls ==
    ASSUME NEW s, WarriorShape(s), NEW boss \in {"banana", "andrew"}, NEW t \in W!BossMoved(s, boss)
    PROVE  Falls(s, t)
<1>1. CASE ~s[boss].active
  BY <1>1 DEF W!BossMoved, Falls
<1>2. CASE s[boss].active
  <2>1. PICK new : new = [active |-> TRUE, hp |-> s[boss].hp, rest |-> W!Down(s[boss].rest)]
    OBVIOUS
  <2>2. PICK rested : rested = [s EXCEPT ![boss] = new]
    OBVIOUS
  <2>3. PICK moved : moved = {rested} \cup (IF W!Swinging(s) THEN {W!HitBoss(rested, boss)} ELSE {})
    OBVIOUS
  <2>4. t \in moved \cup {W!Wounded(u) : u \in {v \in moved : v[boss].rest < HitRest - 1}}
    BY <1>2, <2>1, <2>2, <2>3 DEF W!BossMoved
  <2>5. new \in WarriorBosses
    <3>1. s[boss] \in WarriorBosses
      BY DEF WarriorShape
    <3>2. QED
      BY <2>1, <3>1 DEF WarriorBosses, W!Down
  <2>6. Falls(s, rested) /\ WarriorShape(rested)
    <3>1. CASE boss = "banana"
      BY <1>2, <2>2, <2>5, <3>1 DEF Falls, WarriorShape, WarriorFields
    <3>2. CASE boss = "andrew"
      BY <1>2, <2>2, <2>5, <3>2 DEF Falls, WarriorShape, WarriorFields
    <3>3. QED
      BY <3>1, <3>2
  <2>7. ASSUME NEW u \in moved
        PROVE  Falls(s, u) /\ WarriorShape(u)
    <3>1. u = rested \/ u = W!HitBoss(rested, boss)
      BY <2>3
    <3>2. Falls(rested, W!HitBoss(rested, boss))
      BY <2>6, HitBossFalls
    <3>3. QED
      BY <2>6, <3>1, <3>2, FallsOn DEF Falls
  <2>8. CASE t \in moved
    BY <2>7, <2>8
  <2>9. CASE t \notin moved
    <3>1. PICK u \in moved : t = W!Wounded(u)
      BY <2>4, <2>9
    <3>2. Falls(s, u) /\ WarriorShape(u)
      BY <2>7
    <3>3. Falls(u, t)
      BY <3>1, <3>2, ReadiedBosses, KeptFalls
    <3>4. QED
      BY <3>2, <3>3, FallsOn
  <2>10. QED
    BY <2>8, <2>9
<1>3. QED
  BY <1>1, <1>2

LEMMA MonsterMovedFalls ==
    ASSUME NEW s, WarriorShape(s), NEW i \in 1 .. Len(s.monsters), NEW t \in W!MonsterMoved(s, i)
    PROVE  Falls(s, t) /\ Len(t.monsters) = Len(s.monsters)
<1>1. PICK rested : rested = [s.monsters[i] EXCEPT !.rest = W!Down(@)]
  OBVIOUS
<1>2. PICK cut : cut = [rested EXCEPT !.hp = @ - 1, !.rest = HitRest]
  OBVIOUS
<1>3. PICK ms : ms = {rested} \cup (IF W!Swinging(s) /\ rested.rest = 0 THEN {cut} ELSE {})
  OBVIOUS
<1>4. PICK moved : moved = {[s EXCEPT !.monsters[i] = m] : m \in ms}
  OBVIOUS
<1>5. t \in moved \cup {W!Wounded(u) : u \in {v \in moved : v.monsters[i].rest < HitRest - 1}}
  BY <1>1, <1>2, <1>3, <1>4 DEF W!MonsterMoved
<1>6. s.monsters[i] \in WarriorMonsters
  BY DEF WarriorShape
<1>7. rested \in WarriorMonsters
  BY <1>1, <1>6 DEF WarriorMonsters, W!Down
<1>8. cut \in WarriorMonsters
  <2>1. PICK hp, rest : hp = rested.hp - 1 /\ rest = HitRest
    OBVIOUS
  <2>2. hp \in Int /\ rest \in Int
    BY <1>7, <2>1, WarriorConstants DEF WarriorMonsters
  <2>3. cut = [rested EXCEPT !.hp = hp, !.rest = rest]
    BY <1>2, <1>7, <2>1 DEF WarriorMonsters
  <2>4. QED
    BY <1>7, <2>2, <2>3 DEF WarriorMonsters
<1>9. ASSUME NEW u \in moved
      PROVE  Falls(s, u) /\ WarriorShape(u) /\ Len(u.monsters) = Len(s.monsters)
  <2>1. PICK m \in ms : u = [s EXCEPT !.monsters[i] = m]
    BY <1>4
  <2>2. m \in WarriorMonsters
    BY <1>3, <1>7, <1>8
  <2>3. PICK all : all = [s.monsters EXCEPT ![i] = m]
    OBVIOUS
  <2>4. all \in Seq(WarriorMonsters) /\ Len(all) = Len(s.monsters)
    BY <2>2, <2>3 DEF WarriorShape
  <2>5. u = [s EXCEPT !.monsters = all]
    BY <2>1, <2>3
  <2>6. QED
    BY <2>4, <2>5 DEF Falls, WarriorShape, WarriorFields
<1>10. CASE t \in moved
  BY <1>9, <1>10
<1>11. CASE t \notin moved
  <2>1. PICK u \in moved : t = W!Wounded(u)
    BY <1>5, <1>11
  <2>2. Falls(s, u) /\ WarriorShape(u) /\ Len(u.monsters) = Len(s.monsters)
    BY <1>9
  <2>3. Kept(u, t)
    BY <2>1, <2>2, ReadiedBosses
  <2>4. QED
    BY <2>2, <2>3, KeptFalls, FallsOn DEF Kept
<1>12. QED
  BY <1>10, <1>11

\* What one pass over the monsters may leave, for the monsters before the n-th.
MonsterRun(f, s) ==
    /\ f[0] = {s}
    /\ \A n \in 1 .. Len(s.monsters) : f[n] = UNION {W!MonsterMoved(t, n) : t \in f[n - 1]}
    /\ W!MonstersMoved(s) = f[Len(s.monsters)]

LEMMA MonsterRunExists ==
    ASSUME NEW s, WarriorShape(s)
    PROVE  \E f : MonsterRun(f, s)
<1> DEFINE size == Len(s.monsters)
           Rec(f, m) == [n \in 0 .. m |-> IF n = 0 THEN {s} ELSE UNION {W!MonsterMoved(t, n) : t \in f[n - 1]}]
           Holds(m) == \E f : f = Rec(f, m)
           Bad == {m \in 0 .. size : ~Holds(m)}
<1>1. size \in Nat
  BY DEF WarriorShape
<1>2. Holds(size)
  <2>1. SUFFICES ASSUME NEW m \in 0 .. size, ~Holds(m), \A k \in 0 .. size : ~Holds(k) => m <= k
                 PROVE  FALSE
    <3>1. Bad \subseteq Nat /\ \A m : m \in Bad <=> m \in 0 .. size /\ ~Holds(m)
      BY <1>1
    <3> HIDE DEF Bad, Holds, size
    <3>2. size \in 0 .. size
      BY <1>1
    <3>3. QED
      BY <2>1, <3>1, <3>2, LeastNatural
  <2>2. Holds(0)
    <3> DEFINE f == [n \in 0 .. 0 |-> {s}]
    <3>1. f = Rec(f, 0)
      OBVIOUS
    <3>2. QED
      BY <3>1
  <2>3. m \in 1 .. size /\ m - 1 \in 0 .. size /\ m - 1 < m
    <3> HIDE DEF Holds
    <3>1. m # 0
      BY <2>1, <2>2
    <3>2. QED
      BY <1>1, <3>1
  <2>4. Holds(m - 1)
    <3> HIDE DEF Holds
    <3>1. QED
      BY <1>1, <2>1, <2>3
  <2>5. PICK f : f = Rec(f, m - 1)
    BY <2>4
  <2> DEFINE last == UNION {W!MonsterMoved(t, m) : t \in f[m - 1]}
             g == [n \in 0 .. m |-> IF n = m THEN last ELSE f[n]]
  <2>6. g = Rec(g, m)
    <3>1. ASSUME NEW n \in 0 .. m
          PROVE  g[n] = Rec(g, m)[n]
      <4>1. CASE n = m
        <5>1. g[n] = last /\ g[n - 1] = f[m - 1]
          BY <2>3, <4>1
        <5>2. Rec(g, m)[n] = UNION {W!MonsterMoved(t, n) : t \in g[n - 1]}
          <6> HIDE DEF g
          <6>1. n # 0 /\ n \in 0 .. m
            BY <2>3, <4>1
          <6>2. QED
            BY <6>1
        <5> HIDE DEF g, Rec
        <5>3. QED
          BY <4>1, <5>1, <5>2
      <4>2. CASE n # m
        <5>1. n \in 0 .. m - 1 /\ g[n] = f[n]
          BY <2>3, <4>2
        <5>2. CASE n = 0
          <6>1. f[n] = {s}
            BY <2>5, <5>1, <5>2
          <6>2. QED
            BY <5>1, <5>2, <6>1
        <5>3. CASE n # 0
          <6>1. g[n - 1] = f[n - 1]
            BY <2>3, <5>1, <5>3
          <6>2. f[n] = UNION {W!MonsterMoved(t, n) : t \in f[n - 1]}
            BY <2>5, <5>1, <5>3
          <6>3. Rec(g, m)[n] = UNION {W!MonsterMoved(t, n) : t \in g[n - 1]}
            BY <5>3
          <6> HIDE DEF g, Rec
          <6>4. QED
            BY <5>1, <6>1, <6>2, <6>3
        <5>4. QED
          BY <5>2, <5>3
      <4>3. QED
        BY <4>1, <4>2
    <3>2. g = [n \in 0 .. m |-> g[n]] /\ Rec(g, m) = [n \in 0 .. m |-> Rec(g, m)[n]]
      OBVIOUS
    <3> HIDE DEF g, Rec
    <3>3. QED
      BY <3>1, <3>2
  <2>7. QED
    BY <2>1, <2>6
<1> DEFINE h == CHOOSE f : f = Rec(f, size)
<1>3. h = Rec(h, size)
  BY <1>2
<1>4. W!MonstersMoved(s) = h[size]
  BY DEF W!MonstersMoved
<1> HIDE DEF h
<1>5. h[0] = {s} /\ \A n \in 1 .. size : h[n] = UNION {W!MonsterMoved(t, n) : t \in h[n - 1]}
  <2>1. \A n \in 0 .. size : h[n] = Rec(h, size)[n]
    BY <1>3
  <2>2. 0 \in 0 .. size /\ \A n \in 1 .. size : n \in 0 .. size /\ n # 0
    BY <1>1
  <2>3. QED
    BY <2>1, <2>2
<1>6. QED
  BY <1>4, <1>5 DEF MonsterRun

LEMMA MonstersMovedFalls ==
    ASSUME NEW s, WarriorShape(s), NEW t \in W!MonstersMoved(s)
    PROVE  Falls(s, t)
<1>1. PICK f : MonsterRun(f, s)
  BY MonsterRunExists
<1>2. PICK size \in Nat : size = Len(s.monsters)
  BY DEF WarriorShape
<1> DEFINE Holds(n) == \A u \in f[n] : Falls(s, u) /\ Len(u.monsters) = size
           Bad == {n \in 0 .. size : ~Holds(n)}
<1>3. Holds(size)
  <2>1. SUFFICES ASSUME NEW m \in 0 .. size, ~Holds(m), \A k \in 0 .. size : ~Holds(k) => m <= k
                 PROVE  FALSE
    <3>1. Bad \subseteq Nat /\ \A m : m \in Bad <=> m \in 0 .. size /\ ~Holds(m)
      OBVIOUS
    <3> HIDE DEF Bad, Holds
    <3>2. size \in 0 .. size
      OBVIOUS
    <3>3. QED
      BY <2>1, <3>1, <3>2, LeastNatural
  <2>2. Holds(0)
    BY <1>1, <1>2 DEF MonsterRun, Falls
  <2>3. m \in 1 .. size /\ m - 1 \in 0 .. size /\ m - 1 < m
    <3> HIDE DEF Holds
    <3>1. m # 0
      BY <2>1, <2>2
    <3>2. QED
      BY <3>1
  <2>4. Holds(m - 1)
    <3> HIDE DEF Holds
    <3>1. QED
      BY <2>1, <2>3
  <2>5. ASSUME NEW v \in f[m]
        PROVE  Falls(s, v) /\ Len(v.monsters) = size
    <3>1. f[m] = UNION {W!MonsterMoved(u, m) : u \in f[m - 1]}
      BY <1>1, <1>2, <2>3 DEF MonsterRun
    <3>2. PICK u \in f[m - 1] : v \in W!MonsterMoved(u, m)
      BY <3>1
    <3>3. Falls(s, u) /\ Len(u.monsters) = size
      BY <2>4
    <3>4. WarriorShape(u) /\ m \in 1 .. Len(u.monsters)
      BY <2>3, <3>3 DEF Falls
    <3>5. Falls(u, v) /\ Len(v.monsters) = Len(u.monsters)
      BY <3>2, <3>4, MonsterMovedFalls
    <3>6. QED
      BY <3>3, <3>5, FallsOn
  <2>6. QED
    BY <2>1, <2>5
<1>4. QED
  BY <1>1, <1>2, <1>3 DEF MonsterRun

LEMMA ClearedFalls ==
    ASSUME NEW s, WarriorShape(s), NEW t \in W!Cleared(s)
    PROVE  Falls(s, t)
<1>1. PICK alive : alive = W!Only(s.monsters, {m \in W!Range(s.monsters) : m.hp > 0})
  OBVIOUS
<1>2. PICK fallen : fallen = Len(s.monsters) - Len(alive)
  OBVIOUS
<1>3. PICK more \in {0, IF Len(s.monsters) < MostMonsters THEN 1 ELSE 0} :
        t = [s EXCEPT !.score = @ + fallen,
                      !.monsters = alive \o [i \in 1 .. fallen + more |-> W!NewMonster]]
  BY <1>1, <1>2 DEF W!Cleared
<1>4. alive \in Seq(WarriorMonsters)
  <2>1. PICK kept : kept = {m \in W!Range(s.monsters) : m.hp > 0}
    OBVIOUS
  <2>2. W!Only(s.monsters, kept) = Only(s.monsters, kept)
    BY DEF W!Only, Only
  <2>3. Only(s.monsters, kept) \in Seq(WarriorMonsters)
    BY OnlyType DEF WarriorShape
  <2>4. QED
    BY <1>1, <2>1, <2>2, <2>3
<1>5. PICK new : new = [i \in 1 .. fallen + more |-> W!NewMonster]
  OBVIOUS
<1>6. new \in Seq(WarriorMonsters)
  <2>1. W!NewMonster \in WarriorMonsters
    BY WarriorConstants DEF W!NewMonster, WarriorMonsters
  <2>2. PICK k : k = fallen + more
    OBVIOUS
  <2>3. k \in Int
    BY <1>2, <1>3, <1>4, <2>2 DEF WarriorShape
  <2>4. CASE k \in Nat
    BY <1>5, <2>1, <2>2, <2>4
  <2>5. CASE k \notin Nat
    <3>1. 1 .. k = {} 
      BY <2>3, <2>5
    <3>2. new \in [1 .. 0 -> WarriorMonsters]
      BY <1>5, <2>2, <3>1
    <3>3. QED
      BY <3>2
  <2>6. QED
    BY <2>4, <2>5
<1>7. alive \o new \in Seq(WarriorMonsters)
  BY <1>4, <1>6
<1>8. PICK all, score : all = alive \o new /\ score = s.score + fallen
  OBVIOUS
<1>9. t = [s EXCEPT !.score = score, !.monsters = all]
  BY <1>3, <1>5, <1>8 DEF WarriorShape, WarriorFields
<1>10. QED
  BY <1>7, <1>8, <1>9 DEF Falls, WarriorShape, WarriorFields

OneBoss(s) == WarriorShape(s) /\ ~(s.banana.active /\ s.andrew.active)

LEMMA SpawnedOneBoss ==
    ASSUME NEW s, OneBoss(s)
    PROVE  OneBoss(W!SpawnedBanana(s)) /\ OneBoss(W!SpawnedAndrewsous(s))
<1>1. OneBoss(W!SpawnedBanana(s))
  <2>1. PICK done, new : /\ done = s.done \cup {W!Min(W!DueMilestones(s))}
                         /\ new = [active |-> TRUE, hp |-> BananaHp, rest |-> 0]
    OBVIOUS
  <2>2. new \in WarriorBosses
    BY <2>1, WarriorConstants DEF WarriorBosses
  <2>3. W!SpawnedBanana(s) = s
        \/ (~s.andrew.active /\ W!SpawnedBanana(s) = [s EXCEPT !.done = done, !.banana = new])
    BY <2>1 DEF W!SpawnedBanana, OneBoss, WarriorShape, WarriorFields
  <2>4. QED
    BY <2>2, <2>3 DEF OneBoss, WarriorShape, WarriorFields
<1>2. OneBoss(W!SpawnedAndrewsous(s))
  <2>1. PICK yes, new : yes = TRUE /\ new = [active |-> TRUE, hp |-> AndrewHp, rest |-> 0]
    OBVIOUS
  <2>2. new \in WarriorBosses
    BY <2>1, WarriorConstants DEF WarriorBosses
  <2>3. W!SpawnedAndrewsous(s) = s
        \/ (~s.banana.active /\ W!SpawnedAndrewsous(s) = [s EXCEPT !.spawned = TRUE, !.andrew = new])
    BY <2>1 DEF W!SpawnedAndrewsous, OneBoss, WarriorShape, WarriorFields
  <2>4. QED
    BY <2>2, <2>3 DEF OneBoss, WarriorShape, WarriorFields
<1>3. QED
  BY <1>1, <1>2

LEMMA FallsOneBoss ==
    ASSUME NEW s, NEW t, OneBoss(s), Falls(s, t)
    PROVE  OneBoss(t)
BY DEF OneBoss, Falls

LEMMA UpdatedOneBoss ==
    ASSUME NEW s, OneBoss(s), NEW next \in W!Updated(s)
    PROVE  OneBoss(next)
<1>1. PICK begun : begun = W!Judged(W!SpawnedAndrewsous(W!SpawnedBanana(W!Readied(s))))
  OBVIOUS
<1>2. OneBoss(begun)
  <2>1. OneBoss(W!Readied(s))
    BY ReadiedBosses, KeptFalls, FallsOneBoss DEF OneBoss
  <2>2. PICK u : u = W!SpawnedAndrewsous(W!SpawnedBanana(W!Readied(s)))
    OBVIOUS
  <2>3. OneBoss(u)
    BY <2>1, <2>2, SpawnedOneBoss
  <2>4. QED
    BY <1>1, <2>2, <2>3, ReadiedBosses, KeptFalls, FallsOneBoss DEF OneBoss
<1>3. PICK bosses : bosses = W!Then(W!Then(W!Flown(begun), W!BananaBossMoved), W!AndrewsousMoved)
  OBVIOUS
<1>4. next \in W!Then(W!Then({W!Judged(t) : t \in bosses}, W!MonstersMoved), W!Cleared)
  BY <1>1, <1>3 DEF W!Updated
<1>5. PICK e \in W!Then({W!Judged(t) : t \in bosses}, W!MonstersMoved) : next \in W!Cleared(e)
  BY <1>4 DEF W!Then
<1>6. PICK d \in {W!Judged(t) : t \in bosses} : e \in W!MonstersMoved(d)
  BY <1>5 DEF W!Then
<1>7. PICK c \in bosses : d = W!Judged(c)
  BY <1>6
<1>8. PICK b \in W!Then(W!Flown(begun), W!BananaBossMoved) : c \in W!AndrewsousMoved(b)
  BY <1>3, <1>7 DEF W!Then
<1>9. PICK a \in W!Flown(begun) : b \in W!BananaBossMoved(a)
  BY <1>8 DEF W!Then
<1>10. OneBoss(a)
  BY <1>2, <1>9, FlownFalls, FallsOneBoss DEF OneBoss
<1>11. OneBoss(b)
  BY <1>9, <1>10, BossMovedFalls, FallsOneBoss DEF OneBoss, W!BananaBossMoved
<1>12. OneBoss(c)
  BY <1>8, <1>11, BossMovedFalls, FallsOneBoss DEF OneBoss, W!AndrewsousMoved
<1>13. OneBoss(d)
  BY <1>7, <1>12, ReadiedBosses, KeptFalls, FallsOneBoss DEF OneBoss
<1>14. OneBoss(e)
  BY <1>6, <1>13, MonstersMovedFalls, FallsOneBoss DEF OneBoss
<1>15. QED
  BY <1>5, <1>14, ClearedFalls, FallsOneBoss DEF OneBoss

LEMMA FreshOneBoss == OneBoss(W!Fresh)
<1>1. W!NewMonster \in WarriorMonsters
  BY WarriorConstants DEF W!NewMonster, WarriorMonsters
<1>2. [i \in 1 .. FirstMonsters |-> W!NewMonster] \in Seq(WarriorMonsters)
  BY <1>1, WarriorConstants
<1>3. W!NoBoss(BananaHp) \in WarriorBosses /\ W!NoBoss(AndrewHp) \in WarriorBosses
      /\ ~W!NoBoss(BananaHp).active
  BY WarriorConstants DEF W!NoBoss, WarriorBosses
<1>4. QED
  BY <1>2, <1>3 DEF W!Fresh, OneBoss, WarriorShape, WarriorFields

LEMMA WarriorFrame == [Next]_vars => UNCHANGED warrior \/ W!Next
BY DEF Next, On, vars, warriorVars

LEMMA WarriorStep == WarriorOK /\ [Next]_vars => WarriorOK'
<1> SUFFICES ASSUME WarriorOK, [Next]_vars
             PROVE  WarriorOK'
  OBVIOUS
<1>1. CASE UNCHANGED warrior
  BY <1>1 DEF WarriorOK
<1>2. CASE W!Mount \/ W!Restart
  BY <1>2, FreshOneBoss DEF W!Mount, W!Restart, WarriorOK, OneBoss
<1>3. CASE W!Destroy
  BY <1>3 DEF W!Destroy, WarriorOK
<1>4. CASE W!Frame
  BY <1>4, UpdatedOneBoss DEF W!Frame, W!Playing, W!Mounted, WarriorOK, OneBoss
<1>5. CASE W!PressSpace \/ W!ReleaseSpace
  BY <1>5 DEF W!PressSpace, W!ReleaseSpace, WarriorOK
<1>6. CASE W!Throw
  <2>1. PICK ms : ms = [i \in DOMAIN warrior.monsters |-> [warrior.monsters[i] EXCEPT !.struck = FALSE]]
    OBVIOUS
  <2>2. WarriorShape(warrior)
    BY <1>6 DEF W!Throw, W!Playing, W!Mounted, WarriorOK
  <2>3. warrior' = [warrior EXCEPT !.cleaver = "out", !.monsters = ms]
    BY <1>6, <2>1, <2>2 DEF W!Throw, WarriorShape, WarriorFields
  <2>4. ms \in Seq(WarriorMonsters)
    <3>1. PICK n \in Nat : n = Len(warrior.monsters)
      BY <2>2 DEF WarriorShape
    <3>2. DOMAIN warrior.monsters = 1 .. n /\ \A i \in 1 .. n : warrior.monsters[i] \in WarriorMonsters
      BY <2>2, <3>1 DEF WarriorShape
    <3>3. \A m \in WarriorMonsters : [m EXCEPT !.struck = FALSE] \in WarriorMonsters
      BY DEF WarriorMonsters
    <3>4. ms \in [1 .. n -> WarriorMonsters]
      BY <2>1, <3>2, <3>3
    <3>5. QED
      BY <3>4
  <2>5. QED
    BY <1>6, <2>2, <2>3, <2>4 DEF W!Throw, W!Playing, W!Mounted, WarriorOK, WarriorShape, WarriorFields
<1>7. QED
  BY <1>1, <1>2, <1>3, <1>4, <1>5, <1>6, WarriorFrame DEF W!Next

LEMMA WarriorInit == Init => WarriorOK
BY DEF Init, W!Init, WarriorOK

\* The shape of the warrior's game, and one boss at a time: no part of a frame but the two spawns
\* brings a boss, and each spawn looks at the other boss first (warriorGame.ts:396-415, 569-586).
THEOREM WarriorInvariance == Spec => []WarriorOK
BY WarriorInit, WarriorStep, PTL DEF Spec

\* The two bosses are never in the arena together, for any number of monsters, scores and hits
\* (warriorGame.ts:820-844).
THEOREM BossesComeOneByOne == Spec => []OneBossAtATime
<1>1. WarriorOK => OneBossAtATime
  BY DEF WarriorOK, OneBossAtATime, W!OneBossAtATime, W!Mounted
<1>2. QED
  BY <1>1, WarriorInvariance, PTL

-------------------------------------------------------------------------------
(***************************************************************************)
(* Warrior 2: what the defence has lost, and what the monsters paid.       *)
(***************************************************************************)
VillageFields ==
    {"over", "won", "score", "felled", "hp", "village", "coins", "sword", "shield", "swing", "cool", "invuln",
     "wave", "active", "pause", "helpers", "monsters", "cleaver", "banana", "andrew"}

VillageMonsters == [hp : Int, rest : Int, raid : Int, struck : BOOLEAN]

VillageBosses == [active : BOOLEAN, hp : Int, rest : Int, raid : Int]

VillageShape(s) ==
    /\ DOMAIN s = VillageFields
    /\ s.monsters \in Seq(VillageMonsters)
    /\ s.banana \in VillageBosses /\ s.andrew \in VillageBosses

Owned(s) == (IF s.sword THEN 1 ELSE 0) + (IF s.shield THEN 1 ELSE 0)

\* The fight: lost exactly when the warrior or the village is; who has just been wounded cannot be again.
Fight(s) ==
    /\ s.hp \in Nat /\ s.village \in Nat /\ s.invuln \in Nat /\ s.over \in BOOLEAN
    /\ s.over <=> s.hp = 0 \/ s.village = 0
    /\ s.hp = 0 => s.invuln > 0

\* The purse: what the monsters paid is there or spent.
Purse(s) ==
    /\ s.score \in Int /\ s.felled \in Int /\ s.coins \in Int /\ s.sword \in BOOLEAN /\ s.shield \in BOOLEAN
    /\ s.coins + ItemCost * Owned(s) = CoinsPerMonster * (s.score - BossScore * s.felled)

InPhase(s) == s.active \in BOOLEAN /\ s.pause \in BOOLEAN /\ s.active # s.pause

DefenceOK(s) == VillageShape(s) /\ Fight(s) /\ Purse(s) /\ InPhase(s)

VillageOK == warrior2 # V!Off => DefenceOK(warrior2)

\* What the fight, the purse and the phase look at.
SameFight(s, t) == t.over = s.over /\ t.hp = s.hp /\ t.village = s.village /\ t.invuln = s.invuln

SamePurse(s, t) ==
    t.score = s.score /\ t.felled = s.felled /\ t.coins = s.coins /\ t.sword = s.sword /\ t.shield = s.shield

SamePhase(s, t) == t.active = s.active /\ t.pause = s.pause

LEMMA VillageConstants ==
    /\ HeroHp \in Nat /\ HeroHp > 0 /\ VillageHp \in Nat /\ VillageHp > 0 /\ Invulnerable \in Nat /\ Invulnerable > 0
    /\ MonsterHp \in Nat /\ BananaHp \in Nat /\ AndrewHp \in Nat /\ BossScore \in Nat /\ HitRest \in Nat
    /\ WaveSize \in Nat /\ CoinsPerMonster \in Nat /\ ItemCost \in Nat /\ BossDamage \in Nat
    /\ HelperCount \in Nat /\ VillageRest \in Nat
BY ArcadeAssumption

LEMMA FightKept == ASSUME NEW s, NEW t, Fight(s), SameFight(s, t) PROVE Fight(t)
BY DEF Fight, SameFight

LEMMA PurseKept == ASSUME NEW s, NEW t, Purse(s), SamePurse(s, t) PROVE Purse(t)
BY DEF Purse, SamePurse, Owned

LEMMA PhaseKept == ASSUME NEW s, NEW t, InPhase(s), SamePhase(s, t) PROVE InPhase(t)
BY DEF InPhase, SamePhase

\* A part that changes nothing the defence is about.
Aside(s, t) == VillageShape(t) /\ SameFight(s, t) /\ SamePurse(s, t) /\ SamePhase(s, t)

LEMMA AsideKept == ASSUME NEW s, NEW t, DefenceOK(s), Aside(s, t) PROVE DefenceOK(t)
BY FightKept, PurseKept, PhaseKept DEF DefenceOK, Aside

LEMMA CleaverAside ==
    ASSUME NEW s, VillageShape(s), NEW c
    PROVE  Aside(s, [s EXCEPT !.cleaver = c])
BY DEF Aside, SameFight, SamePurse, SamePhase, VillageShape, VillageFields

LEMMA MonstersAside ==
    ASSUME NEW s, VillageShape(s), NEW ms \in Seq(VillageMonsters)
    PROVE  Aside(s, [s EXCEPT !.monsters = ms]) /\ [s EXCEPT !.monsters = ms].monsters = ms
BY DEF Aside, SameFight, SamePurse, SamePhase, VillageShape, VillageFields

LEMMA HelpersAside ==
    ASSUME NEW s, VillageShape(s), NEW hs
    PROVE  Aside(s, [s EXCEPT !.helpers = hs]) /\ [s EXCEPT !.helpers = hs].monsters = s.monsters
BY DEF Aside, SameFight, SamePurse, SamePhase, VillageShape, VillageFields

LEMMA BossAside ==
    ASSUME NEW s, VillageShape(s), NEW boss \in {"banana", "andrew"}, NEW new \in VillageBosses
    PROVE  Aside(s, [s EXCEPT ![boss] = new]) /\ [s EXCEPT ![boss] = new].monsters = s.monsters
           /\ [s EXCEPT ![boss] = new][boss] = new
<1>1. CASE boss = "banana"
  BY <1>1 DEF Aside, SameFight, SamePurse, SamePhase, VillageShape, VillageFields
<1>2. CASE boss = "andrew"
  BY <1>2 DEF Aside, SameFight, SamePurse, SamePhase, VillageShape, VillageFields
<1>3. QED
  BY <1>1, <1>2

LEMMA ReadiedDefence ==
    ASSUME NEW s, DefenceOK(s), ~s.over
    PROVE  DefenceOK(V!Readied(s))
<1>1. PICK t, invuln : t = V!Readied(s) /\ invuln = V!Down(s.invuln)
  OBVIOUS
<1>2. /\ DOMAIN t = VillageFields /\ t.monsters = s.monsters /\ t.banana = s.banana /\ t.andrew = s.andrew
      /\ t.over = s.over /\ t.hp = s.hp /\ t.village = s.village /\ t.invuln = invuln
      /\ SamePurse(s, t) /\ SamePhase(s, t)
  BY <1>1 DEF V!Readied, DefenceOK, VillageShape, VillageFields, SamePurse, SamePhase
<1>3. invuln \in Nat
  BY <1>1 DEF V!Down, DefenceOK, Fight
<1>4. Fight(t)
  BY <1>2, <1>3 DEF DefenceOK, Fight
<1>5. QED
  BY <1>1, <1>2, <1>4, PurseKept, PhaseKept DEF DefenceOK, VillageShape

LEMMA RaidedDefence ==
    ASSUME NEW s, DefenceOK(s), NEW damage \in Nat
    PROVE  DefenceOK(V!Raided(s, damage)) /\ V!Raided(s, damage).monsters = s.monsters
           /\ V!Raided(s, damage).banana = s.banana /\ V!Raided(s, damage).andrew = s.andrew
<1>1. CASE s.over \/ s.won \/ s.village <= 0
  BY <1>1 DEF V!Raided
<1>2. CASE ~(s.over \/ s.won \/ s.village <= 0)
  <2>1. PICK t, village, over : /\ t = V!Raided(s, damage)
                                /\ village = IF s.village > damage THEN s.village - damage ELSE 0
                                /\ over = (s.village <= damage)
    OBVIOUS
  <2>2. t = [s EXCEPT !.village = village, !.over = over]
    BY <1>2, <2>1 DEF V!Raided, DefenceOK, VillageShape, VillageFields
  <2>3. village \in Nat /\ over \in BOOLEAN /\ (over <=> village = 0)
    <3>1. village \in Nat /\ (s.village <= damage <=> village = 0)
      BY <2>1 DEF DefenceOK, Fight
    <3>2. over \in BOOLEAN /\ (over <=> s.village <= damage)
      <4>1. CASE s.village <= damage
        BY <2>1, <4>1, Zenon
      <4>2. CASE ~(s.village <= damage)
        <5>1. (s.village <= damage) = FALSE
          BY <4>2, SMT DEF DefenceOK, Fight
        <5>2. QED
          BY <2>1, <4>2, <5>1, Zenon
      <4>3. QED
        BY <4>1, <4>2
    <3>3. QED
      BY <3>1, <3>2, Zenon
  <2>4. /\ DOMAIN t = VillageFields /\ t.monsters = s.monsters /\ t.banana = s.banana /\ t.andrew = s.andrew
        /\ t.over = over /\ t.hp = s.hp /\ t.village = village /\ t.invuln = s.invuln
        /\ SamePurse(s, t) /\ SamePhase(s, t)
    BY <2>2 DEF DefenceOK, VillageShape, VillageFields, SamePurse, SamePhase
  <2>5. s.hp # 0
    BY <1>2 DEF DefenceOK, Fight
  <2>6. Fight(t)
    BY <2>3, <2>4, <2>5 DEF DefenceOK, Fight
  <2>7. QED
    BY <2>1, <2>4, <2>6, PurseKept, PhaseKept DEF DefenceOK, VillageShape
<1>3. QED
  BY <1>1, <1>2

LEMMA WoundedDefence ==
    ASSUME NEW s, DefenceOK(s)
    PROVE  DefenceOK(V!Wounded(s)) /\ V!Wounded(s).monsters = s.monsters
<1>1. CASE s.invuln > 0
  BY <1>1 DEF V!Wounded
<1>2. CASE ~(s.invuln > 0)
  <2>1. PICK t, hp, over : t = V!Wounded(s) /\ hp = s.hp - 1 /\ over = (s.over \/ hp <= 0)
    OBVIOUS
  <2>2. t = [s EXCEPT !.hp = hp, !.invuln = Invulnerable, !.over = over]
    BY <1>2, <2>1 DEF V!Wounded, DefenceOK, VillageShape, VillageFields
  <2>3. hp \in Nat /\ over \in BOOLEAN /\ (over <=> hp = 0 \/ s.village = 0)
    <3>1. hp \in Nat /\ (hp <= 0 <=> hp = 0)
      BY <1>2, <2>1 DEF DefenceOK, Fight
    <3>2. s.over <=> s.village = 0
      BY <1>2 DEF DefenceOK, Fight
    <3>3. over \in BOOLEAN /\ (over <=> s.over \/ hp <= 0)
      <4>1. CASE s.over \/ hp <= 0
        BY <2>1, <4>1, Zenon
      <4>2. CASE ~(s.over \/ hp <= 0)
        BY <2>1, <4>2, Zenon
      <4>3. QED
        BY <4>1, <4>2
    <3>4. QED
      BY <3>1, <3>2, <3>3, Zenon
  <2>4. /\ DOMAIN t = VillageFields /\ t.monsters = s.monsters /\ t.banana = s.banana /\ t.andrew = s.andrew
        /\ t.over = over /\ t.hp = hp /\ t.village = s.village /\ t.invuln = Invulnerable
        /\ SamePurse(s, t) /\ SamePhase(s, t)
    BY <2>2 DEF DefenceOK, VillageShape, VillageFields, SamePurse, SamePhase
  <2>5. Fight(t)
    BY <2>3, <2>4, VillageConstants DEF DefenceOK, Fight
  <2>6. QED
    BY <2>1, <2>4, <2>5, PurseKept, PhaseKept DEF DefenceOK, VillageShape
<1>3. QED
  BY <1>1, <1>2

LEMMA JudgedDefence ==
    ASSUME NEW s, DefenceOK(s)
    PROVE  DefenceOK(V!Judged(s))
<1>1. Aside(s, V!Judged(s))
  BY DEF V!Judged, Aside, SameFight, SamePurse, SamePhase, DefenceOK, VillageShape, VillageFields
<1>2. QED
  BY <1>1, AsideKept

LEMMA HitBossDefence ==
    ASSUME NEW s, DefenceOK(s), NEW boss \in {"banana", "andrew"}
    PROVE  DefenceOK(V!HitBoss(s, boss)) /\ V!HitBoss(s, boss).monsters = s.monsters
<1>1. CASE ~s[boss].active \/ s[boss].rest > 0
  BY <1>1 DEF V!HitBoss
<1>2. CASE ~(~s[boss].active \/ s[boss].rest > 0)
  <2>1. PICK new, score, felled :
          /\ new = [active |-> s[boss].hp > 1, hp |-> s[boss].hp - 1, rest |-> HitRest, raid |-> s[boss].raid]
          /\ score = IF s[boss].hp > 1 THEN s.score ELSE s.score + BossScore
          /\ felled = IF s[boss].hp > 1 THEN s.felled ELSE s.felled + 1
    OBVIOUS
  <2>2. s[boss] \in VillageBosses
    BY DEF DefenceOK, VillageShape
  <2>3. new \in VillageBosses
    BY <2>1, <2>2, VillageConstants DEF VillageBosses
  <2>4. PICK u : u = [s EXCEPT ![boss] = new]
    OBVIOUS
  <2>5. DefenceOK(u) /\ u.monsters = s.monsters
    BY <2>3, <2>4, BossAside, AsideKept DEF DefenceOK
  <2>6. PICK t : t = V!HitBoss(s, boss)
    OBVIOUS
  <2>7. t = [u EXCEPT !.score = score, !.felled = felled]
    BY <1>2, <2>1, <2>4, <2>6 DEF V!HitBoss, DefenceOK, VillageShape, VillageFields
  <2>8. u.score = s.score /\ u.felled = s.felled
    BY <2>4 DEF DefenceOK, VillageShape, VillageFields
  <2>9. score \in Int /\ felled \in Int /\ score - BossScore * felled = u.score - BossScore * u.felled
    <3>1. u.score \in Int /\ u.felled \in Int /\ BossScore \in Int
      BY <2>5, VillageConstants DEF DefenceOK, Purse
    <3>2. BossScore * (u.felled + 1) = BossScore * u.felled + BossScore
      BY <3>1
    <3>3. QED
      BY <2>1, <2>8, <3>1, <3>2
  <2>10. /\ DOMAIN t = VillageFields /\ t.monsters = u.monsters /\ t.banana = u.banana /\ t.andrew = u.andrew
         /\ SameFight(u, t) /\ SamePhase(u, t)
         /\ t.score = score /\ t.felled = felled /\ t.coins = u.coins /\ t.sword = u.sword /\ t.shield = u.shield
    BY <2>5, <2>7 DEF DefenceOK, VillageShape, VillageFields, SameFight, SamePhase
  <2>11. Purse(t)
    BY <2>5, <2>9, <2>10 DEF DefenceOK, Purse, Owned
  <2>12. QED
    BY <2>5, <2>6, <2>10, <2>11, FightKept, PhaseKept DEF DefenceOK, VillageShape
<1>3. QED
  BY <1>1, <1>2

\* A blow that reaches a monster.
LEMMA StruckMonster ==
    ASSUME NEW m \in VillageMonsters, NEW damage \in Int
    PROVE  V!Struck(m, damage) \in VillageMonsters
<1>1. PICK hp, rest : hp = m.hp - damage /\ rest = HitRest
  OBVIOUS
<1>2. hp \in Int /\ rest \in Int
  BY <1>1, VillageConstants DEF VillageMonsters
<1>3. V!Struck(m, damage) = [m EXCEPT !.hp = hp, !.rest = rest]
  BY <1>1 DEF V!Struck, VillageMonsters
<1>4. QED
  BY <1>2, <1>3 DEF VillageMonsters

LEMMA SwordDamageType == ASSUME NEW s PROVE V!SwordDamage(s) \in Int
BY DEF V!SwordDamage

LEMMA ReachedDefence ==
    ASSUME NEW s, DefenceOK(s), NEW reached
    PROVE  DefenceOK(V!Reached(s, reached))
<1>1. PICK b : b = IF V!Banana \in reached THEN V!HitBananaBoss(s) ELSE s
  OBVIOUS
<1>2. PICK a : a = IF V!Andrewsous \in reached THEN V!HitAndrewsous(b) ELSE b
  OBVIOUS
<1>3. DefenceOK(b)
  BY <1>1, HitBossDefence DEF V!HitBananaBoss
<1>4. DefenceOK(a)
  BY <1>2, <1>3, HitBossDefence DEF V!HitAndrewsous
<1>5. PICK damage \in Int : damage = V!SwordDamage(s)
  BY SwordDamageType
<1>6. PICK ms : ms = [i \in DOMAIN s.monsters |->
            IF i \in reached /\ ~s.monsters[i].struck
            THEN [V!Struck(s.monsters[i], damage) EXCEPT !.struck = TRUE] ELSE s.monsters[i]]
  OBVIOUS
<1>7. V!Reached(s, reached) = [a EXCEPT !.monsters = ms]
  BY <1>1, <1>2, <1>5, <1>6 DEF V!Reached
<1>8. ms \in Seq(VillageMonsters)
  <2>1. PICK n \in Nat : n = Len(s.monsters)
    BY DEF DefenceOK, VillageShape
  <2>2. DOMAIN s.monsters = 1 .. n /\ \A i \in 1 .. n : s.monsters[i] \in VillageMonsters
    BY <2>1 DEF DefenceOK, VillageShape
  <2>3. ASSUME NEW i \in 1 .. n
        PROVE  ms[i] \in VillageMonsters
    <3>1. s.monsters[i] \in VillageMonsters
      BY <2>2
    <3>2. PICK m \in VillageMonsters : m = V!Struck(s.monsters[i], damage)
      BY <3>1, StruckMonster
    <3>3. [m EXCEPT !.struck = TRUE] \in VillageMonsters
      BY DEF VillageMonsters
    <3>4. QED
      BY <1>6, <2>2, <3>1, <3>2, <3>3
  <2>4. ms \in [1 .. n -> VillageMonsters]
    BY <1>6, <2>2, <2>3
  <2>5. QED
    BY <2>4
<1>9. QED
  BY <1>4, <1>7, <1>8, MonstersAside, AsideKept DEF DefenceOK

LEMMA FlownDefence ==
    ASSUME NEW s, DefenceOK(s), NEW t \in V!Flown(s)
    PROVE  DefenceOK(t)
<1>1. PICK back, caught : back = [s EXCEPT !.cleaver = "back"] /\ caught = [s EXCEPT !.cleaver = "held"]
  OBVIOUS
<1>2. DefenceOK(back) /\ DefenceOK(caught)
  BY <1>1, CleaverAside, AsideKept DEF DefenceOK
<1>3. t \in {s, caught} \cup V!Strikes(s) \cup V!Strikes(back)
  BY <1>1 DEF V!Flown
<1>4. ASSUME NEW u \in {s, back}, t \in V!Strikes(u)
      PROVE  DefenceOK(t)
  <2>1. PICK reached : t = V!Reached(u, reached)
    BY <1>4 DEF V!Strikes
  <2>2. QED
    BY <1>2, <2>1, ReachedDefence
<1>5. QED
  BY <1>2, <1>3, <1>4

LEMMA ClosedDefence ==
    ASSUME NEW states, NEW near, near \subseteq states, NEW n, NEW t \in V!Closed(states, near),
           \A u \in states : DefenceOK(u) /\ Len(u.monsters) = n
    PROVE  DefenceOK(t) /\ Len(t.monsters) = n
<1>1. CASE t \in states
  BY <1>1
<1>2. CASE t \notin states
  <2>1. PICK u \in near : t = V!Wounded(u)
    BY <1>2 DEF V!Closed
  <2>2. QED
    BY <2>1, WoundedDefence
<1>3. QED
  BY <1>1, <1>2

LEMMA BossMovedDefence ==
    ASSUME NEW s, DefenceOK(s), NEW boss \in {"banana", "andrew"}, NEW t \in V!BossMoved(s, boss)
    PROVE  DefenceOK(t)
<1>1. CASE ~s[boss].active
  BY <1>1 DEF V!BossMoved
<1>2. CASE s[boss].active
  <2>1. PICK new : new = [active |-> TRUE, hp |-> s[boss].hp, rest |-> V!Down(s[boss].rest),
                          raid |-> V!Down(s[boss].raid)]
    OBVIOUS
  <2>2. PICK rested : rested = [s EXCEPT ![boss] = new]
    OBVIOUS
  <2>3. PICK u : u = V!Raided(rested, BossDamage)
    OBVIOUS
  <2>4. PICK v : v = [u EXCEPT ![boss].raid = VillageRest]
    OBVIOUS
  <2>5. PICK raided : raided = {rested} \cup (IF rested[boss].raid = 0 THEN {v} ELSE {})
    OBVIOUS
  <2>6. PICK moved : moved = raided \cup (IF V!Swinging(s) THEN {V!HitBoss(w, boss) : w \in raided} ELSE {})
    OBVIOUS
  <2>7. t \in V!Closed(moved, {w \in moved : w[boss].rest < HitRest - 1})
    BY <1>2, <2>1, <2>2, <2>3, <2>4, <2>5, <2>6 DEF V!BossMoved
  <2>8. new \in VillageBosses
    <3>1. s[boss] \in VillageBosses
      BY DEF DefenceOK, VillageShape
    <3>2. QED
      BY <2>1, <3>1 DEF VillageBosses, V!Down
  <2>9. DefenceOK(rested) /\ rested.monsters = s.monsters
    BY <2>2, <2>8, BossAside, AsideKept DEF DefenceOK
  <2>10. DefenceOK(u) /\ u.monsters = s.monsters
    BY <2>3, <2>9, RaidedDefence, VillageConstants
  <2>11. DefenceOK(v) /\ v.monsters = s.monsters
    <3>1. PICK late : late = [u[boss] EXCEPT !.raid = VillageRest]
      OBVIOUS
    <3>2. u[boss] \in VillageBosses
      BY <2>10 DEF DefenceOK, VillageShape
    <3>3. late \in VillageBosses
      BY <3>1, <3>2, VillageConstants DEF VillageBosses
    <3>4. v = [u EXCEPT ![boss] = late]
      BY <2>4, <3>1
    <3>5. QED
      BY <2>10, <3>3, <3>4, BossAside, AsideKept DEF DefenceOK
  <2>12. \A w \in raided : DefenceOK(w) /\ w.monsters = s.monsters
    BY <2>5, <2>9, <2>11
  <2>13. ASSUME NEW w \in moved
         PROVE  DefenceOK(w) /\ Len(w.monsters) = Len(s.monsters)
    <3>1. CASE w \in raided
      BY <2>12, <3>1
    <3>2. CASE w \notin raided
      <4>1. PICK x \in raided : w = V!HitBoss(x, boss)
        BY <2>6, <3>2
      <4>2. QED
        BY <2>12, <4>1, HitBossDefence
    <3>3. QED
      BY <3>1, <3>2
  <2>14. PICK near : near = {w \in moved : w[boss].rest < HitRest - 1}
    OBVIOUS
  <2>15. near \subseteq moved /\ t \in V!Closed(moved, near)
    BY <2>7, <2>14
  <2>16. QED
    BY <2>13, <2>15, ClosedDefence
<1>3. QED
  BY <1>1, <1>2

LEMMA MonsterMovedDefence ==
    ASSUME NEW s, DefenceOK(s), NEW i \in 1 .. Len(s.monsters), NEW t \in V!MonsterMoved(s, i)
    PROVE  DefenceOK(t) /\ Len(t.monsters) = Len(s.monsters)
<1>1. PICK rested : rested = [s.monsters[i] EXCEPT !.rest = V!Down(@), !.raid = V!Down(@)]
  OBVIOUS
<1>2. PICK arrived : arrived = [s EXCEPT !.monsters[i] = rested]
  OBVIOUS
<1>3. PICK u : u = V!Raided(arrived, 1)
  OBVIOUS
<1>4. PICK v : v = [u EXCEPT !.monsters[i].raid = VillageRest]
  OBVIOUS
<1>5. PICK raided : raided = {arrived} \cup (IF rested.raid = 0 THEN {v} ELSE {})
  OBVIOUS
<1>7. PICK moved : moved = raided \cup (IF V!Swinging(s) /\ rested.rest = 0
                                     THEN {V!Cut(w, i, V!SwordDamage(s)) : w \in raided} ELSE {})
  OBVIOUS
<1>8. t \in V!Closed(moved, {w \in moved : w.monsters[i].rest < HitRest - 1})
  BY <1>1, <1>2, <1>3, <1>4, <1>5, <1>7 DEF V!MonsterMoved
<1>9. rested \in VillageMonsters
  <2>1. s.monsters[i] \in VillageMonsters
    BY DEF DefenceOK, VillageShape
  <2>2. PICK rest, raid : rest = V!Down(s.monsters[i].rest) /\ raid = V!Down(s.monsters[i].raid)
    OBVIOUS
  <2>3. rest \in Int /\ raid \in Int
    BY <2>1, <2>2 DEF VillageMonsters, V!Down
  <2>4. rested = [s.monsters[i] EXCEPT !.rest = rest, !.raid = raid]
    BY <1>1, <2>1, <2>2 DEF VillageMonsters
  <2>5. QED
    BY <2>1, <2>3, <2>4 DEF VillageMonsters
<1>10. ASSUME NEW w, DefenceOK(w), Len(w.monsters) = Len(s.monsters), NEW m \in VillageMonsters
       PROVE  /\ DefenceOK([w EXCEPT !.monsters[i] = m])
              /\ Len([w EXCEPT !.monsters[i] = m].monsters) = Len(s.monsters)
  <2>1. PICK all : all = [w.monsters EXCEPT ![i] = m]
    OBVIOUS
  <2>2. w.monsters \in Seq(VillageMonsters) /\ i \in 1 .. Len(w.monsters)
    BY <1>10 DEF DefenceOK, VillageShape
  <2>3. all \in Seq(VillageMonsters) /\ Len(all) = Len(s.monsters)
    BY <1>10, <2>1, <2>2
  <2>4. [w EXCEPT !.monsters[i] = m] = [w EXCEPT !.monsters = all]
    BY <2>1
  <2>5. QED
    BY <1>10, <2>3, <2>4, MonstersAside, AsideKept DEF DefenceOK
<1>11. DefenceOK(arrived) /\ Len(arrived.monsters) = Len(s.monsters)
  BY <1>2, <1>9, <1>10
<1>12. DefenceOK(u) /\ Len(u.monsters) = Len(s.monsters)
  BY <1>3, <1>11, RaidedDefence
<1>13. DefenceOK(v) /\ Len(v.monsters) = Len(s.monsters)
  <2>1. PICK late : late = [u.monsters[i] EXCEPT !.raid = VillageRest]
    OBVIOUS
  <2>2. u.monsters[i] \in VillageMonsters
    <3>1. u.monsters \in Seq(VillageMonsters) /\ i \in 1 .. Len(u.monsters)
      BY <1>12 DEF DefenceOK, VillageShape
    <3>2. QED
      BY <3>1
  <2>3. late \in VillageMonsters
    <3>1. VillageRest \in Int
      BY VillageConstants
    <3>2. QED
      BY <2>1, <2>2, <3>1 DEF VillageMonsters
  <2>4. v = [u EXCEPT !.monsters[i] = late]
    BY <1>4, <2>1
  <2>5. QED
    BY <1>10, <1>12, <2>3, <2>4
<1>14. \A w \in raided : DefenceOK(w) /\ Len(w.monsters) = Len(s.monsters)
  BY <1>5, <1>11, <1>13
<1>15. ASSUME NEW w \in moved
       PROVE  DefenceOK(w) /\ Len(w.monsters) = Len(s.monsters)
  <2>1. CASE w \in raided
    BY <1>14, <2>1
  <2>2. CASE w \notin raided
    <3>1. PICK x \in raided : w = V!Cut(x, i, V!SwordDamage(s))
      BY <1>7, <2>2
    <3>2. PICK m : m = V!Struck(x.monsters[i], V!SwordDamage(s))
      OBVIOUS
    <3>3. x.monsters[i] \in VillageMonsters
      BY <1>14 DEF DefenceOK, VillageShape
    <3>4. m \in VillageMonsters
      BY <3>2, <3>3, StruckMonster, SwordDamageType
    <3>5. w = [x EXCEPT !.monsters[i] = m]
      BY <3>1, <3>2 DEF V!Cut
    <3>6. QED
      BY <1>10, <1>14, <3>4, <3>5
  <2>3. QED
    BY <2>1, <2>2
<1>16. PICK near : near = {w \in moved : w.monsters[i].rest < HitRest - 1}
  OBVIOUS
<1>17. near \subseteq moved /\ t \in V!Closed(moved, near)
  BY <1>8, <1>16
<1>18. QED
  BY <1>15, <1>17, ClosedDefence

\* The monsters move one after another.
VillageRun(f, s) ==
    /\ f[0] = {s}
    /\ \A n \in 1 .. Len(s.monsters) : f[n] = UNION {V!MonsterMoved(t, n) : t \in f[n - 1]}
    /\ V!MonstersMoved(s) = f[Len(s.monsters)]

LEMMA VillageRunExists ==
    ASSUME NEW s, VillageShape(s)
    PROVE  \E f : VillageRun(f, s)
<1> DEFINE size == Len(s.monsters)
           Rec(f, m) == [n \in 0 .. m |-> IF n = 0 THEN {s} ELSE UNION {V!MonsterMoved(t, n) : t \in f[n - 1]}]
           Holds(m) == \E f : f = Rec(f, m)
           Bad == {m \in 0 .. size : ~Holds(m)}
<1>1. size \in Nat
  BY DEF VillageShape
<1>2. Holds(size)
  <2>1. SUFFICES ASSUME NEW m \in 0 .. size, ~Holds(m), \A k \in 0 .. size : ~Holds(k) => m <= k
                 PROVE  FALSE
    <3>1. Bad \subseteq Nat /\ \A m : m \in Bad <=> m \in 0 .. size /\ ~Holds(m)
      BY <1>1
    <3> HIDE DEF Bad, Holds, size
    <3>2. size \in 0 .. size
      BY <1>1
    <3>3. QED
      BY <2>1, <3>1, <3>2, LeastNatural
  <2>2. Holds(0)
    <3> DEFINE f == [n \in 0 .. 0 |-> {s}]
    <3>1. f = Rec(f, 0)
      OBVIOUS
    <3>2. QED
      BY <3>1
  <2>3. m \in 1 .. size /\ m - 1 \in 0 .. size /\ m - 1 < m
    <3> HIDE DEF Holds
    <3>1. m # 0
      BY <2>1, <2>2
    <3>2. QED
      BY <1>1, <3>1
  <2>4. Holds(m - 1)
    <3> HIDE DEF Holds
    <3>1. QED
      BY <1>1, <2>1, <2>3
  <2>5. PICK f : f = Rec(f, m - 1)
    BY <2>4
  <2> DEFINE last == UNION {V!MonsterMoved(t, m) : t \in f[m - 1]}
             g == [n \in 0 .. m |-> IF n = m THEN last ELSE f[n]]
  <2>6. g = Rec(g, m)
    <3>1. ASSUME NEW n \in 0 .. m
          PROVE  g[n] = Rec(g, m)[n]
      <4>1. CASE n = m
        <5>1. g[n] = last /\ g[n - 1] = f[m - 1]
          BY <2>3, <4>1
        <5>2. Rec(g, m)[n] = UNION {V!MonsterMoved(t, n) : t \in g[n - 1]}
          <6> HIDE DEF g
          <6>1. n # 0 /\ n \in 0 .. m
            BY <2>3, <4>1
          <6>2. QED
            BY <6>1
        <5> HIDE DEF g, Rec
        <5>3. QED
          BY <4>1, <5>1, <5>2
      <4>2. CASE n # m
        <5>1. n \in 0 .. m - 1 /\ g[n] = f[n]
          BY <2>3, <4>2
        <5>2. CASE n = 0
          <6>1. f[n] = {s}
            BY <2>5, <5>1, <5>2
          <6>2. QED
            BY <5>1, <5>2, <6>1
        <5>3. CASE n # 0
          <6>1. g[n - 1] = f[n - 1]
            BY <2>3, <5>1, <5>3
          <6>2. f[n] = UNION {V!MonsterMoved(t, n) : t \in f[n - 1]}
            BY <2>5, <5>1, <5>3
          <6>3. Rec(g, m)[n] = UNION {V!MonsterMoved(t, n) : t \in g[n - 1]}
            BY <5>3
          <6> HIDE DEF g, Rec
          <6>4. QED
            BY <5>1, <6>1, <6>2, <6>3
        <5>4. QED
          BY <5>2, <5>3
      <4>3. QED
        BY <4>1, <4>2
    <3>2. g = [n \in 0 .. m |-> g[n]] /\ Rec(g, m) = [n \in 0 .. m |-> Rec(g, m)[n]]
      OBVIOUS
    <3> HIDE DEF g, Rec
    <3>3. QED
      BY <3>1, <3>2
  <2>7. QED
    BY <2>1, <2>6
<1> DEFINE h == CHOOSE f : f = Rec(f, size)
<1>3. h = Rec(h, size)
  BY <1>2
<1>4. V!MonstersMoved(s) = h[size]
  BY DEF V!MonstersMoved
<1> HIDE DEF h
<1>5. h[0] = {s} /\ \A n \in 1 .. size : h[n] = UNION {V!MonsterMoved(t, n) : t \in h[n - 1]}
  <2>1. \A n \in 0 .. size : h[n] = Rec(h, size)[n]
    BY <1>3
  <2>2. 0 \in 0 .. size /\ \A n \in 1 .. size : n \in 0 .. size /\ n # 0
    BY <1>1
  <2>3. QED
    BY <2>1, <2>2
<1>6. QED
  BY <1>4, <1>5 DEF VillageRun

LEMMA MonstersMovedDefence ==
    ASSUME NEW s, DefenceOK(s), NEW t \in V!MonstersMoved(s)
    PROVE  DefenceOK(t)
<1>1. PICK f : VillageRun(f, s)
  BY VillageRunExists DEF DefenceOK
<1>2. PICK size \in Nat : size = Len(s.monsters)
  BY DEF DefenceOK, VillageShape
<1> DEFINE Holds(n) == \A u \in f[n] : DefenceOK(u) /\ Len(u.monsters) = size
           Bad == {n \in 0 .. size : ~Holds(n)}
<1>3. Holds(size)
  <2>1. SUFFICES ASSUME NEW m \in 0 .. size, ~Holds(m), \A k \in 0 .. size : ~Holds(k) => m <= k
                 PROVE  FALSE
    <3>1. Bad \subseteq Nat /\ \A m : m \in Bad <=> m \in 0 .. size /\ ~Holds(m)
      OBVIOUS
    <3> HIDE DEF Bad, Holds
    <3>2. size \in 0 .. size
      OBVIOUS
    <3>3. QED
      BY <2>1, <3>1, <3>2, LeastNatural
  <2>2. Holds(0)
    BY <1>1, <1>2 DEF VillageRun
  <2>3. m \in 1 .. size /\ m - 1 \in 0 .. size /\ m - 1 < m
    <3> HIDE DEF Holds
    <3>1. m # 0
      BY <2>1, <2>2
    <3>2. QED
      BY <3>1
  <2>4. Holds(m - 1)
    <3> HIDE DEF Holds
    <3>1. QED
      BY <2>1, <2>3
  <2>5. ASSUME NEW v \in f[m]
        PROVE  DefenceOK(v) /\ Len(v.monsters) = size
    <3>1. f[m] = UNION {V!MonsterMoved(u, m) : u \in f[m - 1]}
      BY <1>1, <1>2, <2>3 DEF VillageRun
    <3>2. PICK u \in f[m - 1] : v \in V!MonsterMoved(u, m)
      BY <3>1
    <3>3. DefenceOK(u) /\ Len(u.monsters) = size
      BY <2>4
    <3>4. m \in 1 .. Len(u.monsters)
      BY <2>3, <3>3
    <3>5. QED
      BY <3>2, <3>3, <3>4, MonsterMovedDefence
  <2>6. QED
    BY <2>1, <2>5
<1>4. QED
  BY <1>1, <1>2, <1>3 DEF VillageRun

LEMMA CutDefence ==
    ASSUME NEW s, DefenceOK(s), NEW i \in DOMAIN s.monsters, NEW damage \in Int
    PROVE  DefenceOK(V!Cut(s, i, damage))
<1>1. PICK m, all : m = V!Struck(s.monsters[i], damage) /\ all = [s.monsters EXCEPT ![i] = m]
  OBVIOUS
<1>2. s.monsters \in Seq(VillageMonsters)
  BY DEF DefenceOK, VillageShape
<1>3. s.monsters[i] \in VillageMonsters
  BY <1>2
<1>4. m \in VillageMonsters
  BY <1>1, <1>3, StruckMonster
<1>5. all \in Seq(VillageMonsters)
  BY <1>1, <1>2, <1>4
<1>6. V!Cut(s, i, damage) = [s EXCEPT !.monsters = all]
  BY <1>1 DEF V!Cut
<1>7. QED
  BY <1>5, <1>6, MonstersAside, AsideKept DEF DefenceOK

LEMMA HelperMovedDefence ==
    ASSUME NEW s, DefenceOK(s), NEW h, NEW t \in V!HelperMoved(s, h)
    PROVE  DefenceOK(t)
<1> DEFINE Set(x) == [s EXCEPT !.helpers[h] = x]
<1>1. \A x : DefenceOK(Set(x)) /\ Set(x).monsters = s.monsters
  <2>1. TAKE x
  <2>2. PICK hs : hs = [s.helpers EXCEPT ![h] = x]
    OBVIOUS
  <2>3. Set(x) = [s EXCEPT !.helpers = hs]
    BY <2>2
  <2>4. QED
    BY <2>3, HelpersAside, AsideKept DEF DefenceOK
<1>2. PICK old : old = [swing |-> V!Down(s.helpers[h].swing), cool |-> V!Down(s.helpers[h].cool)]
  OBVIOUS
<1>3. PICK new : new = IF old.cool = 0 THEN [swing |-> HelperSwing, cool |-> HelperRest] ELSE old
  OBVIOUS
<1>4. PICK u : u = Set(old)
  OBVIOUS
<1>5. PICK blow : blow = {u} \cup (IF V!Seen(s) = {} THEN {} ELSE {Set(new)})
  OBVIOUS
<1>6. t \in blow \cup {V!HitByHelper(u, foe) : foe \in V!Seen(s)}
  BY <1>2, <1>3, <1>4, <1>5 DEF V!HelperMoved
<1> HIDE DEF Set
<1>7. CASE t \in blow
  BY <1>1, <1>4, <1>5, <1>7
<1>8. ASSUME NEW foe \in V!Seen(s), t = V!HitByHelper(u, foe)
      PROVE  DefenceOK(t)
  <2>1. DefenceOK(u) /\ u.monsters = s.monsters
    BY <1>1, <1>4
  <2>2. CASE foe = V!Banana
    BY <1>8, <2>1, <2>2, HitBossDefence DEF V!HitByHelper, V!HitBananaBoss, V!Banana, V!Andrewsous
  <2>3. CASE foe = V!Andrewsous
    BY <1>8, <2>1, <2>3, HitBossDefence DEF V!HitByHelper, V!HitAndrewsous, V!Banana, V!Andrewsous
  <2>4. CASE foe # V!Banana /\ foe # V!Andrewsous
    <3>1. foe \in DOMAIN u.monsters
      BY <2>1, <2>4 DEF V!Seen, V!Foes
    <3>2. DefenceOK(V!Cut(u, foe, 1))
      BY <2>1, <3>1, CutDefence
    <3>3. QED
      BY <1>8, <2>1, <2>4, <3>2 DEF V!HitByHelper
  <2>5. QED
    BY <2>2, <2>3, <2>4
<1>9. QED
  BY <1>6, <1>7, <1>8

\* The helpers move one after another.
HelperRun(f, s) ==
    /\ f[0] = {s}
    /\ \A n \in 1 .. HelperCount : f[n] = UNION {V!HelperMoved(t, n) : t \in f[n - 1]}
    /\ V!HelpersMoved(s) = f[HelperCount]

LEMMA HelperRunExists ==
    ASSUME NEW s
    PROVE  \E f : HelperRun(f, s)
<1> DEFINE size == HelperCount
           Rec(f, m) == [n \in 0 .. m |-> IF n = 0 THEN {s} ELSE UNION {V!HelperMoved(t, n) : t \in f[n - 1]}]
           Holds(m) == \E f : f = Rec(f, m)
           Bad == {m \in 0 .. size : ~Holds(m)}
<1>1. size \in Nat
  BY VillageConstants
<1>2. Holds(size)
  <2>1. SUFFICES ASSUME NEW m \in 0 .. size, ~Holds(m), \A k \in 0 .. size : ~Holds(k) => m <= k
                 PROVE  FALSE
    <3>1. Bad \subseteq Nat /\ \A m : m \in Bad <=> m \in 0 .. size /\ ~Holds(m)
      BY <1>1
    <3> HIDE DEF Bad, Holds, size
    <3>2. size \in 0 .. size
      BY <1>1
    <3>3. QED
      BY <2>1, <3>1, <3>2, LeastNatural
  <2>2. Holds(0)
    <3> DEFINE f == [n \in 0 .. 0 |-> {s}]
    <3>1. f = Rec(f, 0)
      OBVIOUS
    <3>2. QED
      BY <3>1
  <2>3. m \in 1 .. size /\ m - 1 \in 0 .. size /\ m - 1 < m
    <3> HIDE DEF Holds
    <3>1. m # 0
      BY <2>1, <2>2
    <3>2. QED
      BY <1>1, <3>1
  <2>4. Holds(m - 1)
    <3> HIDE DEF Holds
    <3>1. QED
      BY <1>1, <2>1, <2>3
  <2>5. PICK f : f = Rec(f, m - 1)
    BY <2>4
  <2> DEFINE last == UNION {V!HelperMoved(t, m) : t \in f[m - 1]}
             g == [n \in 0 .. m |-> IF n = m THEN last ELSE f[n]]
  <2>6. g = Rec(g, m)
    <3>1. ASSUME NEW n \in 0 .. m
          PROVE  g[n] = Rec(g, m)[n]
      <4>1. CASE n = m
        <5>1. g[n] = last /\ g[n - 1] = f[m - 1]
          BY <2>3, <4>1
        <5>2. Rec(g, m)[n] = UNION {V!HelperMoved(t, n) : t \in g[n - 1]}
          <6> HIDE DEF g
          <6>1. n # 0 /\ n \in 0 .. m
            BY <2>3, <4>1
          <6>2. QED
            BY <6>1
        <5> HIDE DEF g, Rec
        <5>3. QED
          BY <4>1, <5>1, <5>2
      <4>2. CASE n # m
        <5>1. n \in 0 .. m - 1 /\ g[n] = f[n]
          BY <2>3, <4>2
        <5>2. CASE n = 0
          <6>1. f[n] = {s}
            BY <2>5, <5>1, <5>2
          <6>2. QED
            BY <5>1, <5>2, <6>1
        <5>3. CASE n # 0
          <6>1. g[n - 1] = f[n - 1]
            BY <2>3, <5>1, <5>3
          <6>2. f[n] = UNION {V!HelperMoved(t, n) : t \in f[n - 1]}
            BY <2>5, <5>1, <5>3
          <6>3. Rec(g, m)[n] = UNION {V!HelperMoved(t, n) : t \in g[n - 1]}
            BY <5>3
          <6> HIDE DEF g, Rec
          <6>4. QED
            BY <5>1, <6>1, <6>2, <6>3
        <5>4. QED
          BY <5>2, <5>3
      <4>3. QED
        BY <4>1, <4>2
    <3>2. g = [n \in 0 .. m |-> g[n]] /\ Rec(g, m) = [n \in 0 .. m |-> Rec(g, m)[n]]
      OBVIOUS
    <3> HIDE DEF g, Rec
    <3>3. QED
      BY <3>1, <3>2
  <2>7. QED
    BY <2>1, <2>6
<1> DEFINE h == CHOOSE f : f = Rec(f, size)
<1>3. h = Rec(h, size)
  BY <1>2
<1>4. V!HelpersMoved(s) = h[size]
  BY DEF V!HelpersMoved
<1> HIDE DEF h
<1>5. h[0] = {s} /\ \A n \in 1 .. size : h[n] = UNION {V!HelperMoved(t, n) : t \in h[n - 1]}
  <2>1. \A n \in 0 .. size : h[n] = Rec(h, size)[n]
    BY <1>3
  <2>2. 0 \in 0 .. size /\ \A n \in 1 .. size : n \in 0 .. size /\ n # 0
    BY <1>1
  <2>3. QED
    BY <2>1, <2>2
<1>6. QED
  BY <1>4, <1>5 DEF HelperRun

LEMMA HelpersMovedDefence ==
    ASSUME NEW s, DefenceOK(s), NEW t \in V!HelpersMoved(s)
    PROVE  DefenceOK(t)
<1>1. PICK f : HelperRun(f, s)
  BY HelperRunExists
<1>2. PICK size \in Nat : size = HelperCount
  BY VillageConstants
<1> DEFINE Holds(n) == \A u \in f[n] : DefenceOK(u)
           Bad == {n \in 0 .. size : ~Holds(n)}
<1>3. Holds(size)
  <2>1. SUFFICES ASSUME NEW m \in 0 .. size, ~Holds(m), \A k \in 0 .. size : ~Holds(k) => m <= k
                 PROVE  FALSE
    <3>1. Bad \subseteq Nat /\ \A m : m \in Bad <=> m \in 0 .. size /\ ~Holds(m)
      OBVIOUS
    <3> HIDE DEF Bad, Holds
    <3>2. size \in 0 .. size
      OBVIOUS
    <3>3. QED
      BY <2>1, <3>1, <3>2, LeastNatural
  <2>2. Holds(0)
    BY <1>1, <1>2 DEF HelperRun
  <2>3. m \in 1 .. size /\ m - 1 \in 0 .. size /\ m - 1 < m
    <3> HIDE DEF Holds
    <3>1. m # 0
      BY <2>1, <2>2
    <3>2. QED
      BY <3>1
  <2>4. Holds(m - 1)
    <3> HIDE DEF Holds
    <3>1. QED
      BY <2>1, <2>3
  <2>5. ASSUME NEW v \in f[m]
        PROVE  DefenceOK(v)
    <3>1. f[m] = UNION {V!HelperMoved(u, m) : u \in f[m - 1]}
      BY <1>1, <1>2, <2>3 DEF HelperRun
    <3>2. PICK u \in f[m - 1] : v \in V!HelperMoved(u, m)
      BY <3>1
    <3>3. DefenceOK(u)
      BY <2>4
    <3>4. QED
      BY <3>2, <3>3, HelperMovedDefence
  <2>6. QED
    BY <2>1, <2>5
<1>4. QED
  BY <1>1, <1>2, <1>3 DEF HelperRun

LEMMA ClearedDefence ==
    ASSUME NEW s, DefenceOK(s)
    PROVE  DefenceOK(V!Cleared(s))
<1>1. PICK standing : standing = {m \in V!Range(s.monsters) : m.hp > 0}
  OBVIOUS
<1>2. PICK alive : alive = V!Only(s.monsters, standing)
  OBVIOUS
<1>3. alive \in Seq(VillageMonsters)
  <2>1. V!Only(s.monsters, standing) = Only(s.monsters, standing)
    BY DEF V!Only, Only
  <2>2. Only(s.monsters, standing) \in Seq(VillageMonsters)
    BY OnlyType DEF DefenceOK, VillageShape
  <2>3. QED
    BY <1>2, <2>1, <2>2
<1>4. PICK fallen \in Int : fallen = Len(s.monsters) - Len(alive)
  <2>1. Len(alive) \in Nat
    BY <1>3
  <2>2. Len(s.monsters) \in Nat
    BY DEF DefenceOK, VillageShape
  <2>3. Len(s.monsters) - Len(alive) \in Int
    BY <2>1, <2>2
  <2>4. QED
    BY <2>3
<1>5. PICK u : u = [s EXCEPT !.monsters = alive]
  OBVIOUS
<1>6. DefenceOK(u)
  BY <1>3, <1>5, MonstersAside, AsideKept DEF DefenceOK
<1>7. PICK score, coins : score = u.score + fallen /\ coins = u.coins + CoinsPerMonster * fallen
  OBVIOUS
<1>8. PICK t : t = V!Cleared(s)
  OBVIOUS
<1>9. t = [u EXCEPT !.score = score, !.coins = coins]
  <2>1. u.score = s.score /\ u.coins = s.coins
    BY <1>5 DEF DefenceOK, VillageShape, VillageFields
  <2>2. t = [s EXCEPT !.score = score, !.coins = coins, !.monsters = alive]
    BY <1>1, <1>2, <1>4, <1>7, <1>8, <2>1 DEF V!Cleared
  <2>3. QED
    BY <1>5, <2>2 DEF DefenceOK, VillageShape, VillageFields
<1>10. /\ DOMAIN t = VillageFields /\ t.monsters = u.monsters /\ t.banana = u.banana /\ t.andrew = u.andrew
       /\ SameFight(u, t) /\ SamePhase(u, t)
       /\ t.score = score /\ t.felled = u.felled /\ t.coins = coins /\ t.sword = u.sword /\ t.shield = u.shield
  BY <1>6, <1>9 DEF DefenceOK, VillageShape, VillageFields, SameFight, SamePhase
<1>11. Purse(t)
  <2>1. /\ u.score \in Int /\ u.felled \in Int /\ u.coins \in Int /\ CoinsPerMonster \in Int
        /\ BossScore \in Int /\ ItemCost \in Int /\ Owned(u) \in Int
        /\ u.coins + ItemCost * Owned(u) = CoinsPerMonster * (u.score - BossScore * u.felled)
    BY <1>6, VillageConstants DEF DefenceOK, Purse, Owned
  <2>2. PICK earned \in Int : earned = u.score - BossScore * u.felled
    BY <2>1
  <2>3. score - BossScore * u.felled = earned + fallen
    BY <1>7, <2>1, <2>2
  <2>4. CoinsPerMonster * (earned + fallen) = CoinsPerMonster * earned + CoinsPerMonster * fallen
    BY <2>1
  <2>5. CoinsPerMonster * fallen \in Int /\ CoinsPerMonster * earned \in Int /\ ItemCost * Owned(u) \in Int
    BY <2>1
  <2>6. score \in Int /\ coins \in Int
    BY <1>7, <2>1, <2>5
  <2>7. coins + ItemCost * Owned(u) = CoinsPerMonster * (earned + fallen)
    BY <1>7, <2>1, <2>2, <2>4, <2>5
  <2>8. Owned(t) = Owned(u)
    BY <1>10 DEF Owned
  <2>9. t.coins + ItemCost * Owned(t) = CoinsPerMonster * (t.score - BossScore * t.felled)
    BY <1>10, <2>3, <2>7, <2>8
  <2>10. QED
    BY <1>6, <1>10, <2>6, <2>9 DEF DefenceOK, Purse
<1>12. QED
  BY <1>6, <1>8, <1>10, <1>11, FightKept, PhaseKept DEF DefenceOK, VillageShape

LEMMA NewFoes ==
    /\ [i \in 1 .. WaveSize |-> V!NewMonster] \in Seq(VillageMonsters)
    /\ \A hp \in Nat : V!NewBoss(hp) \in VillageBosses /\ V!NoBoss(hp) \in VillageBosses
<1>1. V!NewMonster \in VillageMonsters
  BY VillageConstants DEF V!NewMonster, VillageMonsters
<1>2. QED
  BY <1>1, VillageConstants DEF V!NewBoss, V!NoBoss, VillageBosses

\* A new wave: its monsters join those that are left, and it is fought.
LEMMA StartedWaveDefence ==
    ASSUME NEW s, VillageShape(s), Fight(s), Purse(s), NEW n
    PROVE  DefenceOK(V!StartedWave(s, n))
<1>1. PICK new : new = [i \in 1 .. WaveSize |-> V!NewMonster]
  OBVIOUS
<1>2. PICK ms : ms = s.monsters \o new
  OBVIOUS
<1>3. PICK banana \in VillageBosses : banana = IF n % BananaEvery = 0 /\ ~s.banana.active /\ ~s.won
                                            THEN V!NewBoss(BananaHp) ELSE s.banana
  BY NewFoes, VillageConstants DEF VillageShape
<1>4. PICK andrew \in VillageBosses : andrew = IF n % AndrewEvery = 0 /\ ~s.andrew.active /\ ~s.won
                                            THEN V!NewBoss(AndrewHp) ELSE s.andrew
  BY NewFoes, VillageConstants DEF VillageShape
<1>5. ms \in Seq(VillageMonsters)
  BY <1>1, <1>2, NewFoes DEF VillageShape
<1>6. PICK t : t = V!StartedWave(s, n)
  OBVIOUS
<1>7. t = [s EXCEPT !.wave = n, !.active = TRUE, !.pause = FALSE, !.monsters = ms,
                    !.banana = banana, !.andrew = andrew]
  BY <1>1, <1>2, <1>3, <1>4, <1>6 DEF V!StartedWave, VillageShape, VillageFields
<1>8. /\ DOMAIN t = VillageFields /\ t.monsters = ms /\ t.banana = banana /\ t.andrew = andrew
      /\ SameFight(s, t) /\ SamePurse(s, t) /\ t.active = TRUE /\ t.pause = FALSE
  BY <1>7 DEF VillageShape, VillageFields, SameFight, SamePurse
<1>9. InPhase(t)
  BY <1>8 DEF InPhase
<1>10. QED
  BY <1>5, <1>6, <1>8, <1>9, FightKept, PurseKept DEF DefenceOK, VillageShape

LEMMA WaveUpdatedDefence ==
    ASSUME NEW s, DefenceOK(s), NEW t \in V!WaveUpdated(s)
    PROVE  DefenceOK(t)
<1>1. PICK over : over = [s EXCEPT !.active = FALSE, !.pause = TRUE]
  OBVIOUS
<1>2. DefenceOK(over)
  <2>1. /\ DOMAIN over = VillageFields /\ over.monsters = s.monsters
        /\ over.banana = s.banana /\ over.andrew = s.andrew
        /\ SameFight(s, over) /\ SamePurse(s, over) /\ over.active = FALSE /\ over.pause = TRUE
    BY <1>1 DEF DefenceOK, VillageShape, VillageFields, SameFight, SamePurse
  <2>2. InPhase(over)
    BY <2>1 DEF InPhase
  <2>3. QED
    BY <2>1, <2>2, FightKept, PurseKept DEF DefenceOK, VillageShape
<1>3. t = s \/ t = over \/ t = V!StartedWave(s, s.wave + 1)
  BY <1>1 DEF V!WaveUpdated
<1>4. QED
  BY <1>2, <1>3, StartedWaveDefence DEF DefenceOK

LEMMA UpdatedDefence ==
    ASSUME NEW s, DefenceOK(s), ~s.over, NEW t \in V!Updated(s)
    PROVE  DefenceOK(t)
<1>1. PICK bosses : bosses = V!Then(V!Then(V!Flown(V!Readied(s)), V!BananaBossMoved), V!AndrewsousMoved)
  OBVIOUS
<1>2. PICK fought : fought = V!Then({V!Judged(u) : u \in V!Then(bosses, V!HelpersMoved)}, V!MonstersMoved)
  OBVIOUS
<1>3. t \in V!Then({V!Cleared(u) : u \in fought}, V!WaveUpdated)
  BY <1>1, <1>2 DEF V!Updated
<1>4. PICK f \in fought : t \in V!WaveUpdated(V!Cleared(f))
  BY <1>3 DEF V!Then
<1>5. PICK e \in V!Then(bosses, V!HelpersMoved) : f \in V!MonstersMoved(V!Judged(e))
  BY <1>2, <1>4 DEF V!Then
<1>6. PICK d \in bosses : e \in V!HelpersMoved(d)
  BY <1>5 DEF V!Then
<1>7. PICK b \in V!Then(V!Flown(V!Readied(s)), V!BananaBossMoved) : d \in V!AndrewsousMoved(b)
  BY <1>1, <1>6 DEF V!Then
<1>8. PICK a \in V!Flown(V!Readied(s)) : b \in V!BananaBossMoved(a)
  BY <1>7 DEF V!Then
<1>9. DefenceOK(a)
  BY <1>8, ReadiedDefence, FlownDefence
<1>10. DefenceOK(b)
  BY <1>8, <1>9, BossMovedDefence DEF V!BananaBossMoved
<1>11. DefenceOK(d)
  BY <1>7, <1>10, BossMovedDefence DEF V!AndrewsousMoved
<1>12. DefenceOK(e)
  BY <1>6, <1>11, HelpersMovedDefence
<1>13. DefenceOK(f)
  BY <1>5, <1>12, JudgedDefence, MonstersMovedDefence
<1>14. QED
  BY <1>4, <1>13, ClearedDefence, WaveUpdatedDefence

LEMMA FreshDefence == DefenceOK(V!Fresh)
<1>1. PICK s : s = [over |-> FALSE, won |-> FALSE, score |-> 0, felled |-> 0,
         hp |-> HeroHp, village |-> VillageHp, coins |-> 0, sword |-> FALSE, shield |-> FALSE,
         swing |-> 0, cool |-> 0, invuln |-> 0,
         wave |-> 1, active |-> FALSE, pause |-> FALSE,
         helpers |-> [h \in 1 .. HelperCount |-> [swing |-> 0, cool |-> 0]],
         monsters |-> << >>, cleaver |-> "held",
         banana |-> V!NoBoss(BananaHp), andrew |-> V!NoBoss(AndrewHp)]
  OBVIOUS
<1>2. V!Fresh = V!StartedWave(s, 1)
  BY <1>1 DEF V!Fresh
<1>3. VillageShape(s)
  <2>1. s.banana = V!NoBoss(BananaHp) /\ s.andrew = V!NoBoss(AndrewHp) /\ s.monsters = << >>
    BY <1>1
  <2>2. DOMAIN s = VillageFields
    BY <1>1 DEF VillageFields
  <2>3. QED
    BY <2>1, <2>2, NewFoes, VillageConstants DEF VillageShape
<1>4. s.over = FALSE /\ s.hp = HeroHp /\ s.village = VillageHp /\ s.invuln = 0
  BY <1>1
<1>5. s.score = 0 /\ s.felled = 0 /\ s.coins = 0 /\ s.sword = FALSE /\ s.shield = FALSE
  BY <1>1
<1>6. Fight(s)
  <2>1. s.over \in BOOLEAN /\ ~s.over
    BY <1>4, Zenon
  <2>2. s.hp \in Nat /\ s.village \in Nat /\ s.invuln \in Nat /\ s.hp # 0 /\ s.village # 0
    BY <1>4, VillageConstants
  <2>3. QED
    BY <2>1, <2>2 DEF Fight
<1>7. Purse(s)
  <2>1. s.sword \in BOOLEAN /\ s.shield \in BOOLEAN /\ ~s.sword /\ ~s.shield
    BY <1>5, Zenon
  <2>2. Owned(s) = 0
    BY <2>1 DEF Owned
  <2>3. s.score \in Int /\ s.felled \in Int /\ s.coins \in Int
    BY <1>5
  <2>4. s.coins + ItemCost * Owned(s) = CoinsPerMonster * (s.score - BossScore * s.felled)
    BY <1>5, <2>2, VillageConstants
  <2>5. QED
    BY <2>1, <2>3, <2>4 DEF Purse
<1>8. QED
  BY <1>2, <1>3, <1>6, <1>7, StartedWaveDefence

\* An item costs what it leaves behind.
LEMMA BoughtDefence ==
    ASSUME NEW s, DefenceOK(s), NEW item \in {"sword", "shield"}, ~s[item]
    PROVE  DefenceOK([s EXCEPT !.coins = @ - ItemCost, ![item] = TRUE])
<1>1. PICK t, coins : t = [s EXCEPT !.coins = @ - ItemCost, ![item] = TRUE] /\ coins = s.coins - ItemCost
  OBVIOUS
<1>2. t = [s EXCEPT !.coins = coins, ![item] = TRUE]
  BY <1>1 DEF DefenceOK, VillageShape, VillageFields
<1>3. /\ DOMAIN t = VillageFields /\ t.monsters = s.monsters /\ t.banana = s.banana /\ t.andrew = s.andrew
      /\ SameFight(s, t) /\ SamePhase(s, t)
      /\ t.score = s.score /\ t.felled = s.felled /\ t.coins = coins
  BY <1>2 DEF DefenceOK, VillageShape, VillageFields, SameFight, SamePhase
<1>4. s.sword \in BOOLEAN /\ s.shield \in BOOLEAN
  BY DEF DefenceOK, Purse
<1>5. t.sword \in BOOLEAN /\ t.shield \in BOOLEAN /\ Owned(t) = Owned(s) + 1
  <2>1. CASE item = "sword"
    <3>1. t.sword = TRUE /\ t.shield = s.shield
      BY <1>2, <2>1 DEF DefenceOK, VillageShape, VillageFields
    <3>2. ~s.sword
      BY <2>1
    <3>3. t.sword \in BOOLEAN /\ t.shield \in BOOLEAN /\ t.sword
      BY <1>4, <3>1, Zenon
    <3>4. PICK k \in Int : k = IF s.shield THEN 1 ELSE 0
      OBVIOUS
    <3>5. Owned(s) = k
      BY <3>2, <3>4 DEF Owned
    <3>6. Owned(t) = k + 1
      BY <3>1, <3>3, <3>4 DEF Owned
    <3>7. QED
      BY <3>3, <3>5, <3>6
  <2>2. CASE item = "shield"
    <3>1. t.sword = s.sword /\ t.shield = TRUE
      BY <1>2, <2>2 DEF DefenceOK, VillageShape, VillageFields
    <3>2. ~s.shield
      BY <2>2
    <3>3. t.sword \in BOOLEAN /\ t.shield \in BOOLEAN /\ t.shield
      BY <1>4, <3>1, Zenon
    <3>4. PICK k \in Int : k = IF s.sword THEN 1 ELSE 0
      OBVIOUS
    <3>5. Owned(s) = k
      BY <3>2, <3>4 DEF Owned
    <3>6. Owned(t) = k + 1
      BY <3>1, <3>3, <3>4 DEF Owned
    <3>7. QED
      BY <3>3, <3>5, <3>6
  <2>3. QED
    BY <2>1, <2>2
<1>6. Purse(t)
  <2>1. PICK k \in Int : k = Owned(s)
    BY DEF Owned
  <2>2. ItemCost \in Int /\ s.coins \in Int
    BY VillageConstants DEF DefenceOK, Purse
  <2>3. ItemCost * (k + 1) = ItemCost * k + ItemCost
    BY <2>1, <2>2
  <2>4. coins \in Int /\ coins + ItemCost * (k + 1) = s.coins + ItemCost * k
    BY <1>1, <2>2, <2>3
  <2>5. t.coins + ItemCost * Owned(t) = s.coins + ItemCost * Owned(s)
    BY <1>3, <1>5, <2>1, <2>4
  <2>6. QED
    BY <1>3, <1>5, <2>4, <2>5 DEF DefenceOK, Purse
<1>7. QED
  BY <1>1, <1>3, <1>6, FightKept, PhaseKept DEF DefenceOK, VillageShape

LEMMA VillageFrame == [Next]_vars => UNCHANGED warrior2 \/ V!Next
BY DEF Next, On, vars, warrior2Vars

LEMMA VillageStep == VillageOK /\ [Next]_vars => VillageOK'
<1> SUFFICES ASSUME VillageOK, [Next]_vars
             PROVE  VillageOK'
  OBVIOUS
<1>1. CASE UNCHANGED warrior2
  BY <1>1 DEF VillageOK
<1>2. CASE V!Mount \/ V!Restart
  BY <1>2, FreshDefence DEF V!Mount, V!Restart, VillageOK
<1>3. CASE V!Destroy
  BY <1>3 DEF V!Destroy, VillageOK
<1>4. CASE V!Frame
  BY <1>4, UpdatedDefence DEF V!Frame, V!Playing, V!Mounted, VillageOK
<1>5. CASE \E k \in {"space", "s"} : V!Press(k) \/ V!Release(k)
  BY <1>5 DEF V!Press, V!Release, VillageOK
<1>6. CASE V!Throw
  <2>1. PICK ms : ms = [i \in DOMAIN warrior2.monsters |-> [warrior2.monsters[i] EXCEPT !.struck = FALSE]]
    OBVIOUS
  <2>2. DefenceOK(warrior2)
    BY <1>6 DEF V!Throw, V!Playing, V!Mounted, VillageOK
  <2>3. warrior2' = [warrior2 EXCEPT !.cleaver = "out", !.monsters = ms]
    BY <1>6, <2>1, <2>2 DEF V!Throw, DefenceOK, VillageShape, VillageFields
  <2>4. ms \in Seq(VillageMonsters)
    <3>1. PICK n \in Nat : n = Len(warrior2.monsters)
      BY <2>2 DEF DefenceOK, VillageShape
    <3>2. DOMAIN warrior2.monsters = 1 .. n /\ \A i \in 1 .. n : warrior2.monsters[i] \in VillageMonsters
      BY <2>2, <3>1 DEF DefenceOK, VillageShape
    <3>3. \A m \in VillageMonsters : [m EXCEPT !.struck = FALSE] \in VillageMonsters
      BY DEF VillageMonsters
    <3>4. ms \in [1 .. n -> VillageMonsters]
      BY <2>1, <3>2, <3>3
    <3>5. QED
      BY <3>4
  <2>5. PICK u : u = [warrior2 EXCEPT !.cleaver = "out"]
    OBVIOUS
  <2>6. DefenceOK(u)
    BY <2>2, <2>5, CleaverAside, AsideKept DEF DefenceOK
  <2>7. warrior2' = [u EXCEPT !.monsters = ms]
    BY <2>2, <2>3, <2>5 DEF DefenceOK, VillageShape, VillageFields
  <2>8. DefenceOK(warrior2')
    BY <2>4, <2>6, <2>7, MonstersAside, AsideKept DEF DefenceOK
  <2>9. QED
    BY <2>8 DEF VillageOK
<1>7. ASSUME NEW item \in {"sword", "shield"}, V!Buy(item)
      PROVE  VillageOK'
  <2>1. DefenceOK(warrior2) /\ ~warrior2[item]
    BY <1>7 DEF V!Buy, V!Playing, V!Mounted, VillageOK
  <2>2. DefenceOK(warrior2')
    BY <1>7, <2>1, BoughtDefence DEF V!Buy
  <2>3. QED
    BY <2>2 DEF VillageOK
<1>8. QED
  BY <1>1, <1>2, <1>3, <1>4, <1>5, <1>6, <1>7, VillageFrame DEF V!Next

LEMMA VillageInit == Init => VillageOK
BY DEF Init, V!Init, VillageOK

\* The village, the purse and the phase of the wave are in order after every frame, key and purchase,
\* whatever the parts of a frame do to each other (warrior2/warriorGame.ts:961-1169).
THEOREM VillageInvariance == Spec => []VillageOK
BY VillageInit, VillageStep, PTL DEF Spec

\* The defence is lost exactly when the warrior or the village has fallen, for any size of the waves
\* and any number of helpers (warrior2/warriorGame.ts:149-157, 332-354).
THEOREM VillageDefended == Spec => []DefenceHolds
<1>1. VillageOK => DefenceHolds
  <2>1. SUFFICES ASSUME DefenceOK(warrior2)
                 PROVE  /\ warrior2.hp >= 0 /\ warrior2.village >= 0
                        /\ warrior2.over <=> warrior2.hp = 0 \/ warrior2.village = 0
                        /\ warrior2.active # warrior2.pause
    BY DEF VillageOK, DefenceHolds, V!DefenceHolds, V!Mounted
  <2>2. QED
    BY <2>1 DEF DefenceOK, Fight, InPhase
<1>2. QED
  BY <1>1, VillageInvariance, PTL

\* What the monsters that fell have paid is in the purse or was spent on an item, once each
\* (warrior2/warriorGame.ts:168-196, 1145-1155).
THEOREM EveryCoinCounts == Spec => []CoinsAddUp
<1>1. ASSUME VillageOK, warrior2 # V!Off
      PROVE  Cardinality({item \in {"sword", "shield"} : warrior2[item]}) = Owned(warrior2)
  <2>1. PICK owned : owned = {item \in {"sword", "shield"} : warrior2[item]}
    OBVIOUS
  <2>2. warrior2.sword \in BOOLEAN /\ warrior2.shield \in BOOLEAN
    BY <1>1 DEF VillageOK, DefenceOK, Purse
  <2>3. CASE warrior2.sword /\ warrior2.shield
    <3>1. owned = {"sword"} \cup {"shield"} /\ "shield" \notin {"sword"}
      BY <2>1, <2>3
    <3>2. IsFiniteSet({"sword"}) /\ Cardinality({"sword"}) = 1
      BY FS_Singleton
    <3>3. Cardinality(owned) = 2
      BY <3>1, <3>2, FS_AddElement
    <3>4. QED
      BY <2>1, <2>3, <3>3 DEF Owned
  <2>4. CASE warrior2.sword /\ ~warrior2.shield
    <3>1. owned = {"sword"}
      BY <2>1, <2>4
    <3>2. QED
      BY <2>1, <2>4, <3>1, FS_Singleton DEF Owned
  <2>5. CASE ~warrior2.sword /\ warrior2.shield
    <3>1. owned = {"shield"}
      BY <2>1, <2>5
    <3>2. QED
      BY <2>1, <2>5, <3>1, FS_Singleton DEF Owned
  <2>6. CASE ~warrior2.sword /\ ~warrior2.shield
    <3>1. owned = {}
      BY <2>1, <2>6
    <3>2. QED
      BY <2>1, <2>6, <3>1, FS_EmptySet DEF Owned
  <2>7. QED
    BY <2>2, <2>3, <2>4, <2>5, <2>6
<1>2. VillageOK => CoinsAddUp
  <2>1. PICK owned : owned = {item \in {"sword", "shield"} : warrior2[item]}
    OBVIOUS
  <2>2. V!Cardinality(owned) = Cardinality(owned)
    BY DEF V!Cardinality, Cardinality
  <2>3. SUFFICES ASSUME VillageOK, warrior2 # V!Off
                 PROVE  warrior2.coins + ItemCost * V!Cardinality(owned)
                            = CoinsPerMonster * (warrior2.score - BossScore * warrior2.felled)
    BY <2>1 DEF CoinsAddUp, V!CoinsAddUp, V!Mounted
  <2>4. QED
    BY <1>1, <2>1, <2>2, <2>3 DEF VillageOK, DefenceOK, Purse
<1>3. QED
  BY <1>2, VillageInvariance, PTL

-------------------------------------------------------------------------------
(***************************************************************************)
(* Neon Drift: the panel between the runs, and what the drones are after.    *)
(***************************************************************************)
DriftDrones == [hp : Int, target : Nat]

DriftTurrets == [id : Nat, hp : Int]

DriftRuns ==
    [running : BOOLEAN, paused : BOOLEAN, over : BOOLEAN, panel : BOOLEAN, due : BOOLEAN,
     drones : Seq(DriftDrones), turrets : Seq(DriftTurrets), bullets : Nat, safe : BOOLEAN, cooling : BOOLEAN,
     score : Int, best : Int, presses : SUBSET {"start", "pause", "deploy"}]

DriftPanel(s) == (s.running <=> ~(s.panel \/ s.due)) /\ (s.running => ~s.over)

DriftChase(ds, ts) ==
    /\ \A i \in 1 .. Len(ds) : ds[i].target # 0 => \E k \in 1 .. Len(ts) : ts[k].id = ds[i].target
    /\ Len(ts) <= MaxTurrets

DriftStates == {s \in DriftRuns : DriftPanel(s) /\ DriftChase(s.drones, s.turrets)}

LEMMA DriftConstants ==
    /\ MaxTurrets \in Nat \ {0} /\ TurretHp \in Nat /\ MaxDrones \in Nat /\ DroneHp \in Nat
    /\ MaxBullets \in Nat /\ DriftScore \in Nat
BY ArcadeAssumption

\* What leaves the panel, the drones and the turrets alone.
LEMMA DriftAlike ==
    ASSUME NEW s \in DriftStates, NEW t \in DriftRuns,
           t.drones = s.drones, t.turrets = s.turrets, DriftPanel(t)
    PROVE  t \in DriftStates
BY DEF DriftStates

LEMMA IdsAre == ASSUME NEW s \in DriftRuns PROVE N!Ids(s) = {s.turrets[i].id : i \in 1 .. Len(s.turrets)}
BY DEF N!Ids, DriftRuns

LEMMA StandingLeaves ==
    ASSUME NEW s \in DriftRuns, NEW ids
    PROVE  /\ N!Standing(s, ids) \in Seq(DriftTurrets)
           /\ Len(N!Standing(s, ids)) <= Len(s.turrets)
           /\ (\E i \in 1 .. Len(s.turrets) : s.turrets[i].id \in ids)
                => Len(N!Standing(s, ids)) < Len(s.turrets)
           /\ \A i \in 1 .. Len(s.turrets) : s.turrets[i].id \notin ids
                => \E j \in 1 .. Len(N!Standing(s, ids)) : N!Standing(s, ids)[j] = s.turrets[i]
<1>1. PICK ts \in Seq(DriftTurrets) : ts = s.turrets
  BY DEF DriftRuns
<1>2. PICK left : left = {x \in N!Range(ts) : x.id \notin ids}
  OBVIOUS
<1>3. N!Standing(s, ids) = Only(ts, left)
  <2>1. N!Only(ts, left) = Only(ts, left)
    BY DEF N!Only, Only
  <2>2. QED
    BY <1>1, <1>2, <2>1 DEF N!Standing
<1>4. \A i \in 1 .. Len(ts) : ts[i] \in left <=> ts[i].id \notin ids
  <2>1. \A i \in 1 .. Len(ts) : ts[i] \in N!Range(ts)
    BY DEF N!Range
  <2>2. QED
    BY <1>2, <2>1
<1>5. Only(ts, left) \in Seq(DriftTurrets)
  BY OnlyType
<1>6. /\ Len(Only(ts, left)) <= Len(ts)
      /\ (\E i \in 1 .. Len(ts) : ts[i] \notin left) => Len(Only(ts, left)) < Len(ts)
  BY OnlyLeaves
<1>7. \A i \in 1 .. Len(ts) : ts[i] \in left =>
        \E j \in 1 .. Len(Only(ts, left)) : Only(ts, left)[j] = ts[i]
  BY OnlyKeeps
<1> HIDE DEF DriftTurrets
<1>8. QED
  BY <1>1, <1>3, <1>4, <1>5, <1>6, <1>7

LEMMA DestroyedState ==
    ASSUME NEW s \in DriftStates, NEW ids
    PROVE  /\ N!Destroyed(s, ids) \in DriftStates
           /\ Len(N!Destroyed(s, ids).drones) = Len(s.drones)
           /\ N!Destroyed(s, ids).turrets = N!Standing(s, ids)
<1>1. PICK ts \in Seq(DriftTurrets) : ts = N!Standing(s, ids)
  BY StandingLeaves DEF DriftStates
<1>2. PICK ds \in Seq(DriftDrones) : ds = s.drones
  BY DEF DriftStates, DriftRuns
<1>3. PICK n \in Nat : n = Len(ds)
  OBVIOUS
<1>4. PICK es : es = [i \in 1 .. n |-> IF ds[i].target \in ids THEN [ds[i] EXCEPT !.target = 0] ELSE ds[i]]
  OBVIOUS
<1>5. \A i \in 1 .. n : es[i] \in DriftDrones
                        /\ es[i].target = IF ds[i].target \in ids THEN 0 ELSE ds[i].target
  <2>1. ASSUME NEW i \in 1 .. n
        PROVE  es[i] \in DriftDrones /\ es[i].target = IF ds[i].target \in ids THEN 0 ELSE ds[i].target
    <3>1. PICK d \in DriftDrones : d = ds[i]
      BY <1>3
    <3>2. es[i] = IF d.target \in ids THEN [d EXCEPT !.target = 0] ELSE d
      BY <1>4, <3>1
    <3>3. CASE d.target \in ids
      <4>1. es[i] = [d EXCEPT !.target = 0]
        BY <3>2, <3>3
      <4>2. PICK e : e = [d EXCEPT !.target = 0]
        OBVIOUS
      <4>3. e \in DriftDrones /\ e.target = 0
        BY <4>2 DEF DriftDrones
      <4>4. QED
        BY <3>1, <3>3, <4>1, <4>2, <4>3
    <3>4. CASE d.target \notin ids
      BY <3>1, <3>2, <3>4
    <3>5. QED
      BY <3>3, <3>4
  <2>2. QED
    BY <2>1
<1>6. es \in Seq(DriftDrones) /\ Len(es) = n
  <2>1. es \in [1 .. n -> DriftDrones]
    BY <1>4, <1>5
  <2>2. QED
    BY <1>3, <2>1
<1>7. N!Destroyed(s, ids) = [s EXCEPT !.turrets = ts, !.drones = es]
  <2>1. DOMAIN ds = 1 .. n
    BY <1>3
  <2>2. QED
    BY <1>1, <1>2, <1>4, <2>1 DEF N!Destroyed, N!None
<1>8. PICK t : t = [s EXCEPT !.turrets = ts, !.drones = es]
  OBVIOUS
<1>9. t \in DriftRuns /\ t.turrets = ts /\ t.drones = es /\ DriftPanel(t)
  <2>1. s \in DriftRuns /\ DriftPanel(s)
    BY DEF DriftStates
  <2>2. t.turrets = ts /\ t.drones = es /\ t \in DriftRuns
    BY <1>6, <1>8, <2>1 DEF DriftRuns
  <2>3. t.running = s.running /\ t.panel = s.panel /\ t.due = s.due /\ t.over = s.over
    BY <1>8, <2>1 DEF DriftRuns
  <2>4. QED
    BY <2>1, <2>2, <2>3 DEF DriftPanel
<1>10. DriftChase(es, ts)
  <2>1. Len(ts) <= MaxTurrets
    <3>1. Len(ts) <= Len(s.turrets) /\ Len(s.turrets) \in Nat /\ Len(s.turrets) <= MaxTurrets
      BY <1>1, StandingLeaves DEF DriftStates, DriftRuns, DriftChase
    <3>2. QED
      BY <3>1, DriftConstants
  <2>2. ASSUME NEW i \in 1 .. n, es[i].target # 0
        PROVE  \E k \in 1 .. Len(ts) : ts[k].id = es[i].target
    <3>1. es[i].target = ds[i].target /\ ds[i].target \notin ids
      BY <1>5, <2>2
    <3>2. PICK k \in 1 .. Len(s.turrets) : s.turrets[k].id = ds[i].target
      BY <1>2, <1>3, <2>2, <3>1 DEF DriftStates, DriftChase
    <3>3. PICK j \in 1 .. Len(ts) : ts[j] = s.turrets[k]
      BY <1>1, <3>1, <3>2, StandingLeaves DEF DriftStates
    <3>4. QED
      BY <3>1, <3>2, <3>3
  <2>3. QED
    BY <1>6, <2>1, <2>2 DEF DriftChase
<1>11. QED
  BY <1>1, <1>2, <1>3, <1>6, <1>7, <1>8, <1>9, <1>10 DEF DriftStates

LEMMA ResetState ==
    ASSUME NEW s \in DriftRuns
    PROVE  N!Reset(s) \in DriftRuns /\ N!Started(s) \in DriftStates
<1>1. N!Reset(s) = [s EXCEPT !.drones = << >>, !.turrets = << >>, !.bullets = 0, !.safe = TRUE,
                             !.cooling = FALSE, !.score = 0, !.paused = FALSE, !.over = FALSE]
  BY DEF N!Reset
<1>2. PICK r : r = N!Reset(s)
  OBVIOUS
<1>3. r \in DriftRuns /\ r.drones = << >> /\ r.turrets = << >> /\ ~r.over
  <2>1. << >> \in Seq(DriftDrones) /\ << >> \in Seq(DriftTurrets) /\ 0 \in Nat /\ 0 \in Int
    OBVIOUS
  <2>2. PICK q : q = [s EXCEPT !.drones = << >>, !.turrets = << >>, !.bullets = 0, !.score = 0]
    OBVIOUS
  <2>3. q \in DriftRuns /\ q.drones = << >> /\ q.turrets = << >>
    BY <2>1, <2>2 DEF DriftRuns
  <2>4. r = [q EXCEPT !.safe = TRUE, !.cooling = FALSE, !.paused = FALSE, !.over = FALSE]
    BY <1>1, <1>2, <2>2 DEF DriftRuns
  <2>5. QED
    BY <2>3, <2>4 DEF DriftRuns
<1>4. PICK t : t = [r EXCEPT !.running = TRUE, !.panel = FALSE, !.due = FALSE]
  OBVIOUS
<1>5. t \in DriftRuns /\ t.drones = << >> /\ t.turrets = << >> /\ t.running /\ ~t.panel /\ ~t.due /\ ~t.over
  BY <1>3, <1>4 DEF DriftRuns
<1>6. DriftPanel(t) /\ DriftChase(t.drones, t.turrets)
  BY <1>5, DriftConstants DEF DriftPanel, DriftChase
<1>7. N!Started(s) = t
  BY <1>2, <1>4 DEF N!Started
<1>8. QED
  BY <1>2, <1>3, <1>5, <1>6, <1>7 DEF DriftStates

LEMMA TogglePauseState ==
    ASSUME NEW s \in DriftStates
    PROVE  N!TogglePause(s) \in DriftStates
<1>1. PICK on \in BOOLEAN : on = ~s.paused
  BY DEF DriftStates, DriftRuns
<1>2. PICK t : t = [s EXCEPT !.paused = on]
  OBVIOUS
<1>3. N!TogglePause(s) \in {s, t}
  BY <1>1, <1>2 DEF N!TogglePause
<1>4. t \in DriftRuns /\ t.drones = s.drones /\ t.turrets = s.turrets
      /\ t.running = s.running /\ t.panel = s.panel /\ t.due = s.due /\ t.over = s.over
  BY <1>2 DEF DriftStates, DriftRuns
<1>5. DriftPanel(t)
  BY <1>4 DEF DriftPanel, DriftStates
<1>6. QED
  BY <1>3, <1>4, <1>5, DriftAlike

LEMMA FinishState ==
    ASSUME NEW s \in DriftStates
    PROVE  N!Finish(s) \in DriftStates /\ N!Finish(s).drones = s.drones
<1>1. PICK top \in Int : top = IF s.score > s.best THEN s.score ELSE s.best
  BY DEF DriftStates, DriftRuns
<1>2. PICK t : t = [s EXCEPT !.running = FALSE, !.over = TRUE, !.due = TRUE, !.best = top]
  OBVIOUS
<1>3. N!Finish(s) \in {s, t}
  BY <1>1, <1>2 DEF N!Finish
<1>4. t \in DriftRuns /\ t.drones = s.drones /\ t.turrets = s.turrets /\ ~t.running /\ t.due
  BY <1>2 DEF DriftStates, DriftRuns
<1>5. DriftPanel(t)
  BY <1>4 DEF DriftPanel
<1>6. QED
  BY <1>3, <1>4, <1>5, DriftAlike

LEMMA FreeIdIsNew ==
    ASSUME NEW s \in DriftStates
    PROVE  N!FreeId(s) \in Nat
<1>1. PICK n \in Nat : n = Len(s.turrets) /\ n <= MaxTurrets
  BY DEF DriftStates, DriftRuns, DriftChase
<1>2. PICK ids : ids = N!Ids(s)
  OBVIOUS
<1>3. ids = {s.turrets[i].id : i \in 1 .. n}
  BY <1>1, <1>2, IdsAre DEF DriftStates
<1>4. IsFiniteSet(ids) /\ Cardinality(ids) <= n
  <2>1. IsFiniteSet(1 .. n) /\ Cardinality(1 .. n) = n
    <3>1. 1 \in Int /\ n \in Int
      OBVIOUS
    <3>2. IsFiniteSet(1 .. n) /\ Cardinality(1 .. n) = IF 1 > n THEN 0 ELSE n - 1 + 1
      BY <3>1, FS_Interval
    <3>3. QED
      BY <3>2
  <2>2. PICK f : f = [i \in 1 .. n |-> s.turrets[i].id]
    OBVIOUS
  <2>3. f \in Surjection(1 .. n, ids)
    BY <1>3, <2>2 DEF Surjection
  <2>4. QED
    BY <2>1, <2>3, FS_Surjection
<1>5. PICK free : free = (1 .. MaxTurrets + 1) \ ids
  OBVIOUS
<1>6. free \subseteq Nat /\ free # {}
  <2>1. MaxTurrets + 1 \in Nat
    BY DriftConstants
  <2>2. IsFiniteSet(1 .. MaxTurrets + 1) /\ Cardinality(1 .. MaxTurrets + 1) = MaxTurrets + 1
    BY <2>1, FS_Interval
  <2>3. ASSUME free = {}
        PROVE  FALSE
    <3>1. 1 .. MaxTurrets + 1 \subseteq ids
      BY <1>5, <2>3
    <3>2. Cardinality(1 .. MaxTurrets + 1) <= Cardinality(ids)
      BY <1>4, <3>1, FS_Subset
    <3>3. Cardinality(ids) \in Nat
      BY <1>4, FS_CardinalityType
    <3>4. QED
      BY <1>1, <1>4, <2>2, <3>2, <3>3, DriftConstants
  <2>4. QED
    BY <1>5, <2>1, <2>3
<1>7. N!FreeId(s) = CHOOSE x \in free : \A y \in free : x =< y
  BY <1>2, <1>5 DEF N!FreeId, N!Min, N!TurretIds
<1>8. QED
  BY <1>6, <1>7, LeastNatural

LEMMA DeployedState ==
    ASSUME NEW s \in DriftStates
    PROVE  N!Deployed(s) \in DriftStates
<1>1. CASE ~s.running \/ s.paused \/ s.cooling
  BY <1>1 DEF N!Deployed
<1>2. CASE ~(~s.running \/ s.paused \/ s.cooling)
  <2>1. PICK t : t = IF Len(s.turrets) >= MaxTurrets THEN N!Destroyed(s, {s.turrets[1].id}) ELSE s
    OBVIOUS
  <2>2. t \in DriftStates /\ Len(t.turrets) < MaxTurrets
    <3>1. Len(s.turrets) \in Nat
      BY DEF DriftStates, DriftRuns
    <3>2. CASE Len(s.turrets) >= MaxTurrets
      <4>1. 1 \in 1 .. Len(s.turrets) /\ s.turrets[1].id \in {s.turrets[1].id}
        BY <3>1, <3>2, DriftConstants
      <4>2. Len(N!Standing(s, {s.turrets[1].id})) < Len(s.turrets)
        BY <4>1, StandingLeaves DEF DriftStates
      <4>3. t.turrets = N!Standing(s, {s.turrets[1].id}) /\ t \in DriftStates
        BY <2>1, <3>2, DestroyedState
      <4>4. Len(s.turrets) <= MaxTurrets /\ Len(t.turrets) \in Nat
        BY <4>3 DEF DriftStates, DriftChase, DriftRuns
      <4>5. QED
        BY <3>1, <4>2, <4>3, <4>4, DriftConstants
    <3>3. CASE ~(Len(s.turrets) >= MaxTurrets)
      BY <2>1, <3>1, <3>3, DriftConstants
    <3>4. QED
      BY <3>2, <3>3
  <2>3. PICK new \in DriftTurrets : new = [id |-> N!FreeId(s), hp |-> TurretHp]
    <3>1. PICK id \in Nat : id = N!FreeId(s)
      BY FreeIdIsNew
    <3>2. [id |-> id, hp |-> TurretHp] \in DriftTurrets
      BY DriftConstants DEF DriftTurrets
    <3>3. QED
      BY <3>1, <3>2
  <2>4. PICK ts \in Seq(DriftTurrets) : ts = t.turrets
    BY <2>2 DEF DriftStates, DriftRuns
  <2>5. PICK more : more = Append(ts, new)
    OBVIOUS
  <2>6. more \in Seq(DriftTurrets) /\ Len(more) = Len(ts) + 1 /\ \A i \in 1 .. Len(ts) : more[i] = ts[i]
    BY <2>5
  <2>7. N!Deployed(s) = [t EXCEPT !.turrets = more, !.cooling = TRUE]
    BY <1>2, <2>1, <2>3, <2>4, <2>5 DEF N!Deployed
  <2>8. PICK u : u = [t EXCEPT !.turrets = more, !.cooling = TRUE]
    OBVIOUS
  <2>9. u \in DriftRuns /\ u.drones = t.drones /\ u.turrets = more
        /\ u.running = t.running /\ u.panel = t.panel /\ u.due = t.due /\ u.over = t.over
    BY <2>2, <2>6, <2>8 DEF DriftStates, DriftRuns
  <2>10. DriftPanel(u)
    BY <2>2, <2>9 DEF DriftPanel, DriftStates
  <2>11. DriftChase(t.drones, more)
    <3>1. DriftChase(t.drones, ts)
      BY <2>2, <2>4 DEF DriftStates
    <3>2. Len(ts) \in Nat /\ Len(ts) + 1 <= MaxTurrets
      BY <2>2, <2>4, DriftConstants
    <3>3. \A k \in 1 .. Len(ts) : k \in 1 .. Len(more) /\ more[k] = ts[k]
      BY <2>6, <3>2
    <3>4. QED
      BY <2>6, <3>1, <3>2, <3>3 DEF DriftChase
  <2>12. QED
    BY <2>7, <2>8, <2>9, <2>10, <2>11 DEF DriftStates
<1>3. QED
  BY <1>1, <1>2

LEMMA ControlledState ==
    ASSUME NEW s \in DriftStates
    PROVE  N!Controlled(s) \in DriftStates
<1>1. PICK e : e = [s EXCEPT !.presses = {}]
  OBVIOUS
<1>2. e \in DriftStates
  <2>1. e \in DriftRuns /\ e.drones = s.drones /\ e.turrets = s.turrets
        /\ e.running = s.running /\ e.panel = s.panel /\ e.due = s.due /\ e.over = s.over
    BY <1>1 DEF DriftStates, DriftRuns
  <2>2. DriftPanel(e)
    BY <2>1 DEF DriftPanel, DriftStates
  <2>3. QED
    BY <2>1, <2>2, DriftAlike
<1>3. PICK t : t = IF "start" \in s.presses /\ (~s.running \/ s.over) THEN N!Started(e) ELSE e
  OBVIOUS
<1>4. t \in DriftStates
  BY <1>2, <1>3, ResetState DEF DriftStates
<1>5. PICK u : u = IF "pause" \in s.presses THEN N!TogglePause(t) ELSE t
  OBVIOUS
<1>6. u \in DriftStates
  BY <1>4, <1>5, TogglePauseState
<1>7. N!Controlled(s) \in {u, N!Deployed(u)}
  BY <1>1, <1>3, <1>5 DEF N!Controlled
<1>8. QED
  BY <1>6, <1>7, DeployedState

LEMMA ScoredState ==
    ASSUME NEW s \in DriftStates, NEW t \in N!Scored(s)
    PROVE  t \in DriftStates /\ t.drones = s.drones
<1>1. PICK n \in Int : t = [s EXCEPT !.score = n]
  <2>1. s.score \in Int /\ (IF s.score < DriftScore THEN s.score + 1 ELSE s.score) \in Int
    BY DEF DriftStates, DriftRuns
  <2>2. QED
    BY <2>1 DEF N!Scored
<1>2. t \in DriftRuns /\ t.drones = s.drones /\ t.turrets = s.turrets
      /\ t.running = s.running /\ t.panel = s.panel /\ t.due = s.due /\ t.over = s.over
  BY <1>1 DEF DriftStates, DriftRuns
<1>3. DriftPanel(t)
  BY <1>2 DEF DriftPanel, DriftStates
<1>4. QED
  BY <1>2, <1>3, DriftAlike

LEMMA PlayerMovedState ==
    ASSUME NEW s \in DriftStates, NEW t \in N!PlayerMoved(s)
    PROVE  t \in DriftStates
<1>1. PICK safe \in BOOLEAN : t = [s EXCEPT !.safe = safe]
  <2>1. s.safe \in BOOLEAN /\ FALSE \in BOOLEAN
    BY DEF DriftStates, DriftRuns
  <2>2. QED
    BY <2>1 DEF N!PlayerMoved
<1>2. t \in DriftRuns /\ t.drones = s.drones /\ t.turrets = s.turrets
      /\ t.running = s.running /\ t.panel = s.panel /\ t.due = s.due /\ t.over = s.over
  BY <1>1 DEF DriftStates, DriftRuns
<1>3. DriftPanel(t)
  BY <1>2 DEF DriftPanel, DriftStates
<1>4. QED
  BY <1>2, <1>3, DriftAlike

LEMMA FiredState ==
    ASSUME NEW s \in DriftStates, NEW shots \in Nat, NEW cooling \in BOOLEAN
    PROVE  N!Fired(s, shots, cooling) \in DriftStates
<1>1. PICK n \in Nat : n = IF s.bullets + shots > MaxBullets THEN MaxBullets ELSE s.bullets + shots
  BY DriftConstants DEF DriftStates, DriftRuns
<1>2. PICK t : t = [s EXCEPT !.cooling = cooling, !.bullets = n]
  OBVIOUS
<1>3. N!Fired(s, shots, cooling) = t
  BY <1>1, <1>2 DEF N!Fired, DriftStates, DriftRuns
<1>4. t \in DriftRuns /\ t.drones = s.drones /\ t.turrets = s.turrets
      /\ t.running = s.running /\ t.panel = s.panel /\ t.due = s.due /\ t.over = s.over
  BY <1>2 DEF DriftStates, DriftRuns
<1>5. DriftPanel(t)
  BY <1>4 DEF DriftPanel, DriftStates
<1>6. QED
  BY <1>3, <1>4, <1>5, DriftAlike

LEMMA TurretsUpdatedState ==
    ASSUME NEW s \in DriftStates, NEW t \in N!TurretsUpdated(s)
    PROVE  t \in DriftStates
<1>1. PICK u \in {N!Destroyed(s, ids) : ids \in SUBSET N!Ids(s)} :
        t \in {N!Fired(u, f[1], f[2]) : f \in N!Shots(u) \X {u.cooling, FALSE}}
  BY DEF N!TurretsUpdated
<1>2. u \in DriftStates
  BY <1>1, DestroyedState
<1>3. PICK f \in N!Shots(u) \X {u.cooling, FALSE} : t = N!Fired(u, f[1], f[2])
  BY <1>1
<1>4. f[1] \in Nat /\ f[2] \in BOOLEAN
  <2>1. u.cooling \in BOOLEAN /\ Len(u.turrets) \in Nat
    BY <1>2 DEF DriftStates, DriftRuns
  <2>2. N!Shots(u) \subseteq Nat
    BY <2>1 DEF N!Shots
  <2>3. QED
    BY <2>1, <2>2
<1>5. QED
  BY <1>2, <1>3, <1>4, FiredState

LEMMA HitTurretState ==
    ASSUME NEW s \in DriftStates, NEW id \in N!Ids(s)
    PROVE  N!HitTurret(s, id) \in DriftStates /\ Len(N!HitTurret(s, id).drones) = Len(s.drones)
<1>1. PICK ts \in Seq(DriftTurrets) : ts = s.turrets
  BY DEF DriftStates, DriftRuns
<1>2. PICK n \in Nat : n = Len(ts)
  OBVIOUS
<1>3. PICK at : at = CHOOSE i \in DOMAIN ts : ts[i].id = id
  OBVIOUS
<1>4. at \in 1 .. n /\ ts[at].id = id
  <2>1. id \in {ts[i].id : i \in 1 .. n} /\ DOMAIN ts = 1 .. n
    BY <1>1, <1>2, IdsAre DEF DriftStates
  <2>2. \E i \in DOMAIN ts : ts[i].id = id
    BY <2>1
  <2>3. at \in DOMAIN ts /\ ts[at].id = id
    BY <1>3, <2>2
  <2>4. QED
    BY <2>1, <2>3
<1>5. CASE ts[at].hp <= 1
  <2>1. N!HitTurret(s, id) = N!Destroyed(s, {id})
    BY <1>1, <1>3, <1>5 DEF N!HitTurret
  <2>2. QED
    BY <2>1, DestroyedState
<1>6. CASE ~(ts[at].hp <= 1)
  <2>1. PICK turret \in DriftTurrets : turret = ts[at]
    BY <1>2, <1>4
  <2>2. PICK hurt : hurt = [turret EXCEPT !.hp = turret.hp - 1]
    OBVIOUS
  <2>3. hurt \in DriftTurrets /\ hurt.id = turret.id
    BY <2>1, <2>2 DEF DriftTurrets
  <2>4. PICK us : us = [ts EXCEPT ![at] = hurt]
    OBVIOUS
  <2>5. us \in Seq(DriftTurrets) /\ Len(us) = n /\ \A k \in 1 .. n : us[k].id = ts[k].id
    <3>1. us \in Seq(DriftTurrets) /\ Len(us) = n
      BY <1>2, <1>4, <2>3, <2>4
    <3>2. ASSUME NEW k \in 1 .. n
          PROVE  us[k].id = ts[k].id
      <4>1. CASE k = at
        BY <1>2, <1>4, <2>1, <2>3, <2>4, <4>1
      <4>2. CASE k # at
        BY <1>2, <2>4, <4>2
      <4>3. QED
        BY <4>1, <4>2
    <3>3. QED
      BY <3>1, <3>2
  <2>6. PICK t : t = [s EXCEPT !.turrets = us]
    OBVIOUS
  <2>7. N!HitTurret(s, id) = t
    BY <1>1, <1>3, <1>6, <2>1, <2>2, <2>4, <2>6 DEF N!HitTurret
  <2>8. t \in DriftRuns /\ t.drones = s.drones /\ t.turrets = us
        /\ t.running = s.running /\ t.panel = s.panel /\ t.due = s.due /\ t.over = s.over
    BY <2>5, <2>6 DEF DriftStates, DriftRuns
  <2>9. DriftPanel(t)
    BY <2>8 DEF DriftPanel, DriftStates
  <2>10. DriftChase(s.drones, us)
    <3>1. DriftChase(s.drones, ts)
      BY <1>1 DEF DriftStates
    <3>2. QED
      BY <1>2, <2>5, <3>1 DEF DriftChase
  <2>11. QED
    BY <2>7, <2>8, <2>9, <2>10 DEF DriftStates
<1>7. QED
  BY <1>5, <1>6

LEMMA AimedState ==
    ASSUME NEW s \in DriftStates, NEW i \in 1 .. Len(s.drones), NEW id \in N!Ids(s) \cup {0}
    PROVE  /\ N!Aimed(s, i, id) \in DriftStates
           /\ Len(N!Aimed(s, i, id).drones) = Len(s.drones)
           /\ N!Ids(N!Aimed(s, i, id)) = N!Ids(s)
<1>1. PICK ts \in Seq(DriftTurrets) : ts = s.turrets
  BY DEF DriftStates, DriftRuns
<1>2. PICK ds \in Seq(DriftDrones) : ds = s.drones
  BY DEF DriftStates, DriftRuns
<1>3. PICK n \in Nat : n = Len(ds)
  OBVIOUS
<1>4. id \in Nat /\ (id # 0 => \E k \in 1 .. Len(ts) : ts[k].id = id)
  <2>1. CASE id = 0
    BY <2>1
  <2>2. CASE id # 0
    <3>1. PICK k \in 1 .. Len(ts) : id = ts[k].id
      BY <1>1, <2>2, IdsAre DEF DriftStates
    <3>2. ts[k] \in DriftTurrets
      OBVIOUS
    <3>3. QED
      BY <3>1, <3>2 DEF DriftTurrets
  <2>3. QED
    BY <2>1, <2>2
<1>5. PICK drone \in DriftDrones : drone = ds[i]
  BY <1>2
<1>6. PICK aimed : aimed = [drone EXCEPT !.target = id]
  OBVIOUS
<1>7. aimed \in DriftDrones /\ aimed.target = id
  BY <1>4, <1>5, <1>6 DEF DriftDrones
<1>8. PICK es : es = [ds EXCEPT ![i] = aimed]
  OBVIOUS
<1>9. es \in Seq(DriftDrones) /\ Len(es) = n
  BY <1>2, <1>3, <1>7, <1>8
<1>10. PICK t : t = [s EXCEPT !.drones = es]
  OBVIOUS
<1>11. N!Aimed(s, i, id) = t
  BY <1>2, <1>5, <1>6, <1>8, <1>10 DEF N!Aimed
<1>12. t \in DriftRuns /\ t.drones = es /\ t.turrets = ts
       /\ t.running = s.running /\ t.panel = s.panel /\ t.due = s.due /\ t.over = s.over
  BY <1>1, <1>9, <1>10 DEF DriftStates, DriftRuns
<1>13. DriftPanel(t)
  BY <1>12 DEF DriftPanel, DriftStates
<1>14. DriftChase(es, ts)
  <2>1. DriftChase(ds, ts)
    BY <1>1, <1>2 DEF DriftStates
  <2>2. ASSUME NEW k \in 1 .. n, es[k].target # 0
        PROVE  \E j \in 1 .. Len(ts) : ts[j].id = es[k].target
    <3>1. CASE k = i
      <4>1. es[k] = aimed
        BY <1>2, <1>8, <3>1
      <4>2. QED
        BY <1>4, <1>7, <2>2, <4>1
    <3>2. CASE k # i
      <4>1. es[k] = ds[k]
        BY <1>3, <1>8, <3>2
      <4>2. QED
        BY <1>3, <2>1, <2>2, <4>1 DEF DriftChase
    <3>3. QED
      BY <3>1, <3>2
  <2>3. QED
    BY <1>9, <2>1, <2>2 DEF DriftChase
<1>15. N!Ids(t) = N!Ids(s)
  BY <1>1, <1>12 DEF N!Ids
<1>16. QED
  BY <1>2, <1>3, <1>9, <1>11, <1>12, <1>13, <1>14, <1>15 DEF DriftStates

LEMMA DroneMovedState ==
    ASSUME NEW s \in DriftStates, NEW i \in 1 .. Len(s.drones), NEW t \in N!DroneMoved(s, i)
    PROVE  t \in DriftStates /\ Len(t.drones) = Len(s.drones)
<1>1. CASE s.over
  BY <1>1 DEF N!DroneMoved
<1>2. CASE ~s.over
  <2>1. PICK id \in N!Ids(s) \cup {0} : t \in N!Flown(N!Aimed(s, i, id), id)
    <3>1. PICK id \in (IF s.drones[i].target \in N!Ids(s) THEN {s.drones[i].target} ELSE N!Ids(s) \cup {N!None}) :
            t \in N!Flown(N!Aimed(s, i, id), id)
      BY <1>2 DEF N!DroneMoved
    <3>2. id \in N!Ids(s) \cup {0}
      BY <3>1 DEF N!None
    <3>3. QED
      BY <3>1, <3>2
  <2>2. PICK u \in DriftStates : u = N!Aimed(s, i, id) /\ Len(u.drones) = Len(s.drones) /\ N!Ids(u) = N!Ids(s)
    BY AimedState
  <2>3. CASE id # 0
    <3>1. t \in {u, N!HitTurret(u, id)} /\ id \in N!Ids(u)
      BY <2>1, <2>2, <2>3 DEF N!Flown, N!None
    <3>2. QED
      BY <2>2, <3>1, HitTurretState
  <2>4. CASE id = 0
    <3>1. t \in N!Scored(u) \/ t = N!Finish(u)
      BY <2>1, <2>2, <2>4 DEF N!Flown, N!None
    <3>2. QED
      BY <2>2, <3>1, ScoredState, FinishState
  <2>5. QED
    BY <2>3, <2>4
<1>3. QED
  BY <1>1, <1>2

\* The states with as many drones.
DriftWith(n) == {t \in DriftStates : Len(t.drones) = n}

LEMMA DronesMovedState ==
    ASSUME NEW s \in DriftStates
    PROVE  N!DronesMoved(s) \subseteq DriftStates
<1> DEFINE size == Len(s.drones)
           Grown(n, q) == UNION {N!DroneMoved(t, Len(s.drones) + 1 - n) : t \in q}
           step == [n \in 1 .. size |-> [q \in (SUBSET DriftWith(Len(s.drones))) |-> Grown(n, q)]]
           Rec(f) == [n \in 0 .. size |-> IF n = 0 THEN {s} ELSE UNION {N!DroneMoved(t, Len(s.drones) + 1 - n) : t \in f[n - 1]}]
<1>1. size \in Nat /\ {s} \in (SUBSET DriftWith(Len(s.drones)))
  BY DEF DriftWith, DriftStates, DriftRuns
<1>2. \A n \in 1 .. size, q \in (SUBSET DriftWith(Len(s.drones))) : Grown(n, q) \in (SUBSET DriftWith(Len(s.drones)))
  <2>1. ASSUME NEW n \in 1 .. size, NEW q \in SUBSET DriftWith(Len(s.drones)), NEW t \in q,
               NEW u \in N!DroneMoved(t, Len(s.drones) + 1 - n)
        PROVE  u \in DriftWith(Len(s.drones))
    <3>1. t \in DriftStates /\ Len(t.drones) = Len(s.drones)
      BY DEF DriftWith
    <3>2. Len(s.drones) + 1 - n \in 1 .. Len(t.drones)
      BY <1>1, <3>1
    <3>3. QED
      BY <3>1, <3>2, DroneMovedState DEF DriftWith
  <2>2. QED
    BY <2>1
<1>3. PICK f \in [0 .. size -> (SUBSET DriftWith(Len(s.drones)))] : Runs(f, size, {s}, step)
  <2> HIDE DEF Grown
  <2>1. step \in [1 .. size -> [(SUBSET DriftWith(Len(s.drones))) -> (SUBSET DriftWith(Len(s.drones)))]]
    BY <1>2
  <2> HIDE DEF step, size
  <2>2. QED
    BY <1>1, <2>1, RecursionExists
<1>4. f[0] = {s} /\ \A n \in 1 .. size : f[n - 1] \in (SUBSET DriftWith(Len(s.drones))) /\ f[n] = Grown(n, f[n - 1])
  <2>1. f[0] = {s}
    BY <1>1, <1>3 DEF Runs
  <2>2. ASSUME NEW n \in 1 .. size
        PROVE  f[n - 1] \in (SUBSET DriftWith(Len(s.drones))) /\ f[n] = Grown(n, f[n - 1])
    <3> HIDE DEF Grown
    <3>1. f[n - 1] \in (SUBSET DriftWith(Len(s.drones)))
      BY <1>1, <1>3
    <3>2. f[n] = step[n][f[n - 1]]
      <4> HIDE DEF step
      <4>1. QED
        BY <1>3 DEF Runs
    <3>3. step[n] = [q \in (SUBSET DriftWith(Len(s.drones))) |-> Grown(n, q)]
      OBVIOUS
    <3> HIDE DEF step
    <3>4. QED
      BY <3>1, <3>2, <3>3
  <2>3. QED
    BY <2>1, <2>2
<1>5. f = Rec(f)
  <2>1. f = [n \in 0 .. size |-> IF n = 0 THEN {s} ELSE Grown(n, f[n - 1])]
    <3> HIDE DEF Grown
    <3>1. QED
      BY <1>3, <1>4
  <2>2. QED
    BY <2>1
<1> DEFINE h == CHOOSE h : h = Rec(h)
<1>6. h = Rec(h)
  BY <1>5
<1>7. N!DronesMoved(s) = h[size]
  BY DEF N!DronesMoved
<1> HIDE DEF h
<1>8. h[0] = {s} /\ \A n \in 1 .. size : h[n] = Grown(n, h[n - 1])
  <2>1. \A n \in 0 .. size : h[n] = Rec(h)[n]
    BY <1>6
  <2>2. 0 \in 0 .. size /\ \A n \in 1 .. size : n \in 0 .. size /\ n # 0
    BY <1>1
  <2>3. QED
    BY <2>1, <2>2
<1> HIDE DEF Grown, Rec
<1>9. \A n \in 0 .. size : f[n] = h[n]
  <2>1. StepAlike(f, h, size)
    BY <1>4, <1>8 DEF StepAlike
  <2>2. QED
    BY <1>1, <2>1, SameValues
<1>10. QED
  BY <1>1, <1>3, <1>7, <1>9 DEF DriftWith

LEMMA StruckState ==
    ASSUME NEW s \in DriftStates, NEW i \in 1 .. Len(s.drones)
    PROVE  N!Struck(s, i) \in DriftStates
<1>1. PICK ds \in Seq(DriftDrones) : ds = s.drones
  BY DEF DriftStates, DriftRuns
<1>2. PICK n \in Nat : n = Len(ds)
  OBVIOUS
<1>3. PICK drone \in DriftDrones : drone = ds[i]
  BY <1>1
<1>4. DriftChase(ds, s.turrets)
  BY <1>1 DEF DriftStates
<1>5. ASSUME NEW es \in Seq(DriftDrones), NEW n2 \in Int,
             \A k \in 1 .. Len(es) : \E j \in 1 .. n : es[k].target = ds[j].target
      PROVE  [s EXCEPT !.drones = es, !.score = n2] \in DriftStates
  <2>1. PICK t : t = [s EXCEPT !.drones = es, !.score = n2]
    OBVIOUS
  <2>2. t \in DriftRuns /\ t.drones = es /\ t.turrets = s.turrets
        /\ t.running = s.running /\ t.panel = s.panel /\ t.due = s.due /\ t.over = s.over
    BY <2>1 DEF DriftStates, DriftRuns
  <2>3. DriftPanel(t)
    BY <2>2 DEF DriftPanel, DriftStates
  <2>4. DriftChase(es, s.turrets)
    BY <1>2, <1>4, <1>5 DEF DriftChase
  <2>5. QED
    BY <2>1, <2>2, <2>3, <2>4 DEF DriftStates
<1>6. CASE drone.hp > 1
  <2>1. PICK hurt : hurt = [drone EXCEPT !.hp = drone.hp - 1]
    OBVIOUS
  <2>2. hurt \in DriftDrones /\ hurt.target = drone.target
    BY <2>1 DEF DriftDrones
  <2>3. PICK es : es = [ds EXCEPT ![i] = hurt]
    OBVIOUS
  <2>4. es \in Seq(DriftDrones) /\ Len(es) = n
    BY <1>1, <1>2, <2>2, <2>3
  <2>5. \A k \in 1 .. n : es[k].target = ds[k].target
    <3>1. ASSUME NEW k \in 1 .. n
          PROVE  es[k].target = ds[k].target
      <4>1. CASE k = i
        BY <1>1, <1>2, <1>3, <2>2, <2>3, <4>1
      <4>2. CASE k # i
        BY <1>2, <2>3, <4>2
      <4>3. QED
        BY <4>1, <4>2
    <3>2. QED
      BY <3>1
  <2>6. N!Struck(s, i) = [s EXCEPT !.drones = es]
    BY <1>1, <1>3, <1>6, <2>1, <2>3 DEF N!Struck
  <2>7. s.score \in Int /\ [s EXCEPT !.drones = es] = [s EXCEPT !.drones = es, !.score = s.score]
    BY DEF DriftStates, DriftRuns
  <2>8. [s EXCEPT !.drones = es, !.score = s.score] \in DriftStates
    BY <1>5, <2>4, <2>5, <2>7
  <2>9. QED
    BY <2>6, <2>7, <2>8
<1>7. CASE ~(drone.hp > 1)
  <2>1. PICK es : es = SubSeq(ds, 1, i - 1) \o SubSeq(ds, i + 1, n)
    OBVIOUS
  <2>2. i \in 1 .. n
    BY <1>1, <1>2
  <2>3. PICK head, tail : head = SubSeq(ds, 1, i - 1) /\ tail = SubSeq(ds, i + 1, n)
    OBVIOUS
  <2>4. head \in Seq(DriftDrones) /\ Len(head) = i - 1 /\ \A k \in 1 .. i - 1 : head[k] = ds[k]
    BY <1>2, <2>2, <2>3
  <2>5. tail \in Seq(DriftDrones) /\ Len(tail) = n - i /\ \A k \in 1 .. n - i : tail[k] = ds[i + k]
    BY <1>2, <2>2, <2>3
  <2>6. es \in Seq(DriftDrones) /\ Len(es) = (i - 1) + (n - i)
        /\ \A k \in 1 .. Len(es) : es[k] = IF k <= i - 1 THEN head[k] ELSE tail[k - (i - 1)]
    BY <2>1, <2>2, <2>3, <2>4, <2>5
  <2>7. \A k \in 1 .. Len(es) : \E j \in 1 .. n : es[k].target = ds[j].target
    <3>1. ASSUME NEW k \in 1 .. Len(es)
          PROVE  \E j \in 1 .. n : es[k] = ds[j]
      <4>1. CASE k <= i - 1
        <5>1. k \in 1 .. n /\ k \in 1 .. i - 1
          BY <2>2, <4>1
        <5>2. QED
          BY <2>4, <2>6, <4>1, <5>1
      <4>2. CASE ~(k <= i - 1)
        <5>1. k - (i - 1) \in 1 .. n - i /\ i + (k - (i - 1)) \in 1 .. n
          BY <2>2, <2>6, <4>2
        <5>2. QED
          BY <2>5, <2>6, <4>2, <5>1
      <4>3. QED
        BY <4>1, <4>2
    <3>2. QED
      BY <3>1
  <2>8. PICK n2 \in Int : n2 = IF s.score < DriftScore THEN s.score + 1 ELSE s.score
    BY DEF DriftStates, DriftRuns
  <2>9. N!Struck(s, i) = [s EXCEPT !.drones = es, !.score = n2]
    <3>1. N!RemoveAt(s.drones, i) = es
      BY <1>1, <1>2, <2>1 DEF N!RemoveAt
    <3>2. QED
      BY <1>1, <1>3, <1>7, <2>8, <3>1 DEF N!Struck, DriftStates, DriftRuns
  <2>10. [s EXCEPT !.drones = es, !.score = n2] \in DriftStates
    BY <1>5, <2>6, <2>7, <2>8
  <2>11. QED
    BY <2>9, <2>10
<1>8. QED
  BY <1>6, <1>7

LEMMA BulletMovedState ==
    ASSUME NEW s \in DriftStates, NEW t \in N!BulletMoved(s)
    PROVE  t \in DriftStates
<1>1. CASE s.bullets = 0
  BY <1>1 DEF N!BulletMoved
<1>2. CASE s.bullets # 0
  <2>1. PICK n \in Nat : n = s.bullets - 1
    <3>1. s.bullets - 1 \in Nat
      BY <1>2 DEF DriftStates, DriftRuns
    <3>2. QED
      BY <3>1
  <2>2. PICK spent : spent = [s EXCEPT !.bullets = n]
    OBVIOUS
  <2>3. spent \in DriftStates /\ spent.drones = s.drones
    <3>1. spent \in DriftRuns /\ spent.drones = s.drones /\ spent.turrets = s.turrets
          /\ spent.running = s.running /\ spent.panel = s.panel /\ spent.due = s.due /\ spent.over = s.over
      BY <2>2 DEF DriftStates, DriftRuns
    <3>2. DriftPanel(spent)
      BY <3>1 DEF DriftPanel, DriftStates
    <3>3. QED
      BY <3>1, <3>2, DriftAlike
  <2>4. t \in {s, spent} \cup {N!Struck(spent, i) : i \in DOMAIN s.drones}
    BY <1>2, <2>1, <2>2 DEF N!BulletMoved
  <2>5. DOMAIN s.drones = 1 .. Len(s.drones)
    BY DEF DriftStates, DriftRuns
  <2>6. QED
    BY <2>3, <2>4, <2>5, StruckState
<1>3. QED
  BY <1>1, <1>2

LEMMA BulletsMovedState ==
    ASSUME NEW s \in DriftStates
    PROVE  N!BulletsMoved(s) \subseteq DriftStates
<1> DEFINE size == s.bullets
           Grown(n, q) == UNION {N!BulletMoved(t) : t \in q}
           step == [n \in 1 .. size |-> [q \in (SUBSET DriftStates) |-> Grown(n, q)]]
           Rec(f) == [n \in 0 .. size |-> IF n = 0 THEN {s} ELSE UNION {N!BulletMoved(t) : t \in f[n - 1]}]
<1>1. size \in Nat /\ {s} \in (SUBSET DriftStates)
  BY DEF DriftStates, DriftRuns
<1>2. \A n \in 1 .. size, q \in (SUBSET DriftStates) : Grown(n, q) \in (SUBSET DriftStates)
  BY BulletMovedState
<1>3. PICK f \in [0 .. size -> (SUBSET DriftStates)] : Runs(f, size, {s}, step)
  <2> HIDE DEF Grown
  <2>1. step \in [1 .. size -> [(SUBSET DriftStates) -> (SUBSET DriftStates)]]
    BY <1>2
  <2> HIDE DEF step, size
  <2>2. QED
    BY <1>1, <2>1, RecursionExists
<1>4. f[0] = {s} /\ \A n \in 1 .. size : f[n - 1] \in (SUBSET DriftStates) /\ f[n] = Grown(n, f[n - 1])
  <2>1. f[0] = {s}
    BY <1>1, <1>3 DEF Runs
  <2>2. ASSUME NEW n \in 1 .. size
        PROVE  f[n - 1] \in (SUBSET DriftStates) /\ f[n] = Grown(n, f[n - 1])
    <3> HIDE DEF Grown
    <3>1. f[n - 1] \in (SUBSET DriftStates)
      BY <1>1, <1>3
    <3>2. f[n] = step[n][f[n - 1]]
      <4> HIDE DEF step
      <4>1. QED
        BY <1>3 DEF Runs
    <3>3. step[n] = [q \in (SUBSET DriftStates) |-> Grown(n, q)]
      OBVIOUS
    <3> HIDE DEF step
    <3>4. QED
      BY <3>1, <3>2, <3>3
  <2>3. QED
    BY <2>1, <2>2
<1>5. f = Rec(f)
  <2>1. f = [n \in 0 .. size |-> IF n = 0 THEN {s} ELSE Grown(n, f[n - 1])]
    <3> HIDE DEF Grown
    <3>1. QED
      BY <1>3, <1>4
  <2>2. QED
    BY <2>1
<1> DEFINE h == CHOOSE h : h = Rec(h)
<1>6. h = Rec(h)
  BY <1>5
<1>7. N!BulletsMoved(s) = h[size]
  BY DEF N!BulletsMoved
<1> HIDE DEF h
<1>8. h[0] = {s} /\ \A n \in 1 .. size : h[n] = Grown(n, h[n - 1])
  <2>1. \A n \in 0 .. size : h[n] = Rec(h)[n]
    BY <1>6
  <2>2. 0 \in 0 .. size /\ \A n \in 1 .. size : n \in 0 .. size /\ n # 0
    BY <1>1
  <2>3. QED
    BY <2>1, <2>2
<1> HIDE DEF Grown, Rec
<1>9. \A n \in 0 .. size : f[n] = h[n]
  <2>1. StepAlike(f, h, size)
    BY <1>4, <1>8 DEF StepAlike
  <2>2. QED
    BY <1>1, <2>1, SameValues
<1>10. QED
  BY <1>1, <1>3, <1>7, <1>9

LEMMA CrossedState ==
    ASSUME NEW s \in DriftStates, NEW t \in N!Crossed(s)
    PROVE  t \in DriftStates
<1>1. PICK u \in N!Scored(s) : t = u \/ t = N!Finish(u)
  BY DEF N!Crossed
<1>2. QED
  BY <1>1, ScoredState, FinishState

LEMMA SpawnedState ==
    ASSUME NEW s \in DriftStates, NEW t \in N!Spawned(s)
    PROVE  t \in DriftStates
<1>1. PICK new : new = [hp |-> DroneHp, target |-> 0]
  OBVIOUS
<1>2. new \in DriftDrones /\ new.target = 0
  BY <1>1, DriftConstants DEF DriftDrones
<1>3. PICK ds \in Seq(DriftDrones) : ds = s.drones
  BY DEF DriftStates, DriftRuns
<1>4. CASE t = s
  BY <1>4
<1>5. CASE t # s
  <2>1. PICK more \in {<<new>>, <<new, new>>} : t = [s EXCEPT !.drones = ds \o more]
    BY <1>1, <1>3, <1>5 DEF N!Spawned, N!None
  <2>2. more \in Seq(DriftDrones) /\ \A i \in 1 .. Len(more) : more[i] = new
    <3>1. CASE more = <<new>>
      <4> HIDE DEF DriftDrones
      <4>1. QED
        BY <1>2, <3>1
    <3>2. CASE more = <<new, new>>
      <4> HIDE DEF DriftDrones
      <4>1. Len(more) = 2 /\ more[1] = new /\ more[2] = new /\ more \in Seq(DriftDrones)
        BY <1>2, <3>2
      <4>2. \A i \in 1 .. 2 : i = 1 \/ i = 2
        OBVIOUS
      <4>3. QED
        BY <4>1, <4>2
    <3>3. QED
      BY <2>1, <3>1, <3>2
  <2>3. PICK es : es = ds \o more
    OBVIOUS
  <2>4. es \in Seq(DriftDrones) /\ Len(es) = Len(ds) + Len(more)
        /\ \A i \in 1 .. Len(es) : es[i] = IF i <= Len(ds) THEN ds[i] ELSE more[i - Len(ds)]
    BY <2>2, <2>3
  <2>5. t \in DriftRuns /\ t.drones = es /\ t.turrets = s.turrets
        /\ t.running = s.running /\ t.panel = s.panel /\ t.due = s.due /\ t.over = s.over
    BY <2>1, <2>3, <2>4 DEF DriftStates, DriftRuns
  <2>6. DriftPanel(t)
    BY <2>5 DEF DriftPanel, DriftStates
  <2>7. DriftChase(es, s.turrets)
    <3>1. DriftChase(ds, s.turrets)
      BY <1>3 DEF DriftStates
    <3>2. ASSUME NEW i \in 1 .. Len(es), es[i].target # 0
          PROVE  \E k \in 1 .. Len(s.turrets) : s.turrets[k].id = es[i].target
      <4>1. CASE i <= Len(ds)
        <5>1. i \in 1 .. Len(ds) /\ es[i] = ds[i]
          BY <2>4, <4>1
        <5>2. QED
          BY <3>1, <3>2, <5>1 DEF DriftChase
      <4>2. CASE ~(i <= Len(ds))
        <5>1. i - Len(ds) \in 1 .. Len(more)
          BY <2>2, <2>4, <4>2
        <5>2. es[i] = new
          BY <2>2, <2>4, <4>2, <5>1
        <5>3. QED
          BY <1>2, <3>2, <5>2
      <4>3. QED
        BY <4>1, <4>2
    <3>3. QED
      BY <3>1, <3>2 DEF DriftChase
  <2>8. QED
    BY <2>5, <2>6, <2>7 DEF DriftStates
<1>6. QED
  BY <1>4, <1>5

LEMMA UpdatedState ==
    ASSUME NEW s \in DriftStates
    PROVE  N!Updated(s) \subseteq DriftStates
<1>1. PICK t \in DriftStates : t = N!Controlled(s)
  BY ControlledState
<1>2. PICK met : met = N!Then(N!Then(N!Then(N!Scored(t), N!PlayerMoved), N!TurretsUpdated), N!DronesMoved)
  OBVIOUS
<1>3. met \subseteq DriftStates
  <2>1. N!Scored(t) \subseteq DriftStates
    BY ScoredState
  <2>2. N!Then(N!Scored(t), N!PlayerMoved) \subseteq DriftStates
    BY <2>1, PlayerMovedState DEF N!Then
  <2>3. N!Then(N!Then(N!Scored(t), N!PlayerMoved), N!TurretsUpdated) \subseteq DriftStates
    BY <2>2, TurretsUpdatedState DEF N!Then
  <2>4. QED
    BY <1>2, <2>3, DronesMovedState DEF N!Then
<1>4. N!Then(met, N!BulletsMoved) \subseteq DriftStates
  BY <1>3, BulletsMovedState DEF N!Then
<1>5. N!Then(N!Then(met, N!BulletsMoved), N!Crossed) \subseteq DriftStates
  BY <1>4, CrossedState DEF N!Then
<1>6. N!Then(N!Then(N!Then(met, N!BulletsMoved), N!Crossed), N!Spawned) \subseteq DriftStates
  BY <1>5, SpawnedState DEF N!Then
<1>7. N!Updated(s) \in {{t}, N!Then(N!Then(N!Then(met, N!BulletsMoved), N!Crossed), N!Spawned)}
  BY <1>1, <1>2 DEF N!Updated
<1>8. QED
  BY <1>6, <1>7

DriftOK == best \in Int /\ (drift # N!Off => drift \in DriftStates)

LEMMA DriftInit == Init => DriftOK
BY DEF Init, N!Init, DriftOK

LEMMA DriftFrame == [Next]_vars => UNCHANGED <<drift, best>> \/ N!Next
BY DEF Next, On, vars, driftVars

LEMMA DriftStep == DriftOK /\ [Next]_vars => DriftOK'
<1> SUFFICES ASSUME DriftOK, [Next]_vars
             PROVE  DriftOK'
  OBVIOUS
<1>1. CASE UNCHANGED <<drift, best>>
  BY <1>1 DEF DriftOK
<1>2. CASE N!Mount
  <2>1. N!Fresh \in DriftRuns
    <3>1. << >> \in Seq(DriftDrones) /\ << >> \in Seq(DriftTurrets) /\ 0 \in Nat
      OBVIOUS
    <3>2. QED
      BY <3>1 DEF N!Fresh, DriftRuns, DriftOK
  <2>2. DriftPanel(N!Fresh) /\ DriftChase(N!Fresh.drones, N!Fresh.turrets)
    BY DriftConstants DEF N!Fresh, DriftPanel, DriftChase
  <2>3. QED
    BY <1>2, <2>1, <2>2 DEF N!Mount, DriftStates, DriftOK
<1>3. CASE N!Leave
  BY <1>3 DEF N!Leave, DriftOK
<1>4. CASE N!Frame
  <2>1. drift' \in DriftStates
    BY <1>4, UpdatedState DEF N!Frame, N!Mounted, DriftOK
  <2>2. best' \in Int
    BY <1>4, <2>1 DEF N!Frame, DriftStates, DriftRuns
  <2>3. QED
    BY <2>1, <2>2 DEF DriftOK
<1>5. CASE N!ShowPanel
  <2>1. drift \in DriftStates /\ drift.due /\ drift' = [drift EXCEPT !.due = FALSE, !.panel = TRUE]
    BY <1>5 DEF N!ShowPanel, N!Mounted, DriftOK
  <2>2. drift' \in DriftRuns /\ drift'.drones = drift.drones /\ drift'.turrets = drift.turrets
        /\ drift'.running = drift.running /\ drift'.over = drift.over /\ drift'.panel
    BY <2>1 DEF DriftStates, DriftRuns
  <2>3. DriftPanel(drift')
    BY <2>1, <2>2 DEF DriftPanel, DriftStates
  <2>4. QED
    BY <1>5, <2>1, <2>2, <2>3, DriftAlike DEF N!ShowPanel, DriftOK
<1>6. CASE N!Blur
  <2>1. drift \in DriftStates /\ drift' \in {drift, [drift EXCEPT !.paused = TRUE]}
    BY <1>6 DEF N!Blur, N!Mounted, DriftOK
  <2>2. PICK t : t = [drift EXCEPT !.paused = TRUE]
    OBVIOUS
  <2>3. t \in DriftRuns /\ t.drones = drift.drones /\ t.turrets = drift.turrets
        /\ t.running = drift.running /\ t.panel = drift.panel /\ t.due = drift.due /\ t.over = drift.over
    BY <2>1, <2>2 DEF DriftStates, DriftRuns
  <2>4. DriftPanel(t)
    BY <2>1, <2>3 DEF DriftPanel, DriftStates
  <2>5. QED
    BY <1>6, <2>1, <2>2, <2>3, <2>4, DriftAlike DEF N!Blur, DriftOK
<1>7. ASSUME NEW action \in {"start", "pause", "deploy"}, N!Press(action)
      PROVE  DriftOK'
  <2>1. PICK pressed : pressed = drift.presses \cup {action}
    OBVIOUS
  <2>2. drift \in DriftStates /\ drift' = [drift EXCEPT !.presses = pressed]
    BY <1>7, <2>1 DEF N!Press, N!Mounted, DriftOK
  <2>3. pressed \in SUBSET {"start", "pause", "deploy"}
    BY <2>1, <2>2 DEF DriftStates, DriftRuns
  <2>4. drift' \in DriftRuns /\ drift'.drones = drift.drones /\ drift'.turrets = drift.turrets
        /\ drift'.running = drift.running /\ drift'.panel = drift.panel /\ drift'.due = drift.due
        /\ drift'.over = drift.over
    BY <2>2, <2>3 DEF DriftStates, DriftRuns
  <2>5. DriftPanel(drift')
    BY <2>2, <2>4 DEF DriftPanel, DriftStates
  <2>6. QED
    BY <1>7, <2>2, <2>4, <2>5, DriftAlike DEF N!Press, DriftOK
<1>8. QED
  BY <1>1, <1>2, <1>3, <1>4, <1>5, <1>6, <1>7, DriftFrame DEF N!Next

\* Between the frames and after each, the panel and the run exclude each other, and the drones and
\* the turrets refer to each other (NeonDriftGame.tsx:242-282, 329-341).
THEOREM DriftInvariance == Spec => []DriftOK
BY DriftInit, DriftStep, PTL DEF Spec

\* The player is never left with neither a run nor a panel, and never with both, for any limit of
\* turrets, drones and bullets (NeonDriftGame.tsx:242-253, 261-282).
THEOREM PanelComesBetweenRuns == Spec => []PanelBetweenRuns
<1>1. DriftOK => PanelBetweenRuns
  <2>1. SUFFICES ASSUME drift \in DriftStates
                 PROVE  drift.running # (drift.panel \/ drift.due) /\ (drift.running => ~drift.over)
    BY DEF DriftOK, PanelBetweenRuns, N!PanelBetweenRuns, N!Mounted
  <2>2. QED
    BY <2>1 DEF DriftStates, DriftRuns, DriftPanel
<1>2. QED
  BY <1>1, DriftInvariance, PTL

\* No drone is after a turret that is gone, however many turrets fall in one frame and whichever
\* takes the place of another (NeonDriftGame.tsx:329-341).
THEOREM NoDroneChasesAGhost == Spec => []DronesChaseStandingTurrets
<1>1. DriftOK => DronesChaseStandingTurrets
  <2>1. SUFFICES ASSUME drift \in DriftStates
                 PROVE  /\ \A i \in DOMAIN drift.drones :
                              \/ drift.drones[i].target = 0
                              \/ \E k \in DOMAIN drift.turrets : drift.turrets[k].id = drift.drones[i].target
                        /\ Len(drift.turrets) <= MaxTurrets
    BY DEF DriftOK, DronesChaseStandingTurrets, N!DronesChaseStandingTurrets, N!Mounted, N!None
  <2>2. DOMAIN drift.drones = 1 .. Len(drift.drones) /\ DOMAIN drift.turrets = 1 .. Len(drift.turrets)
    BY <2>1 DEF DriftStates, DriftRuns
  <2>3. QED
    BY <2>1, <2>2 DEF DriftStates, DriftChase
<1>2. QED
  BY <1>1, DriftInvariance, PTL

-------------------------------------------------------------------------------
(***************************************************************************)
(* Worm Battles: who is left after a frame.                                *)
(***************************************************************************)
ArenaWorms == [length : Int, alive : BOOLEAN]

ArenaGames ==
    [worms : [1 .. AiCount + 1 -> ArenaWorms], score : Int, status : {"playing", "dead"}, best : Int]

\* While a frame is played, the player is told of its end only when it has one.
ArenaFights == {s \in ArenaGames : s.status = "dead" => ~s.worms[1].alive}

LEMMA ArenaConstants ==
    AiCount \in Nat /\ MaxLength \in Nat /\ NewLengths \subseteq Nat /\ ArenaScore \in Nat
BY ArcadeAssumption

LEMMA GrownFight ==
    ASSUME NEW s \in ArenaFights, NEW w \in 1 .. AiCount + 1
    PROVE  A!Grown(s, w) \in ArenaFights
<1>1. PICK worm \in ArenaWorms : worm = s.worms[w]
  BY DEF ArenaFights, ArenaGames
<1>2. PICK length \in Int : length = IF worm.length < MaxLength THEN worm.length + 1 ELSE worm.length
  BY <1>1 DEF ArenaWorms
<1>3. PICK longer : longer = [worm EXCEPT !.length = length]
  OBVIOUS
<1>4. longer \in ArenaWorms /\ longer.alive = worm.alive
  BY <1>1, <1>2, <1>3 DEF ArenaWorms
<1>5. A!Longer(worm) = longer
  BY <1>1, <1>2, <1>3 DEF A!Longer, ArenaWorms
<1>6. PICK ws : ws = [s.worms EXCEPT ![w] = longer]
  OBVIOUS
<1>7. A!Grown(s, w) = [s EXCEPT !.worms = ws]
  BY <1>1, <1>5, <1>6 DEF A!Grown
<1>8. ws \in [1 .. AiCount + 1 -> ArenaWorms] /\ ws[1].alive = s.worms[1].alive
  <2>1. AiCount \in Nat /\ 1 \in 1 .. AiCount + 1
    BY ArenaConstants
  <2>2. QED
    BY <1>1, <1>4, <1>6, <2>1 DEF ArenaFights, ArenaGames
<1>9. QED
  BY <1>7, <1>8 DEF ArenaFights, ArenaGames

LEMMA FallenFight ==
    ASSUME NEW s \in ArenaFights, NEW w \in 1 .. AiCount + 1
    PROVE  A!Fallen(s, w) \in ArenaFights /\ (w = 1 => ~A!Fallen(s, w).worms[1].alive)
<1>1. PICK worm \in ArenaWorms : worm = s.worms[w]
  BY DEF ArenaFights, ArenaGames
<1>2. PICK fallen : fallen = [worm EXCEPT !.alive = FALSE]
  OBVIOUS
<1>3. fallen \in ArenaWorms /\ ~fallen.alive
  BY <1>1, <1>2 DEF ArenaWorms
<1>4. PICK ws : ws = [s.worms EXCEPT ![w] = fallen]
  OBVIOUS
<1>5. A!Fallen(s, w) = [s EXCEPT !.worms = ws]
  BY <1>1, <1>2, <1>4 DEF A!Fallen
<1>6. ws \in [1 .. AiCount + 1 -> ArenaWorms] /\ (ws[1] = s.worms[1] \/ ~ws[1].alive) /\ (w = 1 => ~ws[1].alive)
  <2>1. AiCount \in Nat /\ 1 \in 1 .. AiCount + 1
    BY ArenaConstants
  <2>2. QED
    BY <1>1, <1>3, <1>4, <2>1 DEF ArenaFights, ArenaGames
<1>7. QED
  BY <1>5, <1>6 DEF ArenaFights, ArenaGames

LEMMA ScoredFight ==
    ASSUME NEW s \in ArenaFights
    PROVE  A!Scored(s) \in ArenaFights
<1>1. PICK score \in Int : score = IF s.score < ArenaScore THEN s.score + 1 ELSE s.score
  BY DEF ArenaFights, ArenaGames
<1>2. A!Scored(s) = [s EXCEPT !.score = score]
  BY <1>1 DEF A!Scored, ArenaFights, ArenaGames
<1>3. QED
  BY <1>2 DEF ArenaFights, ArenaGames

LEMMA MetFight ==
    ASSUME NEW s \in ArenaFights, NEW a \in 1 .. AiCount + 1, NEW d \in 1 .. AiCount + 1, a # d
    PROVE  A!Met(s, a, d) \in ArenaFights
<1>1. CASE s.worms[a].length > s.worms[d].length
  BY <1>1, FallenFight, GrownFight, ScoredFight DEF A!Met
<1>2. CASE ~(s.worms[a].length > s.worms[d].length)
  <2>1. PICK t \in ArenaFights : t = A!Fallen(s, a)
    BY FallenFight
  <2>2. CASE a = A!Player
    <3>1. ~t.worms[1].alive
      BY <2>1, <2>2, FallenFight DEF A!Player
    <3>2. PICK top \in Int : top = IF t.score > t.best THEN t.score ELSE t.best
      BY DEF ArenaFights, ArenaGames
    <3>3. A!Met(s, a, d) = [t EXCEPT !.status = "dead", !.best = top]
      <4>1. A!Met(s, a, d) = [t EXCEPT !.status = "dead", !.best = IF t.score > @ THEN t.score ELSE @]
        <5>1. d # A!Player
          BY <2>2
        <5>2. QED
          BY <1>2, <2>1, <2>2, <5>1 DEF A!Met
      <4>2. QED
        BY <3>2, <4>1 DEF ArenaFights, ArenaGames
    <3>4. QED
      BY <3>1, <3>2, <3>3 DEF ArenaFights, ArenaGames
  <2>3. CASE a # A!Player
    <3>1. A!Met(s, a, d) \in {t, A!Scored(A!Grown(t, d))}
      BY <1>2, <2>1, <2>3 DEF A!Met
    <3>2. QED
      BY <3>1, GrownFight, ScoredFight
  <2>4. QED
    BY <2>2, <2>3
<1>3. QED
  BY <1>1, <1>2

LEMMA FightSize == \A s \in ArenaFights : Len(s.worms) = AiCount + 1
<1>1. TAKE s \in ArenaFights
<1>2. AiCount + 1 \in Nat /\ s.worms \in [1 .. AiCount + 1 -> ArenaWorms]
  BY ArenaConstants DEF ArenaFights, ArenaGames
<1>3. QED
  BY <1>2

LEMMA FedFight ==
    ASSUME NEW s \in ArenaFights, NEW eaters
    PROVE  A!Fed(s, eaters) \in ArenaFights
<1> DEFINE size == Len(s.worms)
           Grown(n, q) == IF n \in eaters THEN A!Ate(q, n) ELSE q
           step == [n \in 1 .. size |-> [q \in ArenaFights |-> Grown(n, q)]]
           Rec(f) == [n \in 0 .. size |-> IF n = 0 THEN s ELSE IF n \in eaters THEN A!Ate(f[n - 1], n) ELSE f[n - 1]]
<1>1. size \in Nat /\ s \in ArenaFights
  BY FightSize, ArenaConstants
<1>2. \A n \in 1 .. size, q \in ArenaFights : Grown(n, q) \in ArenaFights
  <2>1. ASSUME NEW n \in 1 .. AiCount + 1, NEW q \in ArenaFights
        PROVE  A!Ate(q, n) \in ArenaFights
    BY GrownFight, ScoredFight DEF A!Ate
  <2>2. QED
    BY <2>1, FightSize
<1>3. PICK f \in [0 .. size -> ArenaFights] : Runs(f, size, s, step)
  <2> HIDE DEF Grown
  <2>1. step \in [1 .. size -> [ArenaFights -> ArenaFights]]
    BY <1>2
  <2> HIDE DEF step, size
  <2>2. QED
    BY <1>1, <2>1, RecursionExists
<1>4. f[0] = s /\ \A n \in 1 .. size : f[n - 1] \in ArenaFights /\ f[n] = Grown(n, f[n - 1])
  <2>1. f[0] = s
    BY <1>1, <1>3 DEF Runs
  <2>2. ASSUME NEW n \in 1 .. size
        PROVE  f[n - 1] \in ArenaFights /\ f[n] = Grown(n, f[n - 1])
    <3> HIDE DEF Grown
    <3>1. f[n - 1] \in ArenaFights
      BY <1>1, <1>3
    <3>2. f[n] = step[n][f[n - 1]]
      <4> HIDE DEF step
      <4>1. QED
        BY <1>3 DEF Runs
    <3>3. step[n] = [q \in ArenaFights |-> Grown(n, q)]
      OBVIOUS
    <3> HIDE DEF step
    <3>4. QED
      BY <3>1, <3>2, <3>3
  <2>3. QED
    BY <2>1, <2>2
<1>5. f = Rec(f)
  <2>1. f = [n \in 0 .. size |-> IF n = 0 THEN s ELSE Grown(n, f[n - 1])]
    <3> HIDE DEF Grown
    <3>1. QED
      BY <1>3, <1>4
  <2>2. QED
    BY <2>1
<1> DEFINE h == CHOOSE h : h = Rec(h)
<1>6. h = Rec(h)
  BY <1>5
<1>7. A!Fed(s, eaters) = h[size]
  BY DEF A!Fed
<1> HIDE DEF h
<1>8. h[0] = s /\ \A n \in 1 .. size : h[n] = Grown(n, h[n - 1])
  <2>1. \A n \in 0 .. size : h[n] = Rec(h)[n]
    BY <1>6
  <2>2. 0 \in 0 .. size /\ \A n \in 1 .. size : n \in 0 .. size /\ n # 0
    BY <1>1
  <2>3. QED
    BY <2>1, <2>2
<1> HIDE DEF Grown, Rec
<1>9. \A n \in 0 .. size : f[n] = h[n]
  <2>1. StepAlike(f, h, size)
    BY <1>4, <1>8 DEF StepAlike
  <2>2. QED
    BY <1>1, <2>1, SameValues
<1>10. QED
  BY <1>1, <1>3, <1>7, <1>9

LEMMA TurnedFight ==
    ASSUME NEW s \in ArenaFights, NEW a \in 1 .. AiCount + 1, NEW contacts, s.worms[a].alive
    PROVE  A!Turned(s, a, contacts) \in ArenaFights
<1> DEFINE size == Len(s.worms)
           Grown(n, q) == A!Touched(q, a, n, contacts)
           step == [n \in 1 .. size |-> [q \in ArenaFights |-> Grown(n, q)]]
           Rec(f) == [n \in 0 .. size |-> IF n = 0 THEN s ELSE A!Touched(f[n - 1], a, n, contacts)]
<1>1. size \in Nat /\ s \in ArenaFights
  BY FightSize, ArenaConstants
<1>2. \A n \in 1 .. size, q \in ArenaFights : Grown(n, q) \in ArenaFights
  <2>1. ASSUME NEW n \in 1 .. AiCount + 1, NEW q \in ArenaFights
        PROVE  A!Touched(q, a, n, contacts) \in ArenaFights
    BY MetFight DEF A!Touched
  <2>2. QED
    BY <2>1, FightSize
<1>3. PICK f \in [0 .. size -> ArenaFights] : Runs(f, size, s, step)
  <2> HIDE DEF Grown
  <2>1. step \in [1 .. size -> [ArenaFights -> ArenaFights]]
    BY <1>2
  <2> HIDE DEF step, size
  <2>2. QED
    BY <1>1, <2>1, RecursionExists
<1>4. f[0] = s /\ \A n \in 1 .. size : f[n - 1] \in ArenaFights /\ f[n] = Grown(n, f[n - 1])
  <2>1. f[0] = s
    BY <1>1, <1>3 DEF Runs
  <2>2. ASSUME NEW n \in 1 .. size
        PROVE  f[n - 1] \in ArenaFights /\ f[n] = Grown(n, f[n - 1])
    <3> HIDE DEF Grown
    <3>1. f[n - 1] \in ArenaFights
      BY <1>1, <1>3
    <3>2. f[n] = step[n][f[n - 1]]
      <4> HIDE DEF step
      <4>1. QED
        BY <1>3 DEF Runs
    <3>3. step[n] = [q \in ArenaFights |-> Grown(n, q)]
      OBVIOUS
    <3> HIDE DEF step
    <3>4. QED
      BY <3>1, <3>2, <3>3
  <2>3. QED
    BY <2>1, <2>2
<1>5. f = Rec(f)
  <2>1. f = [n \in 0 .. size |-> IF n = 0 THEN s ELSE Grown(n, f[n - 1])]
    <3> HIDE DEF Grown
    <3>1. QED
      BY <1>3, <1>4
  <2>2. QED
    BY <2>1
<1> DEFINE h == CHOOSE h : h = Rec(h)
<1>6. h = Rec(h)
  BY <1>5
<1>7. A!Turned(s, a, contacts) = h[size]
  BY DEF A!Turned
<1> HIDE DEF h
<1>8. h[0] = s /\ \A n \in 1 .. size : h[n] = Grown(n, h[n - 1])
  <2>1. \A n \in 0 .. size : h[n] = Rec(h)[n]
    BY <1>6
  <2>2. 0 \in 0 .. size /\ \A n \in 1 .. size : n \in 0 .. size /\ n # 0
    BY <1>1
  <2>3. QED
    BY <2>1, <2>2
<1> HIDE DEF Grown, Rec
<1>9. \A n \in 0 .. size : f[n] = h[n]
  <2>1. StepAlike(f, h, size)
    BY <1>4, <1>8 DEF StepAlike
  <2>2. QED
    BY <1>1, <2>1, SameValues
<1>10. QED
  BY <1>1, <1>3, <1>7, <1>9

LEMMA FoughtFight ==
    ASSUME NEW s \in ArenaFights, NEW contacts
    PROVE  A!Fought(s, contacts) \in ArenaFights
<1> DEFINE size == Len(s.worms)
           Grown(n, q) == A!Turned(q, n, contacts)
           step == [n \in 1 .. size |-> [q \in ArenaFights |-> Grown(n, q)]]
           Rec(f) == [n \in 0 .. size |-> IF n = 0 THEN s ELSE A!Turned(f[n - 1], n, contacts)]
<1>1. size \in Nat /\ s \in ArenaFights
  BY FightSize, ArenaConstants
<1>2. \A n \in 1 .. size, q \in ArenaFights : Grown(n, q) \in ArenaFights
  <2>1. ASSUME NEW n \in 1 .. AiCount + 1, NEW q \in ArenaFights
        PROVE  A!Turned(q, n, contacts) \in ArenaFights
    <3>1. CASE q.worms[n].alive
      BY <3>1, TurnedFight
    <3>2. CASE ~q.worms[n].alive
      BY <3>2 DEF A!Turned
    <3>3. QED
      BY <3>1, <3>2
  <2>2. QED
    BY <2>1, FightSize
<1>3. PICK f \in [0 .. size -> ArenaFights] : Runs(f, size, s, step)
  <2> HIDE DEF Grown
  <2>1. step \in [1 .. size -> [ArenaFights -> ArenaFights]]
    BY <1>2
  <2> HIDE DEF step, size
  <2>2. QED
    BY <1>1, <2>1, RecursionExists
<1>4. f[0] = s /\ \A n \in 1 .. size : f[n - 1] \in ArenaFights /\ f[n] = Grown(n, f[n - 1])
  <2>1. f[0] = s
    BY <1>1, <1>3 DEF Runs
  <2>2. ASSUME NEW n \in 1 .. size
        PROVE  f[n - 1] \in ArenaFights /\ f[n] = Grown(n, f[n - 1])
    <3> HIDE DEF Grown
    <3>1. f[n - 1] \in ArenaFights
      BY <1>1, <1>3
    <3>2. f[n] = step[n][f[n - 1]]
      <4> HIDE DEF step
      <4>1. QED
        BY <1>3 DEF Runs
    <3>3. step[n] = [q \in ArenaFights |-> Grown(n, q)]
      OBVIOUS
    <3> HIDE DEF step
    <3>4. QED
      BY <3>1, <3>2, <3>3
  <2>3. QED
    BY <2>1, <2>2
<1>5. f = Rec(f)
  <2>1. f = [n \in 0 .. size |-> IF n = 0 THEN s ELSE Grown(n, f[n - 1])]
    <3> HIDE DEF Grown
    <3>1. QED
      BY <1>3, <1>4
  <2>2. QED
    BY <2>1
<1> DEFINE h == CHOOSE h : h = Rec(h)
<1>6. h = Rec(h)
  BY <1>5
<1>7. A!Fought(s, contacts) = h[size]
  BY DEF A!Fought
<1> HIDE DEF h
<1>8. h[0] = s /\ \A n \in 1 .. size : h[n] = Grown(n, h[n - 1])
  <2>1. \A n \in 0 .. size : h[n] = Rec(h)[n]
    BY <1>6
  <2>2. 0 \in 0 .. size /\ \A n \in 1 .. size : n \in 0 .. size /\ n # 0
    BY <1>1
  <2>3. QED
    BY <2>1, <2>2
<1> HIDE DEF Grown, Rec
<1>9. \A n \in 0 .. size : f[n] = h[n]
  <2>1. StepAlike(f, h, size)
    BY <1>4, <1>8 DEF StepAlike
  <2>2. QED
    BY <1>1, <2>1, SameValues
<1>10. QED
  BY <1>1, <1>3, <1>7, <1>9

\* After a frame every rival is alive again.
ArenaFull(s) ==
    /\ s \in ArenaFights
    /\ \A w \in 2 .. AiCount + 1 : s.worms[w].alive

LEMMA RefilledFull ==
    ASSUME NEW s \in ArenaFights, NEW t \in A!Refilled(s)
    PROVE  ArenaFull(t)
<1>1. PICK all \in Seq(ArenaWorms) : all = s.worms /\ Len(all) = AiCount + 1
  <2>1. AiCount + 1 \in Nat /\ s.worms \in [1 .. AiCount + 1 -> ArenaWorms]
    BY ArenaConstants DEF ArenaFights, ArenaGames
  <2>2. QED
    BY <2>1
<1>2. PICK living : living = {w \in A!Range(s.worms) : w.alive}
  OBVIOUS
<1>3. PICK rivals : rivals = Only(Tail(all), living)
  OBVIOUS
<1>4. Tail(all) \in Seq(ArenaWorms) /\ Len(Tail(all)) = AiCount
  BY <1>1, ArenaConstants
<1>5. rivals \in Seq(ArenaWorms) /\ Len(rivals) \in 0 .. AiCount /\ \A i \in 1 .. Len(rivals) : rivals[i].alive
  <2>1. rivals \in Seq(ArenaWorms)
    BY <1>3, <1>4, OnlyType
  <2>2. Len(rivals) <= AiCount /\ \A i \in 1 .. Len(rivals) : rivals[i] \in living
    BY <1>3, <1>4, OnlyLeaves
  <2>3. QED
    BY <1>2, <2>1, <2>2, ArenaConstants
<1>6. A!Rivals(s) = rivals
  <2>1. A!Only(Tail(all), living) = Only(Tail(all), living)
    BY DEF A!Only, Only
  <2>2. QED
    BY <1>1, <1>2, <1>3, <2>1 DEF A!Rivals
<1>7. PICK n \in Nat : n = AiCount - Len(rivals)
  <2>1. AiCount - Len(rivals) \in Nat
    BY <1>5, ArenaConstants
  <2>2. QED
    BY <2>1
<1>8. PICK lengths \in [1 .. n -> NewLengths] :
        t = [s EXCEPT !.worms = <<s.worms[A!Player]>> \o A!Rivals(s) \o [i \in 1 .. n |-> A!NewWorm(lengths[i])]]
  BY <1>6, <1>7 DEF A!Refilled, A!Joined
<1>9. PICK new : new = [i \in 1 .. n |-> A!NewWorm(lengths[i])]
  OBVIOUS
<1>10. new \in Seq(ArenaWorms) /\ Len(new) = n /\ \A i \in 1 .. n : new[i].alive
  <2>1. \A i \in 1 .. n : A!NewWorm(lengths[i]) \in ArenaWorms /\ A!NewWorm(lengths[i]).alive
    BY <1>8, ArenaConstants DEF A!NewWorm, ArenaWorms
  <2>2. new \in [1 .. n -> ArenaWorms]
    BY <1>9, <2>1
  <2>3. QED
    BY <1>9, <2>1, <2>2
<1>11. PICK first \in ArenaWorms : first = s.worms[1]
  <2>1. 1 \in 1 .. AiCount + 1
    BY ArenaConstants
  <2>2. QED
    BY <2>1 DEF ArenaFights, ArenaGames
<1>12. PICK ws : ws = <<first>> \o rivals \o new
  OBVIOUS
<1>13. t = [s EXCEPT !.worms = ws]
  BY <1>6, <1>8, <1>9, <1>11, <1>12 DEF A!Player
<1>14. PICK k \in Nat : k = Len(rivals)
  BY <1>5
<1>15. PICK front : front = <<first>> \o rivals
  OBVIOUS
<1>16. front \in Seq(ArenaWorms) /\ Len(front) = 1 + k /\ front[1] = first
       /\ \A w \in 2 .. 1 + k : front[w] = rivals[w - 1] /\ w - 1 \in 1 .. k
  BY <1>5, <1>11, <1>14, <1>15
<1>17. ws \in Seq(ArenaWorms) /\ Len(ws) = AiCount + 1 /\ ws[1] = first
  BY <1>7, <1>10, <1>12, <1>14, <1>15, <1>16, ArenaConstants
<1>18. ASSUME NEW w \in 2 .. AiCount + 1
       PROVE  ws[w].alive
  <2>1. CASE w <= 1 + k
    <3>1. ws[w] = front[w] /\ front[w] = rivals[w - 1] /\ w - 1 \in 1 .. k
      BY <1>10, <1>12, <1>15, <1>16, <2>1
    <3>2. QED
      BY <1>5, <1>14, <3>1
  <2>2. CASE ~(w <= 1 + k)
    <3>1. w - (1 + k) \in 1 .. n
      BY <1>7, <1>14, <2>2, ArenaConstants
    <3>2. ws[w] = new[w - (1 + k)]
      BY <1>10, <1>12, <1>15, <1>16, <2>2, <3>1
    <3>3. QED
      BY <1>10, <3>1, <3>2
  <2>3. QED
    BY <2>1, <2>2
<1>19. ws \in [1 .. AiCount + 1 -> ArenaWorms]
  <2>1. DOMAIN ws = 1 .. AiCount + 1 /\ \A w \in DOMAIN ws : ws[w] \in ArenaWorms
    BY <1>17
  <2>2. ws = [w \in DOMAIN ws |-> ws[w]]
    BY <1>17
  <2>3. QED
    BY <2>1, <2>2
<1>20. t \in ArenaFights /\ t.worms = ws
  BY <1>11, <1>13, <1>17, <1>19 DEF ArenaFights, ArenaGames
<1>21. QED
  BY <1>18, <1>20 DEF ArenaFull

LEMMA FramedFull ==
    ASSUME NEW s, ArenaFull(s), NEW t \in A!Framed(s)
    PROVE  ArenaFull(t)
<1>1. PICK u \in (IF s.status = "playing" THEN A!Played(s) ELSE {s}) : t \in A!Told(u)
  BY DEF A!Framed
<1>2. ArenaFull(u)
  <2>1. CASE u = s
    BY <2>1
  <2>2. CASE u \in A!Played(s)
    <3>1. PICK eaters \in SUBSET A!Alive(s),
               contacts \in SUBSET {c \in A!Alive(s) \X A!Alive(s) : c[1] # c[2]} :
            u \in A!Refilled(A!Fought(A!Fed(s, eaters), contacts))
      BY <2>2 DEF A!Played
    <3>2. A!Fed(s, eaters) \in ArenaFights
      BY FedFight DEF ArenaFull
    <3>3. A!Fought(A!Fed(s, eaters), contacts) \in ArenaFights
      BY <3>2, FoughtFight
    <3>4. QED
      BY <3>1, <3>3, RefilledFull
  <2>3. QED
    BY <1>1, <2>1, <2>2
<1>3. PICK top \in Int : top = IF u.score > u.best THEN u.score ELSE u.best
  BY <1>2 DEF ArenaFull, ArenaFights, ArenaGames
<1>4. t = u \/ t = [u EXCEPT !.best = top]
  BY <1>1, <1>2, <1>3 DEF A!Told, ArenaFull, ArenaFights, ArenaGames
<1>5. QED
  BY <1>2, <1>4 DEF ArenaFull, ArenaFights, ArenaGames

LEMMA FirstFull ==
    ASSUME NEW g \in A!InitialGames, NEW b \in Int
    PROVE  ArenaFull(A!WithBest(g, b)) /\ A!WithBest(g, b).best = b
<1>1. PICK lengths \in [2 .. AiCount + 1 -> NewLengths] :
        g = [worms |-> [i \in 1 .. AiCount + 1 |-> IF i = A!Player THEN A!NewWorm(2) ELSE A!NewWorm(lengths[i])],
             score |-> 0, status |-> "playing"]
  BY DEF A!InitialGames
<1>2. PICK ws : ws = [i \in 1 .. AiCount + 1 |-> IF i = A!Player THEN A!NewWorm(2) ELSE A!NewWorm(lengths[i])]
  OBVIOUS
<1>3. ws \in [1 .. AiCount + 1 -> ArenaWorms] /\ \A i \in 1 .. AiCount + 1 : ws[i].alive
  <2>1. ASSUME NEW i \in 1 .. AiCount + 1
        PROVE  ws[i] \in ArenaWorms /\ ws[i].alive
    <3>1. CASE i = A!Player
      BY <1>2, <3>1 DEF A!NewWorm, ArenaWorms
    <3>2. CASE i # A!Player
      <4>1. i \in 2 .. AiCount + 1
        BY <3>2, ArenaConstants DEF A!Player
      <4>2. lengths[i] \in Nat
        BY <1>1, <4>1, ArenaConstants
      <4>3. QED
        BY <1>2, <3>2, <4>2 DEF A!NewWorm, ArenaWorms
    <3>3. QED
      BY <3>1, <3>2
  <2>2. QED
    BY <1>2, <2>1
<1>4. A!WithBest(g, b) = [worms |-> ws, score |-> 0, status |-> "playing", best |-> b]
  BY <1>1, <1>2 DEF A!WithBest
<1>5. A!WithBest(g, b) \in ArenaFights
  BY <1>3, <1>4 DEF ArenaFights, ArenaGames
<1>6. QED
  BY <1>3, <1>4, <1>5, ArenaConstants DEF ArenaFull

ArenaOK ==
    /\ wormBest \in Int
    /\ arena # A!Off => ArenaFull(arena) /\ arena.best = wormBest

LEMMA ArenaInit == Init => ArenaOK
BY DEF Init, A!Init, ArenaOK

LEMMA ArenaFrame == [Next]_vars => UNCHANGED <<arena, wormBest>> \/ A!Next
BY DEF Next, On, vars, arenaVars

LEMMA ArenaStep == ArenaOK /\ [Next]_vars => ArenaOK'
<1> SUFFICES ASSUME ArenaOK, [Next]_vars
             PROVE  ArenaOK'
  OBVIOUS
<1>1. CASE UNCHANGED <<arena, wormBest>>
  BY <1>1 DEF ArenaOK
<1>2. CASE A!Mount
  BY <1>2, FirstFull DEF A!Mount, ArenaOK
<1>3. CASE A!Leave
  BY <1>3 DEF A!Leave, ArenaOK
<1>4. CASE A!Frame
  <2>1. ArenaFull(arena) /\ arena.best = wormBest
    BY <1>4 DEF A!Frame, A!Mounted, ArenaOK
  <2>2. ArenaFull(arena')
    BY <1>4, <2>1, FramedFull DEF A!Frame
  <2>3. arena'.best = wormBest' /\ wormBest' \in Int
    BY <1>4, <2>1, <2>2 DEF A!Frame, ArenaFull, ArenaFights, ArenaGames, ArenaOK
  <2>4. QED
    BY <2>2, <2>3 DEF ArenaOK
<1>5. CASE A!ResetGame
  <2>1. ArenaFull(arena) /\ arena.best = wormBest
    BY <1>5 DEF A!ResetGame, A!Mounted, ArenaOK
  <2>2. QED
    BY <1>5, <2>1, FirstFull DEF A!ResetGame, ArenaOK
<1>6. QED
  BY <1>1, <1>2, <1>3, <1>4, <1>5, ArenaFrame DEF A!Next

\* The worms of the field, what the player is told and the best score agree after every frame and reset,
\* whoever eats and whose head meets whose body (WormBattles.tsx:91-229).
THEOREM ArenaInvariance == Spec => []ArenaOK
BY ArenaInit, ArenaStep, PTL DEF Spec

\* The field is full after every frame, for any number of rivals (WormBattles.tsx:130-176, 209-217).
THEOREM FieldStaysFull == Spec => []FieldIsFull
<1>1. ArenaOK => FieldIsFull
  <2>1. SUFFICES ASSUME ArenaFull(arena), arena.best = wormBest
                 PROVE  /\ Len(arena.worms) = AiCount + 1
                        /\ \A w \in DOMAIN arena.worms \ {A!Player} : arena.worms[w].alive
                        /\ arena.status = "dead" => ~arena.worms[A!Player].alive
                        /\ arena.best = wormBest
    BY DEF ArenaOK, FieldIsFull, A!FieldIsFull, A!Mounted
  <2>2. Len(arena.worms) = AiCount + 1
    BY <2>1, FightSize DEF ArenaFull
  <2>3. \A w \in DOMAIN arena.worms \ {A!Player} : w \in 2 .. AiCount + 1
    BY <2>1, ArenaConstants DEF ArenaFull, ArenaFights, ArenaGames, A!Player
  <2>4. QED
    BY <2>1, <2>2, <2>3 DEF ArenaFull, ArenaFights, A!Player
<1>2. QED
  BY <1>1, ArenaInvariance, PTL

-------------------------------------------------------------------------------
(***************************************************************************)
(* The games played last.                                                  *)
(***************************************************************************)
NoneTwice(q) == \A i, j \in 1 .. Len(q) : q[i] = q[j] => i = j

\* What Only leaves of a list without doubles has none, and is in the set.
LEMMA OnlyNoneTwice ==
    ASSUME NEW T, NEW s \in Seq(T), NoneTwice(s), NEW S
    PROVE  /\ NoneTwice(Only(s, S))
           /\ \A i \in 1 .. Len(Only(s, S)) : Only(s, S)[i] \in S
<1>1. PICK f \in [0 .. Len(s) -> Seq(T)] : OnlyRun(f, s, S)
  BY OnlyValues
<1>2. PICK size \in Nat : size = Len(s)
  OBVIOUS
<1> DEFINE Holds(n) == /\ NoneTwice(f[n])
                       /\ \A i \in 1 .. Len(f[n]) : f[n][i] \in S /\ \E k \in 1 .. n : f[n][i] = s[k]
           Bad == {n \in 0 .. size : ~Holds(n)}
<1>3. Holds(size)
  <2>1. SUFFICES ASSUME NEW m \in 0 .. size, ~Holds(m), \A k \in 0 .. size : ~Holds(k) => m <= k
                 PROVE  FALSE
    <3>1. Bad \subseteq Nat /\ \A m : m \in Bad <=> m \in 0 .. size /\ ~Holds(m)
      OBVIOUS
    <3> HIDE DEF Bad, Holds
    <3>2. size \in 0 .. size
      OBVIOUS
    <3>3. QED
      BY <2>1, <3>1, <3>2, LeastNatural
  <2>2. Holds(0)
    BY <1>1, <1>2 DEF OnlyRun, NoneTwice
  <2>3. m \in 1 .. size /\ m - 1 \in 0 .. size /\ m - 1 < m
    <3> HIDE DEF Holds
    <3>1. m # 0
      BY <2>1, <2>2
    <3>2. QED
      BY <3>1
  <2>4. Holds(m - 1)
    <3> HIDE DEF Holds
    <3>1. QED
      BY <2>1, <2>3
  <2>5. PICK q \in Seq(T) : q = f[m - 1]
    BY <1>1, <1>2, <2>3
  <2>6. PICK x \in T : x = s[m]
    BY <1>2, <2>3
  <2>7. CASE x \notin S
    <3>1. f[m] = f[m - 1]
      BY <1>1, <1>2, <2>3, <2>6, <2>7 DEF OnlyRun
    <3>2. QED
      BY <2>1, <2>3, <2>4, <3>1
  <2>8. CASE x \in S
    <3>1. PICK r : r = f[m]
      OBVIOUS
    <3>2. r = Append(q, x)
      BY <1>1, <1>2, <2>3, <2>5, <2>6, <2>8, <3>1 DEF OnlyRun
    <3>3. PICK n \in Nat : n = Len(q)
      OBVIOUS
    <3>4. Len(r) = n + 1 /\ r[n + 1] = x /\ \A i \in 1 .. n : r[i] = q[i]
      BY <3>2, <3>3
    <3>5. \A i \in 1 .. n : q[i] \in S /\ \E k \in 1 .. m - 1 : q[i] = s[k]
      BY <2>4, <2>5, <3>3
    <3>6. \A i \in 1 .. n : q[i] # x
      BY <1>2, <2>3, <2>6, <3>5 DEF NoneTwice
    <3>7. \A i, j \in 1 .. n + 1 : r[i] = r[j] => i = j
      <4>1. \A i, j \in 1 .. n : q[i] = q[j] => i = j
        BY <2>4, <2>5, <3>3 DEF NoneTwice
      <4>2. QED
        BY <3>4, <3>6, <4>1
    <3>8. \A i \in 1 .. n + 1 : r[i] \in S /\ \E k \in 1 .. m : r[i] = s[k]
      <4>1. ASSUME NEW i \in 1 .. n + 1
            PROVE  r[i] \in S /\ \E k \in 1 .. m : r[i] = s[k]
        <5>1. CASE i = n + 1
          BY <2>3, <2>6, <2>8, <3>4, <5>1
        <5>2. CASE i # n + 1
          <6>1. i \in 1 .. n
            BY <5>2
          <6>2. PICK k \in 1 .. m - 1 : q[i] = s[k]
            BY <3>5, <6>1
          <6>3. k \in 1 .. m
            BY <2>3
          <6>4. QED
            BY <3>4, <3>5, <6>1, <6>2, <6>3
        <5>3. QED
          BY <5>1, <5>2
      <4>2. QED
        BY <4>1
    <3>9. Holds(m)
      BY <3>1, <3>4, <3>7, <3>8 DEF NoneTwice
    <3>10. QED
      BY <2>1, <3>9
  <2>9. QED
    BY <2>7, <2>8
<1>4. QED
  BY <1>1, <1>2, <1>3 DEF OnlyRun

GameLists == {q \in Seq(Game) : NoneTwice(q)}

LEMMA CutIsAList ==
    ASSUME NEW q \in GameLists
    PROVE  L!Cut(q) \in GameLists /\ Len(L!Cut(q)) <= MaxRecent
<1>1. MaxRecent \in Nat
  BY ArcadeAssumption
<1>2. PICK n \in Nat : n = IF Len(q) < MaxRecent THEN Len(q) ELSE MaxRecent
  BY <1>1 DEF GameLists
<1>3. q \in Seq(Game) /\ n <= Len(q) /\ n <= MaxRecent
  BY <1>1, <1>2 DEF GameLists
<1>4. PICK r : r = SubSeq(q, 1, n)
  OBVIOUS
<1>5. r \in Seq(Game) /\ Len(r) = n /\ \A i \in 1 .. n : r[i] = q[i]
  BY <1>3, <1>4
<1>6. NoneTwice(r)
  BY <1>3, <1>5 DEF GameLists, NoneTwice
<1>7. L!Cut(q) = r
  BY <1>2, <1>4 DEF L!Cut
<1>8. QED
  BY <1>3, <1>5, <1>6, <1>7 DEF GameLists

LEMMA FirstsIsAList ==
    ASSUME NEW s \in Seq(Game)
    PROVE  L!Firsts(s) \in GameLists
<1> DEFINE size == Len(s)
           Grown(n, q) == IF s[n] \in L!Range(q) THEN q ELSE Append(q, s[n])
           step == [n \in 1 .. size |-> [q \in GameLists |-> Grown(n, q)]]
           Rec(f) == [n \in 0 .. size |-> IF n = 0 THEN << >>
            ELSE IF s[n] \in L!Range(f[n - 1]) THEN f[n - 1] ELSE Append(f[n - 1], s[n])]
<1>1. size \in Nat /\ << >> \in GameLists
  BY DEF GameLists, NoneTwice
<1>2. \A n \in 1 .. size, q \in GameLists : Grown(n, q) \in GameLists
  <2>1. SUFFICES ASSUME NEW n \in 1 .. size, NEW q \in GameLists, s[n] \notin L!Range(q)
                 PROVE  Append(q, s[n]) \in GameLists
    OBVIOUS
  <2>2. PICK x \in Game : x = s[n]
    OBVIOUS
  <2>3. q \in Seq(Game) /\ \A i \in 1 .. Len(q) : q[i] # x
    BY <2>1, <2>2 DEF GameLists, L!Range
  <2>4. NoneTwice(Append(q, x))
    BY <2>3 DEF GameLists, NoneTwice
  <2>5. QED
    BY <2>2, <2>3, <2>4 DEF GameLists
<1>3. PICK f \in [0 .. size -> GameLists] : Runs(f, size, << >>, step)
  <2> HIDE DEF Grown
  <2>1. step \in [1 .. size -> [GameLists -> GameLists]]
    BY <1>2
  <2> HIDE DEF step, size
  <2>2. QED
    BY <1>1, <2>1, RecursionExists
<1>4. f[0] = << >> /\ \A n \in 1 .. size : f[n - 1] \in GameLists /\ f[n] = Grown(n, f[n - 1])
  <2>1. f[0] = << >>
    BY <1>1, <1>3 DEF Runs
  <2>2. ASSUME NEW n \in 1 .. size
        PROVE  f[n - 1] \in GameLists /\ f[n] = Grown(n, f[n - 1])
    <3>1. f[n - 1] \in GameLists
      BY <1>1, <1>3
    <3> HIDE DEF Grown
    <3>2. f[n] = step[n][f[n - 1]]
      <4> HIDE DEF step
      <4>1. QED
        BY <1>3 DEF Runs
    <3>3. step[n] = [q \in GameLists |-> Grown(n, q)]
      OBVIOUS
    <3> HIDE DEF step
    <3>4. QED
      BY <3>1, <3>2, <3>3
  <2>3. QED
    BY <2>1, <2>2
<1>5. f = Rec(f)
  <2>1. f = [n \in 0 .. size |-> IF n = 0 THEN << >> ELSE Grown(n, f[n - 1])]
    <3> HIDE DEF Grown
    <3>1. QED
      BY <1>3, <1>4
  <2>2. QED
    BY <2>1
<1> DEFINE h == CHOOSE h : h = Rec(h)
<1>6. h = Rec(h)
  BY <1>5
<1>7. L!Firsts(s) = h[size]
  BY DEF L!Firsts
<1> HIDE DEF h
<1>8. h[0] = << >> /\ \A n \in 1 .. size : h[n] = Grown(n, h[n - 1])
  <2>1. \A n \in 0 .. size : h[n] = Rec(h)[n]
    BY <1>6
  <2>2. 0 \in 0 .. size /\ \A n \in 1 .. size : n \in 0 .. size /\ n # 0
    BY <1>1
  <2>3. QED
    BY <2>1, <2>2
<1> HIDE DEF Grown, Rec
<1>9. \A n \in 0 .. size : f[n] = h[n]
  <2>1. StepAlike(f, h, size)
    BY <1>4, <1>8 DEF StepAlike
  <2>2. QED
    BY <1>1, <2>1, SameValues
<1>10. QED
  BY <1>1, <1>3, <1>7, <1>9

LEMMA InFrontIsAList ==
    ASSUME NEW g \in Game, NEW q \in GameLists
    PROVE  L!InFront(g, q) \in GameLists /\ Len(L!InFront(g, q)) <= MaxRecent
<1>1. PICK rest : rest = Only(q, Game \ {g})
  OBVIOUS
<1>2. rest \in Seq(Game)
  BY <1>1, OnlyType DEF GameLists
<1>3. NoneTwice(rest) /\ \A i \in 1 .. Len(rest) : rest[i] \in Game \ {g}
  <2>1. q \in Seq(Game) /\ NoneTwice(q)
    BY DEF GameLists
  <2>2. QED
    BY <1>1, <2>1, OnlyNoneTwice
<1>4. PICK next : next = <<g>> \o rest
  OBVIOUS
<1>5. /\ next \in Seq(Game) /\ Len(next) = Len(rest) + 1 /\ next[1] = g
      /\ \A i \in 2 .. Len(next) : next[i] = rest[i - 1] /\ i - 1 \in 1 .. Len(rest)
  BY <1>2, <1>4
<1>6. NoneTwice(next)
  <2>1. ASSUME NEW i \in 1 .. Len(next), NEW j \in 1 .. Len(next), next[i] = next[j], i < j
        PROVE  FALSE
    <3>1. j \in 2 .. Len(next) /\ Len(next) \in Nat
      BY <1>2, <1>5, <2>1
    <3>2. CASE i = 1
      BY <1>3, <1>5, <2>1, <3>1, <3>2
    <3>3. CASE i # 1
      <4>1. i \in 2 .. Len(next)
        BY <3>1, <3>3
      <4>2. i - 1 = j - 1
        BY <1>3, <1>5, <2>1, <3>1, <4>1 DEF NoneTwice
      <4>3. QED
        BY <2>1, <4>2
    <3>4. QED
      BY <3>2, <3>3
  <2>2. QED
    BY <1>2, <1>5, <2>1 DEF NoneTwice
<1>7. L!InFront(g, q) = L!Cut(next)
  <2>1. L!Only(q, Game \ {g}) = Only(q, Game \ {g})
    BY DEF L!Only, Only
  <2>2. QED
    BY <1>1, <1>4, <2>1 DEF L!InFront
<1>8. QED
  BY <1>5, <1>6, <1>7, CutIsAList DEF GameLists

ListOK ==
    /\ recent \in GameLists /\ Len(recent) <= MaxRecent
    /\ held \in [Tab -> {L!Nothing} \cup [reading : {TRUE}, game : Game, list : GameLists]]

LEMMA ListInit == Init => ListOK
<1>1. MaxRecent \in Nat
  BY ArcadeAssumption
<1>2. << >> \in GameLists
  BY DEF GameLists, NoneTwice
<1>3. QED
  BY <1>1, <1>2 DEF Init, L!Init, ListOK

LEMMA ListFrame == [Next]_vars => UNCHANGED <<recent, held>> \/ L!Next
BY DEF Next, On, vars, recentVars

LEMMA ListStep == ListOK /\ [Next]_vars => ListOK'
<1> SUFFICES ASSUME ListOK, [Next]_vars
             PROVE  ListOK'
  OBVIOUS
<1>1. CASE UNCHANGED <<recent, held>>
  BY <1>1 DEF ListOK
<1>2. ASSUME NEW t \in Tab, NEW g \in Game, L!ReadRecent(t, g)
      PROVE  ListOK'
  <2>1. PICK list : list = L!Read(recent)
    OBVIOUS
  <2>2. list \in GameLists
    BY <2>1, FirstsIsAList, CutIsAList DEF L!Read, ListOK, GameLists
  <2>3. [reading |-> TRUE, game |-> g, list |-> list] \in [reading : {TRUE}, game : Game, list : GameLists]
    BY <2>2
  <2>4. QED
    BY <1>2, <2>1, <2>3 DEF L!ReadRecent, ListOK
<1>3. ASSUME NEW t \in Tab, L!WriteRecent(t)
      PROVE  ListOK'
  <2>1. held[t].game \in Game /\ held[t].list \in GameLists
    BY <1>3 DEF L!WriteRecent, ListOK
  <2>2. recent' \in GameLists /\ Len(recent') <= MaxRecent
    BY <1>3, <2>1, InFrontIsAList DEF L!WriteRecent
  <2>3. QED
    BY <1>3, <2>2 DEF L!WriteRecent, ListOK
<1>4. ASSUME NEW t \in Tab, L!WriteRefused(t)
      PROVE  ListOK'
  BY <1>4 DEF L!WriteRefused, ListOK
<1>5. QED
  BY <1>1, <1>2, <1>3, <1>4, ListFrame DEF L!Next

\* What is stored, and what a tab has read and not yet written, is a list of games without doubles
\* (recentGames.ts:19-63).
THEOREM ListInvariance == Spec => []ListOK
BY ListInit, ListStep, PTL DEF Spec

\* However two tabs overtake each other, the list a page reads has no game twice and none too many,
\* for any games, any number of tabs and any limit (recentGames.ts:19-63).
THEOREM RecentStaysAList == Spec => []RecentIsAList
<1>1. ListOK => RecentIsAList
  BY DEF ListOK, GameLists, NoneTwice, RecentIsAList, L!RecentIsAList, L!IsInjective
<1>2. QED
  BY <1>1, ListInvariance, PTL
================================================================================
