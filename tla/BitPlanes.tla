------------------------------- MODULE BitPlanes -------------------------------
(***************************************************************************)
(* The scene of src/games/bit-planes/BitPlanesGame.tsx: one frame of        *)
(* update() at a time, and the keys and clicks between frames. Which bullet *)
(* reaches which plane, and what leaves the playfield, is chosen in every   *)
(* frame. Planes and bullets are counted between frames, when the lists     *)
(* hold only live ones; within a frame the walk over them tells them apart, *)
(* for what is destroyed stays in the lists. Timers count frames.           *)
(***************************************************************************)
EXTENDS Integers, FiniteSets

CONSTANTS
    Lives, MaxEnemies, FirstEnemies,            \* 3, 5, 3 in the code
    HitRest, SpawnDelay, FireDelay, FirstFire,  \* 900, 1200, 1250, 900 ms
    MaxFired, MaxSpawned, MaxShots              \* bounds: bullets fired and enemies spawned in a round,
                                                \* enemy bullets in the air

VARIABLE planes     \* the scene, or Off

Off == [mounted |-> FALSE]
Mounted == planes # Off

\* down: hits counted, 100 points each; fired, spawned: bullets fired and enemies spawned in this
\* round; fire, restart: the keys' presses JustDown has not consumed; wait: until the player can be
\* hit again; far: enemies placed so far to the right that the first frame drops them.
NewRound(s) ==
    [lives |-> Lives, down |-> 0, fired |-> 0, spawned |-> FirstEnemies, bullets |-> 0,
     shots |-> 0, enemies |-> FirstEnemies, far |-> FirstEnemies - 1, wait |-> 0, spawn |-> SpawnDelay, gun |-> FirstFire,
     prompt |-> FALSE, fire |-> s.fire, restart |-> s.restart]

GameOver(s) == s.lives <= 0

-------------------------------------------------------------------------------
(***************************************************************************)
(* One frame, in the order of update().                                    *)
(***************************************************************************)
Then(states, Part(_)) == UNION {Part(s) : s \in states}

Down(n) == IF n > 0 THEN n - 1 ELSE 0

Ticked(s) == [s EXCEPT !.wait = Down(@), !.spawn = Down(@), !.gun = Down(@)]

FiredBullet(s) ==
    IF ~s.fire THEN s
    ELSE [s EXCEPT !.fire = FALSE, !.bullets = @ + 1, !.fired = @ + 1]

SpawnedEnemy(s) ==
    IF s.enemies >= MaxEnemies \/ s.spawn > 0 THEN s
    ELSE [s EXCEPT !.enemies = @ + 1, !.spawned = @ + 1, !.spawn = SpawnDelay]

EnemyFired(s) ==
    IF s.gun > 0 \/ s.enemies = 0 THEN s
    ELSE [s EXCEPT !.shots = IF @ < MaxShots THEN @ + 1 ELSE @, !.gun = FireDelay]

\* A bullet near an enemy: both are destroyed, and the hit is counted.
Hit(c, bullet, enemy) ==
    [bullets |-> c.bullets \ {bullet}, enemies |-> c.enemies \ {enemy}, hits |-> c.hits + 1]

MetThrough(c, bullet, enemy) ==                                     \* mutant
    IF enemy \in c.enemies THEN {c, Hit(c, bullet, enemy)} ELSE {c}

\* One turn of the two loops: nothing happens unless both are still active, and near each other.
Met(c, bullet, enemy) ==
    IF bullet \in c.bullets /\ enemy \in c.enemies THEN {c, Hit(c, bullet, enemy)} ELSE {c}

\* The loops: for every bullet of the list, every enemy of the list that any bullet can be near.
Combats(bullets, enemies) ==
    LET after[n \in 0 .. bullets * enemies] ==
            IF n = 0 THEN {[bullets |-> 1 .. bullets, enemies |-> 1 .. enemies, hits |-> 0]}
            ELSE UNION {Met(c, 1 + ((n - 1) \div enemies), 1 + ((n - 1) % enemies)) : c \in after[n - 1]}
    IN  after[bullets * enemies]

ShotDown(s) ==
    {[s EXCEPT !.bullets = Cardinality(c.bullets), !.enemies = s.far + Cardinality(c.enemies),
               !.down = @ + c.hits] : c \in Combats(s.bullets, s.enemies - s.far)}

HitPlayerAgain(s) ==                                                \* mutant
    IF GameOver(s) THEN s
    ELSE [s EXCEPT !.lives = @ - 1, !.wait = HitRest, !.prompt = s.lives = 1]

HitPlayer(s) ==
    IF GameOver(s) \/ s.wait > 0 THEN s
    ELSE [s EXCEPT !.lives = @ - 1, !.wait = HitRest, !.prompt = s.lives = 1]

\* Bullets that reach the player, then planes that ram it: each one hits it in its turn.
StruckBy(s, b, r) ==
    LET one == IF b + r > 0 THEN HitPlayer(s) ELSE s
        two == IF b + r > 1 THEN HitPlayer(one) ELSE one
    IN  [two EXCEPT !.shots = @ - b, !.enemies = @ - r]

Struck(s) == UNION {{StruckBy(s, b, r) : r \in 0 .. s.enemies - s.far} : b \in 0 .. s.shots}

\* cleanupObjects: what has left the playfield is dropped.
Left(s, b, t, e) == [s EXCEPT !.bullets = b, !.shots = t, !.enemies = e, !.far = 0]

CleanedUp(s) ==
    {Left(s, left[1], left[2], left[3]) :
        left \in (0 .. s.bullets) \X (0 .. s.shots) \X (0 .. s.enemies - s.far)}

Updated(s) ==
    LET t == Ticked(s)
    IN  IF GameOver(s)
        THEN CleanedUp(IF s.restart THEN NewRound([t EXCEPT !.restart = FALSE]) ELSE t)
        ELSE Then(Then(ShotDown(EnemyFired(SpawnedEnemy(FiredBullet(t)))), Struck), CleanedUp)

-------------------------------------------------------------------------------
Init == planes = Off

\* The engine has made the scene; the page is left.
Mount == ~Mounted /\ planes' = NewRound([fire |-> FALSE, restart |-> FALSE])

Leave == Mounted /\ planes' = Off

Frame ==
    /\ Mounted /\ planes.fired < MaxFired /\ planes.spawned < MaxSpawned
    /\ planes' \in Updated(planes)

\* Keys go down and up between frames; the engine forgets a press at the key's release.
PressFire == Mounted /\ planes' = [planes EXCEPT !.fire = TRUE]

ReleaseFire == Mounted /\ planes' = [planes EXCEPT !.fire = FALSE]

PressRestart == Mounted /\ planes' = [planes EXCEPT !.restart = TRUE]

ReleaseRestart == Mounted /\ planes' = [planes EXCEPT !.restart = FALSE]

ClickPrompt == Mounted /\ planes.prompt /\ GameOver(planes) /\ planes' = NewRound(planes)

Next ==
    \/ Mount \/ Leave \/ Frame \/ ClickPrompt
    \/ PressFire \/ ReleaseFire \/ PressRestart \/ ReleaseRestart

-------------------------------------------------------------------------------
\* Every hit counted has cost a bullet of this round that is no longer in the air, and an enemy of
\* this round that is no longer there: no bullet downs two enemies, and no enemy is downed twice,
\* though a bullet may be near several enemies and an enemy near several bullets in one frame, and
\* what is destroyed stays in the lists the loops walk (BitPlanesGame.tsx:308-331).
EveryBulletDownsOne ==
    Mounted =>
        /\ planes.down + planes.bullets <= planes.fired
        /\ planes.down + planes.enemies <= planes.spawned

\* Several things may strike the player in one frame and in the frames after: it costs one life,
\* until the cooldown has passed (BitPlanesGame.tsx:370-378).
OneLifeAtATime ==
    [][Mounted /\ planes' # Off /\ planes'.lives < planes.lives
          => planes'.lives = planes.lives - 1 /\ planes.wait <= 1]_planes
================================================================================
