-------------------------------- MODULE Warrior --------------------------------
(***************************************************************************)
(* The game src/games/warrior/warriorGame.ts: one frame of update() at a    *)
(* time, and the keys between frames.                                      *)
(*                                                                         *)
(* Where things are is abstracted: which foes the thrown cleaver reaches,   *)
(* which ones the swung cleaver cuts and which ones stand close to the      *)
(* warrior is chosen anew in every frame. A foe is the position of a        *)
(* monster in monsters, or one of the two bosses. Scores and timers are     *)
(* numbers as in the code, the constants keep their order.                  *)
(***************************************************************************)
EXTENDS Integers, Sequences, SequencesExt, FiniteSetsExt, Filter

CONSTANTS
    HeroHp, MonsterHp, BananaHp, AndrewHp,          \* 10, 3, 10, 20 in the code
    FirstMonsters, MostMonsters,                    \* 5, 7
    BossScore, Milestones, AndrewScore, WinScore,   \* 100, {100, ..., 800}, 900, 1000
    SwingTime, SwingTail, SwingRest,                \* 20, 7, 24
    HitRest, Invulnerable                           \* 18 (Andrewsous 16), 55 (a monster's touch 50)

VARIABLES warrior,  \* the game's state, or Off while its page is not mounted
          keys      \* keys held, of those that matter here

vars == <<warrior, keys>>

Off == [mounted |-> FALSE]
Banana == -1
Andrewsous == -2

Down(n) == IF n > 0 THEN n - 1 ELSE 0

NewMonster == [hp |-> MonsterHp, rest |-> 0, struck |-> FALSE]  \* struck: in thrownCleaver.hitIds
NoBoss(hp) == [active |-> FALSE, hp |-> hp, rest |-> 0]

Fresh ==
    [over |-> FALSE, won |-> FALSE, score |-> 0,
     hp |-> HeroHp, swing |-> 0, cool |-> 0, invuln |-> 0,
     monsters |-> [i \in 1 .. FirstMonsters |-> NewMonster],
     cleaver |-> "held", done |-> {},
     banana |-> NoBoss(BananaHp), andrew |-> NoBoss(AndrewHp), spawned |-> FALSE]

-------------------------------------------------------------------------------
(***************************************************************************)
(* One frame, in the order of update(). An operator named for a part of it  *)
(* gives the states that part may leave, over where everything may be.      *)
(***************************************************************************)
Then(states, Part(_)) == UNION {Part(s) : s \in states}

Readied(s) ==
    LET cool == Down(s.cool)
        starts == "space" \in keys /\ cool = 0 /\ s.cleaver = "held"
    IN  [s EXCEPT !.cool = IF starts THEN SwingRest ELSE cool,
                  !.swing = Down(IF starts THEN SwingTime ELSE @),
                  !.invuln = Down(@)]

\* getCleaverHitbox: the late part of a swing has none.
Swinging(s) == s.swing > SwingTail

DueMilestones(s) == {m \in Milestones \ s.done : s.score >= m}

SpawnedBanana(s) ==
    IF DueMilestones(s) # {} /\ ~s.banana.active /\ ~s.andrew.active /\ s.score < AndrewScore
    THEN [s EXCEPT !.done = @ \cup {Min(DueMilestones(s))},
                   !.banana = [active |-> TRUE, hp |-> BananaHp, rest |-> 0]]
    ELSE s

SpawnedAndrewsousBeside(s) ==                                       \* mutant
    IF s.score >= AndrewScore /\ ~s.spawned
    THEN [s EXCEPT !.spawned = TRUE, !.andrew = [active |-> TRUE, hp |-> AndrewHp, rest |-> 0]]
    ELSE s

SpawnedAndrewsous(s) ==
    IF s.score >= AndrewScore /\ ~s.spawned /\ ~s.banana.active
    THEN [s EXCEPT !.spawned = TRUE, !.andrew = [active |-> TRUE, hp |-> AndrewHp, rest |-> 0]]
    ELSE s

Judged(s) == [s EXCEPT !.won = @ \/ s.score >= WinScore]

\* The warrior is hurt, unless it was hurt a moment ago.
Wounded(s) ==
    IF s.invuln > 0 THEN s
    ELSE [s EXCEPT !.hp = @ - 1, !.invuln = Invulnerable, !.over = @ \/ s.hp - 1 <= 0]

HitBoss(s, boss) ==
    IF ~s[boss].active \/ s[boss].rest > 0 THEN s
    ELSE [s EXCEPT ![boss] = [active |-> s[boss].hp > 1, hp |-> s[boss].hp - 1, rest |-> HitRest],
                   !.score = IF s[boss].hp > 1 THEN @ ELSE @ + BossScore]

HitBananaBoss(s) == HitBoss(s, "banana")
HitAndrewsous(s) == HitBoss(s, "andrew")

Foes(s) ==
    DOMAIN s.monsters
        \cup (IF s.banana.active THEN {Banana} ELSE {}) \cup (IF s.andrew.active THEN {Andrewsous} ELSE {})

\* The cleaver in the air: it turns back, it is caught, or it goes on and strikes what it reaches,
\* a monster once per throw.
Reached(s, reached) ==
    LET b == IF Banana \in reached THEN HitBananaBoss(s) ELSE s
        a == IF Andrewsous \in reached THEN HitAndrewsous(b) ELSE b
        Struck(m) == [hp |-> m.hp - 1, rest |-> HitRest, struck |-> TRUE]
    IN  [a EXCEPT !.monsters = [i \in DOMAIN s.monsters |->
            IF i \in reached /\ ~s.monsters[i].struck THEN Struck(s.monsters[i]) ELSE s.monsters[i]]]

Strikes(s) == {Reached(s, reached) : reached \in SUBSET Foes(s)}

Flown(s) ==
    LET back == Strikes([s EXCEPT !.cleaver = "back"])
    IN  CASE s.cleaver = "held" -> {s}
          [] s.cleaver = "out"  -> Strikes(s) \cup back
          [] OTHER              -> back \cup {[s EXCEPT !.cleaver = "held"]}

\* updateBananaBoss and updateAndrewsous. A boss just hit is pushed back too far to touch.
BossMoved(s, boss) ==
    IF ~s[boss].active THEN {s}
    ELSE LET rested == [s EXCEPT ![boss] = [active |-> TRUE, hp |-> s[boss].hp, rest |-> Down(s[boss].rest)]]
             moved == {rested} \cup (IF Swinging(s) THEN {HitBoss(rested, boss)} ELSE {})
         IN  moved \cup {Wounded(t) : t \in {u \in moved : u[boss].rest < HitRest - 1}}

BananaBossMoved(s) == BossMoved(s, "banana")
AndrewsousMoved(s) == BossMoved(s, "andrew")

\* One monster: it is cut, if it was not hit a moment ago, or it may touch the warrior.
MonsterMoved(s, i) ==
    LET rested == [s.monsters[i] EXCEPT !.rest = Down(@)]
        cut == [rested EXCEPT !.hp = @ - 1, !.rest = HitRest]
        moved == {[s EXCEPT !.monsters[i] = m] :
                     m \in {rested} \cup (IF Swinging(s) /\ rested.rest = 0 THEN {cut} ELSE {})}
    IN  moved \cup {Wounded(t) : t \in {u \in moved : u.monsters[i].rest < HitRest - 1}}

MonstersMoved(s) ==
    LET upTo[n \in 0 .. Len(s.monsters)] ==
            IF n = 0 THEN {s} ELSE UNION {MonsterMoved(t, n) : t \in upTo[n - 1]}
    IN  upTo[Len(s.monsters)]

\* Every monster that has fallen is counted and replaced; one more comes every 320 frames.
Cleared(s) ==
    LET alive == Only(s.monsters, {m \in Range(s.monsters) : m.hp > 0})
        fallen == Len(s.monsters) - Len(alive)
    IN  {[s EXCEPT !.score = @ + fallen,
                   !.monsters = alive \o [i \in 1 .. fallen + more |-> NewMonster]] :
         more \in {0, IF Len(s.monsters) < MostMonsters THEN 1 ELSE 0}}

Updated(s) ==
    LET flown == Flown(Judged(SpawnedAndrewsous(SpawnedBanana(Readied(s)))))
        bosses == Then(Then(flown, BananaBossMoved), AndrewsousMoved)
    IN  Then(Then({Judged(t) : t \in bosses}, MonstersMoved), Cleared)

-------------------------------------------------------------------------------
Init == warrior = Off /\ keys = {}

\* The page is opened: createWarriorGame, and its cleanup.
Mount == warrior = Off /\ warrior' = Fresh /\ UNCHANGED keys

Destroy == warrior # Off /\ warrior' = Off /\ keys' = {}

Mounted == warrior # Off

Playing == Mounted /\ ~warrior.over /\ ~warrior.won

Frame == Playing /\ warrior' \in Updated(warrior) /\ UNCHANGED keys

\* handleKeyDown and handleKeyUp.
PressSpace == Mounted /\ keys' = keys \cup {"space"} /\ UNCHANGED warrior

ReleaseSpace == Mounted /\ keys' = keys \ {"space"} /\ UNCHANGED warrior

Throw ==
    /\ Playing /\ warrior.cleaver = "held"
    /\ warrior' = [warrior EXCEPT !.cleaver = "out",
                                  !.monsters = [i \in DOMAIN @ |-> [@[i] EXCEPT !.struck = FALSE]]]
    /\ UNCHANGED keys

\* R once the game is over or won; the keys held stay held.
Restart ==
    /\ Mounted /\ ~Playing
    /\ warrior' = Fresh
    /\ UNCHANGED keys

Next ==
    \/ Mount \/ Destroy \/ Frame
    \/ PressSpace \/ ReleaseSpace \/ Throw \/ Restart

-------------------------------------------------------------------------------
\* The two bosses are never in the arena together, though the score that brings the second may be
\* reached while the first is alive, and the first is due again at every further milestone
\* (warriorGame.ts:388-415, 569-586, 820-844).
OneBossAtATime == Mounted => ~(warrior.banana.active /\ warrior.andrew.active)
================================================================================
