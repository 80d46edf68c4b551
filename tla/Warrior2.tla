-------------------------------- MODULE Warrior2 --------------------------------
(***************************************************************************)
(* The game src/games/warrior2/warriorGame.ts: waves of monsters and bosses *)
(* that march on a village, helpers that fight beside the warrior, a shop.  *)
(*                                                                         *)
(* As in Warrior, where things are is abstracted: what the cleavers reach,  *)
(* what stands close to the warrior or at the village, and what each        *)
(* helper sees next to it, is chosen anew in every frame.                   *)
(***************************************************************************)
EXTENDS Integers, Sequences, SequencesExt, FiniteSetsExt, Filter

CONSTANTS
    HeroHp, MonsterHp, BananaHp, AndrewHp, VillageHp,   \* 10, 3, 10, 20, 30 in the code
    WaveSize, BananaEvery, AndrewEvery,                 \* 30, 3, 10
    BossScore, WinScore, CoinsPerMonster, ItemCost,     \* 100, 1000, 10, 1000
    BossDamage,                                         \* 20
    SwingTime, SwingTail, SwingRest,                    \* 20, 7, 24
    HelperCount, HelperSwing, HelperHits, HelperRest,   \* 3, 20, 12, 28
    HitRest, Invulnerable, VillageRest                  \* 18 (Andrewsous 16), 55 (50), 90 (45)

VARIABLES warrior2, \* the game's state, or Off while its page is not mounted
          keys2     \* keys held: of "space" and "s"

vars == <<warrior2, keys2>>

Off == [mounted |-> FALSE]
Banana == -1
Andrewsous == -2

Down(n) == IF n > 0 THEN n - 1 ELSE 0

NewMonster == [hp |-> MonsterHp, rest |-> 0, raid |-> 0, struck |-> FALSE]
NoBoss(hp) == [active |-> FALSE, hp |-> hp, rest |-> 0, raid |-> 0]
NewBoss(hp) == [active |-> TRUE, hp |-> hp, rest |-> 0, raid |-> 0]

\* startWave, with spawnBananaBoss and spawnAndrewsous.
StartedWave(s, n) ==
    [s EXCEPT !.wave = n, !.active = TRUE, !.pause = FALSE,
              !.monsters = @ \o [i \in 1 .. WaveSize |-> NewMonster],
              !.banana = IF n % BananaEvery = 0 /\ ~@.active /\ ~s.won THEN NewBoss(BananaHp) ELSE @,
              !.andrew = IF n % AndrewEvery = 0 /\ ~@.active /\ ~s.won THEN NewBoss(AndrewHp) ELSE @]

Fresh ==
    StartedWave(
        [over |-> FALSE, won |-> FALSE, score |-> 0, felled |-> 0,
         hp |-> HeroHp, village |-> VillageHp, coins |-> 0, sword |-> FALSE, shield |-> FALSE,
         swing |-> 0, cool |-> 0, invuln |-> 0,
         wave |-> 1, active |-> FALSE, pause |-> FALSE,
         helpers |-> [h \in 1 .. HelperCount |-> [swing |-> 0, cool |-> 0]],
         monsters |-> << >>, cleaver |-> "held",
         banana |-> NoBoss(BananaHp), andrew |-> NoBoss(AndrewHp)],
        1)

-------------------------------------------------------------------------------
(***************************************************************************)
(* One frame, in the order of update(). An operator named for a part of it  *)
(* gives the states that part may leave, over where everything may be.      *)
(***************************************************************************)
Then(states, Part(_)) == UNION {Part(s) : s \in states}

Shielding == "s" \in keys2

Readied(s) ==
    LET cool == Down(s.cool)
        starts == "space" \in keys2 /\ cool = 0 /\ s.cleaver = "held"
    IN  [s EXCEPT !.cool = IF starts THEN SwingRest ELSE cool,
                  !.swing = Down(IF starts THEN SwingTime ELSE @),
                  !.invuln = Down(@)]

Swinging(s) == s.swing > SwingTail

SwordDamage(s) == IF s.sword THEN 2 ELSE 1

RaidedFurther(s, damage) ==                                         \* mutant
    [s EXCEPT !.village = @ - damage, !.over = @ \/ s.village - damage = 0]

\* damageVillage; nothing is lost any more once the game is.
Raided(s, damage) ==
    IF s.over \/ s.won \/ s.village <= 0 THEN s
    ELSE [s EXCEPT !.village = IF @ > damage THEN @ - damage ELSE 0, !.over = s.village <= damage]

Wounded(s) ==
    IF s.invuln > 0 THEN s
    ELSE [s EXCEPT !.hp = @ - 1, !.invuln = Invulnerable, !.over = @ \/ s.hp - 1 <= 0]

HitBoss(s, boss) ==
    IF ~s[boss].active \/ s[boss].rest > 0 THEN s
    ELSE [s EXCEPT ![boss] = [active |-> s[boss].hp > 1, hp |-> s[boss].hp - 1, rest |-> HitRest,
                              raid |-> s[boss].raid],
                   !.score = IF s[boss].hp > 1 THEN @ ELSE @ + BossScore,
                   !.felled = IF s[boss].hp > 1 THEN @ ELSE @ + 1]

Struck(m, damage) == [m EXCEPT !.hp = @ - damage, !.rest = HitRest]

Cut(s, i, damage) == [s EXCEPT !.monsters[i] = Struck(@, damage)]

HitBananaBoss(s) == HitBoss(s, "banana")
HitAndrewsous(s) == HitBoss(s, "andrew")

Foes(s) ==
    DOMAIN s.monsters
        \cup (IF s.banana.active THEN {Banana} ELSE {}) \cup (IF s.andrew.active THEN {Andrewsous} ELSE {})

\* The cleaver in the air: it turns back, it is caught, or it goes on and strikes what it reaches,
\* a monster once per throw.
Reached(s, reached) ==
    LET b == IF Banana \in reached THEN HitBananaBoss(s) ELSE s
        a == IF Andrewsous \in reached THEN HitAndrewsous(b) ELSE b
    IN  [a EXCEPT !.monsters = [i \in DOMAIN s.monsters |->
            IF i \in reached /\ ~s.monsters[i].struck
            THEN [Struck(s.monsters[i], SwordDamage(s)) EXCEPT !.struck = TRUE] ELSE s.monsters[i]]]

Strikes(s) == {Reached(s, reached) : reached \in SUBSET Foes(s)}

Flown(s) ==
    LET back == Strikes([s EXCEPT !.cleaver = "back"])
    IN  CASE s.cleaver = "held" -> {s}
          [] s.cleaver = "out"  -> Strikes(s) \cup back
          [] OTHER              -> back \cup {[s EXCEPT !.cleaver = "held"]}

\* What is close to the warrior hurts it, unless it holds its shield.
Closed(states, near) == IF Shielding THEN states ELSE states \cup {Wounded(t) : t \in near}

\* updateBananaBoss and updateAndrewsous: raid the village, be cut, touch the warrior.
BossMoved(s, boss) ==
    IF ~s[boss].active THEN {s}
    ELSE LET old == s[boss]
             rested == [s EXCEPT ![boss] = [active |-> TRUE, hp |-> old.hp, rest |-> Down(old.rest),
                                            raid |-> Down(old.raid)]]
             raided == {rested} \cup
                       (IF rested[boss].raid = 0
                        THEN {[Raided(rested, BossDamage) EXCEPT ![boss].raid = VillageRest]} ELSE {})
             moved == raided \cup (IF Swinging(s) THEN {HitBoss(t, boss) : t \in raided} ELSE {})
         IN  Closed(moved, {t \in moved : t[boss].rest < HitRest - 1})

BananaBossMoved(s) == BossMoved(s, "banana")
AndrewsousMoved(s) == BossMoved(s, "andrew")

\* getNearestEnemy: one of the monsters that are alive and the bosses.
Seen(s) == Foes(s) \ {i \in DOMAIN s.monsters : s.monsters[i].hp <= 0}

HitByHelper(s, foe) ==
    CASE foe = Banana -> HitBananaBoss(s)
      [] foe = Andrewsous -> HitAndrewsous(s)
      [] OTHER -> IF s.monsters[foe].rest > 0 THEN s
                  ELSE Cut(s, foe, 1)

\* One helper: it patrols when no foe is near, shields itself from one that is close and else
\* swings at one in reach; a blow falls at one moment of the swing, if a foe is near then.
HelperMoved(s, h) ==
    LET old == [swing |-> Down(s.helpers[h].swing), cool |-> Down(s.helpers[h].cool)]
        new == IF old.cool = 0 THEN [swing |-> HelperSwing, cool |-> HelperRest] ELSE old
        blow == {[s EXCEPT !.helpers[h] = old]} \cup
                (IF Seen(s) = {} THEN {} ELSE {[s EXCEPT !.helpers[h] = new]})
    IN  IF old.swing # HelperHits THEN blow
        ELSE blow \cup {HitByHelper([s EXCEPT !.helpers[h] = old], foe) : foe \in Seen(s)}

HelpersMoved(s) ==
    LET upTo[n \in 0 .. HelperCount] ==
            IF n = 0 THEN {s} ELSE UNION {HelperMoved(t, n) : t \in upTo[n - 1]}
    IN  upTo[HelperCount]

Judged(s) == [s EXCEPT !.won = @ \/ s.score >= WinScore]

\* One monster: it raids the village, is cut, or touches the warrior.
MonsterMoved(s, i) ==
    LET rested == [s.monsters[i] EXCEPT !.rest = Down(@), !.raid = Down(@)]
        arrived == [s EXCEPT !.monsters[i] = rested]
        raided == {arrived} \cup
                  (IF rested.raid = 0
                   THEN {[Raided(arrived, 1) EXCEPT !.monsters[i].raid = VillageRest]} ELSE {})
        moved == raided \cup
                 (IF Swinging(s) /\ rested.rest = 0
                  THEN {Cut(t, i, SwordDamage(s)) : t \in raided} ELSE {})
    IN  Closed(moved, {t \in moved : t.monsters[i].rest < HitRest - 1})

MonstersMoved(s) ==
    LET upTo[n \in 0 .. Len(s.monsters)] ==
            IF n = 0 THEN {s} ELSE UNION {MonsterMoved(t, n) : t \in upTo[n - 1]}
    IN  upTo[Len(s.monsters)]

Cleared(s) ==
    LET alive == Only(s.monsters, {m \in Range(s.monsters) : m.hp > 0})
        fallen == Len(s.monsters) - Len(alive)
    IN  [s EXCEPT !.score = @ + fallen, !.coins = @ + CoinsPerMonster * fallen, !.monsters = alive]

WaveCleared(s) == s.active /\ s.monsters = << >> /\ ~s.banana.active /\ ~s.andrew.active

\* updateWaveState: 30 seconds after a wave is cleared the next one starts.
WaveUpdated(s) ==
    IF s.over \/ s.won THEN {s}
    ELSE IF WaveCleared(s) THEN {[s EXCEPT !.active = FALSE, !.pause = TRUE]}
    ELSE IF s.pause THEN {s, StartedWave(s, s.wave + 1)}
    ELSE {s}

Updated(s) ==
    LET flown == Flown(Readied(s))
        bosses == Then(Then(flown, BananaBossMoved), AndrewsousMoved)
        monsters == Then({Judged(t) : t \in Then(bosses, HelpersMoved)}, MonstersMoved)
    IN  Then({Cleared(t) : t \in monsters}, WaveUpdated)

-------------------------------------------------------------------------------
Init == warrior2 = Off /\ keys2 = {}

Mount == warrior2 = Off /\ warrior2' = Fresh /\ UNCHANGED keys2

Destroy == warrior2 # Off /\ warrior2' = Off /\ keys2' = {}

Mounted == warrior2 # Off

Playing == Mounted /\ ~warrior2.over /\ ~warrior2.won

Frame == Playing /\ warrior2' \in Updated(warrior2) /\ UNCHANGED keys2

Press(k) == Mounted /\ keys2' = keys2 \cup {k} /\ UNCHANGED warrior2

Release(k) == Mounted /\ keys2' = keys2 \ {k} /\ UNCHANGED warrior2

Throw ==
    /\ Playing /\ warrior2.cleaver = "held"
    /\ warrior2' = [warrior2 EXCEPT !.cleaver = "out",
                                    !.monsters = [i \in DOMAIN @ |-> [@[i] EXCEPT !.struck = FALSE]]]
    /\ UNCHANGED keys2

BuyTwice(item) ==                                                   \* mutant
    /\ Playing /\ warrior2.coins >= ItemCost
    /\ warrior2' = [warrior2 EXCEPT !.coins = @ - ItemCost, ![item] = TRUE]
    /\ UNCHANGED keys2

\* Keys 1 and 2: buySwordUpgrade, buyShieldUpgrade (the shop is near or it is not).
Buy(item) ==
    /\ Playing /\ ~warrior2[item] /\ warrior2.coins >= ItemCost
    /\ warrior2' = [warrior2 EXCEPT !.coins = @ - ItemCost, ![item] = TRUE]
    /\ UNCHANGED keys2

Restart ==
    /\ Mounted /\ ~Playing
    /\ warrior2' = Fresh
    /\ UNCHANGED keys2

Next ==
    \/ Mount \/ Destroy \/ Frame \/ Throw \/ Restart
    \/ \E k \in {"space", "s"} : Press(k) \/ Release(k)
    \/ \E item \in {"sword", "shield"} : Buy(item)

-------------------------------------------------------------------------------
\* The game is lost exactly when the warrior or the village has fallen, whichever raids and touches
\* one frame holds; neither is hurt below zero; and while it goes on a wave is either fought or
\* awaited, also when the last of its monsters and its boss fall in one frame
\* (warrior2/warriorGame.ts:149-157, 332-354, 961-1169).
DefenceHolds ==
    Mounted => /\ warrior2.hp >= 0 /\ warrior2.village >= 0
               /\ warrior2.over <=> warrior2.hp = 0 \/ warrior2.village = 0
               /\ Playing => warrior2.active # warrior2.pause

\* Every coin was earned by one monster that fell and spent at most once: what the warrior has, and
\* what the two items cost, is what the score says of the monsters, whoever of the warrior, the
\* flying cleaver and the helpers struck them (warrior2/warriorGame.ts:168-196, 1145-1155).
CoinsAddUp ==
    Mounted =>
        LET owned == Cardinality({item \in {"sword", "shield"} : warrior2[item]})
        IN  warrior2.coins + ItemCost * owned
                = CoinsPerMonster * (warrior2.score - BossScore * warrior2.felled)
================================================================================
