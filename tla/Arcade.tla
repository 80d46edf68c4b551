-------------------------------- MODULE Arcade --------------------------------
(***************************************************************************)
(* The pages of the site, each with its small values. A behaviour is what    *)
(* happens on one page, opened and left any number of times; what a page     *)
(* keeps in localStorage outlives it. "controls" is a page with every kind   *)
(* of shared control on it, "recent" two tabs that open game pages, "chat"   *)
(* the pages of a room's host and guests.                                    *)
(***************************************************************************)
EXTENDS Naturals

CONSTANTS
    \* Warrior and Warrior 2
    HeroHp, MonsterHp, BananaHp, AndrewHp, BossScore, WinScore,
    SwingTime, SwingTail, SwingRest, HitRest, Invulnerable,
    FirstMonsters, MostMonsters, Milestones, AndrewScore,
    VillageHp, WaveSize, BananaEvery, AndrewEvery, CoinsPerMonster, ItemCost, BossDamage,
    HelperCount, HelperSwing, HelperHits, HelperRest, VillageRest,
    \* Monster Color Rush
    MaxHealth, Required, Hazards, Waves, WaveTime, RestTime,
    \* Bit Planes
    Lives, MaxEnemies, FirstEnemies, PlaneRest, SpawnDelay, FireDelay, FirstFire, MaxFired,
    MaxSpawned, MaxShots,
    \* Neon Drift
    MaxTurrets, TurretHp, MaxDrones, DroneHp, MaxBullets, DriftScore, DriftPresses,
    \* Worm Battles
    AiCount, MaxLength, NewLengths, ArenaScore,
    \* Donut Run, the shared controls, and the presses of Monster Color Rush
    Finger, NoFinger, MaxAttempts, MaxPresses, MaxScore,
    \* the games played last
    Game, Tab, MaxRecent,
    \* the chat
    Member, MaxTexts, MaxTrouble, MaxHistory

VARIABLES
    page,
    warrior, keys, warrior2, keys2, rush, planes, drift, best, arena, wormBest,
    attempts, scene, presses, stored,
    input, parts, user, asked, recent, held,
    removed, dismissed, control, roomState, hostEnd, guestEnd, toHost, toGuest, texts, relayed, shown,
    visit, joining, chats, trouble

W == INSTANCE Warrior

V == INSTANCE Warrior2

R == INSTANCE MonsterColorRush

P == INSTANCE BitPlanes WITH HitRest <- PlaneRest

N == INSTANCE NeonDrift WITH MaxScore <- DriftScore, MaxPresses <- DriftPresses

A == INSTANCE WormBattles WITH stored <- wormBest, MaxScore <- ArenaScore

D == INSTANCE DonutRun

I == INSTANCE SemanticInput

L == INSTANCE RecentGames

C == INSTANCE RoomChat

ASSUME ArcadeAssumption ==
    /\ {HeroHp, VillageHp, Invulnerable, BananaEvery, AndrewEvery} \subseteq Nat \ {0}
    /\ {MonsterHp, BananaHp, AndrewHp, BossScore, WinScore, SwingTime, SwingTail, SwingRest, HitRest,
        FirstMonsters, MostMonsters, AndrewScore, WaveSize, CoinsPerMonster, ItemCost, BossDamage,
        HelperCount, HelperSwing, HelperHits, HelperRest, VillageRest} \cup Milestones \subseteq Nat
    /\ {MaxHealth, Required, Waves, WaveTime} \subseteq Nat \ {0} /\ {Hazards, RestTime} \subseteq Nat
    /\ {Lives, FirstEnemies, PlaneRest} \subseteq Nat \ {0}
    /\ {MaxEnemies, SpawnDelay, FireDelay, FirstFire, MaxFired, MaxSpawned, MaxShots} \subseteq Nat
    /\ NoFinger \notin Finger
    /\ MaxTurrets \in Nat \ {0} /\ {TurretHp, MaxDrones, DroneHp, MaxBullets, DriftScore, DriftPresses} \subseteq Nat
    /\ {AiCount, MaxLength, ArenaScore} \cup NewLengths \subseteq Nat
    /\ {MaxAttempts, MaxPresses, MaxScore, MaxRecent} \subseteq Nat
    /\ C!Host \notin Member

-------------------------------------------------------------------------------
warriorVars == <<warrior, keys>>
warrior2Vars == <<warrior2, keys2>>
driftVars == <<drift, best>>
arenaVars == <<arena, wormBest>>
donutVars == <<attempts, scene, presses, stored>>
inputVars == <<input, parts, user, asked>>
recentVars == <<recent, held>>
chatVars == <<removed, dismissed, control, roomState, hostEnd, guestEnd, toHost, toGuest, texts, relayed,
              shown, visit, joining, chats, trouble>>
vars == <<page, warriorVars, warrior2Vars, rush, planes, driftVars, arenaVars, donutVars, inputVars, recentVars,
          chatVars>>

Pages == {"warrior", "warrior2", "rush", "planes", "drift", "arena", "donut", "controls", "recent", "chat"}

Init ==
    /\ page \in Pages
    /\ W!Init /\ V!Init /\ R!Init /\ P!Init /\ N!Init /\ A!Init /\ D!Init /\ I!Init /\ L!Init /\ C!Init

\* Only the page the visitor is on does anything.
On(p) ==
    /\ page = p /\ UNCHANGED page
    /\ p # "warrior" => UNCHANGED warriorVars
    /\ p # "warrior2" => UNCHANGED warrior2Vars
    /\ p # "rush" => UNCHANGED rush
    /\ p # "planes" => UNCHANGED planes
    /\ p # "drift" => UNCHANGED driftVars
    /\ p # "arena" => UNCHANGED arenaVars
    /\ p # "donut" => UNCHANGED donutVars
    /\ p # "controls" => UNCHANGED inputVars
    /\ p # "recent" => UNCHANGED recentVars
    /\ p # "chat" => UNCHANGED chatVars

Next ==
    \/ On("warrior") /\ W!Next
    \/ On("warrior2") /\ V!Next
    \/ On("rush") /\ R!Next
    \/ On("planes") /\ P!Next
    \/ On("drift") /\ N!Next
    \/ On("arena") /\ A!Next
    \/ On("donut") /\ D!Next
    \/ On("controls") /\ I!Next
    \/ On("recent") /\ L!Next
    \/ On("chat") /\ C!Next

Spec == Init /\ [][Next]_vars

-------------------------------------------------------------------------------
\* What the pages promise, each in its own module, where it is explained.

\* Warrior: the two bosses never together (warriorGame.ts:820-844).
OneBossAtATime == W!OneBossAtATime

\* Warrior 2: lost exactly when the warrior or the village is (warriorGame.ts:961-1169).
DefenceHolds == V!DefenceHolds

\* Warrior 2: every coin earned once and spent once (warriorGame.ts:168-196, 1145-1155).
CoinsAddUp == V!CoinsAddUp

\* Monster Color Rush: a run ends for one reason (MonsterColorRushGame.tsx:363-390).
RunEndsForOneReason == R!RunEndsForOneReason

\* Bit Planes: a bullet downs one enemy, an enemy goes down once (BitPlanesGame.tsx:308-331).
EveryBulletDownsOne == P!EveryBulletDownsOne

\* Bit Planes: one life at a time (BitPlanesGame.tsx:370-378).
OneLifeAtATime == P!OneLifeAtATime

\* Neon Drift: the panel between the runs (NeonDriftGame.tsx:242-282).
PanelBetweenRuns == N!PanelBetweenRuns

\* Neon Drift: drones follow turrets that stand (NeonDriftGame.tsx:329-341).
DronesChaseStandingTurrets == N!DronesChaseStandingTurrets

\* Worm Battles: the field full after every frame (WormBattles.tsx:130-176).
FieldIsFull == A!FieldIsFull

\* Donut Run: the best score never falls (DonutRun.tsx:515-541).
BestNeverFalls == D!BestNeverFalls

\* The Phaser engine: one live game, on the open page (usePhaserGame.ts:61-79).
OneLiveGame == D!OneLiveGame

\* The Phaser engine: the page is told once what became of it (usePhaserGame.ts:46-73).
ToldOnce == D!ToldOnce

\* The shared input: what is held is down (semanticInput.ts:106-122).
HeldIsDown == I!HeldIsDown

\* The shared input: every press counts once (ActionButton.tsx:107-163).
EveryPressCountsOnce == I!EveryPressCountsOnce

\* The recent games: always a list to show (recentGames.ts:19-63).
RecentIsAList == L!RecentIsAList

\* The room's chat: in the host's order, none twice (RoomChatController.ts:75-113).
ShownInOrder == C!ShownInOrder

\* The room's chat: a dismissed guest is not relayed (ChatPage.tsx:340-347).
DismissedAreSilent == C!DismissedAreSilent

\* The room's chat: a page that was left leaves no chat behind (ChatPage.tsx:215-236).
NoChatLeftBehind == C!NoChatLeftBehind
================================================================================
