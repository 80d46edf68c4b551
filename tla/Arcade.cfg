SPECIFICATION Spec
CONSTANTS
    HeroHp = 2
    MonsterHp = 2
    BananaHp = 1
    AndrewHp = 2
    BossScore = 2
    WinScore = 5
    SwingTime = 2
    SwingTail = 0
    SwingRest = 2
    HitRest = 2
    Invulnerable = 2
    FirstMonsters = 1
    MostMonsters = 2
    Milestones = {2}
    AndrewScore = 4
    VillageHp = 2
    WaveSize = 1
    BananaEvery = 1
    AndrewEvery = 2
    CoinsPerMonster = 1
    ItemCost = 1
    BossDamage = 2
    HelperCount = 1
    HelperSwing = 2
    HelperHits = 1
    HelperRest = 3
    VillageRest = 1
    Finger = {f1, f2}
    NoFinger = NoFinger
    Game = {a, b, c}
    Tab = {t, u}
    MaxRecent = 2
    Member = {m, n}
    MaxAttempts = 3
    MaxPresses = 2
    MaxScore = 2
    MaxTexts = 2
    MaxTrouble = 1
    MaxHistory = 2
    MaxHealth = 2
    Required = 2
    Hazards = 3
    Waves = 2
    WaveTime = 3
    RestTime = 2
    Lives = 2
    MaxEnemies = 4
    FirstEnemies = 3
    PlaneRest = 2
    SpawnDelay = 2
    FireDelay = 2
    FirstFire = 1
    MaxFired = 3
    MaxSpawned = 6
    MaxShots = 2
    MaxTurrets = 2
    TurretHp = 1
    MaxDrones = 2
    DroneHp = 1
    MaxBullets = 1
    DriftScore = 1
    DriftPresses = 1
    AiCount = 2
    MaxLength = 3
    NewLengths = {1, 2}
    ArenaScore = 2
INVARIANTS
    OneBossAtATime
    DefenceHolds
    CoinsAddUp
    RunEndsForOneReason
    EveryBulletDownsOne
    PanelBetweenRuns
    DronesChaseStandingTurrets
    FieldIsFull
    OneLiveGame
    HeldIsDown
    EveryPressCountsOnce
    RecentIsAList
    ShownInOrder
    NoChatLeftBehind
PROPERTIES
    OneLifeAtATime
    BestNeverFalls
    ToldOnce
    DismissedAreSilent
CHECK_DEADLOCK FALSE
