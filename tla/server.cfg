\* Locks: two resources compete for one slot, three generations.  Fence: four
\* epochs, the last reached by promotion and by reconnect.  Identity: one
\* account more than session slots, two characters for one slot.  Pool: two
\* workers or thieves and four jobs; four slots, and two for the deque whose
\* positions wrap around.  Storage: two entities in two sectors.  Operations:
\* queues of two, ticks of four time units, two pods, two versions.  Creature:
\* three players, of whom one hides; trees of four nodes; a ring of two events.
SPECIFICATION ServerSpec
CONSTANTS
    Accounts = {a1}
    LockIds = {wallet, inventory}
    Sessions = {s1, s2}
    CAP = 1
    Leases = {1, 2}
    MaxTick = 3
    MaxGeneration = 3
    U32Max = 3
    InitialEpoch = 1
    Sequences = {0, 1, 2}
    Players = {p1, p2, p3}
    Characters = {c1, c2}
    Tickets = {1, 2, 3}
    TicketsOnce = TRUE
    MAX_ACCOUNTS = 2
    MAX_CHARACTERS = 1
    MaxLogins = 2
    Capacity = 4
    FewSlots = 2
    Thieves = {p, q}
    MaxJobs = 4
    StoredIds = {1, 2}
    Places = {0, 3}
    Speeds = {1}
    Dt = 2
    MaxAssigned = 3
    Horizon = 4
    SectorSize = 4
    SECTOR_BITS = 3
    U16_MAX = 2
    LANES = 2
    AdminToken = good
    OtherTokens = {bad}
    NoBearer = nobody
    Managed = {1, 2}
    Spots = {0, 1}
    MAX_ADMIN_LOGS = 2
    MAX_PENDING_GM_COMMANDS = 2
    MaxRequests = 3
    TickInterval = 4
    SuspendThreshold = 12
    MAX_CATCH_UP = 2
    ShedLevel1 = 5
    ShedLevel2 = 6
    CalmTicks2 = 2
    CalmTicks1 = 3
    ExecTimes = {0, 4, 5, 13}
    Oversleeps = {0, 1, 14}
    MaxPaceTime = 60
    OverrunTicks = 3
    PressureTicks = 2
    MAX_DRAIN_TICKS = 2
    MaxPodTicks = 4
    ClusterVersions <- MixedVersions
    UpgradeSessions = {1, 2, 3}
    ClientVersions = {0, 1, 2, 3}
    MAX_UPGRADE_SESSIONS = 2
    MIN_SUPPORTED = 1
    MAX_SUPPORTED = 2
    MaxMoves = 2
    Foes = {f1, f2, f3}
    NoFoe = none
    Hidden = {f2}
    Sites = {2, 5}
    SpawnOrigin = 1
    LeashRadius = 0
    HearingRange = 1
    SightRange = 3
    ChaseStep = 1
    EvadeStep = 2
    HomeRange = 1
    AttackRange = 1
    LoseRange = 2
    NearRange = 3
    MidRange = 5
    MidPeriod = 2
    THREAT_SLOTS = 2
    AggroThreat = 12
    Blows = {10}
    MaxNpcHealth = 15
    TauntTicks = {2}
    StaleTicks = 1
    MaxNpcTick = 3
    MaxHits = 2
    MAX_NODES = 4
    Leaves = {0, 1}
    ChildCounts = {2}
    EVENT_QUEUE_CAPACITY = 2
    MAX_SUBSCRIBERS = 2
    Subscribers = {1, 2}
    MaxEvents = 5
    Scripts <- SamplePrograms
    GasLimits = {6}
    VM_STACK_CAPACITY = 2
    VM_VARS_CAPACITY = 1
    I64_MAX = 3
    FailingCalls = {2}
INVARIANTS
    LockConsistent
    OneWriter
    FencedBelowLastEpoch
    OnlyLatestLoginActs
    TakenOnce
    StorageIsMap
    OperationsSound
    BehavioursSound
PROPERTIES
    EpochMonotone
    Linearizable
    JobsHandled
CHECK_DEADLOCK FALSE
