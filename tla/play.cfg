\* Combat: one caster with Fireball and Healing Light, whose casts replace each
\* other, and the instant Arcane Cleave, and a second entity; and a duel of two
\* casters with Whirlwind, whose casts complete in one tick.  Egress: packets
\* of up to two records, so that a tick can send several.  Voice: three
\* speakers besides either listener, for two channels.  Interest: more entities
\* than are ranked, and more ranked than tracked.  Parties: three players,
\* groups of two, so that invitations cross and parties fill up and dissolve
\* while invitations to them are pending.  Chat: two accounts with the same
\* first slot, as many as are probed.  Players may stop calling.
CONSTANTS
    Entities = {e1, e2}
    Casters = {e1}
    Known = {1, 2, 3}
    MeleeDamage = 13
    attack_power = 0
    armor = 1
    MAX_COOLDOWNS_PER_ENTITY = 3
    MaxTick = 4
    DuelKnown = {5}
    DuelTicks = 4
    client_id = 0
    max_clients = 1
    Profiles = {400, 1600}
    TicksPerSec = 20
    HEADER_SIZE = 12
    RECORD_LEN = 22
    MAX_PACKET_SIZE = 56
    Tiers = {0, 2, 4}
    MaxVisible = 3
    MaxTicks = 3
    Accounts = {p1, p2, p3}
    MAX_GROUP_MEMBERS = 2
    MaxParties = 3
    Chatters = {1, 5}
    NoAccount = 0
    Multiplier = 3
    CHAT_RATE_LIMITER_SLOTS = 4
    Probes = 2
    capacity = 2
    replenish_interval_ticks = 3
    ChatMaxTick = 9
    GuildAccounts = {1, 2, 3}
    GuildMaster = 1
    MAX_GUILD_MEMBERS = 3
    GuildIds = {1, 2}
    AllianceIds = {1}
    Scores <- StandingSteps
    PlotIds = {1, 2}
    Durations = {0, 1, 2}
    MaxSocietyTick = 3
    MAX_ROOMS = 2
    MAX_RAIDERS = 2
    Raiders = {1, 2, 3}
    MaxUpkeep = 4
    BossHealth = 2
    RAID_TIMEOUT = 2
    ROOM_CLEANUP_TIMEOUT = 1
    MaxInstances = 3
    Digests = {d1, d2}
    RequiredDigest = d1
    Voices = {1, 2, 3, 4}
    Ears = {1, 4}
    VoiceSpots = {0, 20}
    Amplitudes = {1000}
    MAX_LISTENERS = 1
    MAX_EMITTERS = 3
    MAX_VOICE_CHANNELS_PER_LISTENER = 2
    Attenuations <- Fading
    Cities <- Towns
    MAX_HITS = 2
    AirLoss = 6
    INAUDIBLE_GAIN_THRESHOLD = 3
    Beings = {1, 2, 3}
    Ranges = {8, 10, 41}
    Favoured = {3}
    max_tracked = 1
    max_radius_sq = 2500
    EventRoom = 2
    scratch_cap = 2
SPECIFICATION PlaySpec
INVARIANTS
    ClientsInformed
    GroupsSound
    SocietySound
PROPERTIES
    CastsFair
CHECK_DEADLOCK FALSE
