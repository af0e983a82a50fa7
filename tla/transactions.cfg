\* Two sessions with a wallet lock, a ring with room for every record; and one
\* session trading items over a ring with room for two records of three.
\* Clients may stop calling.
CONSTANTS
    Payloads <- Commands
    CAP = 2
    BATCH = 2
    FileSink = FALSE
    MaxLsn = 2
    MaxEpoch = 1
    MaxFrames = 2
    LockIds = {"wallet"}
    Accounts = {"a1", "a2"}
    Sessions = {s1, s2}
    LockCap = 4
    Leases = {1}
    MaxTick = 1
    MaxGeneration = 2
    TxIds = {t1, t2}
    Currencies = {"premium"}
    Amounts = {2}
    InitialBalance = 2
    MaxBalance = 3
    Items = {"band", "sword"}
    EquipSlots = {"Ring1", "Ring2", "MainHand"}
    RingSlots = {"Ring1", "Ring2"}
    ItemSlot <- WearableIn
    InvSlots = 2
    InitialInventory <- NoInventory
    MaxQuantity = 3
    Kinds = {"spend", "transfer"}
    TraderSession = s3
    TraderTxIds = {t3, t4, t5}
    MaxTrades = 3
SPECIFICATION TransactionsSpec
SYMMETRY TxSymmetry
INVARIANTS
    AccountsExplained
    RecordedOnce
CHECK_DEADLOCK FALSE
