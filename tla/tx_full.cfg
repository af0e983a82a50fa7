\* A journal ring with room for one record and one session that transfers and
\* spends; nobody trades items.
CONSTANTS
    Payloads <- Commands
    CAP = 1
    BATCH = 2
    FileSink = FALSE
    MaxLsn = 2
    MaxEpoch = 1
    MaxFrames = 2
    LockIds = {"wallet"}
    Accounts = {"a1", "a2"}
    Sessions = {s1}
    LockCap = 4
    Leases = {1}
    MaxTick = 0
    MaxGeneration = 2
    TxIds = {t1, t2}
    Currencies = {"premium"}
    Amounts = {1}
    InitialBalance = 2
    MaxBalance = 3
    Items = {"band", "sword"}
    EquipSlots = {"Ring1", "Ring2", "MainHand"}
    RingSlots = {"Ring1", "Ring2"}
    ItemSlot <- WearableIn
    InvSlots = 2
    InitialInventory <- NoInventory
    MaxQuantity = 3
    Kinds = {"spend", "transfer"}
    TraderSession = s3
    TraderTxIds = {}
    MaxTrades = 0
SPECIFICATION TransactionsSpec
PROPERTIES AbortChangesNothing
CHECK_DEADLOCK FALSE
