\* Book: one trader, two slots a side, four orders of every type, two ticks.
\* Market: a trader and another account, one slot a side, four orders, three
\* holdings.  Items: two containers of three slots, a stack of two in each, slots
\* locked from outside, three transfers that get past phase 1.
SPECIFICATION EconomySpec
CONSTANTS
    Accounts = {"a", "b"}
    Traders = {"a"}
    Prices = {1, 3}
    Quantities = {0, 1, 2}
    OrderTypes = {"Limit", "ImmediateOrCancel", "FillOrKill"}
    MAX_ORDERS_PER_SIDE = 1
    SlotsAlone = 2
    TradesOut = 3
    Duration = 9
    MaxOrders = 4
    MaxTick = 0
    BookOrders = 4
    BookTicks = 1
    MAX_ESCROW_ORDERS = 3
    TaxBps = 250
    CancelFirst = TRUE
    Containers = {a, b}
    SlotCount = 3
    Bags = {}
    MaxWeight = 3
    Homes = {a, b}
    Stack = 2
    StackLimit = 2
    TxIds = {1, 2}
    MaxCommits = 3
    AutoSlot = TRUE
    OutsideLocks = TRUE
INVARIANTS
    MarketSound
    ItemsSound
