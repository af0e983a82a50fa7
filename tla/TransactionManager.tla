-------------------------- MODULE TransactionManager --------------------------
(******************************************************************************)
(* TransactionManager (crates/eidolon-world/src/transaction.rs) on top of     *)
(* the generation locks and the write-ahead journal.                          *)
(*                                                                            *)
(* execute_transaction changes the accounts in memory, appends one journal    *)
(* record and remembers the transaction id; any of its checks, and the        *)
(* append itself, may fail on the way.  With CommitDurability::LocalDiskFsync *)
(* the caller then runs flush_pending and is answered only if it succeeds.    *)
(* Sessions present tokens they were given at any earlier time.               *)
(******************************************************************************)
EXTENDS WriteAheadJournal, FiniteSetsExt, SequencesExt

CONSTANTS
    LockIds,         \* LOCK_WALLET and LOCK_INVENTORY, as far as Kinds needs them
    Accounts, Sessions, LockCap, Leases, MaxTick, MaxGeneration,  \* GenerationLock
    TxIds,           \* transaction ids chosen by clients
    Currencies,      \* premium, free
    Amounts,         \* amounts clients ask for
    InitialBalance,  \* balance of every account and currency
    MaxBalance,      \* u64::MAX, scaled down
    Items,           \* item blueprints
    EquipSlots,      \* equipment slots
    RingSlots,       \* Ring1 and Ring2, which take each other's items
    ItemSlot,        \* blueprint -> the slot it may be worn in
    InvSlots,        \* MAX_INVENTORY_SLOTS
    InitialInventory,\* account -> inventory
    MaxQuantity,     \* u32::MAX, scaled down
    Kinds            \* operations that clients use in this instance

VARIABLES
    token, count, tick, issued,   \* GenerationLock
    accounts,        \* account -> AccountState
    executed_txs,    \* transaction id -> LSN of its record
    awaiting,        \* transactions whose caller waits for flush_pending
    acked            \* history: transactions answered Ok with LocalDiskFsync

Lock == INSTANCE GenerationLock WITH CAP <- LockCap

lockState == <<token, count, tick, issued>>
txVars == <<accounts, executed_txs, awaiting, acked>>
vars == <<txVars, lockState, walVars>>

Empty == [item |-> "none", quantity |-> 0]
Stacks == [item : Items, quantity : 0..MaxQuantity] \union {Empty}
NoItem == "none"

AccountState ==
    [currency : [Currencies -> 0..MaxBalance],
     inventory : [1..InvSlots -> Stacks],
     equipment : [EquipSlots -> Items \union {NoItem}]]

\* The slots of an account that owns every item it shows.
OwnedStacks == [item : Items, quantity : 1..MaxQuantity] \union {Empty}

ASSUME AccountsAssumption ==
    IsFiniteSet(Accounts) /\ IsFiniteSet(EquipSlots) /\ InvSlots \in Nat
ASSUME LimitsAssumption ==
    MaxBalance \in Nat /\ InitialBalance \in 0..MaxBalance /\ MaxQuantity \in Nat \ {0}
ASSUME ItemsAssumption == NoItem \notin Items
ASSUME InventoryAssumption == InitialInventory \in [Accounts -> [1..InvSlots -> OwnedStacks]]
ASSUME AmountsAssumption == Amounts \subseteq Nat

Ops ==
    [kind : {"spend"} \intersect Kinds, account : Accounts, amount : Amounts,
     currency : Currencies]
    \union
    [kind : {"transfer"} \intersect Kinds, account : Accounts, to : Accounts,
     amount : Amounts, currency : Currencies]
    \union
    [kind : {"item"} \intersect Kinds, account : Accounts, to : Accounts,
     item : Items, amount : Amounts]
    \union
    [kind : {"equip"} \intersect Kinds, account : Accounts, from : 1..InvSlots,
     slot : EquipSlots]
    \union
    [kind : {"unequip"} \intersect Kinds, account : Accounts, slot : EquipSlots]

Commands == [tx : TxIds, op : Ops]

TxTypeOK ==
    /\ accounts \in [Accounts -> AccountState]
    /\ DOMAIN executed_txs \subseteq TxIds
    /\ \A t \in DOMAIN executed_txs : executed_txs[t] \in 1..current_lsn
    /\ awaiting \subseteq DOMAIN executed_txs
    /\ acked \subseteq DOMAIN executed_txs

-------------------------------------------------------------------------------
(* AccountState: each operator returns the account after the call; the *)
(* operators named can_... say whether the call succeeds.              *)

sat_add(a, b, max) == IF a + b > max THEN max ELSE a + b

credit_currency(a, c, n) == [a EXCEPT !.currency[c] = sat_add(@, n, MaxBalance)]

can_debit(a, c, n) == a.currency[c] >= n
debit_currency(a, c, n) == [a EXCEPT !.currency[c] = @ - n]

SlotsOf(a, i) == {s \in 1..InvSlots : a.inventory[s].item = i}

can_add(a, i) == SlotsOf(a, i) # {} \/ SlotsOf(a, NoItem) # {}

\* Stack on the first slot with the item, else take the first empty slot.
add_item(a, i, n) ==
    LET s == Min(IF SlotsOf(a, i) # {} THEN SlotsOf(a, i) ELSE SlotsOf(a, NoItem)) IN
    [a EXCEPT !.inventory[s] =
        [item |-> i, quantity |-> sat_add(@.quantity, n, MaxQuantity)]]

can_remove(a, i, n) ==
    SlotsOf(a, i) # {} /\ a.inventory[Min(SlotsOf(a, i))].quantity >= n

remove_item(a, i, n) ==
    [a EXCEPT !.inventory[Min(SlotsOf(a, i))] =
        IF @.quantity = n THEN Empty ELSE [item |-> i, quantity |-> @.quantity - n]]

Compatible(slot, allowed) ==
    slot = allowed \/ {slot, allowed} \subseteq RingSlots

can_equip(a, s, slot) ==
    /\ a.inventory[s] # Empty
    /\ Compatible(slot, ItemSlot[a.inventory[s].item])

\* The stack in the inventory slot gives way to the item worn so far.
equip_item(a, s, slot) ==
    [a EXCEPT !.equipment[slot] = a.inventory[s].item,
              !.inventory[s] = IF a.equipment[slot] = NoItem THEN Empty
                               ELSE [item |-> a.equipment[slot], quantity |-> 1]]

can_unequip(a, slot) == a.equipment[slot] # NoItem /\ can_add(a, a.equipment[slot])

unequip_item(a, slot) ==
    add_item([a EXCEPT !.equipment[slot] = NoItem], a.equipment[slot], 1)

-------------------------------------------------------------------------------
(* execute_transaction *)

lock_of(op) == IF op.kind \in {"spend", "transfer"} THEN "wallet" ELSE "inventory"

has_item(a, i, n) == \E s \in SlotsOf(a, i) : a.inventory[s].quantity >= n

\* The operation's own checks succeed on the accounts acc.
Succeeds(acc, op) ==
    LET a == acc[op.account] IN
    CASE op.kind = "spend"    -> can_debit(a, op.currency, op.amount)
      [] op.kind = "transfer" -> /\ op.to # op.account
                                 /\ can_debit(a, op.currency, op.amount)
      [] op.kind = "item"     -> /\ op.to # op.account
                                 /\ has_item(a, op.item, op.amount)
                                 /\ can_remove(a, op.item, op.amount)
                                 /\ can_add(acc[op.to], op.item)
      [] op.kind = "equip"    -> can_equip(a, op.from, op.slot)
      [] op.kind = "unequip"  -> can_unequip(a, op.slot)

\* The accounts when it does.
Mutated(acc, op) ==
    LET a == acc[op.account] IN
    CASE op.kind = "spend" ->
           [acc EXCEPT ![op.account] = debit_currency(a, op.currency, op.amount)]
      [] op.kind = "transfer" ->
           [acc EXCEPT ![op.account] = debit_currency(a, op.currency, op.amount),
                       ![op.to] = credit_currency(@, op.currency, op.amount)]
      [] op.kind = "item" ->
           [acc EXCEPT ![op.account] = remove_item(a, op.item, op.amount),
                       ![op.to] = add_item(@, op.item, op.amount)]
      [] op.kind = "equip" ->
           [acc EXCEPT ![op.account] = equip_item(a, op.from, op.slot)]
      [] op.kind = "unequip" ->
           [acc EXCEPT ![op.account] = unequip_item(a, op.slot)]

\* Mutated form: a transfer is debited before its target is looked at.
RolledBack_keeps_debit(acc, op) ==
    IF op.kind = "transfer" /\ can_debit(acc[op.account], op.currency, op.amount)
      THEN [acc EXCEPT ![op.account] = debit_currency(@, op.currency, op.amount)]
      ELSE acc

\* The accounts when it does not: an item transfer into a full inventory has
\* removed the items by then and adds them to the source again.
RolledBack(acc, op) ==
    LET a == acc[op.account] IN
    IF /\ op.kind = "item"
       /\ op.to # op.account
       /\ has_item(a, op.item, op.amount)
       /\ can_remove(a, op.item, op.amount)
      THEN [acc EXCEPT ![op.account] =
              add_item(remove_item(a, op.item, op.amount), op.item, op.amount)]
      ELSE acc

\* Mutated form: the transaction id is not looked up.
Admitted_no_dedup(tx, op, s, g) ==
    /\ phase = "idle"
    /\ awaiting = {}
    /\ g.key = <<op.account, lock_of(op)>>
    /\ Lock!validate_mutation(g.key, g.generation, s)

\* Deduplication and the lock token g presented by session s.
Admitted(tx, op, s, g) ==
    /\ phase = "idle"
    /\ awaiting = {}
    /\ tx \notin DOMAIN executed_txs
    /\ g.key = <<op.account, lock_of(op)>>
    /\ Lock!validate_mutation(g.key, g.generation, s)

Commit(tx, op, durable) ==
    /\ append([tx |-> tx, op |-> op])
    /\ accounts' = Mutated(accounts, op)
    /\ executed_txs' = [t \in DOMAIN executed_txs \union {tx} |->
                          IF t = tx THEN current_lsn + 1 ELSE executed_txs[t]]
    /\ awaiting' = IF durable THEN {tx} ELSE {}
    /\ UNCHANGED acked

execute_transaction(tx, op, s, g, durable) ==
    /\ Admitted(tx, op, s, g)
    /\ Succeeds(accounts, op)
    /\ Commit(tx, op, durable)
    /\ UNCHANGED lockState

\* append answers WalBufferFull: the accounts are changed by then.
execute_buffer_full(tx, op, s, g) ==
    /\ Admitted(tx, op, s, g)
    /\ Succeeds(accounts, op)
    /\ Len(ring) = CAP
    /\ accounts' = Mutated(accounts, op)
    /\ UNCHANGED <<executed_txs, awaiting, acked, lockState, walVars>>

execute_aborted(tx, op, s, g) ==
    /\ Admitted(tx, op, s, g)
    /\ ~Succeeds(accounts, op)
    /\ accounts' = RolledBack(accounts, op)
    /\ UNCHANGED <<executed_txs, awaiting, acked, lockState, walVars>>

-------------------------------------------------------------------------------
(* flush_pending: started by execute_transaction_with_durability, or by any *)
(* other holder of the journal when nobody waits.                           *)

flush_begin ==
    /\ ring # <<>>
    /\ BeginFlush
    /\ UNCHANGED <<txVars, lockState>>

flush_step ==
    /\ WriteBatch \/ EndWrites
    /\ UNCHANGED <<txVars, lockState>>

\* The waiting caller is answered Ok.
flush_ok ==
    /\ SyncOk
    /\ acked' = acked \union awaiting
    /\ awaiting' = {}
    /\ UNCHANGED <<accounts, executed_txs, lockState>>

\* The waiting caller gets the storage error; its transaction stays executed.
flush_fails ==
    /\ WriteBatchFails \/ SyncFails
    /\ awaiting' = {}
    /\ UNCHANGED <<accounts, executed_txs, acked, lockState>>

acquire ==
    /\ phase = "idle" /\ awaiting = {}
    /\ \E k \in Accounts \X LockIds, s \in Sessions, lease \in Leases, force \in BOOLEAN :
          Lock!acquire_lock(k, s, lease, force)
    /\ UNCHANGED <<txVars, walVars>>

advance_tick ==
    /\ phase = "idle" /\ awaiting = {}
    /\ Lock!Tick
    /\ UNCHANGED <<txVars, walVars>>

Init ==
    /\ WalInit
    /\ Lock!LockInit
    /\ accounts = [a \in Accounts |->
                     [currency |-> [c \in Currencies |-> InitialBalance],
                      inventory |-> InitialInventory[a],
                      equipment |-> [e \in EquipSlots |-> NoItem]]]
    /\ executed_txs = [t \in {} |-> 0]
    /\ awaiting = {}
    /\ acked = {}

Next ==
    \/ \E tx \in TxIds, op \in Ops, g \in issued, s \in Sessions :
          \/ \E durable \in BOOLEAN : execute_transaction(tx, op, s, g, durable)
          \/ execute_buffer_full(tx, op, s, g)
          \/ execute_aborted(tx, op, s, g)
    \/ flush_begin
    \/ flush_step
    \/ flush_ok
    \/ flush_fails
    \/ acquire
    \/ advance_tick

Spec == Init /\ [][Next]_vars

-------------------------------------------------------------------------------
InitialAccounts ==
    [a \in Accounts |-> [currency |-> [c \in Currencies |-> InitialBalance],
                         inventory |-> InitialInventory[a],
                         equipment |-> [e \in EquipSlots |-> NoItem]]]

Balances(acc, c) == [a \in Accounts |-> acc[a].currency[c]]

TotalCurrency(acc, c) == SumFunctionOnSet(Balances(acc, c), Accounts)

\* How many of an item each inventory slot and each equipment slot holds.
Carried(a, i) ==
    [s \in 1..InvSlots |-> IF a.inventory[s].item = i THEN a.inventory[s].quantity ELSE 0]

Worn(a, i) == [e \in EquipSlots |-> IF a.equipment[e] = i THEN 1 ELSE 0]

ItemsOf(a, i) ==
    SumFunctionOnSet(Carried(a, i), 1..InvSlots) + SumFunctionOnSet(Worn(a, i), EquipSlots)

TotalItems(acc, i) ==
    SumFunctionOnSet([a \in Accounts |-> ItemsOf(acc[a], i)], Accounts)

\* No sequence of transfers, spends, failed appends and retries creates
\* currency (transaction.rs:389-457).
NoMintedCurrency ==
    \A c \in Currencies : TotalCurrency(accounts, c) <= TotalCurrency(InitialAccounts, c)

\* No sequence of item transfers, roll-backs, equips and unequips creates
\* items (transaction.rs:459-601).
NoMintedItems ==
    \A i \in Items : TotalItems(accounts, i) <= TotalItems(InitialAccounts, i)

\* Journal records with their commands, in LSN order.
Journalled ==
    {file[i].rec : i \in {j \in DOMAIN file : file[j].intact}} \union
    {ring[i] : i \in DOMAIN ring}

RecordAt(n) == CHOOSE r \in Journalled : r.lsn = n

\* A transaction id has one record in the journal, whichever sessions sent it
\* and however often (transaction.rs:339).
ExactlyOnce == \A r, q \in Journalled : r.data.tx = q.data.tx => r.lsn = q.lsn

\* Replaying the journal from the initial accounts gives the accounts in
\* memory, whatever lock takeovers, flushes and failures lie in between.
JournalExplainsAccounts ==
    accounts = FoldLeft(LAMBDA acc, n : Mutated(acc, RecordAt(n).data.op),
                        InitialAccounts, [n \in 1..current_lsn |-> n])

\* A transaction answered Ok with LocalDiskFsync is on stable storage
\* (transaction.rs:623-656: confirmations are gated on flush_pending).
AckedIsSynced ==
    \A tx \in acked : \E i \in 1..synced : file[i].intact /\ file[i].rec.data.tx = tx

\* transaction.rs:327: "Performs atomic mutation or complete rollback on
\* error": the accounts change only with a transaction that is recorded.
AbortChangesNothing == [][accounts' # accounts => executed_txs' # executed_txs]_vars

\* equipment.rs:3-4: "atomic item transitions between character bags and worn
\* gear": equipping and unequipping lose no item.
ItemsConserved ==
    \A i \in Items : TotalItems(accounts, i) = TotalItems(InitialAccounts, i)
===============================================================================
