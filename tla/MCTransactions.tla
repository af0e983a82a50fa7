---------------------------- MODULE MCTransactions ----------------------------
(*****************************************************************************)
(* Transactions for TLC: two sessions with wallets only, or one session      *)
(* with inventories and equipment over a journal ring that fills up.  Every  *)
(* behaviour is of one of the two.                                           *)
(*****************************************************************************)
EXTENDS TransactionManager

CONSTANTS
    TraderSession, TraderTxIds,   \* who trades items, and with which ids
    MaxTrades                     \* bound on the LSNs of item trades

VARIABLE ledger                   \* what this behaviour exercises

Nothing == [s \in 1..InvSlots |-> Empty]
stack(i, n) == [item |-> i, quantity |-> n]

\* Wallet instances: nobody owns items.
NoInventory == [a \in Accounts |-> Nothing]

\* a1 owns one ring and a sword in different slots, a2 has room.
BagsSingle ==
    [a \in Accounts |->
        IF a = "a1" THEN [Nothing EXCEPT ![1] = stack("band", 1), ![2] = stack("sword", 1)]
                    ELSE Nothing]

WearableIn == ("band" :> "Ring1") @@ ("sword" :> "MainHand")

\* Items instead of currency.
Trading == INSTANCE TransactionManager
    WITH Kinds <- {"item", "equip", "unequip"}, LockIds <- {"inventory"},
         InitialInventory <- BagsSingle, Sessions <- {TraderSession},
         TxIds <- TraderTxIds, Amounts <- {1}, MaxTick <- 0,
         MaxLsn <- MaxTrades, MaxFrames <- MaxTrades

TransactionsInit ==
    \/ ledger = "wallet" /\ Init
    \/ ledger = "items" /\ Trading!Init

TransactionsNext ==
    \/ ledger = "wallet" /\ Next /\ UNCHANGED ledger
    \/ ledger = "items" /\ Trading!Next /\ UNCHANGED ledger

TransactionsSpec == TransactionsInit /\ [][TransactionsNext]_<<ledger, vars>>

\* Transaction ids and sessions are interchangeable.
TxSymmetry ==
    Permutations(TxIds) \union Permutations(Sessions) \union Permutations(TraderTxIds)

-------------------------------------------------------------------------------
\* No sequence of transfers, spends, roll-backs, equips, failed appends and
\* retries creates currency or an item, and balances, stacks and recorded LSNs
\* stay within their types (transaction.rs:36-68, 389-601).
NothingMinted ==
    /\ ledger = "wallet" => TxTypeOK /\ NoMintedCurrency
    /\ ledger = "items" => Trading!TxTypeOK /\ Trading!NoMintedItems

\* Wallets: every balance is what the journal says, whatever lock takeovers,
\* flushes and failures lie in between (transaction.rs:327-617).
WalletsExplained == ledger = "wallet" => JournalExplainsAccounts

\* The accounts are what the journal says and no more: nothing is minted, and
\* every wallet is explained by the records (transaction.rs:327-617).
AccountsExplained == NothingMinted /\ WalletsExplained

\* A transaction id has one record, and the answer to its client follows the
\* sync of that record (transaction.rs:339, 623-656).
RecordedOnce == ExactlyOnce /\ AckedIsSynced
===============================================================================
