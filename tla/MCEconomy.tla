------------------------------ MODULE MCEconomy ------------------------------
(*****************************************************************************)
(* The economy for TLC: the order book alone, the book with the market's     *)
(* escrow around it, and the item containers.  Every behaviour is of one of  *)
(* them; the others stay as they were created.                               *)
(*****************************************************************************)
EXTENDS MarketEscrow, ItemGraph

CONSTANTS
    BookOrders, BookTicks, SlotsAlone   \* bounds of the book alone, which has one account

VARIABLE exchange           \* what this behaviour exercises

Book == INSTANCE OrderBook
            WITH Accounts <- {"a"}, MaxOrders <- BookOrders, MaxTick <- BookTicks,
                 MAX_ORDERS_PER_SIDE <- SlotsAlone, Quantities <- Quantities \ {0}

economyVars == <<exchange, marketVars, graphVars>>

EconomyInit ==
    /\ GraphInit
    /\ \/ exchange \in {"market", "items"} /\ MarketInit
       \/ exchange = "book" /\ Book!BookInit /\ EscrowInit

EconomyNext ==
    \/ exchange = "book" /\ Book!BookNext /\ UNCHANGED <<exchange, escrowVars, graphVars>>
    \/ exchange = "market" /\ MarketNext /\ UNCHANGED <<exchange, graphVars>>
    \/ exchange = "items" /\ GraphNext /\ UNCHANGED <<exchange, marketVars>>

EconomySpec == EconomyInit /\ [][EconomyNext]_economyVars

-------------------------------------------------------------------------------
\* Every trade is settled when the call returns, and behind the market the
\* escrow backs the book exactly, through partial fills from either side,
\* price improvement and cancellations (market_coordinator.rs).
MarketIsBacked ==
    /\ EscrowTypeOK
    /\ SettlementComplete
    /\ exchange = "market" => EscrowBacksBook

\* The market serves orders in turn, loses no quantity and settles what it
\* matched (market.rs, market_coordinator.rs).
MarketSound == MatchingSound /\ MarketIsBacked
===============================================================================
