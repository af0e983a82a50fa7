---------------------------- MODULE MarketEscrow -----------------------------
(* The market coordinator (eidolon-world/src/market_coordinator.rs): escrow *)
(* holdings around the order book of one commodity.                         *)
(*                                                                          *)
(* submit_and_match locks what a Limit order offers, hands the order to the *)
(* book, and settles every trade the book returns against the holdings.     *)
(* Cancelling is two calls, cancel_order on the book and                    *)
(* cancel_and_refund_escrow on the coordinator; nothing ties them together. *)
EXTENDS OrderBook

CONSTANTS
    MAX_ESCROW_ORDERS,      \* slots of the holdings array (256 in the code)
    TaxBps,                 \* sales_tax_bps of the station
    CancelFirst             \* the caller refunds only orders it took off the book

ASSUME EscrowAssumption ==
    /\ MAX_ESCROW_ORDERS \in Nat \ {0}
    /\ TaxBps \in 0..10000
    /\ CancelFirst \in BOOLEAN

VARIABLES
    holdings,       \* [escrow slots -> holding or NoHolding]
    revenue,        \* total_tax_revenue and total_volume_settled
    executedValue,  \* history: total price of every trade the book executed
    forfeited,      \* history: that of the trades of calls the book answered with an error
    failed,         \* history: orders of such calls, the makers they traded with included
    refunded        \* history: orders whose holding was handed back

escrowVars == <<holdings, revenue, executedValue, forfeited, failed, refunded>>
marketVars == <<bookVars, escrowVars>>

EscrowSlots == 1..MAX_ESCROW_ORDERS
NoHolding == [order_id |-> 0]

FreeHoldings == {s \in EscrowSlots : holdings[s] = NoHolding}
FirstOf(S) == CHOOSE s \in S : \A t \in S : s <= t

(* lock_buy_escrow, lock_sell_escrow: currency for a buy, goods for a sell. *)
Lock(o) ==
    [holdings EXCEPT ![FirstOf(FreeHoldings)] =
        [order_id |-> o.order_id, account |-> o.account, is_currency |-> o.is_buy,
         locked |-> IF o.is_buy THEN o.initial * o.unit_price ELSE o.initial]]

(* The first holding of an order, of the right kind; a taker that is not a *)
(* Limit order has none, and the deduction is skipped.                     *)
HoldingOf(h, id, currency) ==
    {s \in EscrowSlots : h[s].order_id = id /\ h[s].is_currency = currency}

(* The saturating deduction; a holding with nothing left gives up its slot. *)
Deduct(h, id, currency, amount) ==
    LET mine == HoldingOf(h, id, currency)
    IN  IF mine = {} THEN h
        ELSE [h EXCEPT ![FirstOf(mine)] =
                 IF @.locked <= amount THEN NoHolding ELSE [@ EXCEPT !.locked = @ - amount]]

TotalPrice(trade) == trade.quantity * trade.unit_price

(* Mutated form: the buyer's holding is charged the execution price. *)
settle_trade_at_execution(m, trade, buyer_limit) ==
    [holdings |-> Deduct(Deduct(m.holdings, trade.buy, TRUE, TotalPrice(trade)),
                         trade.sell, FALSE, trade.quantity),
     tax |-> m.tax + (TotalPrice(trade) * TaxBps) \div 10000,
     volume |-> m.volume + TotalPrice(trade)]

(* settle_trade: the buyer's holding is charged the buyer's limit price, the *)
(* part above the execution price being the refund; the seller's holding     *)
(* gives up the goods.                                                       *)
settle_trade(m, trade, buyer_limit) ==
    [holdings |-> Deduct(Deduct(m.holdings, trade.buy, TRUE, trade.quantity * buyer_limit),
                         trade.sell, FALSE, trade.quantity),
     tax |-> m.tax + (TotalPrice(trade) * TaxBps) \div 10000,
     volume |-> m.volume + TotalPrice(trade)]

(* Settles the trades of a call in order. *)
SettleAll(h, o, trades) ==
    LET start == [holdings |-> h, tax |-> revenue.tax, volume |-> revenue.volume]
        after[n \in 0..Len(trades)] ==
            IF n = 0 THEN start
            ELSE settle_trade(after[n - 1], trades[n],
                              IF o.is_buy THEN o.unit_price ELSE trades[n].unit_price)
    IN  after[Len(trades)]

ValueOf(trades) ==
    FoldFunctionOnSet(+, 0, [n \in 1..Len(trades) |-> TotalPrice(trades[n])], 1..Len(trades))

InvolvedIn(o, trades) ==
    {o.order_id} \cup {trades[n].maker.order_id : n \in 1..Len(trades)}

(* What the call settles: all its trades when place_order returned Ok; an *)
(* error returns at once, with the order's holding locked.                *)
Settled(h, o, r) ==
    IF r.ok THEN SettleAll(h, o, r.trades)
    ELSE [holdings |-> h, tax |-> revenue.tax, volume |-> revenue.volume]

(* submit_and_match: with no free holding a Limit order is refused before *)
(* the book sees it.                                                      *)
submit_and_match(o) ==
    \/ /\ o.type = "Limit" /\ FreeHoldings = {}
       /\ issued' = issued + 1
       /\ last' = NoCall
       /\ UNCHANGED <<bids, asks, tick, filled, escrowVars>>
    \/ /\ o.type = "Limit" => FreeHoldings # {}
       /\ place_order(o)
       /\ LET r == Placed(o)
              m == Settled(IF o.type = "Limit" THEN Lock(o) ELSE holdings, o, r)
          IN  /\ holdings' = m.holdings
              /\ revenue' = [tax |-> m.tax, volume |-> m.volume]
              /\ executedValue' = executedValue + ValueOf(r.trades)
              /\ forfeited' = IF r.ok THEN forfeited ELSE forfeited + ValueOf(r.trades)
              /\ failed' = IF r.ok THEN failed ELSE failed \cup InvolvedIn(o, r.trades)
       /\ UNCHANGED refunded

(* The holding handed back to the account that owns it. *)
Refundable(id, account) ==
    {s \in EscrowSlots : holdings[s].order_id = id /\ holdings[s].account = account}

(* cancel_and_refund_escrow *)
cancel_and_refund_escrow(id, account) ==
    /\ CancelFirst => id \notin {o.order_id : o \in Resting(bids) \cup Resting(asks)}
    /\ Refundable(id, account) # {}
    /\ holdings' = [holdings EXCEPT ![FirstOf(Refundable(id, account))] = NoHolding]
    /\ refunded' = refunded \cup {id}
    /\ last' = NoCall
    /\ UNCHANGED <<bids, asks, tick, issued, filled, revenue, executedValue, forfeited, failed>>

EscrowInit ==
    /\ holdings = [s \in EscrowSlots |-> NoHolding]
    /\ revenue = [tax |-> 0, volume |-> 0]
    /\ executedValue = 0
    /\ forfeited = 0
    /\ failed = {}
    /\ refunded = {}

MarketInit == BookInit /\ EscrowInit

MarketNext ==
    \/ \E o \in Submissions : submit_and_match(o)
    \/ \E id \in 1..issued, a \in Accounts :
           \/ cancel_order(id, a) /\ UNCHANGED escrowVars
           \/ cancel_and_refund_escrow(id, a)
    \/ NextTick /\ UNCHANGED escrowVars

MarketSpec == MarketInit /\ [][MarketNext]_marketVars

-----------------------------------------------------------------------------
(* Every holding is for one order, and locks something unless the book *)
(* turned the order down after its escrow was locked.                  *)
EscrowTypeOK ==
    /\ \A s \in EscrowSlots :
           holdings[s] # NoHolding => holdings[s].locked > 0 \/ holdings[s].order_id \in failed
    /\ \A s, t \in EscrowSlots :
           s # t /\ holdings[s] # NoHolding => holdings[s].order_id # holdings[t].order_id

(* The escrow backs the book: a resting bid has locked its remaining         *)
(* quantity at its limit price, a resting ask its remaining goods, through   *)
(* partial fills from either side and price improvement, and exactly so      *)
(* unless the order was hit by one that traded and was then answered with an *)
(* error: that leaves its holding unsettled, never short                     *)
(* (market_coordinator.rs).                                                  *)
EscrowBacksBook ==
    \A o \in Resting(bids) \cup Resting(asks) :
        LET due == IF o.is_buy THEN o.remaining * o.unit_price ELSE o.remaining
        IN  \E s \in HoldingOf(holdings, o.order_id, o.is_buy) :
                /\ holdings[s].locked >= due
                /\ o.order_id \notin failed => holdings[s].locked = due

(* Every trade the book executes has been settled when the call returns,   *)
(* except those of a call that trades and is then answered with an error   *)
(* (market_coordinator.rs).                                                *)
SettlementComplete == revenue.volume + forfeited = executedValue

(* Refunding the escrow of an order cancels the order: it no longer rests on *)
(* the book, where it could still be matched.                                *)
RefundedNotResting ==
    \A o \in Resting(bids) \cup Resting(asks) : o.order_id \notin refunded
=============================================================================
