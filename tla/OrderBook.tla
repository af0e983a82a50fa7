------------------------------ MODULE OrderBook ------------------------------
(* The double-auction order book of one commodity                            *)
(* (eidolon-core/src/market.rs).                                             *)
(*                                                                           *)
(* Each side is an array of slots.  An incoming order is matched against the *)
(* opposite side, best price first, then earliest tick, then lowest slot,    *)
(* while it has quantity left and the caller's trades_out slice has room; a  *)
(* Limit order then rests, in the first free slot of its own side, with what *)
(* is left of it.  The counts bid_count and ask_count are the number of used *)
(* slots, and the status of an order is a function of its two quantities, so *)
(* neither is kept.                                                          *)
EXTENDS Integers, Sequences, FiniteSets, SequencesExt

CONSTANTS
    Accounts,               \* the accounts, which may ask to cancel any order
    Traders,                \* those that place orders
    Prices,                 \* unit prices orders are placed at
    Quantities,             \* quantities orders are placed for
    OrderTypes,             \* the execution policies used
    MAX_ORDERS_PER_SIDE,    \* slots of a side (64 in the code)
    TradesOut,              \* length of the trades_out slice the caller passes
    Duration,               \* duration_ticks of an order
    MaxOrders,              \* bound: orders placed in a behaviour
    MaxTick                 \* bound: the server tick

ASSUME OrderBookAssumption ==
    /\ Traders \subseteq Accounts
    /\ Prices \subseteq Nat
    /\ Quantities \subseteq Nat
    /\ OrderTypes \subseteq {"Limit", "ImmediateOrCancel", "FillOrKill"}
    /\ MAX_ORDERS_PER_SIDE \in Nat \ {0}
    /\ TradesOut \in Nat
    /\ Duration \in Nat

VARIABLES
    bids, asks,     \* [slots -> order or NoOrder]
    tick,           \* current server tick
    issued,         \* order ids given out so far
    filled,         \* history: quantity of each order that has been traded
    last            \* history: the order and trades of the call just made

bookVars == <<bids, asks, tick, issued, filled, last>>

BookSlots == 1..MAX_ORDERS_PER_SIDE
NoOrder == [order_id |-> 0]
NoCall == [inc |-> NoOrder, trades |-> <<>>]

Resting(side) == {side[s] : s \in {t \in BookSlots : side[t] # NoOrder}}

-----------------------------------------------------------------------------
(* MarketOrder::new, which checks nothing; order_id is "unique monotonic". *)
NewOrder(account, buy, price, quantity, type) ==
    [order_id |-> issued + 1, account |-> account, is_buy |-> buy,
     unit_price |-> price, initial |-> quantity, remaining |-> quantity,
     type |-> type, placed_tick |-> tick, expiration |-> tick + Duration]

Opposite(buy) == IF buy THEN asks ELSE bids
Same(buy) == IF buy THEN bids ELSE asks

(* The incoming order accepts the resting order's price. *)
Crosses(inc, o) ==
    IF inc.is_buy THEN o.unit_price <= inc.unit_price ELSE o.unit_price >= inc.unit_price

(* Price, seen from an incoming order: cheaper asks, dearer bids. *)
Cheaper(inc, o, p) ==
    IF inc.is_buy THEN o.unit_price < p.unit_price ELSE o.unit_price > p.unit_price

(* Price-time priority: o is served strictly before p. *)
Ahead(inc, o, p) ==
    \/ Cheaper(inc, o, p)
    \/ o.unit_price = p.unit_price /\ o.placed_tick < p.placed_tick

(* The scan for the best match keeps the first slot that no later one beats. *)
BestSlots(inc, side) ==
    LET fits == {s \in BookSlots : side[s] # NoOrder /\ Crosses(inc, side[s])}
    IN  {s \in fits : \A t \in fits :
            \/ ~ Ahead(inc, side[t], side[s]) /\ ~ Ahead(inc, side[s], side[t]) /\ s <= t
            \/ Ahead(inc, side[s], side[t])}

(* What the trade leaves in the maker's slot. *)
Fill(o, q) ==
    IF o.remaining = q THEN NoOrder ELSE [o EXCEPT !.remaining = @ - q]

(* One iteration of the matching loop; it changes nothing once a loop *)
(* condition fails or no match is left.                               *)
MatchOnce(m) ==
    LET best == BestSlots(m.inc, m.side)
    IN  IF m.inc.remaining = 0 \/ Len(m.trades) >= TradesOut \/ best = {} THEN m
        ELSE LET s     == CHOOSE t \in best : TRUE
                 maker == m.side[s]
                 q     == IF m.inc.remaining < maker.remaining
                          THEN m.inc.remaining ELSE maker.remaining
             IN  [inc    |-> [m.inc EXCEPT !.remaining = @ - q],
                  side   |-> [m.side EXCEPT ![s] = Fill(maker, q)],
                  trades |-> Append(m.trades,
                      [buy  |-> IF m.inc.is_buy THEN m.inc.order_id ELSE maker.order_id,
                       sell |-> IF m.inc.is_buy THEN maker.order_id ELSE m.inc.order_id,
                       maker |-> maker, quantity |-> q,
                       unit_price |-> maker.unit_price, tick |-> tick])]

Matched(inc) ==
    LET after[n \in 0..TradesOut] ==
            IF n = 0 THEN [inc |-> inc, side |-> Opposite(inc.is_buy), trades |-> <<>>]
            ELSE MatchOnce(after[n - 1])
    IN  after[TradesOut]

(* available_qty, counted before a Fill-or-Kill is executed. *)
AvailableQty(inc) ==
    LET side == Opposite(inc.is_buy)
    IN  FoldFunctionOnSet(+, 0, [s \in BookSlots |->
            IF side[s] # NoOrder /\ Crosses(inc, side[s]) THEN side[s].remaining ELSE 0], BookSlots)

FreeSlots(side) == {s \in BookSlots : side[s] = NoOrder}

(* insert_resting_order answers OrderBookFull or DuplicateOrderId. *)
NoPlace(side, o) == FreeSlots(side) = {} \/ \E s \in BookSlots : side[s].order_id = o.order_id

(* insert_resting_order: the first empty slot. *)
insert_resting_order(side, o) ==
    IF NoPlace(side, o) THEN side
    ELSE [side EXCEPT ![CHOOSE s \in FreeSlots(side) : \A t \in FreeSlots(side) : s <= t] = o]

(* place_order turns the order down before it matches anything: *)
(* InvalidOrderParameters, FillOrKillUnfulfilled.               *)
TurnedDown(inc) ==
    \/ inc.unit_price = 0 \/ inc.initial = 0
    \/ inc.type = "FillOrKill" /\ AvailableQty(inc) < inc.initial

(* What place_order makes of the book: the trades, both sides, and whether *)
(* it returned Ok.  The errors of insert_resting_order come after the      *)
(* matching loop and undo none of it.                                      *)
Placed(inc) ==
    LET m     == Matched(inc)
        rests == m.inc.remaining > 0 /\ inc.type = "Limit"
    IN  IF TurnedDown(inc)
        THEN [ok |-> FALSE, trades |-> <<>>,
              opposite |-> Opposite(inc.is_buy), same |-> Same(inc.is_buy)]
        ELSE [ok |-> ~ (rests /\ NoPlace(Same(inc.is_buy), inc)),
              trades |-> m.trades, opposite |-> m.side,
              same |-> IF rests THEN insert_resting_order(Same(inc.is_buy), m.inc)
                       ELSE Same(inc.is_buy)]

(* The quantity some trades move for one order. *)
Traded(trades, id) ==
    FoldFunctionOnSet(+, 0, [n \in 1..Len(trades) |->
        IF id \in {trades[n].buy, trades[n].sell} THEN trades[n].quantity ELSE 0],
        1..Len(trades))

(* place_order *)
place_order(inc) ==
    LET r == Placed(inc)
    IN  /\ bids' = IF inc.is_buy THEN r.same ELSE r.opposite
        /\ asks' = IF inc.is_buy THEN r.opposite ELSE r.same
        /\ issued' = issued + 1
        /\ filled' = [id \in DOMAIN filled |-> filled[id] + Traded(r.trades, id)]
        /\ last' = [inc |-> inc, trades |-> r.trades]
        /\ UNCHANGED tick

(* The slots of a side an order is cancelled from by its owner. *)
OwnSlots(side, id, account) ==
    {s \in BookSlots : side[s].order_id = id /\ side[s].account = account}

(* cancel_order: bids are searched first; another account's request is *)
(* refused and changes nothing.                                        *)
cancel_order(id, account) ==
    /\ \/ /\ OwnSlots(bids, id, account) # {}
          /\ bids' = [s \in BookSlots |-> IF s \in OwnSlots(bids, id, account) THEN NoOrder ELSE bids[s]]
          /\ UNCHANGED asks
       \/ /\ OwnSlots(bids, id, account) = {}
          /\ asks' = [s \in BookSlots |-> IF s \in OwnSlots(asks, id, account) THEN NoOrder ELSE asks[s]]
          /\ UNCHANGED bids
    /\ last' = NoCall
    /\ UNCHANGED <<tick, issued, filled>>

(* The server's clock. *)
NextTick ==
    /\ tick' = IF tick < MaxTick THEN tick + 1 ELSE tick
    /\ last' = NoCall
    /\ UNCHANGED <<bids, asks, issued, filled>>

Submissions ==
    IF issued >= MaxOrders THEN {}
    ELSE {NewOrder(a, b, p, q, t) : a \in Traders, b \in BOOLEAN, p \in Prices,
                                    q \in Quantities, t \in OrderTypes}

BookInit ==
    /\ bids = [s \in BookSlots |-> NoOrder]
    /\ asks = [s \in BookSlots |-> NoOrder]
    /\ tick = 0
    /\ issued = 0
    /\ filled = [id \in 1..MaxOrders |-> 0]
    /\ last = NoCall

BookNext ==
    \/ \E inc \in Submissions : place_order(inc)
    \/ \E id \in 1..issued, a \in Accounts : cancel_order(id, a)
    \/ NextTick

BookSpec == BookInit /\ [][BookNext]_bookVars

-----------------------------------------------------------------------------
(* Every slot holds an order of its own side with something left to trade. *)
BookTypeOK ==
    /\ \A o \in Resting(bids) : o.is_buy /\ o.remaining \in 1..o.initial /\ o.type = "Limit"
    /\ \A o \in Resting(asks) : ~ o.is_buy /\ o.remaining \in 1..o.initial /\ o.type = "Limit"
    /\ tick \in Nat

(* The quantities of a resting order add up: what rests and what the trades *)
(* took (place_order's two remaining_quantity updates) is what was asked    *)
(* for, whatever order the matches came in.                                 *)
QuantitiesAddUp ==
    \A o \in Resting(bids) \cup Resting(asks) : o.remaining + filled[o.order_id] = o.initial

(* The book never rests crossed: after every call, the best bid is below the *)
(* best ask.                                                                 *)
NeverCrossed ==
    \A b \in Resting(bids), a \in Resting(asks) : b.unit_price < a.unit_price

(* A Fill-or-Kill order is filled completely or not at all. *)
FillOrKillWhole ==
    last # NoCall /\ last.inc.type = "FillOrKill"
        => filled[last.inc.order_id] \in {0, last.inc.initial}

(* Price-time priority over a whole call: when a maker was hit, every order *)
(* of its side that was ahead of it has left the book.                      *)
PriceTimePriority ==
    \A n \in 1..Len(last.trades) :
        LET hit == last.trades[n].maker
        IN  \A o \in Resting(Same(hit.is_buy)) \ {hit} :
                \/ IF hit.is_buy THEN o.unit_price < hit.unit_price
                                ELSE o.unit_price > hit.unit_price
                \/ o.unit_price = hit.unit_price /\ o.placed_tick >= hit.placed_tick

(* No trade executes against an order whose expiration tick has passed. *)
NoExpiredFill ==
    \A n \in 1..Len(last.trades) : last.trades[n].tick <= last.trades[n].maker.expiration

(* After every call the book is uncrossed and adds up, Fill-or-Kill orders *)
(* were filled whole or not at all, and nobody was served out of turn      *)
(* (market.rs:290-470).                                                    *)
MatchingSound ==
    /\ BookTypeOK
    /\ QuantitiesAddUp
    /\ NeverCrossed
    /\ FillOrKillWhole
    /\ PriceTimePriority
=============================================================================
