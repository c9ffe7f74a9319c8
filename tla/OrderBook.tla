----------------------------- MODULE OrderBook -----------------------------
(***************************************************************************)
(* OrderBook of include/orderbook.h, with the OrderPool of                 *)
(* include/order_pool.h it owns: one instrument's book, driven by the one  *)
(* worker thread that owns it.                                             *)
(*                                                                         *)
(* add_order ends in try_match, whose loop is unbounded.  The model runs   *)
(* add_order up to the call (AddOrder), then one action per iteration of   *)
(* the loop (MatchOrders) until the loop returns (MatchReturns).  pc is    *)
(* "match" in between and every request needs pc = "idle", so no request   *)
(* ever meets a half-finished add.  modify_order calls try_match only on   *)
(* the path through its exception handlers (see ModifyOrder).              *)
(*                                                                         *)
(* Undefined behaviour ends the run: fault records which kind was reached, *)
(* no action is enabled afterwards and no property promises anything.      *)
(***************************************************************************)
EXTENDS Order, PriceLevel, FiniteSetsExt, FiniteSets

CONSTANTS
    Prices,        \* prices clients use; positive, as modify_order demands
    Quantities,    \* quantities clients use; add_order does not check them
    AmendKinds,    \* the kinds of effective modify_order requests clients send
    PoolReserve,   \* SPACE_RESERVE, the only size OrderPool is ever built with
    SpaceReserve,  \* the constructor's space_reserve_per_instrument
    MaxOrders,     \* bound: orders added
    MaxEntries     \* bound: entries, tombstones included, in one level

ASSUME PricesAssumption == Prices \subseteq Nat \ {0} /\ IsFiniteSet(Prices)
ASSUME QuantitiesAssumption == Quantities \subseteq Nat
ASSUME AmendKindsAssumption ==
    AmendKinds \subseteq {"reprice", "shrink", "grow", "growAlone"}
ASSUME ReserveAssumption ==
    PoolReserve \in Nat \ {0} /\ SpaceReserve \in Nat
ASSUME BoundsAssumption == MaxOrders \in Nat /\ MaxEntries \in Nat \ {0}

VARIABLES
    orders,            \* pool and registry: every order ever added, by id
    levels,            \* levels["BUY"] is _bids, levels["SELL"] is _asks
    try_match_flag,    \* _try_match_flag
    trades_completed,  \* _trades_completed
    pool_size,         \* _orders.size() of the pool
    stale,             \* ids whose Order* the pool has invalidated
    pc,                \* "idle", or "match" inside try_match
    fault              \* "none", or the undefined behaviour reached

poolVars == <<pool_size, stale>>
vars == <<orders, levels, try_match_flag, trades_completed, poolVars, pc, fault>>

\* The id of an order is the number of its pool slot.  get_order_id hands out
\* ids never used before (module IdAllocator), the pool never reuses a slot and
\* the registry never forgets an id, so pool, id and registry stay in step.
OrderIds == 1 .. MaxOrders

Registered(id) == id \in DOMAIN orders

Idle == pc = "idle" /\ fault = "none"

-----------------------------------------------------------------------------
(***************************************************************************)
(* The side maps: std::map<Price, PriceLevel> as a function whose domain   *)
(* is the set of prices that have a level.                                 *)
(***************************************************************************)

\* side_levels.try_emplace(price, ...) followed by add_order on the level.
Enqueue(side_levels, price, id) ==
    [p \in DOMAIN side_levels \cup {price} |->
        LET level == IF p \in DOMAIN side_levels THEN side_levels[p] ELSE EmptyLevel
        IN  IF p = price THEN AddEntry(level, id) ELSE level]

\* Emptied levels left in the map
BugNoPrune(side_levels, price) == side_levels

\* remove_price_level_if_empty
RemovePriceLevelIfEmpty(side_levels, price) ==
    [p \in {q \in DOMAIN side_levels : q = price => ~ Empty(side_levels[q])} |->
        side_levels[p]]

\* cancel_order_dispatcher
CancelOrderDispatcher(side_levels, order, id) ==
    RemovePriceLevelIfEmpty(
        [side_levels EXCEPT ![order.price] = RemoveEntry(@, id)], order.price)

\* The order not removed from its old level; a grown order left in its place
BugModifyWithoutRemove(side_levels, order, id, new_price, new_qty) ==
    IF new_price # order.price THEN Enqueue(side_levels, new_price, id)
                               ELSE side_levels
BugGrowKeepsPlace(side_levels, order, id, new_price, new_qty) ==
    LET removed == [side_levels EXCEPT ![order.price] = RemoveEntry(@, id)]
    IN  RemovePriceLevelIfEmpty(
            IF new_price # order.price THEN Enqueue(removed, new_price, id)
                                       ELSE side_levels,
            order.price)

\* modify_order_dispatcher after validation: a new price moves the order to the
\* back of the level there; a larger quantity at the same price moves it to the
\* back of its own level; a smaller one leaves it where it is.
ModifyOrderDispatcher(side_levels, order, id, new_price, new_qty) ==
    LET removed == [side_levels EXCEPT ![order.price] = RemoveEntry(@, id)]
    IN  RemovePriceLevelIfEmpty(
            IF new_price # order.price THEN Enqueue(removed, new_price, id)
            ELSE IF new_qty > order.quantity THEN Enqueue(removed, order.price, id)
            ELSE side_levels,
            order.price)

\* Both maps ordered by the default comparator
BugBothAscending(side) == Min(DOMAIN levels[side])

\* _bids.begin() is the highest bid, _asks.begin() the lowest ask.
Best(side) == IF side = "BUY" THEN Max(DOMAIN levels[side])
                              ELSE Min(DOMAIN levels[side])

BothSides == \A side \in OrderSide : DOMAIN levels[side] # {}

\* The loop's test on the best prices
Crossed == BothSides /\ Best("BUY") >= Best("SELL")

HasRoom(side, price) ==
    price \in DOMAIN levels[side] =>
        Len(levels[side][price].order_entries) < MaxEntries

-----------------------------------------------------------------------------
(***************************************************************************)
(* Requests                                                                *)
(***************************************************************************)

Init ==
    /\ orders = <<>>
    /\ levels = [side \in OrderSide |-> <<>>]
    /\ try_match_flag = FALSE
    /\ trades_completed = 0
    /\ pool_size = PoolReserve
    /\ stale = {}
    /\ pc = "idle"
    /\ fault = "none"

\* The pool grown one slot early
BugAllocateEarly ==
    IF Len(orders) + 1 >= pool_size
    THEN pool_size' = 2 * pool_size /\ stale' = DOMAIN orders
    ELSE UNCHANGED poolVars

\* OrderPool::allocate.  When the slots run out, reserve_more doubles the
\* vector: the orders move to a new buffer, and every Order* that the registry
\* and the levels hold points into the freed one.
Allocate ==
    IF Len(orders) >= pool_size
    THEN pool_size' = 2 * pool_size /\ stale' = DOMAIN orders
    ELSE UNCHANGED poolVars

\* The flag raised only by a new best price, as if no book could be crossed
BugFlagForBestOnly(side, price, quantity) ==
    LET id == Len(orders) + 1
    IN  /\ Idle
        /\ id \in OrderIds
        /\ HasRoom(side, price)
        /\ Allocate
        /\ orders' = Append(orders, CopyFromClient(side, price, quantity))
        /\ levels' = [levels EXCEPT ![side] = Enqueue(@, price, id)]
        /\ try_match_flag' = (DOMAIN levels[side] = {} \/
                                IF side = "BUY" THEN price > Best(side)
                                                ELSE price < Best(side))
        /\ pc' = "match"
        /\ UNCHANGED <<trades_completed, fault>>

\* OrderBook::add_order up to its call of try_match
AddOrder(side, price, quantity) ==
    LET id == Len(orders) + 1
    IN  /\ Idle
        /\ id \in OrderIds
        /\ HasRoom(side, price)
        /\ Allocate
        /\ orders' = Append(orders, CopyFromClient(side, price, quantity))
        /\ levels' = [levels EXCEPT ![side] = Enqueue(@, price, id)]
        /\ try_match_flag' = (price \notin DOMAIN levels[side])
        /\ pc' = "match"
        /\ UNCHANGED <<trades_completed, fault>>

\* OrderBook::cancel_order for an id that is unknown, filled or cancelled.
CancelRejected(id) ==
    /\ Idle
    /\ Registered(id) => id \notin stale /\ ~ Open(orders[id])
    /\ UNCHANGED vars

\* OrderBook::cancel_order for an open order
CancelOrder(id) ==
    /\ Idle
    /\ Registered(id) /\ id \notin stale /\ Open(orders[id])
    /\ orders' = [orders EXCEPT ![id] = Cancel(@)]
    /\ levels' = [levels EXCEPT ![orders[id].side] =
                    CancelOrderDispatcher(@, orders[id], id)]
    /\ UNCHANGED <<try_match_flag, trades_completed, poolVars, pc, fault>>

\* The quantity not compared with what is already filled
BugValidatePriceOnly(order, new_price, new_qty) == new_price > 0

\* validate_modify_order
ValidateModifyOrder(order, new_price, new_qty) ==
    new_price > 0 /\ new_qty > order.quantity_filled

\* The effect a valid modify_order request will have.  "growAlone" is the
\* request that takes the only order out of its level and puts it back.
AmendKind(id, new_price, new_qty) ==
    LET order == orders[id]
    IN  CASE new_price # order.price -> "reprice"
          [] new_price = order.price /\ new_qty = order.quantity -> "none"
          [] new_price = order.price /\ new_qty < order.quantity -> "shrink"
          [] OTHER ->
                IF DOMAIN levels[order.side][order.price].orders_map = {id}
                THEN "growAlone" ELSE "grow"

\* OrderBook::modify_order with nothing to do: unknown or closed order, failed
\* validation, or price and quantity as they are.
ModifyRejected(id, new_price, new_qty) ==
    /\ Idle
    /\ Registered(id) =>
        /\ id \notin stale
        /\ \/ ~ Open(orders[id])
           \/ ~ ValidateModifyOrder(orders[id], new_price, new_qty)
           \/ new_price = orders[id].price /\ new_qty = orders[id].quantity
    /\ UNCHANGED vars

\* OrderBook::modify_order.  Both cases of its switch return from inside the
\* try block, so the trailing try_match() runs only after an exception (which
\* only a failed allocation can raise, see module ModifyFailure): the request
\* ends with the book as the dispatcher left it, crossed or not.
ModifyOrder(id, new_price, new_qty) ==
    /\ Idle
    /\ Registered(id) /\ id \notin stale /\ Open(orders[id])
    /\ ValidateModifyOrder(orders[id], new_price, new_qty)
    /\ AmendKind(id, new_price, new_qty) \in AmendKinds
    /\ AmendKind(id, new_price, new_qty) # "shrink" =>
            HasRoom(orders[id].side, new_price)
    /\ orders' = [orders EXCEPT ![id] =
                    SetQuantity(SetPrice(@, new_price), new_qty)]
    /\ levels' = [levels EXCEPT ![orders[id].side] =
                    ModifyOrderDispatcher(@, orders[id], id, new_price, new_qty)]
    /\ try_match_flag' =
            IF new_price # orders[id].price
            THEN new_price \notin DOMAIN levels[orders[id].side]
            ELSE try_match_flag
    /\ UNCHANGED <<trades_completed, poolVars, pc, fault>>

\* cancel_order and modify_order read the status through the registry's Order*
\* before anything else: undefined once the pool has moved that order.
UseAfterFree(id) ==
    /\ Idle
    /\ Registered(id) /\ id \in stale
    /\ fault' = "use_after_free"
    /\ UNCHANGED <<orders, levels, try_match_flag, trades_completed, poolVars, pc>>

-----------------------------------------------------------------------------
(***************************************************************************)
(* try_match                                                               *)
(***************************************************************************)

\* The test for end() lost
BugNoEndTest ==
    /\ pc = "match" /\ fault = "none"
    /\ ~ try_match_flag \/ (BothSides /\ ~ Crossed)
    /\ pc' = "idle"
    /\ try_match_flag' = FALSE
    /\ UNCHANGED <<orders, levels, trades_completed, poolVars, fault>>

\* The loop returns at once when the flag is down, keeps the flag when a side
\* is empty, and clears it when the best prices do not cross.
MatchReturns ==
    /\ pc = "match" /\ fault = "none"
    /\ ~ (try_match_flag /\ Crossed)
    /\ pc' = "idle"
    /\ try_match_flag' = (try_match_flag /\ ~ BothSides)
    /\ UNCHANGED <<orders, levels, trades_completed, poolVars, fault>>

BestLevel(side) == levels[side][Best(side)]
BestFront(side) == FrontOrder(BestLevel(side))
Fronts == {BestFront(side) : side \in OrderSide}

\* match_orders: both fronts trade the smaller of what they have left.
MatchQty == Min({Available(orders[id]) : id \in Fronts})

\* Each order filled by what it has left itself
BugFillOwnRest(id) == Match(orders[id], Available(orders[id]))

Matched(id) == Match(orders[id], MatchQty)

Filled(order) == order.status = "FULLY_FILLED"

\* pop_front_order_if_filled and remove_price_level_if_empty on one side
PopBest(side) ==
    RemovePriceLevelIfEmpty(
        [levels[side] EXCEPT ![Best(side)] =
            PopFrontIfFilled(@, Filled(Matched(BestFront(side))))],
        Best(side))

MatchFault ==
    IF Fronts \cap stale # {} THEN "use_after_free"
    ELSE IF \E side \in OrderSide :
                PopIsUndefined(BestLevel(side), Filled(Matched(BestFront(side))))
         THEN "erase_end"
         ELSE "none"

\* One iteration of the loop of try_match on a crossed book
MatchOrders ==
    /\ pc = "match" /\ fault = "none"
    /\ try_match_flag /\ Crossed
    /\ MatchFault = "none"
    /\ orders' = [id \in DOMAIN orders |->
                    IF id \in Fronts THEN Matched(id) ELSE orders[id]]
    /\ levels' = [side \in OrderSide |-> PopBest(side)]
    /\ trades_completed' = trades_completed + 1
    /\ UNCHANGED <<try_match_flag, poolVars, pc, fault>>

\* The same iteration when it reads freed memory or erases end()
MatchUndefined ==
    /\ pc = "match" /\ fault = "none"
    /\ try_match_flag /\ Crossed
    /\ MatchFault # "none"
    /\ fault' = MatchFault
    /\ UNCHANGED <<orders, levels, try_match_flag, trades_completed, poolVars, pc>>

TryMatch == MatchReturns \/ MatchOrders \/ MatchUndefined

-----------------------------------------------------------------------------
\* Ids in requests range over the registered ones and one that is not.
Next ==
    \/ \E side \in OrderSide, price \in Prices, quantity \in Quantities :
            AddOrder(side, price, quantity)
    \/ \E id \in 1 .. Len(orders) + 1 : CancelRejected(id)
    \/ \E id \in DOMAIN orders : CancelOrder(id)
    \/ \E id \in 1 .. Len(orders) + 1, price \in Prices \cup {0},
          quantity \in Quantities : ModifyRejected(id, price, quantity)
    \/ \E id \in DOMAIN orders, price \in Prices, quantity \in Quantities :
            ModifyOrder(id, price, quantity)
    \/ \E id \in DOMAIN orders : UseAfterFree(id)
    \/ TryMatch

Spec == Init /\ [][Next]_vars

\* The worker thread does not stop in the middle of a call of try_match.
FairSpec == Spec /\ WF_vars(TryMatch)

-----------------------------------------------------------------------------
(***************************************************************************)
(* Invariants                                                              *)
(***************************************************************************)

\* Values each variable can take: orders_map points into order_entries, and
\* the head stays within the vector.
LevelOK(level) ==
    /\ level.order_entries \in Seq([order : OrderIds, is_valid : BOOLEAN])
    /\ Len(level.order_entries) \in 1 .. MaxEntries
    /\ level.queue_head_index \in DOMAIN level.order_entries
    /\ DOMAIN level.orders_map \subseteq OrderIds
    /\ \A id \in DOMAIN level.orders_map :
            level.orders_map[id] \in DOMAIN level.order_entries

TypeOK ==
    /\ orders \in Seq(OrderRecord) /\ Len(orders) <= MaxOrders
    /\ DOMAIN levels = OrderSide
    /\ \A side \in OrderSide :
            /\ DOMAIN levels[side] \subseteq Prices
            /\ \A price \in DOMAIN levels[side] : LevelOK(levels[side][price])
    /\ try_match_flag \in BOOLEAN
    /\ trades_completed \in Nat
    /\ pool_size \in Nat /\ stale \subseteq OrderIds
    /\ pc \in {"idle", "match"}
    /\ fault \in {"none", "use_after_free", "erase_end"}

\* Registry and book agree: an order is queued in exactly one level, the one at
\* its side and price, for as long as it is open, and in none afterwards.  The
\* dispatchers rely on it when they dereference side_levels.find(price)
\* unchecked, through every order of adds, fills, cancels and modifies.
QueuedExactlyWhenOpen ==
    /\ \A id \in DOMAIN orders :
            Open(orders[id]) =>
                /\ orders[id].price \in DOMAIN levels[orders[id].side]
                /\ id \in DOMAIN levels[orders[id].side][orders[id].price].orders_map
    /\ \A side \in OrderSide : \A price \in DOMAIN levels[side] :
            \A id \in DOMAIN levels[side][price].orders_map :
                /\ Registered(id)
                /\ orders[id].side = side /\ orders[id].price = price
                /\ Open(orders[id])

\* The map of a level and its vector of tombstones agree: a queued order's
\* entry is valid, is its own and has not been passed by the head.  So
\* increment_to_valid never runs off the vector, and no order is skipped.
HeadNeverPassesQueued ==
    \A side \in OrderSide : \A price \in DOMAIN levels[side] :
        LET level == levels[side][price]
        IN  \A id \in DOMAIN level.orders_map :
                /\ level.order_entries[level.orders_map[id]] =
                        [order |-> id, is_valid |-> TRUE]
                /\ level.queue_head_index <= level.orders_map[id]

\* No level is empty, and its entries account for its map: what is valid, and
\* what is at the head, valid or not, belongs to an order queued there or to a
\* filled one.  So an order that was cancelled or moved away never comes to the
\* front of a level again, although nothing is ever taken out of the vector.
NoGhostEntries ==
    \A side \in OrderSide : \A price \in DOMAIN levels[side] :
        LET level == levels[side][price]
            queued(id) == id \in DOMAIN level.orders_map
            filled(id) == Registered(id) /\ Filled(orders[id])
        IN  /\ ~ Empty(level)
            /\ queued(FrontOrder(level)) \/ filled(FrontOrder(level))
            /\ \A i \in DOMAIN level.order_entries :
                    LET id == level.order_entries[i].order
                    IN  level.order_entries[i].is_valid =>
                            \/ queued(id) /\ level.orders_map[id] = i
                            \/ filled(id)

\* front() of every level is an order that is queued there, and the one that
\* joined first.  tests/test_price_level.cpp:43 expects the order behind a
\* filled one to be at the front after pop_front_order_if_filled.
FrontIsFirstQueued ==
    \A side \in OrderSide : \A price \in DOMAIN levels[side] :
        LET level == levels[side][price]
        IN  /\ FrontOrder(level) \in DOMAIN level.orders_map
            /\ \A id \in DOMAIN level.orders_map :
                    level.orders_map[FrontOrder(level)] <= level.orders_map[id]

Tradable ==
    \E bid \in DOMAIN levels["BUY"], ask \in DOMAIN levels["SELL"] : bid >= ask

\* Between requests no resting bid reaches a resting ask: what could trade has
\* traded, although try_match is skipped whenever add_order joins an existing
\* level.  README.md:98: "Maintains buy/sell order books and executes matches
\* for a specific symbol".
NotCrossed == Idle => ~ Tradable

\* No order is filled beyond its quantity, whatever modify_order made of that
\* quantity after earlier fills, and an order that is open and not of zero
\* quantity has something left to fill.  This is why match never throws, and
\* why quantity - quantity_filled never wraps.
NoOverfill ==
    \A id \in DOMAIN orders :
        /\ orders[id].quantity_filled <= orders[id].quantity
        /\ Open(orders[id]) /\ orders[id].quantity > 0 => Available(orders[id]) > 0

FilledOn(side) ==
    MapThenSumSet(LAMBDA id : orders[id].quantity_filled,
                  {id \in DOMAIN orders : orders[id].side = side})

\* Every trade fills a buyer and a seller by the same quantity: over the life
\* of the book bought and sold quantities are equal.
BoughtEqualsSold == FilledOn("BUY") = FilledOn("SELL")

\* Each iteration of try_match completes at least one and at most two orders,
\* so _trades_completed, which the worker reports, stays between half of the
\* number of filled orders and that number.
TradesFillOrders ==
    LET filled == Cardinality({id \in DOMAIN orders : Filled(orders[id])})
    IN  trades_completed <= filled /\ filled <= 2 * trades_completed

\* No request reaches undefined behaviour.
NoFault == fault = "none"

\* The pool hands out no dangling pointer as long as no more orders were added
\* than it was built for.
PointersStableWithinPool == Len(orders) <= PoolReserve => stale = {}

\* README.md:75 "Pre-allocated space to avoid dynamic allocations": a book
\* built for SpaceReserve orders keeps their storage in place up to that number.
PreallocatedSpaceSuffices == Len(orders) <= SpaceReserve => stale = {}

(***************************************************************************)
(* Action properties and liveness                                          *)
(***************************************************************************)

\* An order that is filled or cancelled never changes again, not even by a
\* later modify, cancel or match that still finds it in the registry.
ClosedOrdersAreFinal ==
    [][\A id \in DOMAIN orders :
            ~ Open(orders[id]) => orders'[id] = orders[id]]_vars

\* The order added last has the first entry of its level, or is closed already:
\* its add opened the level, or at least traded.
OpenedLevel ==
    LET id == Len(orders)
        order == orders[id]
    IN  Open(order) => levels[order.side][order.price].orders_map[id] = 1

\* An add that opens a price level, the best of its side or not, ends with a
\* book in which no bid reaches an ask, even when earlier modify_order calls had
\* left it crossed.  Whether it opened one is read off the level itself, not off
\* _try_match_flag, which add_order and modify_order share.
NewLevelUncrosses ==
    [][pc = "match" /\ pc' = "idle" /\ OpenedLevel => ~ Tradable']_vars

\* The while (true) loop of try_match ends.
MatchingTerminates == pc = "match" ~> (pc = "idle" \/ fault # "none")

(***************************************************************************)
(* Refinement: read through the maps of its levels, a book is a price-time *)
(* priority book.                                                          *)
(***************************************************************************)

\* The queued orders, all of them, in the order of their entries
Queue(level) ==
    LET place == level.orders_map
    IN  CHOOSE q \in [1 .. Size(level) -> DOMAIN place] :
            /\ Range(q) = DOMAIN place
            /\ \A i, j \in DOMAIN q : i < j => place[q[i]] < place[q[j]]

BookQueue ==
    [side \in OrderSide |-> [price \in Prices |->
        IF price \in DOMAIN levels[side] THEN Queue(levels[side][price]) ELSE <<>>]]

PriceTime == INSTANCE PriceTimeBook WITH queue <- BookQueue

\* Every step of the book is a step of a price-time priority book: tombstones,
\* head index, map, pruning and the match flag change nothing of who trades
\* with whom.
PriceTimePriority == PriceTime!Spec

=============================================================================
