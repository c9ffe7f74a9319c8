---------------------------- MODULE ModifyFailure ----------------------------
(***************************************************************************)
(* The book of module OrderBook when memory runs out inside modify_order.  *)
(* modify_order_dispatcher takes the order out of its level before it      *)
(* allocates: a std::bad_alloc from try_emplace or from add_order of the   *)
(* level leaves the request half done, is printed by modify_order's        *)
(* handlers, and the trailing try_match() runs on what is left.            *)
(*                                                                         *)
(* What is left is a book module OrderBook never sees: an open order in no *)
(* level, an emptied level that was not pruned, an entry without its map   *)
(* entry.  Later requests meet it, so the actions below repeat the code's  *)
(* unchecked find(price) with its consequences.                            *)
(*                                                                         *)
(* add_order has no handler: there the exception leaves Worker::run and    *)
(* ends the program, so only modify_order can go on after a failure.       *)
(***************************************************************************)
EXTENDS OrderBook

CONSTANTS
    LevelReserve,  \* space_reserve of a PriceLevel, 128 in the code
    MaxFailures    \* bound: orders whose modify_order fails

ASSUME LevelReserveAssumption == LevelReserve \in Nat \ {0}
ASSUME MaxFailuresAssumption == MaxFailures \in Nat

VARIABLE broken   \* history: orders a failed modify_order left behind

allVars == <<vars, broken>>

-----------------------------------------------------------------------------
(***************************************************************************)
(* What can throw.  A new level has room for its first order.              *)
(***************************************************************************)

\* push_back on a vector that was reserved once and doubles when it is full
AtCapacity(level) ==
    \E k \in 0 .. Len(level.order_entries) :
        Len(level.order_entries) = LevelReserve * 2 ^ k

\* insertion into a hash map reserved for half as many again; it counts erased
\* elements too, so it may be due for a rehash once that many have passed
RehashDue(level) == 2 * (Len(level.order_entries) + 1) > 3 * LevelReserve

\* The level an order is taken to be in, and side_levels.find(its price)
LevelOf(id) == levels[orders[id].side][orders[id].price]
HasLevel(id) == orders[id].price \in DOMAIN levels[orders[id].side]

\* The order when the exception is thrown: on a new price the quantity is not
\* set yet, on a larger quantity it is.
HalfModified(order, new_price, new_qty) ==
    IF new_price # order.price THEN SetPrice(order, new_price)
                               ELSE SetQuantity(order, new_qty)

\* A handler that tidies up by erasing the level the order was taken from
BugEraseOldLevel(side_levels, order, id, new_price) ==
    {[p \in DOMAIN side_levels \ {order.price} |-> side_levels[p]]}

\* The side when the exception is thrown: the order is out of its level, which
\* is not pruned; if the hash map threw, the order's entry is already in the
\* vector of the level it was to join.
HalfMoved(side_levels, order, id, new_price) ==
    LET removed == [side_levels EXCEPT ![order.price] = RemoveEntry(@, id)]
        entered == [removed EXCEPT ![new_price].order_entries =
                        Append(@, [order |-> id, is_valid |-> TRUE])]
    IN  IF new_price \notin DOMAIN side_levels
        THEN {removed}
        ELSE {s \in {removed} : AtCapacity(removed[new_price])}
                \cup {s \in {entered} : RehashDue(removed[new_price])}

\* modify_order up to its trailing try_match() when an allocation fails
ModifyFails(id, new_price, new_qty) ==
    LET order == orders[id]
    IN  /\ Idle
        /\ Cardinality(broken) < MaxFailures
        /\ Registered(id) /\ id \notin stale /\ Open(order)
        /\ ValidateModifyOrder(order, new_price, new_qty)
        /\ HasLevel(id)
        /\ new_price # order.price \/ new_qty > order.quantity
        /\ HasRoom(order.side, new_price)
        /\ \E half \in HalfMoved(levels[order.side], order, id, new_price) :
                levels' = [levels EXCEPT ![order.side] = half]
        /\ orders' = [orders EXCEPT ![id] = HalfModified(@, new_price, new_qty)]
        /\ try_match_flag' = (try_match_flag /\
                (new_price = order.price \/ new_price \notin DOMAIN levels[order.side]))
        /\ pc' = "match"
        /\ broken' = broken \cup {id}
        /\ UNCHANGED <<trades_completed, poolVars, fault>>

-----------------------------------------------------------------------------
(***************************************************************************)
(* The requests of OrderBook on a book that may be damaged                 *)
(***************************************************************************)

\* cancel_order and modify_order dereference find(price) unchecked.
FindEnd(id) ==
    /\ Idle
    /\ Registered(id) /\ id \notin stale /\ Open(orders[id])
    /\ ~ HasLevel(id)
    /\ fault' = "find_end"
    /\ UNCHANGED <<orders, levels, try_match_flag, trades_completed, poolVars, pc, broken>>

\* modify_order with the order's own price and quantity still prunes.
ModifyPrunes(id) ==
    /\ Idle
    /\ Registered(id) /\ id \notin stale /\ Open(orders[id])
    /\ ValidateModifyOrder(orders[id], orders[id].price, orders[id].quantity)
    /\ HasLevel(id) /\ Empty(LevelOf(id))
    /\ levels' = [levels EXCEPT ![orders[id].side] =
                    RemovePriceLevelIfEmpty(@, orders[id].price)]
    /\ UNCHANGED <<orders, try_match_flag, trades_completed, poolVars, pc, fault, broken>>

Request ==
    \/ \E side \in OrderSide, price \in Prices, quantity \in Quantities :
            AddOrder(side, price, quantity)
    \/ \E id \in DOMAIN orders :
        \/ HasLevel(id) /\ CancelOrder(id)
        \/ HasLevel(id) /\ \E price \in Prices, quantity \in Quantities :
                ModifyOrder(id, price, quantity)
        \/ UseAfterFree(id)

MatchStep == TryMatch /\ UNCHANGED broken

FailureInit == Init /\ broken = {}

FailureNext ==
    \/ Request /\ UNCHANGED broken
    \/ \E id \in DOMAIN orders, price \in Prices, quantity \in Quantities :
            ModifyFails(id, price, quantity)
    \/ \E id \in DOMAIN orders : FindEnd(id) \/ ModifyPrunes(id)
    \/ MatchStep

FailureSpec ==
    FailureInit /\ [][FailureNext]_allVars /\ WF_allVars(MatchStep)

-----------------------------------------------------------------------------
\* The damage stays with the orders whose modify_order failed: every other
\* order is queued, in the level of its side and price and in no other, exactly
\* as long as it is open, through all later requests and through the matching
\* that the handlers run on the damaged book.
\*
\* It is not harmless.  A request for a broken order may dereference end(), and
\* an add that has nothing to do with it may erase end(): an entry that a broken
\* order left behind without its map entry, valid or not, can be at the front of
\* a level that other orders have joined, and the match that fills the broken
\* order there ends in pop_front_order_if_filled.  The last two conjuncts say
\* that a broken order is behind every dereference or erasure of end(); a level
\* whose only order was re-queued there (growAlone) has a way of its own to the
\* second, with or without a failure.
FailureContained ==
    /\ \A id \in DOMAIN orders \ broken :
            Open(orders[id]) => HasLevel(id) /\ id \in DOMAIN LevelOf(id).orders_map
    /\ \A side \in OrderSide : \A price \in DOMAIN levels[side] :
            \A id \in DOMAIN levels[side][price].orders_map \ broken :
                /\ orders[id].side = side /\ orders[id].price = price
                /\ Open(orders[id])
    /\ fault = "find_end" => \E id \in broken : Open(orders[id]) /\ ~ HasLevel(id)
    /\ fault = "erase_end" /\ "growAlone" \notin AmendKinds => Fronts \cap broken # {}

=============================================================================
