----------------------------- MODULE PriceLevels -----------------------------
(***************************************************************************)
(* The two implementations of a price level side by side: every request    *)
(* that OrderBook makes of the level at one price is made of the list      *)
(* (include/price_level.h) and of the vector (include/price_level_v2.h).   *)
(* Requests come in the order and under the conditions of OrderBook: an    *)
(* order is removed only while it is open and queued, the front order is   *)
(* matched before it is popped, and a level found empty is destroyed, so   *)
(* that the next order meets a new one.                                    *)
(***************************************************************************)
EXTENDS PriceLevel, PriceLevelList

CONSTANTS
    LevelQuantities,  \* quantities clients use
    GrowAlone,        \* whether the only order of a level may be re-queued
    MaxOrders,        \* bound: orders added
    MaxEntries        \* bound: entries, tombstones included, in the vector

ASSUME LevelQuantitiesAssumption == LevelQuantities \subseteq Nat
ASSUME LevelBoundsAssumption ==
    GrowAlone \in BOOLEAN /\ MaxOrders \in Nat /\ MaxEntries \in Nat

VARIABLES
    orders,  \* the orders that were ever queued here, by id
    list,    \* the level as a list
    vector   \* the level as a vector

vars == <<orders, list, vector>>

Side == CHOOSE side \in OrderSide : TRUE
LevelPrice == 1

Queued(id) == id \in DOMAIN vector.orders_map
Filled(order) == order.status = "FULLY_FILLED"
HasRoom == Len(vector.order_entries) < MaxEntries

\* remove_price_level_if_empty on either level
PruneList(level) == IF ListEmpty(level) THEN EmptyList ELSE level
PruneVector(level) == IF Empty(level) THEN EmptyLevel ELSE level

Init == orders = <<>> /\ list = EmptyList /\ vector = EmptyLevel

\* An order arrives: a new one, or one that modify_order has moved away and
\* now moves back.
Join(id) ==
    /\ HasRoom
    /\ list' = ListAdd(list, id)
    /\ vector' = AddEntry(vector, id)

Add(quantity) ==
    /\ Len(orders) < MaxOrders
    /\ orders' = Append(orders, CopyFromClient(Side, LevelPrice, quantity))
    /\ Join(Len(orders) + 1)

MoveHere(id) ==
    /\ Open(orders[id]) /\ ~ Queued(id)
    /\ Join(id)
    /\ UNCHANGED orders

\* An order leaves: cancelled, or moved to another price.
Leave(id) ==
    /\ Queued(id)
    /\ list' \in {PruneList(ListRemove(list, id)), PruneList(ListRemoveOnIt(list, id))}
    /\ vector' = PruneVector(RemoveEntry(vector, id))

CancelOrder(id) ==
    Leave(id) /\ orders' = [orders EXCEPT ![id] = Cancel(@)]

MoveAway(id) == Leave(id) /\ UNCHANGED orders

\* modify_order with a larger quantity: removed and added again without
\* pruning in between
Grow(id, quantity) ==
    /\ Queued(id) /\ HasRoom
    /\ quantity > orders[id].quantity
    /\ GrowAlone \/ Size(vector) > 1
    /\ orders' = [orders EXCEPT ![id] = SetQuantity(@, quantity)]
    /\ list' = ListAdd(ListRemove(list, id), id)
    /\ vector' = AddEntry(RemoveEntry(vector, id), id)

\* An iteration of try_match: the front order is filled and popped.
MatchFront(fill_qty) ==
    LET id == FrontOrder(vector)
        order == Match(orders[id], fill_qty)
    IN  /\ ~ Empty(vector)
        /\ fill_qty <= Available(orders[id])
        /\ orders' = [orders EXCEPT ![id] = order]
        /\ list' = PruneList(ListPopFrontIfFilled(list, Filled(order)))
        /\ vector' = PruneVector(PopFrontIfFilled(vector, Filled(order)))

Next ==
    \/ \E quantity \in LevelQuantities : Add(quantity)
    \/ \E id \in DOMAIN orders :
        \/ MoveHere(id) \/ CancelOrder(id) \/ MoveAway(id)
        \/ \E quantity \in LevelQuantities : Grow(id, quantity)
    \/ \E fill_qty \in LevelQuantities : MatchFront(fill_qty)

Spec == Init /\ [][Next]_vars

-----------------------------------------------------------------------------
\* What operator<< prints of a level: its orders, front first
PrintedVector(level) ==
    LET entries == level.order_entries
        valid == {i \in DOMAIN entries : entries[i].is_valid}
        walk == CHOOSE q \in SetToSeqs(valid) : IsSorted(q, <)
    IN  [k \in DOMAIN walk |-> entries[walk[k]].order]

PrintedList(level) == level.orders_list

\* The vector is a drop-in replacement of the list: with the same requests both
\* levels hold, and print, the same orders in the same order, count the same
\* number of them and the same quantity left, and have the same order at the front, although one erases
\* what the other buries and they keep different maps.
SameQueue ==
    /\ PrintedVector(vector) = PrintedList(list)
    /\ Size(vector) = Len(list.orders_list)
    /\ TotalQty(vector, orders) = ListTotalQty(list, orders)
    /\ ~ ListEmpty(list) => FrontOrder(vector) = ListFront(list)

\* The list forgets to erase the map entry of an order it pops.  No request
\* meets the dangling iterator: it belongs to a filled order, which cancel_order
\* and modify_order turn away, for as long as the level lives.
OnlyFilledDangle ==
    \A id \in DOMAIN orders : Dangling(list, id) => Filled(orders[id])

=============================================================================
