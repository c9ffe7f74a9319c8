--------------------------- MODULE PriceLevelList ---------------------------
(***************************************************************************)
(* PriceLevel of include/price_level.h, the first implementation of the    *)
(* queue of orders at one price, which price_level_v2.h (module            *)
(* PriceLevel) has replaced: a std::list of orders and a map from the id   *)
(* of each order to its iterator in the list.  size(), empty() and front() *)
(* look at the list.                                                       *)
(*                                                                         *)
(* An order is in the list at most once, so the list is a sequence of ids, *)
(* and the map the set of ids it has an iterator for: that of the order's  *)
(* node, or a dangling one if the order is no longer in the list.          *)
(***************************************************************************)
EXTENDS Order, Sequences, SequencesExt

EmptyList == [orders_list |-> <<>>, orders_map |-> {}]

\* PriceLevel::empty and PriceLevel::front
ListEmpty(level) == level.orders_list = <<>>
ListFront(level) == Head(level.orders_list)

\* Orders queued last in, first out
BugListPushFront(level, id) ==
    [level EXCEPT !.orders_list = <<id>> \o @, !.orders_map = @ \cup {id}]

\* PriceLevel::add_order
ListAdd(level, id) ==
    [level EXCEPT !.orders_list = Append(@, id), !.orders_map = @ \cup {id}]

\* The iterator of id's node
Node(level, id) == CHOOSE i \in DOMAIN level.orders_list : level.orders_list[i] = id

\* PriceLevel::remove_order_on_it with the iterator of id's node
ListRemoveOnIt(level, id) ==
    [level EXCEPT !.orders_list = RemoveAt(@, Node(level, id)), !.orders_map = @ \ {id}]

\* The map entry of a removed order left behind
BugListKeepsEntry(level, id) ==
    [level EXCEPT !.orders_list = RemoveAt(@, Node(level, id))]

\* PriceLevel::remove_order.  The list erases the map's iterator unchecked, so
\* callers must exclude Dangling.
ListRemove(level, id) ==
    IF id \in level.orders_map THEN ListRemoveOnIt(level, id) ELSE level

Dangling(level, id) ==
    id \in level.orders_map /\ ~ Contains(level.orders_list, id)

\* PriceLevel::pop_front_order_if_filled, where filled is the test on the
\* status of the front order.  The map keeps the iterator of the popped node.
ListPopFrontIfFilled(level, filled) ==
    IF ~ ListEmpty(level) /\ filled
    THEN [level EXCEPT !.orders_list = Tail(@)]
    ELSE level

\* PriceLevel::total_qty, where pool[id] is the order with that id
ListTotalQty(level, pool) ==
    FoldSeq(LAMBDA id, qty : Available(pool[id]) + qty, 0, level.orders_list)

=============================================================================
