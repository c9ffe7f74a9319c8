----------------------------- MODULE PriceLevel -----------------------------
(***************************************************************************)
(* PriceLevel of include/price_level_v2.h: the queue of orders resting at  *)
(* one price.  It is a vector that only grows, in which removed entries    *)
(* stay behind as tombstones (is_valid = FALSE), an index of the entry at  *)
(* the front, and a hash map from the id of each queued order to its       *)
(* entry.  size() and empty() look at the map, front() at the vector.      *)
(*                                                                         *)
(* A level is a record; an order is named by its id.  Entries count from   *)
(* 1, so queue_head_index is one more than in the code.  Space             *)
(* reservations and timing are left out.                                   *)
(*                                                                         *)
(* A definition named Bug... is no part of the model.  It is a plausible   *)
(* mistake in the definition that follows it, kept to show that a property *)
(* fails when the mistake is made; the other modules do the same.          *)
(***************************************************************************)
EXTENDS Order, Sequences, Functions, FiniteSets, FiniteSetsExt

\* A level that try_emplace has just constructed.
EmptyLevel == [order_entries |-> <<>>, queue_head_index |-> 1,
               orders_map |-> <<>>]

\* PriceLevel::size, PriceLevel::empty and PriceLevel::front.  front() does not
\* look at is_valid.
Size(level) == Cardinality(DOMAIN level.orders_map)

Empty(level) == DOMAIN level.orders_map = {}

FrontOrder(level) == level.order_entries[level.queue_head_index].order

\* The index taken from size() rather than size() - 1
BugAddEntryPastEnd(level, id) ==
    [level EXCEPT
        !.order_entries = Append(@, [order |-> id, is_valid |-> TRUE]),
        !.orders_map = [i \in DOMAIN @ \cup {id} |->
                           IF i = id THEN Len(level.order_entries) + 2
                                     ELSE level.orders_map[i]]]

\* PriceLevel::add_order
AddEntry(level, id) ==
    [level EXCEPT
        !.order_entries = Append(@, [order |-> id, is_valid |-> TRUE]),
        !.orders_map = [i \in DOMAIN @ \cup {id} |->
                           IF i = id THEN Len(level.order_entries) + 1
                                     ELSE level.orders_map[i]]]

\* The loop left out, or reduced to one unconditional increment
BugNoIncrement(level) == level
BugIncrementOnce(level) ==
    IF Empty(level) THEN level ELSE [level EXCEPT !.queue_head_index = @ + 1]

\* PriceLevel::increment_to_valid: the loop stops at the first valid entry at
\* or after the head; an empty level keeps its head where it was.
IncrementToValid(level) ==
    IF Empty(level)
    THEN level
    ELSE [level EXCEPT !.queue_head_index =
            CHOOSE i \in @ .. Len(level.order_entries) :
                /\ level.order_entries[i].is_valid
                /\ \A j \in @ .. (i - 1) : ~ level.order_entries[j].is_valid]

\* What remove_order and pop_front_order_if_filled share: entry i becomes a
\* tombstone, id leaves the map, the head moves on.
Bury(level, i, id) ==
    IncrementToValid(
        [level EXCEPT
            !.order_entries[i].is_valid = FALSE,
            !.orders_map = Restrict(@, DOMAIN @ \ {id})])

\* The entry of a removed order left valid
BugRemoveKeepsValid(level, id) ==
    IncrementToValid([level EXCEPT !.orders_map = Restrict(@, DOMAIN @ \ {id})])

\* PriceLevel::remove_order
RemoveEntry(level, id) ==
    IF id \in DOMAIN level.orders_map
    THEN Bury(level, level.orders_map[id], id)
    ELSE level

\* PriceLevel::pop_front_order_if_filled, where filled is the test on the
\* status of the front order.  The code erases _orders_map.find(front id)
\* unchecked: erasing end() is undefined, so callers must exclude
\* PopIsUndefined.
PopFrontIfFilled(level, filled) ==
    IF ~ Empty(level) /\ filled
    THEN Bury(level, level.queue_head_index, FrontOrder(level))
    ELSE level

PopIsUndefined(level, filled) ==
    ~ Empty(level) /\ filled /\ FrontOrder(level) \notin DOMAIN level.orders_map

\* PriceLevel::total_qty, where pool[id] is the order with that id
TotalQty(level, pool) ==
    MapThenSumSet(LAMBDA i : Available(pool[level.order_entries[i].order]),
                  {i \in DOMAIN level.order_entries : level.order_entries[i].is_valid})

=============================================================================
