------------------------------- MODULE Order -------------------------------
(***************************************************************************)
(* The Order class of include/order.h: the record an order book keeps for  *)
(* every order it ever accepted, and the transitions of that record.       *)
(*                                                                         *)
(* Left out: the instrument (constant within one book), the id (the index  *)
(* of the record, see OrderBook) and the two time stamps (written, and     *)
(* only ever printed).  Quantities are uint64_t in the code; the model     *)
(* uses unbounded integers, and NoOverfill of OrderBook (filled <=         *)
(* quantity) is why no subtraction or addition on them can wrap.           *)
(***************************************************************************)
EXTENDS Integers

OrderSide == {"BUY", "SELL"}

OrderStatus == {"NEW", "PARTIALLY_FILLED", "FULLY_FILLED", "CANCELLED"}

OrderRecord == [side : OrderSide, price : Int, quantity : Int,
                quantity_filled : Int, status : OrderStatus]

\* Order::Order, the content of a pool slot that was never handed out
DefaultOrder == [side |-> "BUY", price |-> 0, quantity |-> 0,
                 quantity_filled |-> 0, status |-> "NEW"]

\* Order::copy_from_client on such a slot.  The call assigns neither the fill nor
\* the status: it relies on slots never being handed out twice.
CopyFromClient(side, price, quantity) ==
    [DefaultOrder EXCEPT !.side = side, !.price = price, !.quantity = quantity]

\* What is left to fill, as match_orders and total_qty compute it.
Available(order) == order.quantity - order.quantity_filled

\* The status decided before the fill is added
BugStatusBeforeFill(order, fill_qty) ==
    [order EXCEPT
        !.quantity_filled = @ + fill_qty,
        !.status = IF order.quantity_filled = order.quantity
                   THEN "FULLY_FILLED" ELSE "PARTIALLY_FILLED"]

\* Order::match.  Its exception (a fill above the quantity) is excluded by
\* NoOverfill of OrderBook and by match_orders' choice of the fill quantity.
Match(order, fill_qty) ==
    [order EXCEPT
        !.quantity_filled = @ + fill_qty,
        !.status = IF order.quantity_filled + fill_qty = order.quantity
                   THEN "FULLY_FILLED" ELSE "PARTIALLY_FILLED"]

\* The test that guards Order::cancel and OrderBook::modify_order: a filled or
\* a cancelled order is past every further request.
Open(order) == order.status \notin {"FULLY_FILLED", "CANCELLED"}

\* Order::cancel on an open order.
Cancel(order) == [order EXCEPT !.status = "CANCELLED"]

\* Order::set_price and Order::set_quantity: neither touches fill or status.
SetPrice(order, price) == [order EXCEPT !.price = price]
SetQuantity(order, quantity) == [order EXCEPT !.quantity = quantity]

=============================================================================
