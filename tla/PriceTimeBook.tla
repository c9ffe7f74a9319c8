--------------------------- MODULE PriceTimeBook ---------------------------
(***************************************************************************)
(* What an order book promises: orders rest in one first-in first-out      *)
(* queue per side and price; an order keeps its place unless its price     *)
(* changes or its quantity grows; a trade is always between the orders     *)
(* that have waited longest at the highest bid and at the lowest ask, only *)
(* when that bid is at least that ask, and for as much as both can trade.  *)
(* When trades happen is left open.                                        *)
(***************************************************************************)
EXTENDS Order, Sequences, FiniteSetsExt

CONSTANTS Prices, Quantities

VARIABLES
    orders,   \* every order ever accepted, by id
    queue     \* queue[side][price]: ids of the open orders, oldest first

ptVars == <<orders, queue>>

\* q once id has left it and those behind id have moved up
Without(q, id) ==
    LET place == CHOOSE i \in DOMAIN q : q[i] = id
    IN  [i \in 1 .. Len(q) - 1 |-> IF i < place THEN q[i] ELSE q[i + 1]]

Init ==
    /\ orders = <<>>
    /\ queue = [side \in OrderSide |-> [price \in Prices |-> <<>>]]

Submit(side, price, quantity) ==
    /\ orders' = Append(orders, CopyFromClient(side, price, quantity))
    /\ queue' = [queue EXCEPT ![side][price] = Append(@, Len(orders) + 1)]

Withdraw(id) ==
    LET order == orders[id]
    IN  /\ Open(order)
        /\ orders' = [orders EXCEPT ![id] = Cancel(@)]
        /\ queue' = [queue EXCEPT ![order.side][order.price] = Without(@, id)]

\* Priority survives an amendment only if the price stays and the quantity
\* does not grow.
Amend(id, price, quantity) ==
    LET order == orders[id]
        left  == [queue EXCEPT ![order.side][order.price] = Without(@, id)]
    IN  /\ Open(order)
        /\ quantity > order.quantity_filled
        /\ orders' = [orders EXCEPT ![id] =
                        SetQuantity(SetPrice(@, price), quantity)]
        /\ queue' = IF price = order.price /\ quantity <= order.quantity
                    THEN queue
                    ELSE [left EXCEPT ![order.side][price] = Append(@, id)]

PricesOf(side) == {price \in Prices : queue[side][price] # <<>>}

Trade ==
    /\ PricesOf("BUY") # {} /\ PricesOf("SELL") # {}
    /\ LET bid  == Max(PricesOf("BUY"))
           ask  == Min(PricesOf("SELL"))
           buyer  == Head(queue["BUY"][bid])
           seller == Head(queue["SELL"][ask])
           qty  == Min({Available(orders[buyer]), Available(orders[seller])})
           after(id) == Match(orders[id], qty)
           rest(q) == IF Open(after(Head(q))) THEN q ELSE Tail(q)
       IN  /\ bid >= ask
           /\ orders' = [orders EXCEPT ![buyer] = after(buyer),
                                       ![seller] = after(seller)]
           /\ queue' = [queue EXCEPT !["BUY"][bid] = rest(@),
                                     !["SELL"][ask] = rest(@)]

Next ==
    \/ \E side \in OrderSide, price \in Prices, quantity \in Quantities :
            Submit(side, price, quantity)
    \/ \E id \in DOMAIN orders : Withdraw(id)
    \/ \E id \in DOMAIN orders, price \in Prices, quantity \in Quantities :
            Amend(id, price, quantity)
    \/ Trade

Spec == Init /\ [][Next]_ptVars

=============================================================================
