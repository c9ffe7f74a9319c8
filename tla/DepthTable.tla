----------------------------- MODULE DepthTable -----------------------------
(***************************************************************************)
(* What OrderBook (include/orderbook.h) tells the outside of its levels:   *)
(* get_best_bid and get_best_ask, get_total_bid_orders and                 *)
(* get_total_ask_orders, and the table that operator<< prints.             *)
(*                                                                         *)
(* Prices are whole hundredths, so price_to_string, which prints two       *)
(* decimals, tells any two of them apart.  Column widths are left out.     *)
(***************************************************************************)
EXTENDS OrderBook, SequencesExt

\* get_total_bid_orders and get_total_ask_orders
TotalOrders(side) ==
    MapThenSumSet(LAMBDA price : Size(levels[side][price]), DOMAIN levels[side])

\* get_best_bid and get_best_ask
GetBest(side) == IF DOMAIN levels[side] = {} THEN -1 ELSE Best(side)

\* The order of a side's map
Better(side, p, q) == IF side = "BUY" THEN p > q ELSE p < q

\* total_qty() reads the quantities of the level's valid entries through their
\* Order*: undefined for a table of a book whose pool has moved such an order.
\* The totals and the best prices look at no order.
PrintFault ==
    IF \E side \in OrderSide : \E price \in DOMAIN levels[side] :
            \E entry \in Range(levels[side][price].order_entries) :
                entry.is_valid /\ entry.order \in stale
    THEN "use_after_free" ELSE "none"

\* The three cells a level fills in its row, provided PrintFault is "none".
\* size() counts the level's map, total_qty() walks its vector.
Cells(side, price) ==
    [price |-> price, size |-> Size(levels[side][price]),
     total_qty |-> TotalQty(levels[side][price], orders)]

Column(side) ==
    LET prices == CHOOSE s \in SetToSeqs(DOMAIN levels[side]) :
                    IsSorted(s, LAMBDA p, q : Better(side, p, q))
    IN  [i \in DOMAIN prices |-> Cells(side, prices[i])]

Blank == [price |-> -1, size |-> 0, total_qty |-> 0]

\* The rows of operator<<: as many as the longer side has levels, best prices
\* first; the shorter side's cells below its last level are blank.
Rows ==
    LET column == [side \in OrderSide |-> Column(side)]
        rows == Max({Len(column[side]) : side \in OrderSide})
    IN  [i \in 1 .. rows |->
            [side \in OrderSide |->
                IF i <= Len(column[side]) THEN column[side][i] ELSE Blank]]

-----------------------------------------------------------------------------
\* The registry's open orders at a price
OpenAt(side, price) ==
    {id \in DOMAIN orders :
        orders[id].side = side /\ orders[id].price = price /\ Open(orders[id])}

OpenDepth(side) ==
    {[price |-> price, size |-> Cardinality(OpenAt(side, price)),
      total_qty |-> MapThenSumSet(LAMBDA id : Available(orders[id]), OpenAt(side, price))] :
        price \in {p \in Prices : OpenAt(side, p) # {}}}

\* The book shows the open orders of its registry: the totals count them, the
\* best price is the best at which there are any, or -1, and, unless printing
\* reads freed memory, the table has per side one row for each price that has
\* any, with their number and what they have left, best price first and no blank
\* in between.  The levels that all this is read from keep tombstones, and count
\* in one container what they sum over another.  A book that has added no more
\* orders than its pool was built for prints from live memory.
DepthMatchesOpenOrders ==
    /\ \A side \in OrderSide :
            LET prices == {p \in Prices : OpenAt(side, p) # {}}
            IN  /\ TotalOrders(side) =
                        Cardinality({id \in DOMAIN orders :
                                        orders[id].side = side /\ Open(orders[id])})
                /\ IF prices = {}
                   THEN GetBest(side) = -1
                   ELSE /\ GetBest(side) \in prices
                        /\ \A p \in prices : ~ Better(side, p, GetBest(side))
    /\ PrintFault = "none" =>
            LET rows == Rows
            IN  \A side \in OrderSide :
                    LET open == OpenDepth(side)
                        shown == {i \in DOMAIN rows : rows[i][side] # Blank}
                    IN  /\ shown = 1 .. Cardinality(open)
                        /\ {rows[i][side] : i \in shown} = open
                        /\ \A i, j \in shown :
                                i < j => Better(side, rows[i][side].price,
                                                      rows[j][side].price)
    /\ Len(orders) <= PoolReserve => PrintFault = "none"

=============================================================================
