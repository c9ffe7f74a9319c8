-------------------------- MODULE OrderBookProofs --------------------------
(***************************************************************************)
(* The invariants and action properties of module OrderBook, for every set *)
(* of prices and quantities and any number of orders: registry, price      *)
(* levels and their tombstones stay consistent, no order is overfilled,    *)
(* closed orders stay closed, the front of a level is its oldest order,    *)
(* and what could trade has traded.                                        *)
(*                                                                         *)
(* The invariant is stated with the registry (os) and one side's map of    *)
(* levels (sl) as parameters, so that the lemmas can relate the values     *)
(* before and after a step: first what the operations do to one level,     *)
(* then to one side, then each action.                                     *)
(***************************************************************************)
EXTENDS OrderBook, LevelProofs

OrdersAt(P) == [side : OrderSide, price : P, quantity : Nat,
                quantity_filled : Nat, status : OrderStatus]

\* An order record is made of its fields.
LEMMA OrderFields ==
    ASSUME NEW P, NEW o \in OrdersAt(P)
    PROVE  o = [side |-> o.side, price |-> o.price, quantity |-> o.quantity,
                quantity_filled |-> o.quantity_filled, status |-> o.status]
  BY Z3T(20) DEF OrdersAt

USE PricesAssumption, QuantitiesAssumption, BoundsAssumption


\* The best price of a side that has levels is the price of one of them.
LEMMA BestIsLevel ==
    ASSUME NEW side \in OrderSide, DOMAIN levels[side] \subseteq Prices,
           DOMAIN levels[side] # {}
    PROVE  Best(side) \in DOMAIN levels[side]
  <1> DEFINE D == DOMAIN levels[side]
  <1>1. D \in SUBSET Nat /\ IsFiniteSet(D)
    BY FS_Subset
  <1>2. Min(D) \in D
    BY <1>1, LeastNat DEF Min
  <1>3. Max(D) \in D
    <2>1. PICK x \in D : \A y \in D : y <= x
      BY <1>1, GreatestNat
    <2>2. \A y \in D : x >= y
      BY <1>1, <2>1
    <2> QED BY <2>2 DEF Max
  <1> QED BY <1>2, <1>3 DEF Best

-----------------------------------------------------------------------------
(***************************************************************************)
(* One price level                                                         *)
(***************************************************************************)

EntryRecord == [order : OrderIds, is_valid : BOOLEAN]

IsLevel(level) ==
    /\ DOMAIN level = {"order_entries", "queue_head_index", "orders_map"}
    /\ level.order_entries \in Seq(EntryRecord)
    /\ level.queue_head_index \in Nat \ {0}

\* The map of a level: orders that rest at this side and price, each with a
\* valid entry that the head has not passed.
MapOK(level, os, side, price) ==
    \A id \in DOMAIN level.orders_map :
        /\ id \in DOMAIN os /\ id \in OrderIds
        /\ os[id].side = side /\ os[id].price = price /\ Open(os[id])
        /\ level.orders_map[id] \in DOMAIN level.order_entries
        /\ level.order_entries[level.orders_map[id]] =
                [order |-> id, is_valid |-> TRUE]
        /\ level.queue_head_index <= level.orders_map[id]

FilledIn(os, id) == id \in DOMAIN os /\ Filled(os[id])

\* The entries of a level: a valid one that is not in the map is filled.
EntriesOK(level, os) ==
    \A i \in DOMAIN level.order_entries :
        level.order_entries[i].is_valid =>
            \/ /\ level.order_entries[i].order \in DOMAIN level.orders_map
               /\ level.orders_map[level.order_entries[i].order] = i
            \/ FilledIn(os, level.order_entries[i].order)

\* The head of a level: an order that is queued, filled, or one of S, the
\* order that modify_order has taken out and is about to put back.
HeadOK(level, os, S) ==
    /\ level.queue_head_index \in DOMAIN level.order_entries
    /\ \/ FrontOrder(level) \in DOMAIN level.orders_map \cup S
       \/ FilledIn(os, FrontOrder(level))

LevelInv(level, os, side, price) ==
    IsLevel(level) /\ MapOK(level, os, side, price) /\ EntriesOK(level, os)

\* What every step leaves alone: filled orders stay filled, and the open orders
\* of a side, except id, stay open where they are.
Progress(os, os2, side, id) ==
    /\ DOMAIN os \subseteq DOMAIN os2
    /\ \A x \in DOMAIN os :
        /\ Filled(os[x]) => Filled(os2[x])
        /\ x # id /\ os[x].side = side /\ Open(os[x]) =>
            os2[x].side = side /\ os2[x].price = os[x].price /\ Open(os2[x])

\* A level that is not touched, while the registry moves on.
LEMMA LevelKept ==
    ASSUME NEW level, NEW os, NEW os2, NEW side, NEW price, NEW id, NEW S,
           LevelInv(level, os, side, price), Progress(os, os2, side, id),
           id \notin DOMAIN level.orders_map
    PROVE  /\ LevelInv(level, os2, side, price)
           /\ HeadOK(level, os, S) => HeadOK(level, os2, S)
  <1>1. \A x : FilledIn(os, x) => FilledIn(os2, x)
    BY DEF Progress, FilledIn
  <1>2. MapOK(level, os2, side, price)
    BY DEF LevelInv, MapOK, Progress
  <1>3. EntriesOK(level, os2)
    BY <1>1 DEF LevelInv, EntriesOK
  <1> QED BY <1>1, <1>2, <1>3 DEF LevelInv, HeadOK

\* A level that try_emplace constructs.
LEMMA EmptyLevelInv ==
    ASSUME NEW os, NEW side, NEW price
    PROVE  LevelInv(EmptyLevel, os, side, price) /\ Len(EmptyLevel.order_entries) = 0
  BY DEF LevelInv, IsLevel, MapOK, EntriesOK, EmptyLevel, EntryRecord

\* An open order that is not queued yet, and the level at its price, which is
\* new or has a head that is in order.
CanAdd(level, os, side, price, id) ==
    /\ LevelInv(level, os, side, price)
    /\ level = EmptyLevel \/ HeadOK(level, os, {id})
    /\ id \notin DOMAIN level.orders_map
    /\ id \in OrderIds /\ id \in DOMAIN os
    /\ os[id].side = side /\ os[id].price = price /\ Open(os[id])

\* PriceLevel::add_order
LEMMA AddEntryInv ==
    ASSUME NEW level, NEW os, NEW side, NEW price, NEW id,
           CanAdd(level, os, side, price, id), NEW lv, lv = AddEntry(level, id)
    PROVE  /\ LevelInv(lv, os, side, price) /\ HeadOK(lv, os, {})
           /\ DOMAIN lv.orders_map = DOMAIN level.orders_map \cup {id}
           /\ Len(lv.order_entries) = Len(level.order_entries) + 1
  <1> DEFINE e == level.order_entries
             h == level.queue_head_index
             entry == [order |-> id, is_valid |-> TRUE]
  <1> USE DEF CanAdd
  <1>1. /\ IsLevel(lv) /\ lv.queue_head_index = h
        /\ lv.order_entries = Append(e, entry)
        /\ DOMAIN lv.orders_map = DOMAIN level.orders_map \cup {id}
        /\ \A x \in DOMAIN lv.orders_map :
            lv.orders_map[x] = IF x = id THEN Len(e) + 1 ELSE level.orders_map[x]
    BY DEF LevelInv, IsLevel, AddEntry, EntryRecord
  <1>2. /\ e \in Seq(EntryRecord) /\ h \in Nat \ {0} /\ entry \in EntryRecord
        /\ DOMAIN e = 1 .. Len(e) /\ Len(e) \in Nat
    BY DEF LevelInv, IsLevel, EntryRecord
  <1>3. /\ DOMAIN lv.order_entries = 1 .. Len(e) + 1
        /\ Len(lv.order_entries) = Len(e) + 1
        /\ \A i \in 1 .. Len(e) : lv.order_entries[i] = e[i]
        /\ lv.order_entries[Len(e) + 1] = entry
    BY <1>1, <1>2
  <1>4. h <= Len(e) + 1
    BY <1>2 DEF HeadOK, EmptyLevel
  <1>5. MapOK(lv, os, side, price)
    <2> SUFFICES ASSUME NEW x \in DOMAIN lv.orders_map
                 PROVE  /\ x \in DOMAIN os /\ x \in OrderIds
                        /\ os[x].side = side /\ os[x].price = price /\ Open(os[x])
                        /\ lv.orders_map[x] \in DOMAIN lv.order_entries
                        /\ lv.order_entries[lv.orders_map[x]] =
                                [order |-> x, is_valid |-> TRUE]
                        /\ lv.queue_head_index <= lv.orders_map[x]
      BY DEF MapOK
    <2>1. CASE x = id
      BY <2>1, <1>1, <1>2, <1>3, <1>4
    <2>2. CASE x # id
      <3>1. x \in DOMAIN level.orders_map /\ lv.orders_map[x] = level.orders_map[x]
        BY <2>2, <1>1
      <3>2. level.orders_map[x] \in 1 .. Len(e)
        BY <3>1, <1>2 DEF LevelInv, MapOK
      <3> QED BY <3>1, <3>2, <1>1, <1>2, <1>3 DEF LevelInv, MapOK
    <2> QED BY <2>1, <2>2
  <1>6. EntriesOK(lv, os)
    <2> SUFFICES ASSUME NEW i \in DOMAIN lv.order_entries,
                        lv.order_entries[i].is_valid
                 PROVE  \/ /\ lv.order_entries[i].order \in DOMAIN lv.orders_map
                           /\ lv.orders_map[lv.order_entries[i].order] = i
                        \/ FilledIn(os, lv.order_entries[i].order)
      BY DEF EntriesOK
    <2>1. CASE i = Len(e) + 1
      BY <2>1, <1>1, <1>3
    <2>2. CASE i \in 1 .. Len(e)
      BY <2>2, <1>1, <1>2, <1>3 DEF LevelInv, EntriesOK
    <2> QED BY <2>1, <2>2, <1>2, <1>3
  <1>7. HeadOK(lv, os, {})
    <2>1. CASE level = EmptyLevel
      <3>1. Len(e) = 0 /\ h = 1
        BY <2>1 DEF EmptyLevel
      <3> QED BY <3>1, <1>1, <1>3 DEF HeadOK, FrontOrder
    <2>2. CASE HeadOK(level, os, {id})
      <3>1. h \in 1 .. Len(e) /\ lv.order_entries[h] = e[h]
        BY <2>2, <1>2, <1>3 DEF HeadOK
      <3> QED BY <2>2, <3>1, <1>1, <1>2, <1>3 DEF HeadOK, FrontOrder
    <2> QED BY <2>1, <2>2
  <1> QED BY <1>1, <1>3, <1>5, <1>6, <1>7 DEF LevelInv

LEMMA IsLevelWith == ASSUME NEW level PROVE IsLevel(level) <=> LevelWith(OrderIds, level)
  BY DEF IsLevel, LevelWith, EntryRecord, Entries

\* What LevelProofs says of a level's fields, for the order ids of this book.
LEMMA BuriedFields ==
    ASSUME NEW level, IsLevel(level), NEW id, NEW i \in DOMAIN level.order_entries
    PROVE  LET lv == Buried(level, i, id)
           IN  /\ IsLevel(lv)
               /\ lv.queue_head_index = level.queue_head_index
               /\ DOMAIN lv.order_entries = DOMAIN level.order_entries
               /\ Len(lv.order_entries) = Len(level.order_entries)
               /\ ~ lv.order_entries[i].is_valid
               /\ \A j \in DOMAIN level.order_entries :
                    /\ lv.order_entries[j].order = level.order_entries[j].order
                    /\ j # i => lv.order_entries[j] = level.order_entries[j]
               /\ DOMAIN lv.orders_map = DOMAIN level.orders_map \ {id}
               /\ \A x \in DOMAIN lv.orders_map :
                    lv.orders_map[x] = level.orders_map[x]
  BY IsLevelWith, BuriedLevel

LEMMA IncrementFields ==
    ASSUME NEW level, IsLevel(level), ~ Empty(level),
           NEW k \in DOMAIN level.order_entries,
           level.order_entries[k].is_valid, level.queue_head_index <= k
    PROVE  LET lv == IncrementToValid(level)
           IN  /\ IsLevel(lv)
               /\ lv.order_entries = level.order_entries
               /\ lv.orders_map = level.orders_map
               /\ lv.queue_head_index \in DOMAIN level.order_entries
               /\ level.order_entries[lv.queue_head_index].is_valid
               /\ \A j \in DOMAIN level.order_entries :
                    level.order_entries[j].is_valid /\ level.queue_head_index <= j
                        => lv.queue_head_index <= j
  BY IsLevelWith, IncrementedLevel

\* Entry i as remove_order and pop_front_order_if_filled choose it: the one the
\* map has for id, or another one when id has just been filled.
CanBury(level, os2, i, id) ==
    /\ id \in DOMAIN level.orders_map /\ i \in DOMAIN level.order_entries
    /\ level.order_entries[i].order = id
    /\ i = level.orders_map[id] \/ FilledIn(os2, id)

\* A level from which id was taken, with id still at its head if it was emptied.
TakenFrom(level, lv, os2, side, price, id) ==
    /\ LevelInv(lv, os2, side, price)
    /\ HeadOK(lv, os2, IF Empty(lv) THEN {id} ELSE {})
    /\ DOMAIN lv.orders_map = DOMAIN level.orders_map \ {id}
    /\ Len(lv.order_entries) = Len(level.order_entries)

\* Bury keeps a level in order.
LEMMA BuryInv ==
    ASSUME NEW level, NEW os, NEW os2, NEW side, NEW price, NEW id, NEW i,
           LevelInv(level, os, side, price), HeadOK(level, os, {}),
           Progress(os, os2, side, id), CanBury(level, os2, i, id),
           NEW lv, lv = Bury(level, i, id)
    PROVE  TakenFrom(level, lv, os2, side, price, id)
  <1> USE DEF CanBury, TakenFrom
  <1> DEFINE b == Buried(level, i, id)
  <1>1. lv = IncrementToValid(b)
    BY DEF Bury, Buried
  <1>2. /\ IsLevel(b)
        /\ b.queue_head_index = level.queue_head_index
        /\ DOMAIN b.order_entries = DOMAIN level.order_entries
        /\ Len(b.order_entries) = Len(level.order_entries)
        /\ ~ b.order_entries[i].is_valid
        /\ \A j \in DOMAIN level.order_entries :
            /\ b.order_entries[j].order = level.order_entries[j].order
            /\ j # i => b.order_entries[j] = level.order_entries[j]
        /\ DOMAIN b.orders_map = DOMAIN level.orders_map \ {id}
        /\ \A x \in DOMAIN b.orders_map : b.orders_map[x] = level.orders_map[x]
    BY BuriedFields DEF LevelInv
  <1> HIDE DEF b
  <1>3. \A x : FilledIn(os, x) => FilledIn(os2, x)
    BY DEF Progress, FilledIn
  <1>4. MapOK(b, os2, side, price)
    <2> SUFFICES ASSUME NEW x \in DOMAIN b.orders_map
                 PROVE  /\ x \in DOMAIN os2 /\ x \in OrderIds
                        /\ os2[x].side = side /\ os2[x].price = price
                        /\ Open(os2[x])
                        /\ b.orders_map[x] \in DOMAIN b.order_entries
                        /\ b.order_entries[b.orders_map[x]] =
                                [order |-> x, is_valid |-> TRUE]
                        /\ b.queue_head_index <= b.orders_map[x]
      BY DEF MapOK
    <2>1. x \in DOMAIN level.orders_map /\ x # id /\ b.orders_map[x] = level.orders_map[x]
      BY <1>2
    <2>2. /\ x \in DOMAIN os /\ x \in OrderIds
          /\ os[x].side = side /\ os[x].price = price /\ Open(os[x])
          /\ level.orders_map[x] \in DOMAIN level.order_entries
          /\ level.order_entries[level.orders_map[x]] =
                [order |-> x, is_valid |-> TRUE]
          /\ level.queue_head_index <= level.orders_map[x]
      BY <2>1 DEF LevelInv, MapOK
    <2>3. level.orders_map[x] # i
      BY <2>1, <2>2
    <2>4. b.order_entries[b.orders_map[x]] = level.order_entries[level.orders_map[x]]
      BY <2>1, <2>2, <2>3, <1>2
    <2> QED BY <2>1, <2>2, <2>4, <1>2 DEF Progress
  <1>5. EntriesOK(b, os2)
    <2> SUFFICES ASSUME NEW j \in DOMAIN b.order_entries,
                        b.order_entries[j].is_valid
                 PROVE  \/ /\ b.order_entries[j].order \in DOMAIN b.orders_map
                           /\ b.orders_map[b.order_entries[j].order] = j
                        \/ FilledIn(os2, b.order_entries[j].order)
      BY DEF EntriesOK
    <2>1. j # i /\ j \in DOMAIN level.order_entries
            /\ b.order_entries[j] = level.order_entries[j]
      BY <1>2
    <2>2. CASE FilledIn(os, level.order_entries[j].order)
      BY <2>1, <2>2, <1>3
    <2>3. CASE /\ level.order_entries[j].order \in DOMAIN level.orders_map
               /\ level.orders_map[level.order_entries[j].order] = j
      BY <2>1, <2>3, <1>2
    <2> QED BY <2>1, <2>2, <2>3 DEF LevelInv, EntriesOK
  <1>6. CASE Empty(b)
    <2>1. lv = b
      BY <1>1, <1>6 DEF IncrementToValid
    <2>2. FrontOrder(b) = FrontOrder(level) /\ b.queue_head_index \in DOMAIN b.order_entries
      BY <1>2 DEF HeadOK, FrontOrder
    <2>3. HeadOK(b, os2, {id})
      BY <2>2, <1>2, <1>3 DEF HeadOK
    <2> QED BY <1>2, <1>4, <1>5, <1>6, <2>1, <2>3 DEF LevelInv
  <1>7. CASE ~ Empty(b)
    <2>1. PICK x \in DOMAIN b.orders_map : TRUE
      BY <1>7 DEF Empty
    <2>2. \A y \in DOMAIN b.orders_map :
            /\ b.orders_map[y] \in DOMAIN b.order_entries
            /\ b.order_entries[b.orders_map[y]].is_valid
            /\ b.queue_head_index <= b.orders_map[y]
      <3> SUFFICES ASSUME NEW y \in DOMAIN b.orders_map
                   PROVE  /\ b.orders_map[y] \in DOMAIN b.order_entries
                          /\ b.order_entries[b.orders_map[y]].is_valid
                          /\ b.queue_head_index <= b.orders_map[y]
        OBVIOUS
      <3>1. /\ b.order_entries[b.orders_map[y]] = [order |-> y, is_valid |-> TRUE]
            /\ b.orders_map[y] \in DOMAIN b.order_entries
            /\ b.queue_head_index <= b.orders_map[y]
        BY <1>4 DEF MapOK
      <3>2. b.order_entries[b.orders_map[y]].is_valid = TRUE
        BY <3>1
      <3> QED BY <3>1, <3>2
    <2>3. /\ IsLevel(lv) /\ lv.order_entries = b.order_entries
          /\ lv.orders_map = b.orders_map
          /\ lv.queue_head_index \in DOMAIN b.order_entries
          /\ b.order_entries[lv.queue_head_index].is_valid
          /\ \A j \in DOMAIN b.order_entries :
                b.order_entries[j].is_valid /\ b.queue_head_index <= j
                    => lv.queue_head_index <= j
      <3> DEFINE k == b.orders_map[x]
      <3>1. /\ k \in DOMAIN b.order_entries /\ b.order_entries[k].is_valid
            /\ b.queue_head_index <= k
        BY <2>1, <2>2
      <3> HIDE DEF k
      <3> QED BY <1>1, <1>2, <1>7, <3>1, IncrementFields
    <2>4. MapOK(lv, os2, side, price)
      <3>1. \A y \in DOMAIN lv.orders_map : lv.queue_head_index <= lv.orders_map[y]
        BY <2>2, <2>3
      <3> SUFFICES ASSUME NEW y \in DOMAIN lv.orders_map
                   PROVE  /\ y \in DOMAIN os2 /\ y \in OrderIds
                          /\ os2[y].side = side /\ os2[y].price = price
                          /\ Open(os2[y])
                          /\ lv.orders_map[y] \in DOMAIN lv.order_entries
                          /\ lv.order_entries[lv.orders_map[y]] =
                                [order |-> y, is_valid |-> TRUE]
                          /\ lv.queue_head_index <= lv.orders_map[y]
        BY DEF MapOK
      <3>2. /\ y \in DOMAIN os2 /\ y \in OrderIds
            /\ os2[y].side = side /\ os2[y].price = price /\ Open(os2[y])
            /\ b.orders_map[y] \in DOMAIN b.order_entries
            /\ b.order_entries[b.orders_map[y]] = [order |-> y, is_valid |-> TRUE]
        BY <1>4, <2>3 DEF MapOK
      <3> QED BY <2>3, <3>1, <3>2
    <2>5. EntriesOK(lv, os2)
      BY <1>5, <2>3 DEF EntriesOK
    <2>6. HeadOK(lv, os2, {}) /\ HeadOK(lv, os2, {id})
      BY <1>5, <2>3 DEF EntriesOK, HeadOK, FrontOrder
    <2> QED BY <1>2, <2>3, <2>4, <2>5, <2>6 DEF LevelInv
  <1> QED BY <1>6, <1>7

-----------------------------------------------------------------------------
(***************************************************************************)
(* One side of the book                                                    *)
(***************************************************************************)

\* The levels of a side.  Between taking an order out and removing an emptied
\* level, the level at a price of E may be empty with id still at its head.
SideLevels(sl, os, side, id, E) ==
    /\ DOMAIN sl \subseteq Prices
    /\ \A p \in DOMAIN sl :
        /\ LevelInv(sl[p], os, side, p)
        /\ HeadOK(sl[p], os, IF Empty(sl[p]) THEN {id} ELSE {})
        /\ Len(sl[p].order_entries) <= MaxEntries
        /\ p \notin E => ~ Empty(sl[p])

\* Every open order of the side, except id, is queued at its price.
SideQueued(sl, os, side, id) ==
    \A x \in DOMAIN os :
        x # id /\ os[x].side = side /\ Open(os[x]) =>
            os[x].price \in DOMAIN sl /\ x \in DOMAIN sl[os[x].price].orders_map

NowhereQueued(sl, id) == \A p \in DOMAIN sl : id \notin DOMAIN sl[p].orders_map

\* 0 is no order id.
SideInv(sl, os, side) ==
    SideLevels(sl, os, side, 0, {}) /\ SideQueued(sl, os, side, 0)

\* No order of the side, except id, becomes open.
NoneOpened(os, os2, side, id) ==
    \A x \in DOMAIN os2 :
        x # id /\ os2[x].side = side /\ Open(os2[x]) =>
            x \in DOMAIN os /\ os[x].side = side /\ Open(os[x])

\* A side that is not touched, while the registry moves on.
LEMMA SideKept ==
    ASSUME NEW sl, NEW os, NEW os2, NEW side, NEW id,
           0 \notin DOMAIN os, SideInv(sl, os, side), NowhereQueued(sl, id),
           Progress(os, os2, side, id), NoneOpened(os, os2, side, id)
    PROVE  SideLevels(sl, os2, side, 0, {}) /\ SideQueued(sl, os2, side, id)
  <1>1. SideLevels(sl, os2, side, 0, {})
    <2> SUFFICES ASSUME NEW p \in DOMAIN sl
                 PROVE  /\ LevelInv(sl[p], os2, side, p)
                        /\ HeadOK(sl[p], os2, IF Empty(sl[p]) THEN {0} ELSE {})
      BY DEF SideInv, SideLevels
    <2>1. /\ LevelInv(sl[p], os, side, p) /\ id \notin DOMAIN sl[p].orders_map
          /\ HeadOK(sl[p], os, IF Empty(sl[p]) THEN {0} ELSE {})
      BY DEF SideInv, SideLevels, NowhereQueued
    <2> QED BY <2>1, LevelKept
  <1>2. SideQueued(sl, os2, side, id)
    <2> SUFFICES ASSUME NEW x \in DOMAIN os2,
                        x # id, os2[x].side = side, Open(os2[x])
                 PROVE  /\ os2[x].price \in DOMAIN sl
                        /\ x \in DOMAIN sl[os2[x].price].orders_map
      BY DEF SideQueued
    <2>1. x \in DOMAIN os /\ os[x].side = side /\ Open(os[x])
      BY DEF NoneOpened
    <2>2. os2[x].price = os[x].price
      BY <2>1 DEF Progress
    <2> QED BY <2>1, <2>2 DEF SideInv, SideQueued
  <1> QED BY <1>1, <1>2

\* A side from which id was taken, with the level at price maybe left empty.
SideWithout(sl, rem, os2, side, id, price) ==
    /\ SideLevels(rem, os2, side, id, {price})
    /\ SideQueued(rem, os2, side, id)
    /\ NowhereQueued(rem, id)
    /\ DOMAIN rem = DOMAIN sl
    /\ \A p \in DOMAIN sl :
        Len(rem[p].order_entries) = Len(sl[p].order_entries)

\* Bury on the level at price.
LEMMA TakenOut ==
    ASSUME NEW sl, NEW os, NEW os2, NEW side, NEW id, NEW price \in DOMAIN sl, NEW i,
           0 \notin DOMAIN os, SideInv(sl, os, side),
           CanBury(sl[price], os2, i, id),
           Progress(os, os2, side, id), NoneOpened(os, os2, side, id),
           NEW rem, rem = [sl EXCEPT ![price] = Bury(@, i, id)]
    PROVE  SideWithout(sl, rem, os2, side, id, price)
  <1> DEFINE lv == Bury(sl[price], i, id)
  <1>1. /\ DOMAIN rem = DOMAIN sl /\ rem[price] = lv
        /\ \A p \in DOMAIN sl : p # price => rem[p] = sl[p]
    OBVIOUS
  <1>2. /\ \A p \in DOMAIN sl : LevelInv(sl[p], os, side, p) /\ ~ Empty(sl[p])
        /\ \A p \in DOMAIN sl : HeadOK(sl[p], os, {})
        /\ \A p \in DOMAIN sl : Len(sl[p].order_entries) <= MaxEntries
        /\ DOMAIN sl \subseteq Prices
    BY DEF SideInv, SideLevels
  <1>3. TakenFrom(sl[price], lv, os2, side, price, id)
    <2> DEFINE level == sl[price]
    <2>1. LevelInv(level, os, side, price) /\ HeadOK(level, os, {})
      BY <1>2
    <2>2. CanBury(level, os2, i, id)
      OBVIOUS
    <2>3. lv = Bury(level, i, id)
      OBVIOUS
    <2> HIDE DEF level, lv
    <2>4. TakenFrom(level, lv, os2, side, price, id)
      BY <2>1, <2>2, <2>3, BuryInv
    <2> QED BY <2>4 DEF level
  <1>4. id \in DOMAIN os /\ os[id].price = price
    <2>1. LevelInv(sl[price], os, side, price)
      BY <1>2
    <2> QED BY <2>1 DEF LevelInv, MapOK, CanBury
  <1>5. ASSUME NEW p \in DOMAIN sl, p # price
        PROVE  /\ id \notin DOMAIN sl[p].orders_map
               /\ LevelInv(sl[p], os2, side, p) /\ HeadOK(sl[p], os2, {})
    <2>1. LevelInv(sl[p], os, side, p) /\ HeadOK(sl[p], os, {})
      BY <1>2
    <2>2. id \notin DOMAIN sl[p].orders_map
      BY <2>1, <1>4, <1>5 DEF LevelInv, MapOK
    <2> QED BY <2>1, <2>2, LevelKept
  <1> HIDE DEF lv
  <1> USE DEF TakenFrom
  <1>6. SideLevels(rem, os2, side, id, {price})
    <2> SUFFICES ASSUME NEW p \in DOMAIN sl
                 PROVE  /\ LevelInv(rem[p], os2, side, p)
                        /\ HeadOK(rem[p], os2, IF Empty(rem[p]) THEN {id} ELSE {})
                        /\ Len(rem[p].order_entries) <= MaxEntries
                        /\ p # price => ~ Empty(rem[p])
      BY <1>1, <1>2 DEF SideLevels
    <2>1. CASE p = price
      BY <2>1, <1>1, <1>2, <1>3
    <2>2. CASE p # price
      BY <2>2, <1>1, <1>2, <1>5
    <2> QED BY <2>1, <2>2
  <1>7. SideQueued(rem, os2, side, id)
    <2> SUFFICES ASSUME NEW x \in DOMAIN os2,
                        x # id, os2[x].side = side, Open(os2[x])
                 PROVE  /\ os2[x].price \in DOMAIN rem
                        /\ x \in DOMAIN rem[os2[x].price].orders_map
      BY DEF SideQueued
    <2>1. x \in DOMAIN os /\ os[x].side = side /\ Open(os[x])
      BY DEF NoneOpened
    <2>2. os2[x].price = os[x].price
      BY <2>1 DEF Progress
    <2>3. os[x].price \in DOMAIN sl /\ x \in DOMAIN sl[os[x].price].orders_map
      BY <2>1 DEF SideInv, SideQueued
    <2> QED BY <2>2, <2>3, <1>1, <1>3
  <1>8. NowhereQueued(rem, id)
    BY <1>1, <1>3, <1>5 DEF NowhereQueued
  <1>9. \A p \in DOMAIN sl : Len(rem[p].order_entries) = Len(sl[p].order_entries)
    BY <1>1, <1>3
  <1> QED BY <1>1, <1>6, <1>7, <1>8, <1>9 DEF SideWithout

\* try_emplace and add_order for an open order that is not queued yet.
LEMMA PutIn ==
    ASSUME NEW sl, NEW os, NEW side, NEW id \in OrderIds, NEW price \in Prices, NEW E,
           SideLevels(sl, os, side, id, E), SideQueued(sl, os, side, id),
           NowhereQueued(sl, id),
           id \in DOMAIN os, os[id].side = side, os[id].price = price, Open(os[id]),
           price \in DOMAIN sl => Len(sl[price].order_entries) < MaxEntries
    PROVE  LET new == Enqueue(sl, price, id)
           IN  /\ SideLevels(new, os, side, id, E)
               /\ SideQueued(new, os, side, 0)
               /\ ~ Empty(new[price])
  <1> DEFINE new == Enqueue(sl, price, id)
             level == IF price \in DOMAIN sl THEN sl[price] ELSE EmptyLevel
             lv == AddEntry(level, id)
  <1>1. /\ DOMAIN new = DOMAIN sl \cup {price} /\ new[price] = lv
        /\ \A p \in DOMAIN sl : p # price => new[p] = sl[p]
    BY DEF Enqueue
  <1>2. /\ LevelInv(level, os, side, price) /\ id \notin DOMAIN level.orders_map
        /\ level = EmptyLevel \/ HeadOK(level, os, {id})
        /\ Len(level.order_entries) + 1 <= MaxEntries
    <2>1. CASE price \in DOMAIN sl
      <3>1. /\ level = sl[price] /\ LevelInv(level, os, side, price)
            /\ HeadOK(level, os, IF Empty(level) THEN {id} ELSE {})
            /\ Len(level.order_entries) < MaxEntries
        BY <2>1 DEF SideLevels
      <3>2. HeadOK(level, os, {id})
        BY <3>1 DEF HeadOK
      <3>3. Len(level.order_entries) \in Nat
        BY <3>1 DEF LevelInv, IsLevel
      <3> QED BY <2>1, <3>1, <3>2, <3>3 DEF NowhereQueued
    <2>2. CASE price \notin DOMAIN sl
      <3>1. level = EmptyLevel
        BY <2>2
      <3>2. DOMAIN EmptyLevel.orders_map = {}
        BY DEF EmptyLevel
      <3> QED BY <3>1, <3>2, EmptyLevelInv
    <2> QED BY <2>1, <2>2
  <1> HIDE DEF level
  <1>3. /\ LevelInv(lv, os, side, price) /\ HeadOK(lv, os, {})
        /\ DOMAIN lv.orders_map = DOMAIN level.orders_map \cup {id}
        /\ Len(lv.order_entries) <= MaxEntries
    <2>1. lv = AddEntry(level, id)
      OBVIOUS
    <2> HIDE DEF lv
    <2>2. /\ LevelInv(lv, os, side, price) /\ HeadOK(lv, os, {})
          /\ DOMAIN lv.orders_map = DOMAIN level.orders_map \cup {id}
          /\ Len(lv.order_entries) = Len(level.order_entries) + 1
      <3>1. CanAdd(level, os, side, price, id)
        BY <1>2 DEF CanAdd
      <3> QED BY <2>1, <3>1, AddEntryInv
    <2> QED BY <1>2, <2>2
  <1>4. ~ Empty(lv)
    BY <1>3 DEF Empty
  <1> HIDE DEF new, lv
  <1>5. SideLevels(new, os, side, id, E)
    <2> SUFFICES ASSUME NEW p \in DOMAIN new
                 PROVE  /\ LevelInv(new[p], os, side, p)
                        /\ HeadOK(new[p], os, IF Empty(new[p]) THEN {id} ELSE {})
                        /\ Len(new[p].order_entries) <= MaxEntries
                        /\ p \notin E => ~ Empty(new[p])
      BY <1>1 DEF SideLevels
    <2>1. CASE p = price
      BY <2>1, <1>1, <1>3, <1>4
    <2>2. CASE p # price
      BY <2>2, <1>1 DEF SideLevels
    <2> QED BY <2>1, <2>2
  <1>6. SideQueued(new, os, side, 0)
    <2> SUFFICES ASSUME NEW x \in DOMAIN os, os[x].side = side, Open(os[x])
                 PROVE  /\ os[x].price \in DOMAIN new
                        /\ x \in DOMAIN new[os[x].price].orders_map
      BY DEF SideQueued
    <2>1. CASE x = id
      BY <2>1, <1>1, <1>3
    <2>2. CASE x # id
      <3>1. os[x].price \in DOMAIN sl /\ x \in DOMAIN sl[os[x].price].orders_map
        BY <2>2 DEF SideQueued
      <3> QED BY <3>1, <1>1, <1>3 DEF level
    <2> QED BY <2>1, <2>2
  <1> QED BY <1>1, <1>4, <1>5, <1>6 DEF new

\* remove_price_level_if_empty at the one price where a level may be empty.
LEMMA Pruned ==
    ASSUME NEW sl, NEW os, NEW side, NEW id, NEW x, NEW price,
           SideLevels(sl, os, side, id, {price}), SideQueued(sl, os, side, x)
    PROVE  LET new == RemovePriceLevelIfEmpty(sl, price)
           IN  SideLevels(new, os, side, 0, {}) /\ SideQueued(new, os, side, x)
  <1> DEFINE new == RemovePriceLevelIfEmpty(sl, price)
  <1>1. /\ DOMAIN new = {p \in DOMAIN sl : p = price => ~ Empty(sl[p])}
        /\ \A p \in DOMAIN new : p \in DOMAIN sl /\ new[p] = sl[p]
    BY DEF RemovePriceLevelIfEmpty
  <1> HIDE DEF new
  <1>2. \A p \in DOMAIN new : ~ Empty(sl[p])
    BY <1>1 DEF SideLevels
  <1>3. SideLevels(new, os, side, 0, {})
    BY <1>1, <1>2 DEF SideLevels
  <1>4. SideQueued(new, os, side, x)
    BY <1>1 DEF SideQueued, Empty
  <1> QED BY <1>3, <1>4 DEF new

-----------------------------------------------------------------------------
(***************************************************************************)
(* Single orders, and requests that change one of them                     *)
(***************************************************************************)

OrderInv(o) ==
    /\ o \in [side : OrderSide, price : Prices, quantity : Nat,
              quantity_filled : Nat, status : OrderStatus]
    /\ o.quantity_filled <= o.quantity
    /\ Filled(o) => o.quantity_filled = o.quantity
    /\ Open(o) /\ o.quantity > 0 => o.quantity_filled < o.quantity

LEMMA OrderInvRecord ==
    ASSUME NEW o, OrderInv(o) PROVE o \in OrderRecord
  <1>1. o \in OrdersAt(Prices)
    BY DEF OrderInv, OrdersAt
  <1>2. /\ o.side \in OrderSide /\ o.price \in Int /\ o.quantity \in Nat
        /\ o.quantity_filled \in Nat /\ o.status \in OrderStatus
    <2>1. o.side \in OrderSide /\ o.price \in Prices /\ o.status \in OrderStatus
      BY <1>1 DEF OrdersAt
    <2>2. o.quantity \in Nat /\ o.quantity_filled \in Nat
      BY <1>1 DEF OrdersAt
    <2>3. \A p \in Prices : p \in Int
      OBVIOUS
    <2> QED BY <2>1, <2>2, <2>3
  <1>3. o = [side |-> o.side, price |-> o.price, quantity |-> o.quantity,
             quantity_filled |-> o.quantity_filled, status |-> o.status]
    BY <1>1, OrderFields
  <1> QED BY <1>2, <1>3 DEF OrderRecord

LEMMA NewOrderInv ==
    ASSUME NEW side \in OrderSide, NEW price \in Prices, NEW quantity \in Quantities,
           NEW o, o = CopyFromClient(side, price, quantity)
    PROVE  OrderInv(o) /\ Open(o) /\ o.side = side /\ o.price = price
<1>1. o = [side |-> side, price |-> price, quantity |-> quantity,
           quantity_filled |-> 0, status |-> "NEW"]
  BY DEF DefaultOrder, CopyFromClient
<1> QED
  BY <1>1 DEF OrderInv, Filled, Open, OrderStatus

LEMMA CancelInv ==
    ASSUME NEW o, OrderInv(o), NEW o2, o2 = Cancel(o)
    PROVE  OrderInv(o2) /\ ~ Open(o2) /\ o2.side = o.side
  BY DEF OrderInv, Cancel, Filled, Open, OrderStatus

LEMMA AmendInv ==
    ASSUME NEW o, OrderInv(o), Open(o), NEW price \in Prices, NEW qty \in Quantities,
           qty > o.quantity_filled, NEW o2, o2 = SetQuantity(SetPrice(o, price), qty)
    PROVE  OrderInv(o2) /\ Open(o2) /\ o2.side = o.side /\ o2.price = price
  <1>1. /\ o2 \in [side : OrderSide, price : Prices, quantity : Nat,
                  quantity_filled : Nat, status : OrderStatus]
        /\ o2.side = o.side /\ o2.price = price /\ o2.quantity = qty
        /\ o2.quantity_filled = o.quantity_filled /\ o2.status = o.status
    BY DEF OrderInv, SetQuantity, SetPrice
  <1> QED BY <1>1 DEF OrderInv, Filled, Open

LEMMA MatchInv ==
    ASSUME NEW o, OrderInv(o), NEW q \in Nat, q <= Available(o),
           NEW o2, o2 = Match(o, q)
    PROVE  /\ OrderInv(o2) /\ o2.side = o.side /\ o2.price = o.price
           /\ Open(o2) <=> ~ Filled(o2)
  <1> DEFINE total == o.quantity_filled + q
             status == IF total = o.quantity THEN "FULLY_FILLED"
                                             ELSE "PARTIALLY_FILLED"
  <1>1. o.quantity \in Nat /\ o.quantity_filled \in Nat
    BY DEF OrderInv
  <1>2. total \in Nat /\ total <= o.quantity
    BY <1>1 DEF Available
  <1>3. /\ status \in OrderStatus
        /\ status = "FULLY_FILLED" <=> total = o.quantity
        /\ status = "FULLY_FILLED" \/ status = "PARTIALLY_FILLED"
    BY DEF OrderStatus
  <1>4. o2 = [o EXCEPT !.quantity_filled = total, !.status = status]
    BY DEF Match
  <1> HIDE DEF total, status
  <1>5. /\ o2 \in [side : OrderSide, price : Prices, quantity : Nat,
                  quantity_filled : Nat, status : OrderStatus]
        /\ o2.side = o.side /\ o2.price = o.price /\ o2.quantity = o.quantity
        /\ o2.quantity_filled = total /\ o2.status = status
    BY <1>2, <1>3, <1>4 DEF OrderInv
  <1> QED BY <1>1, <1>2, <1>3, <1>5 DEF OrderInv, Filled, Open

Registry(os) ==
    /\ os \in Seq(OrderRecord) /\ Len(os) <= MaxOrders
    /\ \A id \in DOMAIN os : OrderInv(os[id])

\* The registry and both side maps.
Book(os, ls) ==
    /\ Registry(os)
    /\ DOMAIN ls = OrderSide
    /\ \A side \in OrderSide : SideInv(ls[side], os, side)

\* os2 is os with the order id added, or changed while it was open.
OneOrder(os, os2, id) ==
    /\ DOMAIN os2 = DOMAIN os \cup {id}
    /\ \A x \in DOMAIN os : x # id => os2[x] = os[x]
    /\ id \in DOMAIN os => Open(os[id]) /\ os2[id].side = os[id].side

LEMMA OneOrderProgress ==
    ASSUME NEW os, NEW os2, NEW id, NEW side, OneOrder(os, os2, id)
    PROVE  Progress(os, os2, side, id) /\ NoneOpened(os, os2, side, id)
  BY DEF OneOrder, Progress, NoneOpened, Filled, Open

LEMMA RegistryDomain ==
    ASSUME NEW os, Registry(os)
    PROVE  /\ DOMAIN os \subseteq OrderIds /\ 0 \notin DOMAIN os
           /\ Len(os) \in Nat /\ DOMAIN os = 1 .. Len(os)
  BY DEF Registry, OrderIds

\* The other side of the book does not notice.
LEMMA OtherSide ==
    ASSUME NEW sl, NEW os, NEW os2, NEW id, NEW side,
           0 \notin DOMAIN os, SideInv(sl, os, side), OneOrder(os, os2, id),
           os2[id].side # side
    PROVE  SideInv(sl, os2, side)
  <1>1. Progress(os, os2, side, id) /\ NoneOpened(os, os2, side, id)
    BY OneOrderProgress
  <1>2. NowhereQueued(sl, id)
    <2> SUFFICES ASSUME NEW p \in DOMAIN sl, id \in DOMAIN sl[p].orders_map
                 PROVE  FALSE
      BY DEF NowhereQueued
    <2>1. LevelInv(sl[p], os, side, p)
      BY DEF SideInv, SideLevels
    <2>2. id \in DOMAIN os /\ os[id].side = side
      BY <2>1 DEF LevelInv, MapOK
    <2> QED BY <2>2 DEF OneOrder
  <1>3. SideLevels(sl, os2, side, 0, {}) /\ SideQueued(sl, os2, side, id)
    BY <1>1, <1>2, SideKept
  <1> QED BY <1>3 DEF SideInv, SideQueued

\* So it is enough to look at the order that changes and at its side.
LEMMA OneSide ==
    ASSUME NEW os, NEW os2, NEW ls, NEW id, NEW side \in OrderSide, NEW new,
           Book(os, ls), OneOrder(os, os2, id), OrderInv(os2[id]),
           os2[id].side = side, os2 \in Seq(OrderRecord), Len(os2) <= MaxOrders,
           SideInv(new, os2, side)
    PROVE  Book(os2, [ls EXCEPT ![side] = new])
  <1> DEFINE ls2 == [ls EXCEPT ![side] = new]
  <1>1. DOMAIN ls2 = OrderSide /\ ls2[side] = new
        /\ \A s \in OrderSide : s # side => ls2[s] = ls[s]
    BY DEF Book
  <1>2. Registry(os2)
    <2>1. \A x \in DOMAIN os2 : OrderInv(os2[x])
      BY DEF Book, Registry, OneOrder
    <2> QED BY <2>1 DEF Registry
  <1>3. ASSUME NEW s \in OrderSide, s # side
        PROVE  SideInv(ls[s], os2, s)
    <2> DEFINE sl == ls[s]
    <2>1. SideInv(sl, os, s) /\ 0 \notin DOMAIN os /\ os2[id].side # s
      BY <1>3, RegistryDomain DEF Book
    <2> HIDE DEF sl
    <2>2. SideInv(sl, os2, s)
      BY <2>1, OtherSide
    <2> QED BY <2>2 DEF sl
  <1> HIDE DEF ls2
  <1>4. Book(os2, ls2)
    BY <1>1, <1>2, <1>3 DEF Book
  <1> QED BY <1>4 DEF ls2

\* An open order is queued at its price.
LEMMA OpenIsQueued ==
    ASSUME NEW os, NEW ls, Book(os, ls), NEW id \in DOMAIN os, Open(os[id])
    PROVE  LET sl == ls[os[id].side]
               price == os[id].price
               i == sl[price].orders_map[id]
           IN  /\ os[id].side \in OrderSide /\ SideInv(sl, os, os[id].side)
               /\ price \in DOMAIN sl /\ id \in DOMAIN sl[price].orders_map
               /\ \A os2 : CanBury(sl[price], os2, i, id)
  <1> DEFINE side == os[id].side
             sl == ls[side]
             price == os[id].price
             level == sl[price]
  <1>1. side \in OrderSide /\ id # 0
    BY RegistryDomain DEF Book, Registry, OrderInv
  <1>2. SideInv(sl, os, side)
    BY <1>1 DEF Book
  <1>3. price \in DOMAIN sl /\ id \in DOMAIN level.orders_map
    BY <1>1, <1>2 DEF SideInv, SideQueued
  <1>4. MapOK(level, os, side, price)
    BY <1>2, <1>3 DEF SideInv, SideLevels, LevelInv
  <1> HIDE DEF level
  <1>5. /\ level.orders_map[id] \in DOMAIN level.order_entries
        /\ level.order_entries[level.orders_map[id]].order = id
    <2>1. /\ level.orders_map[id] \in DOMAIN level.order_entries
          /\ level.order_entries[level.orders_map[id]] =
                [order |-> id, is_valid |-> TRUE]
      BY <1>3, <1>4 DEF MapOK
    <2> QED BY <2>1
  <1>6. \A os2 : CanBury(level, os2, level.orders_map[id], id)
    BY <1>3, <1>5 DEF CanBury
  <1> QED BY <1>1, <1>2, <1>3, <1>6 DEF level

\* add_order
LEMMA AddBook ==
    ASSUME NEW os, NEW ls, Book(os, ls),
           NEW side \in OrderSide, NEW price \in Prices, NEW quantity \in Quantities,
           NEW id, id = Len(os) + 1, id \in OrderIds,
           price \in DOMAIN ls[side] =>
                Len(ls[side][price].order_entries) < MaxEntries,
           NEW os2, os2 = Append(os, CopyFromClient(side, price, quantity))
    PROVE  Book(os2, [ls EXCEPT ![side] = Enqueue(@, price, id)])
  <1> DEFINE o == CopyFromClient(side, price, quantity)
             sl == ls[side]
             new == Enqueue(sl, price, id)
  <1>1. OrderInv(o) /\ Open(o) /\ o.side = side /\ o.price = price
    <2>1. o = CopyFromClient(side, price, quantity)
      OBVIOUS
    <2> HIDE DEF o
    <2> QED BY <2>1, NewOrderInv
  <1>2. o \in OrderRecord
    BY <1>1, OrderInvRecord
  <1>3. /\ os \in Seq(OrderRecord) /\ Len(os) \in Nat /\ DOMAIN os = 1 .. Len(os)
        /\ 0 \notin DOMAIN os /\ SideInv(sl, os, side)
    BY RegistryDomain DEF Book, Registry
  <1> HIDE DEF o, sl
  <1>4. /\ os2 \in Seq(OrderRecord) /\ Len(os2) <= MaxOrders
        /\ os2[id] = o /\ DOMAIN os2 = DOMAIN os \cup {id}
        /\ id \notin DOMAIN os /\ \A x \in DOMAIN os : os2[x] = os[x]
    BY <1>2, <1>3 DEF OrderIds, o
  <1>5. OneOrder(os, os2, id)
    BY <1>4 DEF OneOrder
  <1>6. NowhereQueued(sl, id)
    BY <1>3, <1>4 DEF NowhereQueued, SideInv, SideLevels, LevelInv, MapOK
  <1>7. Progress(os, os2, side, id) /\ NoneOpened(os, os2, side, id)
    BY <1>5, OneOrderProgress
  <1>8. SideLevels(sl, os2, side, 0, {}) /\ SideQueued(sl, os2, side, id)
    BY <1>3, <1>6, <1>7, SideKept
  <1>9. SideLevels(sl, os2, side, id, {})
    BY <1>8 DEF SideLevels
  <1>10. /\ id \in DOMAIN os2 /\ os2[id].side = side /\ os2[id].price = price
         /\ Open(os2[id]) /\ OrderInv(os2[id])
         /\ price \in DOMAIN sl => Len(sl[price].order_entries) < MaxEntries
    BY <1>1, <1>4 DEF sl
  <1>11. SideLevels(new, os2, side, id, {}) /\ SideQueued(new, os2, side, 0)
    BY <1>6, <1>8, <1>9, <1>10, PutIn
  <1>12. SideInv(new, os2, side)
    BY <1>11 DEF SideInv, SideLevels
  <1> HIDE DEF new
  <1>13. Book(os2, [ls EXCEPT ![side] = new])
    BY <1>4, <1>5, <1>10, <1>12, OneSide
  <1> QED BY <1>13 DEF new, sl

\* The registry when one open order is changed in place.
LEMMA ChangeOrder ==
    ASSUME NEW os, Registry(os), NEW id \in DOMAIN os, Open(os[id]), NEW o,
           OrderInv(o), o.side = os[id].side, NEW os2, os2 = [os EXCEPT ![id] = o]
    PROVE  /\ OneOrder(os, os2, id) /\ os2[id] = o
           /\ os2 \in Seq(OrderRecord) /\ Len(os2) <= MaxOrders
           /\ DOMAIN os2 = DOMAIN os
  <1>1. o \in OrderRecord
    BY OrderInvRecord
  <1>2. os2[id] = o /\ DOMAIN os2 = DOMAIN os
        /\ \A x \in DOMAIN os : x # id => os2[x] = os[x]
    BY DEF Registry
  <1>3. os2 \in Seq(OrderRecord) /\ Len(os2) = Len(os)
    BY <1>1 DEF Registry
  <1> QED BY <1>2, <1>3 DEF OneOrder, Registry

\* cancel_order
LEMMA CancelBook ==
    ASSUME NEW os, NEW ls, Book(os, ls), NEW id \in DOMAIN os, Open(os[id]),
           NEW os2, os2 = [os EXCEPT ![id] = Cancel(@)]
    PROVE  Book(os2, [ls EXCEPT ![os[id].side] =
                        CancelOrderDispatcher(@, os[id], id)])
  <1> DEFINE o == os[id]
             o2 == Cancel(o)
             side == o.side
             price == o.price
             sl == ls[side]
             i == sl[price].orders_map[id]
             rem == [sl EXCEPT ![price] = Bury(@, i, id)]
             new == RemovePriceLevelIfEmpty(rem, price)
  <1>1. OrderInv(o2) /\ ~ Open(o2) /\ o2.side = side
    BY CancelInv DEF Book, Registry
  <1>2. /\ OneOrder(os, os2, id) /\ os2[id] = o2
        /\ os2 \in Seq(OrderRecord) /\ Len(os2) <= MaxOrders
    BY <1>1, ChangeOrder DEF Book
  <1>3. /\ side \in OrderSide /\ SideInv(sl, os, side)
        /\ price \in DOMAIN sl /\ id \in DOMAIN sl[price].orders_map
        /\ CanBury(sl[price], os2, i, id)
    BY OpenIsQueued
  <1>4. CancelOrderDispatcher(sl, o, id) = new
    BY <1>3 DEF CancelOrderDispatcher, RemoveEntry
  <1>5. 0 \notin DOMAIN os
    BY RegistryDomain DEF Book
  <1>6. Progress(os, os2, side, id) /\ NoneOpened(os, os2, side, id)
    BY <1>2, OneOrderProgress
  <1> HIDE DEF i, sl, side, price, o, o2
  <1>7. SideLevels(rem, os2, side, id, {price}) /\ SideQueued(rem, os2, side, id)
    <2>1. rem = [sl EXCEPT ![price] = Bury(@, i, id)]
      OBVIOUS
    <2> HIDE DEF rem
    <2>2. SideWithout(sl, rem, os2, side, id, price)
      BY <1>3, <1>5, <1>6, <2>1, TakenOut
    <2> QED BY <2>2 DEF SideWithout
  <1> HIDE DEF rem
  <1>8. SideLevels(new, os2, side, 0, {}) /\ SideQueued(new, os2, side, id)
    BY <1>7, Pruned
  <1> HIDE DEF new
  <1>9. SideInv(new, os2, side)
    BY <1>1, <1>2, <1>8 DEF SideInv, SideQueued
  <1>10. Book(os2, [ls EXCEPT ![side] = new])
    BY <1>1, <1>2, <1>3, <1>9, OneSide
  <1> QED BY <1>4, <1>10 DEF side, sl, o

\* 0 is queued nowhere.
LEMMA ZeroNowhere ==
    ASSUME NEW sl, NEW os, NEW side, SideInv(sl, os, side)
    PROVE  NowhereQueued(sl, 0)
  <1> SUFFICES ASSUME NEW p \in DOMAIN sl, 0 \in DOMAIN sl[p].orders_map
               PROVE  FALSE
    BY DEF NowhereQueued
  <1>1. MapOK(sl[p], os, side, p)
    BY DEF SideInv, SideLevels, LevelInv
  <1>2. 0 \in OrderIds
    BY <1>1 DEF MapOK
  <1> QED BY <1>2 DEF OrderIds

\* modify_order
LEMMA ModifyBook ==
    ASSUME NEW os, NEW ls, Book(os, ls), NEW id \in DOMAIN os, Open(os[id]),
           NEW new_price \in Prices, NEW new_qty \in Quantities,
           new_qty > os[id].quantity_filled,
           new_price # os[id].price \/ new_qty > os[id].quantity =>
                (new_price \in DOMAIN ls[os[id].side] =>
                    Len(ls[os[id].side][new_price].order_entries) < MaxEntries),
           NEW os2, os2 = [os EXCEPT ![id] =
                                SetQuantity(SetPrice(@, new_price), new_qty)]
    PROVE  Book(os2, [ls EXCEPT ![os[id].side] =
                ModifyOrderDispatcher(@, os[id], id, new_price, new_qty)])
  <1> DEFINE o == os[id]
             o2 == SetQuantity(SetPrice(o, new_price), new_qty)
             side == o.side
             price == o.price
             sl == ls[side]
             i == sl[price].orders_map[id]
             rem == [sl EXCEPT ![price] = Bury(@, i, id)]
             put == Enqueue(rem, new_price, id)
             moves == new_price # price \/ new_qty > o.quantity
             new == RemovePriceLevelIfEmpty(IF moves THEN put ELSE sl, price)
  <1>1. OrderInv(o2) /\ Open(o2) /\ o2.side = side /\ o2.price = new_price
    BY AmendInv DEF Book, Registry
  <1>2. /\ OneOrder(os, os2, id) /\ os2[id] = o2
        /\ os2 \in Seq(OrderRecord) /\ Len(os2) <= MaxOrders
        /\ DOMAIN os2 = DOMAIN os
    BY <1>1, ChangeOrder DEF Book
  <1>3. /\ side \in OrderSide /\ SideInv(sl, os, side)
        /\ price \in DOMAIN sl /\ id \in DOMAIN sl[price].orders_map
        /\ CanBury(sl[price], os2, i, id)
    BY OpenIsQueued
  <1>4. ModifyOrderDispatcher(sl, o, id, new_price, new_qty) = new
    <2>1. [sl EXCEPT ![price] = RemoveEntry(@, id)] = rem
      BY <1>3 DEF RemoveEntry
    <2> QED BY <2>1 DEF ModifyOrderDispatcher
  <1>5. 0 \notin DOMAIN os /\ id \in OrderIds
    BY RegistryDomain DEF Book
  <1>6. SideInv(new, os2, side)
    <2>1. CASE moves
      <3>1. Progress(os, os2, side, id) /\ NoneOpened(os, os2, side, id)
        BY <1>2, OneOrderProgress
      <3>2. new_price \in DOMAIN sl => Len(sl[new_price].order_entries) < MaxEntries
        BY <2>1
      <3>3. new = RemovePriceLevelIfEmpty(put, price)
        BY <2>1
      <3> HIDE DEF i, sl, side, price, o, o2, new
      <3>4. /\ SideLevels(rem, os2, side, id, {price})
            /\ SideQueued(rem, os2, side, id)
            /\ NowhereQueued(rem, id) /\ DOMAIN rem = DOMAIN sl
            /\ \A p \in DOMAIN sl :
                Len(rem[p].order_entries) = Len(sl[p].order_entries)
        <4>1. rem = [sl EXCEPT ![price] = Bury(@, i, id)]
          OBVIOUS
        <4> HIDE DEF rem
        <4>2. SideWithout(sl, rem, os2, side, id, price)
          BY <1>3, <1>5, <3>1, <4>1, TakenOut
        <4> QED BY <4>2 DEF SideWithout
      <3> HIDE DEF rem
      <3>5. SideLevels(put, os2, side, id, {price}) /\ SideQueued(put, os2, side, 0)
        <4>1. /\ id \in DOMAIN os2 /\ os2[id].side = side
              /\ os2[id].price = new_price /\ Open(os2[id])
              /\ new_price \in DOMAIN rem =>
                    Len(rem[new_price].order_entries) < MaxEntries
          BY <1>1, <1>2, <3>2, <3>4
        <4> QED BY <1>5, <3>4, <4>1, PutIn
      <3> HIDE DEF put
      <3> QED BY <3>3, <3>5, Pruned DEF SideInv
    <2>2. CASE ~ moves
      <3>1. new_price = price /\ new = RemovePriceLevelIfEmpty(sl, price)
        BY <2>2
      <3> HIDE DEF i, sl, side, price, o, o2, new
      <3>2. Progress(os, os2, side, 0) /\ NoneOpened(os, os2, side, 0)
        BY <1>1, <1>2, <3>1 DEF OneOrder, Progress, NoneOpened, Filled, Open, side, price, o
      <3>3. SideLevels(sl, os2, side, 0, {}) /\ SideQueued(sl, os2, side, 0)
        BY <1>3, <1>5, <3>2, ZeroNowhere, SideKept
      <3>4. SideLevels(sl, os2, side, 0, {price})
        BY <3>3 DEF SideLevels
      <3> QED BY <3>1, <3>3, <3>4, Pruned DEF SideInv
    <2> QED BY <2>1, <2>2
  <1> HIDE DEF new
  <1>7. Book(os2, [ls EXCEPT ![side] = new])
    BY <1>1, <1>2, <1>3, <1>6, OneSide
  <1> QED BY <1>4, <1>7

-----------------------------------------------------------------------------
(***************************************************************************)
(* Matching                                                                *)
(***************************************************************************)

\* The front of the best level of a side, as an iteration of try_match finds it.
LEMMA BestFacts ==
    ASSUME Book(orders, levels), BothSides, NEW side \in OrderSide
    PROVE  /\ Best(side) \in DOMAIN levels[side] /\ Best(side) \in Prices
           /\ LevelInv(BestLevel(side), orders, side, Best(side))
           /\ HeadOK(BestLevel(side), orders, {}) /\ ~ Empty(BestLevel(side))
           /\ BestFront(side) \in DOMAIN orders
           /\ OrderInv(orders[BestFront(side)])
           /\ \/ FilledIn(orders, BestFront(side))
              \/ /\ BestFront(side) \in DOMAIN BestLevel(side).orders_map
                 /\ Open(orders[BestFront(side)])
                 /\ orders[BestFront(side)].side = side
                 /\ orders[BestFront(side)].price = Best(side)
  <1>1. SideInv(levels[side], orders, side) /\ DOMAIN levels[side] # {}
    BY DEF Book, BothSides
  <1>2. Best(side) \in DOMAIN levels[side] /\ Best(side) \in Prices
    BY <1>1, BestIsLevel DEF SideInv, SideLevels
  <1>3. /\ LevelInv(BestLevel(side), orders, side, Best(side))
        /\ HeadOK(BestLevel(side), orders, {}) /\ ~ Empty(BestLevel(side))
    BY <1>1, <1>2 DEF SideInv, SideLevels, BestLevel
  <1>4. \/ FilledIn(orders, BestFront(side))
        \/ BestFront(side) \in DOMAIN BestLevel(side).orders_map
    BY <1>3 DEF HeadOK, BestFront
  <1>5. BestFront(side) \in DOMAIN BestLevel(side).orders_map =>
            /\ BestFront(side) \in DOMAIN orders
            /\ Open(orders[BestFront(side)])
            /\ orders[BestFront(side)].side = side
            /\ orders[BestFront(side)].price = Best(side)
    BY <1>3 DEF LevelInv, MapOK
  <1>6. BestFront(side) \in DOMAIN orders
    BY <1>4, <1>5 DEF FilledIn
  <1>7. OrderInv(orders[BestFront(side)])
    BY <1>6 DEF Book, Registry
  <1> QED BY <1>2, <1>3, <1>4, <1>5, <1>6, <1>7

\* What is traded: no more than either order has left, and nothing if one of
\* them has nothing left.
LEMMA MatchQtyFacts ==
    ASSUME Book(orders, levels), BothSides
    PROVE  /\ MatchQty \in Nat
           /\ \A side \in OrderSide : MatchQty <= Available(orders[BestFront(side)])
  <1> DEFINE b == Available(orders[BestFront("BUY")])
             s == Available(orders[BestFront("SELL")])
  <1>1. b \in Nat /\ s \in Nat
    <2>1. \A side \in OrderSide : OrderInv(orders[BestFront(side)])
      BY BestFacts
    <2>2. ASSUME NEW o, OrderInv(o) PROVE Available(o) \in Nat
      BY <2>2 DEF OrderInv, Available
    <2> QED BY <2>1, <2>2 DEF OrderSide
  <1>2. {Available(orders[id]) : id \in Fronts} = {b, s}
    BY DEF Fronts, OrderSide
  <1> HIDE DEF b, s
  <1>3. MatchQty = IF b <= s THEN b ELSE s
    BY <1>1, <1>2, MinOfPair DEF MatchQty
  <1>4. MatchQty \in Nat /\ MatchQty <= b /\ MatchQty <= s
    BY <1>1, <1>3
  <1> QED BY <1>4 DEF b, s, OrderSide

\* An iteration that is defined trades between two queued orders: a filled one
\* left at the front of a level would be popped once more, which is undefined.
LEMMA FrontsQueued ==
    ASSUME Book(orders, levels), BothSides, MatchFault = "none",
           NEW side \in OrderSide
    PROVE  /\ BestFront(side) \in DOMAIN BestLevel(side).orders_map
           /\ Open(orders[BestFront(side)]) /\ orders[BestFront(side)].side = side
           /\ orders[BestFront(side)].price = Best(side)
  <1> DEFINE f == BestFront(side)
             o == orders[f]
  <1>1. SUFFICES ASSUME FilledIn(orders, f)
                 PROVE  f \in DOMAIN BestLevel(side).orders_map
    <2> HIDE DEF f
    <2>1. \/ FilledIn(orders, f)
          \/ /\ f \in DOMAIN BestLevel(side).orders_map /\ Open(orders[f])
             /\ orders[f].side = side /\ orders[f].price = Best(side)
      BY BestFacts DEF f
    <2>2. f \in DOMAIN BestLevel(side).orders_map =>
            /\ Open(orders[f]) /\ orders[f].side = side
            /\ orders[f].price = Best(side)
      BY BestFacts DEF LevelInv, MapOK
    <2> QED BY <1>1, <2>1, <2>2 DEF f
  <1>2. OrderInv(o) /\ Filled(o) /\ ~ Empty(BestLevel(side))
    BY <1>1, BestFacts DEF FilledIn
  <1>3. MatchQty \in Nat /\ MatchQty <= Available(o)
    BY MatchQtyFacts
  <1> HIDE DEF o
  <1>4. o.quantity \in Nat /\ o.quantity_filled = o.quantity
    BY <1>2 DEF OrderInv
  <1>5. MatchQty = 0
    BY <1>3, <1>4 DEF Available
  <1>6. Match(o, 0).status = "FULLY_FILLED"
    BY <1>2, <1>4 DEF Match, OrderInv
  <1>7. Filled(Matched(f))
    BY <1>5, <1>6 DEF Matched, Filled, o
  <1>8. ~ PopIsUndefined(BestLevel(side), Filled(Matched(f)))
    BY DEF MatchFault
  <1> QED BY <1>2, <1>7, <1>8 DEF PopIsUndefined, BestFront

\* The registry after an iteration: the two fronts are matched, and nothing else
\* changes.
AfterMatch == [id \in DOMAIN orders |->
                    IF id \in Fronts THEN Matched(id) ELSE orders[id]]

LEMMA MatchRegistry ==
    ASSUME Book(orders, levels), BothSides, MatchFault = "none"
    PROVE  /\ Registry(AfterMatch) /\ DOMAIN AfterMatch = DOMAIN orders
           /\ \A x \in DOMAIN orders : x \notin Fronts => AfterMatch[x] = orders[x]
           /\ \A x \in Fronts :
                /\ x \in DOMAIN orders /\ Open(orders[x])
                /\ AfterMatch[x] = Matched(x)
                /\ AfterMatch[x].side = orders[x].side
                /\ AfterMatch[x].price = orders[x].price
                /\ Open(AfterMatch[x]) <=> ~ Filled(AfterMatch[x])
  <1> DEFINE os == orders
             os2 == AfterMatch
  <1>1. /\ os \in Seq(OrderRecord) /\ Len(os) \in Nat /\ Len(os) <= MaxOrders
        /\ DOMAIN os = 1 .. Len(os) /\ \A x \in DOMAIN os : OrderInv(os[x])
    BY RegistryDomain DEF Book, Registry
  <1>2. /\ DOMAIN os2 = DOMAIN os
        /\ \A x \in DOMAIN os : x \notin Fronts => os2[x] = os[x]
        /\ \A x \in DOMAIN os : x \in Fronts => os2[x] = Matched(x)
    BY DEF AfterMatch
  <1>3. ASSUME NEW x \in Fronts
        PROVE  /\ x \in DOMAIN os /\ Open(os[x]) /\ OrderInv(Matched(x))
               /\ Matched(x).side = os[x].side /\ Matched(x).price = os[x].price
               /\ Open(Matched(x)) <=> ~ Filled(Matched(x))
    <2>1. PICK side \in OrderSide : x = BestFront(side)
      BY DEF Fronts
    <2>2. x \in DOMAIN os /\ Open(os[x]) /\ OrderInv(os[x])
      BY <2>1, BestFacts, FrontsQueued
    <2>3. MatchQty \in Nat /\ MatchQty <= Available(os[x])
      BY <2>1, MatchQtyFacts
    <2> QED BY <2>2, <2>3, MatchInv DEF Matched
  <1> HIDE DEF os2
  <1>4. \A x \in DOMAIN os : OrderInv(os2[x])
    BY <1>1, <1>2, <1>3
  <1>5. os2 \in Seq(OrderRecord) /\ Len(os2) = Len(os)
    <2>1. \A x \in DOMAIN os : os2[x] \in OrderRecord
      BY <1>4, OrderInvRecord
    <2>2. os2 = [x \in 1 .. Len(os) |-> os2[x]]
      BY <1>1 DEF AfterMatch, os2
    <2> QED BY <2>1, <2>2, <1>1
  <1>6. Registry(os2)
    BY <1>1, <1>2, <1>4, <1>5 DEF Registry
  <1> QED BY <1>2, <1>3, <1>6 DEF os2

\* pop_front_order_if_filled and remove_price_level_if_empty on one side.
LEMMA PopBestInv ==
    ASSUME Book(orders, levels), BothSides, MatchFault = "none",
           NEW side \in OrderSide
    PROVE  SideInv(PopBest(side), AfterMatch, side)
  <1> DEFINE os == orders
             os2 == AfterMatch
             f == BestFront(side)
             price == Best(side)
             sl == levels[side]
             level == BestLevel(side)
             h == level.queue_head_index
             rem == [sl EXCEPT ![price] = PopFrontIfFilled(@, Filled(os2[f]))]
             new == RemovePriceLevelIfEmpty(rem, price)
  <1>1. f \in Fronts /\ \A x \in Fronts : x = f \/ os[x].side # side
    <2>1. ASSUME NEW x \in Fronts PROVE x = f \/ os[x].side # side
      <3>1. PICK s \in OrderSide : x = BestFront(s)
        BY DEF Fronts
      <3>2. os[x].side = s
        BY <3>1, FrontsQueued
      <3> QED BY <3>1, <3>2
    <2> QED BY <2>1 DEF Fronts
  <1>2. /\ f \in DOMAIN level.orders_map /\ Open(os[f])
        /\ os[f].side = side /\ os[f].price = price
    <2>1. BestFront(side) \in DOMAIN BestLevel(side).orders_map
      BY FrontsQueued
    <2>2. Open(orders[BestFront(side)]) /\ orders[BestFront(side)].side = side
      BY FrontsQueued
    <2>3. MapOK(BestLevel(side), orders, side, Best(side))
      BY BestFacts DEF LevelInv
    <2>4. orders[BestFront(side)].price = Best(side)
      BY <2>1, <2>3 DEF MapOK
    <2> QED BY <2>1, <2>2, <2>4
  <1>3. /\ price \in DOMAIN sl /\ level = sl[price] /\ ~ Empty(level)
        /\ h \in DOMAIN level.order_entries /\ level.order_entries[h].order = f
    BY BestFacts DEF HeadOK, BestFront, FrontOrder, BestLevel
  <1>4. PopBest(side) = new
    BY <1>1, MatchRegistry DEF PopBest
  <1>5. SideInv(sl, os, side) /\ 0 \notin DOMAIN os
    BY RegistryDomain DEF Book
  <1>6. /\ DOMAIN os2 = DOMAIN os /\ f \in DOMAIN os
        /\ \A x \in DOMAIN os : x \notin Fronts => os2[x] = os[x]
        /\ \A x \in Fronts :
            /\ Open(os[x]) /\ os2[x].side = os[x].side
            /\ os2[x].price = os[x].price
            /\ Open(os2[x]) <=> ~ Filled(os2[x])
    BY <1>1, MatchRegistry
  <1> HIDE DEF os, os2, f, price, level, sl, h
  <1>7. \A x \in DOMAIN os : x # f /\ os[x].side = side => os2[x] = os[x]
    BY <1>1, <1>6
  <1>8. /\ \A x \in DOMAIN os : Filled(os[x]) => Filled(os2[x])
        /\ \A x \in DOMAIN os : os2[x].side = os[x].side
    BY <1>6 DEF Filled, Open
  <1>9. CASE Filled(os2[f])
    <2>1. rem = [sl EXCEPT ![price] = Bury(@, h, f)]
      BY <1>3, <1>9 DEF PopFrontIfFilled, h, FrontOrder
    <2>2. CanBury(sl[price], os2, h, f)
      BY <1>2, <1>3, <1>6, <1>9 DEF CanBury, FilledIn
    <2>3. Progress(os, os2, side, f) /\ NoneOpened(os, os2, side, f)
      BY <1>6, <1>7, <1>8 DEF Progress, NoneOpened
    <2> HIDE DEF rem
    <2>4. SideWithout(sl, rem, os2, side, f, price)
      BY <1>3, <1>5, <2>1, <2>2, <2>3, TakenOut
    <2>5. SideLevels(new, os2, side, 0, {}) /\ SideQueued(new, os2, side, f)
      BY <2>4, Pruned DEF SideWithout
    <2>6. SideInv(new, os2, side)
      BY <1>1, <1>6, <1>9, <2>5 DEF SideInv, SideQueued
    <2> QED BY <1>4, <2>6 DEF os2
  <1>10. CASE ~ Filled(os2[f])
    <2>1. DOMAIN rem = DOMAIN sl /\ \A p \in DOMAIN sl : rem[p] = sl[p]
      BY <1>10 DEF PopFrontIfFilled
    <2>2. Progress(os, os2, side, 0) /\ NoneOpened(os, os2, side, 0)
      BY <1>1, <1>2, <1>6, <1>7, <1>8, <1>10 DEF Progress, NoneOpened
    <2>3. SideLevels(sl, os2, side, 0, {}) /\ SideQueued(sl, os2, side, 0)
      BY <1>5, <2>2, ZeroNowhere, SideKept
    <2> HIDE DEF rem
    <2>4. SideLevels(rem, os2, side, 0, {price}) /\ SideQueued(rem, os2, side, 0)
      BY <2>1, <2>3 DEF SideLevels, SideQueued
    <2>5. SideInv(new, os2, side)
      BY <2>4, Pruned DEF SideInv
    <2> QED BY <1>4, <2>5 DEF os2
  <1> QED BY <1>9, <1>10

-----------------------------------------------------------------------------
(***************************************************************************)
(* The inductive invariant                                                 *)
(***************************************************************************)

\* The pool is at least as large as it was built, and outgrowing it is the only
\* way to invalidate pointers.
PoolInv ==
    /\ pool_size \in Nat /\ pool_size >= PoolReserve
    /\ stale \subseteq OrderIds
    /\ Len(orders) <= PoolReserve => stale = {}

ControlInv ==
    /\ try_match_flag \in BOOLEAN
    /\ trades_completed \in Nat
    /\ pc \in {"idle", "match"}
    /\ fault \in {"none", "use_after_free", "erase_end"}

IInv == Book(orders, levels) /\ PoolInv /\ ControlInv

LEMMA InitIInv == Init => IInv
  <1> SUFFICES ASSUME Init PROVE IInv
    OBVIOUS
  <1>1. Registry(orders)
    BY DEF Init, Registry
  <1>2. ASSUME NEW side \in OrderSide PROVE SideInv(levels[side], orders, side)
    <2>1. levels[side] = <<>> /\ orders = <<>>
      BY DEF Init
    <2>2. SideInv(<<>>, <<>>, side)
      BY DEF SideInv, SideLevels, SideQueued
    <2> QED BY <2>1, <2>2
  <1>3. Book(orders, levels)
    BY <1>1, <1>2 DEF Book, Init
  <1>4. PoolInv
    BY ReserveAssumption DEF Init, PoolInv
  <1>5. ControlInv
    BY DEF Init, ControlInv
  <1> QED BY <1>3, <1>4, <1>5 DEF IInv

LEMMA AddStep ==
    ASSUME IInv, NEW side \in OrderSide, NEW price \in Prices,
           NEW quantity \in Quantities, AddOrder(side, price, quantity)
    PROVE  IInv'
  <1> DEFINE id == Len(orders) + 1
             os2 == Append(orders, CopyFromClient(side, price, quantity))
  <1>1. /\ id \in OrderIds /\ orders' = os2
        /\ levels' = [levels EXCEPT ![side] = Enqueue(@, price, id)]
        /\ price \in DOMAIN levels[side] =>
                Len(levels[side][price].order_entries) < MaxEntries
    BY DEF AddOrder, HasRoom
  <1>2. Book(orders, levels)
    BY DEF IInv
  <1>3. Book(os2, [levels EXCEPT ![side] = Enqueue(@, price, id)])
    <2>1. os2 = Append(orders, CopyFromClient(side, price, quantity)) /\ id = Len(orders) + 1
      OBVIOUS
    <2> HIDE DEF id, os2
    <2> QED BY <1>1, <1>2, <2>1, AddBook
  <1>4. Book(orders, levels)'
    BY <1>1, <1>3
  <1>5. PoolInv'
    <2>1. /\ Len(orders) \in Nat /\ orders \in Seq(OrderRecord)
          /\ DOMAIN orders \subseteq OrderIds
      BY <1>2, RegistryDomain DEF Book, Registry
    <2>2. Len(os2) = Len(orders) + 1
      BY <2>1
    <2>3. CASE Len(orders) >= pool_size
      <3>1. pool_size' = 2 * pool_size /\ stale' = DOMAIN orders
        BY <2>3 DEF AddOrder, Allocate
      <3>2. /\ 2 * pool_size \in Nat /\ 2 * pool_size >= PoolReserve
            /\ ~ (Len(os2) <= PoolReserve)
        BY <2>1, <2>2, <2>3, ReserveAssumption DEF IInv, PoolInv
      <3> QED BY <1>1, <2>1, <3>1, <3>2 DEF PoolInv
    <2>4. CASE ~ (Len(orders) >= pool_size)
      <3>1. pool_size' = pool_size /\ stale' = stale
        BY <2>4 DEF AddOrder, Allocate, poolVars
      <3>2. Len(os2) <= PoolReserve => stale = {}
        BY <2>1, <2>2, ReserveAssumption DEF IInv, PoolInv
      <3> QED BY <1>1, <3>1, <3>2 DEF IInv, PoolInv
    <2> QED BY <2>3, <2>4
  <1>6. ControlInv'
    BY DEF IInv, ControlInv, AddOrder
  <1> QED BY <1>4, <1>5, <1>6 DEF IInv

\* A step that changes neither the pool nor the number of orders.
LEMMA PoolKept ==
    ASSUME PoolInv, UNCHANGED poolVars, Len(orders') = Len(orders)
    PROVE  PoolInv'
  BY DEF PoolInv, poolVars

LEMMA CancelStep ==
    ASSUME IInv, NEW id \in DOMAIN orders, CancelOrder(id)
    PROVE  IInv'
  <1> DEFINE os2 == [orders EXCEPT ![id] = Cancel(@)]
             ls2 == [levels EXCEPT ![orders[id].side] =
                        CancelOrderDispatcher(@, orders[id], id)]
  <1>1. orders' = os2 /\ levels' = ls2 /\ Open(orders[id])
    BY DEF CancelOrder
  <1>2. Book(orders, levels)
    BY DEF IInv
  <1>3. Book(os2, ls2)
    BY <1>1, <1>2, CancelBook
  <1>4. Book(orders, levels)'
    BY <1>1, <1>3
  <1>5. Len(os2) = Len(orders)
    BY <1>2 DEF Book, Registry
  <1>6. PoolInv'
    BY <1>1, <1>5, PoolKept DEF IInv, CancelOrder
  <1>7. ControlInv'
    BY DEF IInv, ControlInv, CancelOrder
  <1> QED BY <1>4, <1>6, <1>7 DEF IInv

LEMMA ModifyStep ==
    ASSUME IInv, NEW id \in DOMAIN orders, NEW new_price \in Prices,
           NEW new_qty \in Quantities, ModifyOrder(id, new_price, new_qty)
    PROVE  IInv'
  <1> DEFINE os2 == [orders EXCEPT ![id] =
                        SetQuantity(SetPrice(@, new_price), new_qty)]
             ls2 == [levels EXCEPT ![orders[id].side] =
                        ModifyOrderDispatcher(@, orders[id], id, new_price, new_qty)]
             sl == levels[orders[id].side]
  <1>1. /\ orders' = os2 /\ levels' = ls2 /\ Open(orders[id])
        /\ new_qty > orders[id].quantity_filled
    BY DEF ModifyOrder, ValidateModifyOrder
  <1>2. Book(orders, levels)
    BY DEF IInv
  <1>3. ASSUME new_price # orders[id].price \/ new_qty > orders[id].quantity,
               new_price \in DOMAIN sl
        PROVE  Len(sl[new_price].order_entries) < MaxEntries
    <2>1. orders[id].quantity \in Nat /\ new_qty \in Nat
      BY <1>2 DEF Book, Registry, OrderInv
    <2>2. AmendKind(id, new_price, new_qty) # "shrink"
      BY <1>3, <2>1 DEF AmendKind
    <2>3. HasRoom(orders[id].side, new_price)
      BY <2>2 DEF ModifyOrder
    <2> QED BY <1>3, <2>3 DEF HasRoom
  <1>4. Book(os2, ls2)
    <2> HIDE DEF sl
    <2>1. new_price # orders[id].price \/ new_qty > orders[id].quantity =>
            (new_price \in DOMAIN levels[orders[id].side] =>
                Len(levels[orders[id].side][new_price].order_entries) < MaxEntries)
      BY <1>3 DEF sl
    <2> QED BY <1>1, <1>2, <2>1, ModifyBook
  <1>5. Book(orders, levels)'
    BY <1>1, <1>4
  <1>6. Len(os2) = Len(orders)
    BY <1>2 DEF Book, Registry
  <1>7. PoolInv'
    BY <1>1, <1>6, PoolKept DEF IInv, ModifyOrder
  <1>8. ControlInv'
    BY DEF IInv, ControlInv, ModifyOrder
  <1> QED BY <1>5, <1>7, <1>8 DEF IInv

LEMMA MatchOrdersStep ==
    ASSUME IInv, MatchOrders
    PROVE  IInv'
  <1>1. /\ orders' = AfterMatch /\ levels' = [side \in OrderSide |-> PopBest(side)]
        /\ BothSides /\ MatchFault = "none"
    BY DEF MatchOrders, AfterMatch, Crossed
  <1>2. Book(orders, levels)
    BY DEF IInv
  <1>3. Registry(AfterMatch) /\ DOMAIN AfterMatch = DOMAIN orders
    BY <1>1, <1>2, MatchRegistry
  <1>4. Book(AfterMatch, [side \in OrderSide |-> PopBest(side)])
    BY <1>1, <1>2, <1>3, PopBestInv DEF Book
  <1>5. Book(orders, levels)'
    BY <1>1, <1>4
  <1>6. Len(AfterMatch) = Len(orders)
    BY <1>2, <1>3 DEF Book, Registry
  <1>7. PoolInv'
    BY <1>1, <1>6, PoolKept DEF IInv, MatchOrders
  <1>8. ControlInv'
    BY DEF IInv, ControlInv, MatchOrders
  <1> QED BY <1>5, <1>7, <1>8 DEF IInv

\* Steps that change only the control state.
LEMMA OtherStep ==
    ASSUME IInv, UNCHANGED <<orders, levels, poolVars>>, ControlInv'
    PROVE  IInv'
  BY DEF IInv, PoolInv, poolVars

LEMMA NextIInv == IInv /\ [Next]_vars => IInv'
  <1> SUFFICES ASSUME IInv, [Next]_vars PROVE IInv'
    OBVIOUS
  <1>1. CASE UNCHANGED vars
    BY <1>1 DEF vars, IInv, PoolInv, poolVars, ControlInv
  <1>2. ASSUME NEW side \in OrderSide, NEW price \in Prices,
               NEW quantity \in Quantities, AddOrder(side, price, quantity)
        PROVE  IInv'
    BY <1>2, AddStep
  <1>3. ASSUME NEW id \in DOMAIN orders, CancelOrder(id) PROVE IInv'
    BY <1>3, CancelStep
  <1>4. ASSUME NEW id \in DOMAIN orders, NEW price \in Prices,
               NEW quantity \in Quantities, ModifyOrder(id, price, quantity)
        PROVE  IInv'
    BY <1>4, ModifyStep
  <1>5. ASSUME NEW id \in DOMAIN orders, UseAfterFree(id) PROVE IInv'
    BY <1>5, OtherStep DEF UseAfterFree, IInv, ControlInv
  <1>6. CASE MatchReturns
    BY <1>6, OtherStep DEF MatchReturns, IInv, ControlInv
  <1>7. CASE MatchOrders
    BY <1>7, MatchOrdersStep
  <1>8. CASE MatchUndefined
    <2>1. MatchFault \in {"none", "use_after_free", "erase_end"}
      BY DEF MatchFault
    <2> QED BY <1>8, <2>1, OtherStep DEF MatchUndefined, IInv, ControlInv
  <1> QED
    BY <1>1, <1>2, <1>3, <1>4, <1>5, <1>6, <1>7, <1>8
       DEF Next, TryMatch, CancelRejected, ModifyRejected

-----------------------------------------------------------------------------
(***************************************************************************)
(* What follows from it                                                    *)
(***************************************************************************)

LEMMA LevelFacts ==
    ASSUME Book(orders, levels), NEW side \in OrderSide, NEW price \in DOMAIN levels[side]
    PROVE  /\ LevelInv(levels[side][price], orders, side, price)
           /\ HeadOK(levels[side][price], orders, {})
           /\ ~ Empty(levels[side][price])
           /\ Len(levels[side][price].order_entries) <= MaxEntries
           /\ price \in Prices
  BY DEF Book, SideInv, SideLevels

LEMMA IInvTypeOK == IInv => TypeOK
  <1> SUFFICES ASSUME IInv PROVE TypeOK
    OBVIOUS
  <1>1. ASSUME NEW side \in OrderSide, NEW price \in DOMAIN levels[side]
        PROVE  LevelOK(levels[side][price]) /\ price \in Prices
    <2> DEFINE level == levels[side][price]
    <2>1. /\ LevelInv(level, orders, side, price) /\ HeadOK(level, orders, {})
          /\ Len(level.order_entries) <= MaxEntries /\ price \in Prices
      BY LevelFacts DEF IInv
    <2> HIDE DEF level
    <2>2. /\ level.order_entries \in Seq([order : OrderIds, is_valid : BOOLEAN])
          /\ level.queue_head_index \in DOMAIN level.order_entries
      BY <2>1 DEF LevelInv, IsLevel, EntryRecord, HeadOK
    <2>3. Len(level.order_entries) \in 1 .. MaxEntries
      BY <2>1, <2>2
    <2>4. /\ DOMAIN level.orders_map \subseteq OrderIds
          /\ \A id \in DOMAIN level.orders_map :
                level.orders_map[id] \in DOMAIN level.order_entries
      BY <2>1 DEF LevelInv, MapOK
    <2>5. LevelOK(level)
      BY <2>2, <2>3, <2>4 DEF LevelOK
    <2> QED BY <2>1, <2>5 DEF level
  <1>2. orders \in Seq(OrderRecord) /\ Len(orders) <= MaxOrders /\ DOMAIN levels = OrderSide
    BY DEF IInv, Book, Registry
  <1> QED BY <1>1, <1>2 DEF IInv, PoolInv, ControlInv, TypeOK

LEMMA IInvQueued == IInv => QueuedExactlyWhenOpen
  <1> SUFFICES ASSUME IInv PROVE QueuedExactlyWhenOpen
    OBVIOUS
  <1>1. Book(orders, levels)
    BY DEF IInv
  <1>2. \A id \in DOMAIN orders :
            Open(orders[id]) =>
                /\ orders[id].price \in DOMAIN levels[orders[id].side]
                /\ id \in DOMAIN levels[orders[id].side][orders[id].price].orders_map
    BY <1>1, OpenIsQueued
  <1>3. \A side \in OrderSide : \A price \in DOMAIN levels[side] :
            \A id \in DOMAIN levels[side][price].orders_map :
                /\ Registered(id)
                /\ orders[id].side = side /\ orders[id].price = price
                /\ Open(orders[id])
    <2> SUFFICES ASSUME NEW side \in OrderSide, NEW price \in DOMAIN levels[side],
                        NEW id \in DOMAIN levels[side][price].orders_map
                 PROVE  /\ Registered(id)
                        /\ orders[id].side = side /\ orders[id].price = price
                        /\ Open(orders[id])
      OBVIOUS
    <2>1. MapOK(levels[side][price], orders, side, price)
      BY <1>1, LevelFacts DEF LevelInv
    <2> QED BY <2>1 DEF MapOK, Registered
  <1> QED BY <1>2, <1>3 DEF QueuedExactlyWhenOpen

LEMMA IInvHead == IInv => HeadNeverPassesQueued
  <1> SUFFICES ASSUME IInv, NEW side \in OrderSide, NEW price \in DOMAIN levels[side],
                      NEW id \in DOMAIN levels[side][price].orders_map
               PROVE  LET level == levels[side][price]
                      IN  /\ level.order_entries[level.orders_map[id]] =
                                [order |-> id, is_valid |-> TRUE]
                          /\ level.queue_head_index <= level.orders_map[id]
    BY DEF HeadNeverPassesQueued
  <1>1. LevelInv(levels[side][price], orders, side, price)
    BY LevelFacts DEF IInv
  <1> QED BY <1>1 DEF LevelInv, MapOK

LEMMA IInvGhosts == IInv => NoGhostEntries
  <1> SUFFICES ASSUME IInv, NEW side \in OrderSide, NEW price \in DOMAIN levels[side]
               PROVE  LET level == levels[side][price]
                          queued(id) == id \in DOMAIN level.orders_map
                          filled(id) == Registered(id) /\ Filled(orders[id])
                      IN  /\ ~ Empty(level)
                          /\ queued(FrontOrder(level)) \/ filled(FrontOrder(level))
                          /\ \A i \in DOMAIN level.order_entries :
                                LET id == level.order_entries[i].order
                                IN  level.order_entries[i].is_valid =>
                                        \/ queued(id) /\ level.orders_map[id] = i
                                        \/ filled(id)
    BY DEF NoGhostEntries
  <1> DEFINE level == levels[side][price]
  <1>1. EntriesOK(level, orders) /\ HeadOK(level, orders, {}) /\ ~ Empty(level)
    BY LevelFacts DEF IInv, LevelInv
  <1> HIDE DEF level
  <1>2. \/ FrontOrder(level) \in DOMAIN level.orders_map
        \/ Registered(FrontOrder(level)) /\ Filled(orders[FrontOrder(level)])
    BY <1>1 DEF HeadOK, FilledIn, Registered
  <1>3. \A i \in DOMAIN level.order_entries :
            level.order_entries[i].is_valid =>
                \/ /\ level.order_entries[i].order \in DOMAIN level.orders_map
                   /\ level.orders_map[level.order_entries[i].order] = i
                \/ /\ Registered(level.order_entries[i].order)
                   /\ Filled(orders[level.order_entries[i].order])
    BY <1>1 DEF EntriesOK, FilledIn, Registered
  <1> QED BY <1>1, <1>2, <1>3 DEF level

LEMMA IInvOverfill == IInv => NoOverfill
  <1>1. ASSUME NEW o, OrderInv(o)
        PROVE  /\ o.quantity_filled <= o.quantity
               /\ Open(o) /\ o.quantity > 0 => Available(o) > 0
    BY <1>1 DEF OrderInv, Available
  <1> QED BY <1>1 DEF IInv, Book, Registry, NoOverfill

\* What a step does to closed orders.
LEMMA ClosedKept ==
    ASSUME IInv, [Next]_vars, NEW id \in DOMAIN orders, ~ Open(orders[id])
    PROVE  orders'[id] = orders[id]
  <1>1. Book(orders, levels) /\ orders \in Seq(OrderRecord)
    BY DEF IInv, Book, Registry
  <1>2. ASSUME NEW side \in OrderSide, NEW price \in Prices,
               NEW quantity \in Quantities, AddOrder(side, price, quantity)
        PROVE  orders'[id] = orders[id]
    BY <1>1, <1>2 DEF AddOrder
  <1>3. ASSUME NEW x \in DOMAIN orders, CancelOrder(x) PROVE orders'[id] = orders[id]
    BY <1>3 DEF CancelOrder
  <1>4. ASSUME NEW x \in DOMAIN orders, NEW price \in Prices,
               NEW quantity \in Quantities, ModifyOrder(x, price, quantity)
        PROVE  orders'[id] = orders[id]
    BY <1>4 DEF ModifyOrder
  <1>5. CASE MatchOrders
    <2>1. orders' = AfterMatch /\ BothSides /\ MatchFault = "none"
      BY <1>5 DEF MatchOrders, AfterMatch, Crossed
    <2>2. id \notin Fronts
      BY <1>1, <2>1, MatchRegistry
    <2> QED BY <1>1, <2>1, <2>2, MatchRegistry
  <1>6. CASE UNCHANGED orders
    BY <1>6
  <1> QED
    BY <1>2, <1>3, <1>4, <1>5, <1>6
       DEF Next, TryMatch, CancelRejected, ModifyRejected, UseAfterFree,
           MatchReturns, MatchUndefined, vars

THEOREM Invariance == Spec => []IInv
  BY InitIInv, NextIInv, PTL DEF Spec

\* Every variable keeps its type: entries, maps and head indices of the levels
\* stay within the vectors they point into.
THEOREM TypeCorrect == Spec => []TypeOK
  BY Invariance, IInvTypeOK, PTL

\* An order is queued, at its side and price only, exactly while it is open.
\* This is what makes the unchecked find() in the dispatchers of cancel_order
\* and modify_order safe.
THEOREM Consistent == Spec => []QueuedExactlyWhenOpen
  BY Invariance, IInvQueued, PTL

\* The head of a level never passes a queued order, so increment_to_valid always
\* stops inside the vector.
THEOREM NobodySkipped == Spec => []HeadNeverPassesQueued
  BY Invariance, IInvHead, PTL

\* The only dead orders that can come to the front of a level are filled ones.
THEOREM NoGhosts == Spec => []NoGhostEntries
  BY Invariance, IInvGhosts, PTL

\* Order::match never throws and quantity - quantity_filled never wraps.
THEOREM FillsBounded == Spec => []NoOverfill
  BY Invariance, IInvOverfill, PTL

\* Pointers into the pool are stable until it outgrows its first reservation.
THEOREM PoolStable == Spec => []PointersStableWithinPool
  <1>1. IInv => PointersStableWithinPool
    BY DEF IInv, PoolInv, PointersStableWithinPool
  <1> QED BY <1>1, Invariance, PTL

\* Filled and cancelled orders never change again, in whatever level's vector
\* their entries have been left.
THEOREM ClosedFinal == Spec => ClosedOrdersAreFinal
  <1>1. IInv /\ [Next]_vars =>
            [\A id \in DOMAIN orders :
                ~ Open(orders[id]) => orders'[id] = orders[id]]_vars
    BY ClosedKept
  <1> QED BY <1>1, Invariance, PTL DEF Spec, ClosedOrdersAreFinal

-----------------------------------------------------------------------------
(***************************************************************************)
(* The front of a level is its oldest order, and matching is free of       *)
(* undefined behaviour, provided that no modify_order takes the only order *)
(* out of a level and puts it back: "growAlone" is the one request after   *)
(* which a tombstone can be at the head.                                   *)
(*                                                                         *)
(* The inductive invariant adds to IInv that every valid entry is queued,  *)
(* and that the head of a level is valid.                                  *)
(***************************************************************************)

\* An entry is valid only if the map points to it.
AllQueued(level) ==
    \A i \in DOMAIN level.order_entries :
        level.order_entries[i].is_valid =>
            /\ level.order_entries[i].order \in DOMAIN level.orders_map
            /\ level.orders_map[level.order_entries[i].order] = i

HeadValid(level) ==
    /\ level.queue_head_index \in DOMAIN level.order_entries
    /\ level.order_entries[level.queue_head_index].is_valid

Tight(level) == AllQueued(level) /\ (~ Empty(level) => HeadValid(level))

\* PriceLevel::add_order on a new level, or on one that holds an order.
LEMMA AddTight ==
    ASSUME NEW level, IsLevel(level), Tight(level), NEW id \in OrderIds,
           id \notin DOMAIN level.orders_map,
           level = EmptyLevel \/ ~ Empty(level), NEW lv, lv = AddEntry(level, id)
    PROVE  Tight(lv)
  <1> DEFINE e == level.order_entries
             h == level.queue_head_index
             entry == [order |-> id, is_valid |-> TRUE]
  <1>1. /\ lv.queue_head_index = h /\ lv.order_entries = Append(e, entry)
        /\ DOMAIN lv.orders_map = DOMAIN level.orders_map \cup {id}
        /\ \A x \in DOMAIN lv.orders_map :
            lv.orders_map[x] = IF x = id THEN Len(e) + 1 ELSE level.orders_map[x]
    BY DEF IsLevel, AddEntry
  <1>2. /\ e \in Seq(EntryRecord) /\ h \in Nat \ {0} /\ entry \in EntryRecord
        /\ DOMAIN e = 1 .. Len(e) /\ Len(e) \in Nat
    BY DEF IsLevel, EntryRecord
  <1>3. /\ DOMAIN lv.order_entries = 1 .. Len(e) + 1
        /\ \A i \in 1 .. Len(e) : lv.order_entries[i] = e[i]
        /\ lv.order_entries[Len(e) + 1] = entry
    BY <1>1, <1>2
  <1>4. AllQueued(lv)
    <2> SUFFICES ASSUME NEW i \in DOMAIN lv.order_entries,
                        lv.order_entries[i].is_valid
                 PROVE  /\ lv.order_entries[i].order \in DOMAIN lv.orders_map
                        /\ lv.orders_map[lv.order_entries[i].order] = i
      BY DEF AllQueued
    <2>1. CASE i = Len(e) + 1
      BY <2>1, <1>1, <1>3
    <2>2. CASE i \in 1 .. Len(e)
      BY <2>2, <1>1, <1>2, <1>3 DEF Tight, AllQueued
    <2> QED BY <2>1, <2>2, <1>2, <1>3
  <1>5. HeadValid(lv)
    <2>1. CASE level = EmptyLevel
      <3>1. Len(e) = 0 /\ h = 1
        BY <2>1 DEF EmptyLevel
      <3> QED BY <3>1, <1>1, <1>3 DEF HeadValid
    <2>2. CASE ~ Empty(level)
      BY <2>2, <1>1, <1>2, <1>3 DEF Tight, HeadValid
    <2> QED BY <2>1, <2>2
  <1> QED BY <1>4, <1>5 DEF Tight

\* Bury of the entry that the map has for id: increment_to_valid finds the next
\* valid entry.
LEMMA BuryTight ==
    ASSUME NEW level, NEW os, NEW side, NEW price, LevelInv(level, os, side, price),
           Tight(level), NEW id \in DOMAIN level.orders_map,
           NEW i, i = level.orders_map[id], NEW lv, lv = Bury(level, i, id)
    PROVE  /\ Tight(lv) /\ IsLevel(lv)
           /\ DOMAIN lv.orders_map = DOMAIN level.orders_map \ {id}
  <1> DEFINE b == Buried(level, i, id)
  <1>1. lv = IncrementToValid(b)
    BY DEF Bury, Buried
  <1>2. i \in DOMAIN level.order_entries /\ IsLevel(level)
    BY DEF LevelInv, MapOK
  <1>3. /\ IsLevel(b)
        /\ b.queue_head_index = level.queue_head_index
        /\ DOMAIN b.order_entries = DOMAIN level.order_entries
        /\ ~ b.order_entries[i].is_valid
        /\ \A j \in DOMAIN level.order_entries :
            j # i => b.order_entries[j] = level.order_entries[j]
        /\ DOMAIN b.orders_map = DOMAIN level.orders_map \ {id}
        /\ \A x \in DOMAIN b.orders_map : b.orders_map[x] = level.orders_map[x]
    BY <1>2, BuriedFields
  <1> HIDE DEF b
  <1>4. AllQueued(b)
    <2> SUFFICES ASSUME NEW j \in DOMAIN b.order_entries,
                        b.order_entries[j].is_valid
                 PROVE  /\ b.order_entries[j].order \in DOMAIN b.orders_map
                        /\ b.orders_map[b.order_entries[j].order] = j
      BY DEF AllQueued
    <2>1. j # i /\ b.order_entries[j] = level.order_entries[j]
      BY <1>3
    <2>2. /\ level.order_entries[j].order \in DOMAIN level.orders_map
          /\ level.orders_map[level.order_entries[j].order] = j
      BY <2>1, <1>3 DEF Tight, AllQueued
    <2> QED BY <2>1, <2>2, <1>3
  <1>5. CASE Empty(b)
    BY <1>1, <1>3, <1>4, <1>5 DEF IncrementToValid, Tight
  <1>6. CASE ~ Empty(b)
    <2>1. PICK x \in DOMAIN b.orders_map : TRUE
      BY <1>6 DEF Empty
    <2> DEFINE k == level.orders_map[x]
    <2>2. /\ k \in DOMAIN level.order_entries /\ b.orders_map[x] = k
          /\ level.order_entries[k] = [order |-> x, is_valid |-> TRUE]
          /\ level.queue_head_index <= k
      BY <2>1, <1>3 DEF LevelInv, MapOK
    <2>3. level.order_entries[i] = [order |-> id, is_valid |-> TRUE]
      BY DEF LevelInv, MapOK
    <2>4. x # id
      BY <1>3
    <2> HIDE DEF k
    <2>5. k # i
      BY <2>2, <2>3, <2>4
    <2>6. /\ k \in DOMAIN b.order_entries /\ b.order_entries[k].is_valid
          /\ b.queue_head_index <= k
      BY <2>2, <2>5, <1>3
    <2>7. /\ IsLevel(lv) /\ lv.order_entries = b.order_entries /\ lv.orders_map = b.orders_map
          /\ lv.queue_head_index \in DOMAIN b.order_entries
          /\ b.order_entries[lv.queue_head_index].is_valid
      BY <1>1, <1>3, <1>6, <2>6, IncrementFields
    <2> QED BY <1>3, <1>4, <2>7 DEF Tight, AllQueued, HeadValid
  <1> QED BY <1>5, <1>6

\* The order at the front of a tight level is the one that joined first.
LEMMA FrontOfTight ==
    ASSUME NEW level, NEW os, NEW side, NEW price, LevelInv(level, os, side, price),
           Tight(level), ~ Empty(level)
    PROVE  /\ FrontOrder(level) \in DOMAIN level.orders_map
           /\ level.orders_map[FrontOrder(level)] = level.queue_head_index
           /\ \A id \in DOMAIN level.orders_map :
                level.orders_map[FrontOrder(level)] <= level.orders_map[id]
  <1>1. /\ FrontOrder(level) \in DOMAIN level.orders_map
        /\ level.orders_map[FrontOrder(level)] = level.queue_head_index
    BY DEF Tight, AllQueued, HeadValid, FrontOrder
  <1>2. \A id \in DOMAIN level.orders_map :
            level.queue_head_index <= level.orders_map[id]
    BY DEF LevelInv, MapOK
  <1> QED BY <1>1, <1>2

-----------------------------------------------------------------------------
(***************************************************************************)
(* One side of the book                                                    *)
(***************************************************************************)

TightSide(sl) == \A p \in DOMAIN sl : Tight(sl[p])

\* try_emplace and add_order, unless the level was emptied just before.
LEMMA EnqueueTight ==
    ASSUME NEW sl, NEW price, NEW id \in OrderIds, TightSide(sl),
           price \in DOMAIN sl =>
                /\ IsLevel(sl[price]) /\ ~ Empty(sl[price])
                /\ id \notin DOMAIN sl[price].orders_map
    PROVE  TightSide(Enqueue(sl, price, id))
  <1> DEFINE new == Enqueue(sl, price, id)
             level == IF price \in DOMAIN sl THEN sl[price] ELSE EmptyLevel
             lv == AddEntry(level, id)
  <1>1. /\ DOMAIN new = DOMAIN sl \cup {price} /\ new[price] = lv
        /\ \A p \in DOMAIN sl : p # price => new[p] = sl[p]
    BY DEF Enqueue
  <1>2. /\ IsLevel(EmptyLevel) /\ Tight(EmptyLevel)
        /\ DOMAIN EmptyLevel.orders_map = {}
    BY DEF EmptyLevel, IsLevel, EntryRecord, Tight, AllQueued, Empty
  <1>3. /\ IsLevel(level) /\ Tight(level) /\ id \notin DOMAIN level.orders_map
        /\ level = EmptyLevel \/ ~ Empty(level)
    BY <1>2 DEF TightSide
  <1> HIDE DEF level
  <1>4. Tight(lv)
    BY <1>3, AddTight
  <1> HIDE DEF new, lv
  <1>5. TightSide(new)
    BY <1>1, <1>4 DEF TightSide
  <1> QED BY <1>5 DEF new

LEMMA PruneTight ==
    ASSUME NEW sl, NEW price, TightSide(sl)
    PROVE  TightSide(RemovePriceLevelIfEmpty(sl, price))
  BY DEF TightSide, RemovePriceLevelIfEmpty

\* A side from whose level at price id was taken.
TightWithout(sl, rem, price, id) ==
    /\ TightSide(rem) /\ DOMAIN rem = DOMAIN sl /\ IsLevel(rem[price])
    /\ \A p \in DOMAIN sl : p # price => rem[p] = sl[p]
    /\ DOMAIN rem[price].orders_map = DOMAIN sl[price].orders_map \ {id}

\* remove_order, or a pop of the front order, at one price.
LEMMA RemoveTight ==
    ASSUME NEW sl, NEW os, NEW side, SideInv(sl, os, side), TightSide(sl),
           NEW price \in DOMAIN sl, NEW id \in DOMAIN sl[price].orders_map,
           NEW i, i = sl[price].orders_map[id],
           NEW rem, rem = [sl EXCEPT ![price] = Bury(@, i, id)]
    PROVE  TightWithout(sl, rem, price, id)
  <1> DEFINE level == sl[price]
             lv == Bury(level, i, id)
  <1>1. /\ DOMAIN rem = DOMAIN sl /\ rem[price] = lv
        /\ \A p \in DOMAIN sl : p # price => rem[p] = sl[p]
    OBVIOUS
  <1>2. LevelInv(level, os, side, price) /\ Tight(level)
    BY DEF SideInv, SideLevels, TightSide
  <1>3. Tight(lv) /\ IsLevel(lv) /\ DOMAIN lv.orders_map = DOMAIN level.orders_map \ {id}
    <2>1. id \in DOMAIN level.orders_map /\ i = level.orders_map[id]
      OBVIOUS
    <2> HIDE DEF level
    <2> QED BY <1>2, <2>1, BuryTight
  <1> HIDE DEF level, lv
  <1> QED BY <1>1, <1>3 DEF TightWithout, TightSide, level

-----------------------------------------------------------------------------
(***************************************************************************)
(* The inductive invariant                                                 *)
(***************************************************************************)

TightBook == \A side \in OrderSide : TightSide(levels[side])

\* erase(end()) is out of reach, and so is freed memory before the pool grows.
FaultInv ==
    /\ fault # "erase_end"
    /\ Len(orders) <= PoolReserve => fault = "none"

FrontInv == TightBook /\ FaultInv

\* One side changes.
LEMMA OneSideTight ==
    ASSUME Book(orders, levels), TightBook, NEW side \in OrderSide, NEW new,
           TightSide(new), levels' = [levels EXCEPT ![side] = new]
    PROVE  TightBook'
  <1>1. \A s \in OrderSide : levels'[s] = IF s = side THEN new ELSE levels[s]
    BY DEF Book
  <1> QED BY <1>1 DEF TightBook

LEMMA AddKeepsTight ==
    ASSUME Book(orders, levels), TightBook, NEW side \in OrderSide,
           NEW price \in Prices, NEW quantity \in Quantities,
           AddOrder(side, price, quantity)
    PROVE  TightBook'
  <1> DEFINE id == Len(orders) + 1
             sl == levels[side]
  <1>1. id \in OrderIds /\ levels' = [levels EXCEPT ![side] = Enqueue(sl, price, id)]
    BY DEF AddOrder
  <1>2. TightSide(sl)
    BY DEF TightBook
  <1>3. id \notin DOMAIN orders
    BY RegistryDomain DEF Book
  <1>4. price \in DOMAIN sl =>
            /\ IsLevel(sl[price]) /\ ~ Empty(sl[price])
            /\ id \notin DOMAIN sl[price].orders_map
    <2>1. ASSUME price \in DOMAIN sl
          PROVE  /\ IsLevel(sl[price]) /\ ~ Empty(sl[price])
                 /\ MapOK(sl[price], orders, side, price)
      BY <2>1, LevelFacts DEF LevelInv
    <2> HIDE DEF sl, id
    <2> QED BY <1>3, <2>1 DEF MapOK
  <1> HIDE DEF id, sl
  <1>5. TightSide(Enqueue(sl, price, id))
    BY <1>1, <1>2, <1>4, EnqueueTight
  <1> QED BY <1>1, <1>5, OneSideTight

\* The side of an open order once it is taken out of its level.
LEMMA TakenOutTight ==
    ASSUME Book(orders, levels), TightBook, NEW id \in DOMAIN orders, Open(orders[id])
    PROVE  LET o == orders[id]
               sl == levels[o.side]
               rem == [sl EXCEPT ![o.price] = RemoveEntry(@, id)]
           IN  /\ o.side \in OrderSide /\ o.price \in DOMAIN sl
               /\ id \in DOMAIN sl[o.price].orders_map /\ TightSide(sl)
               /\ TightWithout(sl, rem, o.price, id)
  <1> DEFINE o == orders[id]
             side == o.side
             price == o.price
             sl == levels[side]
             rem == [sl EXCEPT ![price] = RemoveEntry(@, id)]
  <1>1. /\ side \in OrderSide /\ SideInv(sl, orders, side)
        /\ price \in DOMAIN sl /\ id \in DOMAIN sl[price].orders_map
    BY OpenIsQueued
  <1>2. TightSide(sl)
    BY <1>1 DEF TightBook
  <1> DEFINE i == sl[price].orders_map[id]
  <1>3. rem = [sl EXCEPT ![price] = Bury(@, i, id)] /\ i = sl[price].orders_map[id]
    BY <1>1 DEF RemoveEntry
  <1> HIDE DEF sl, price, side, rem, i
  <1>4. TightWithout(sl, rem, price, id)
    BY <1>1, <1>2, <1>3, RemoveTight
  <1> QED BY <1>1, <1>2, <1>4 DEF sl, price, side, rem

LEMMA CancelKeepsTight ==
    ASSUME Book(orders, levels), TightBook, NEW id \in DOMAIN orders, CancelOrder(id)
    PROVE  TightBook'
  <1> DEFINE o == orders[id]
             sl == levels[o.side]
             rem == [sl EXCEPT ![o.price] = RemoveEntry(@, id)]
             new == RemovePriceLevelIfEmpty(rem, o.price)
  <1>1. Open(o) /\ levels' = [levels EXCEPT ![o.side] = new]
    BY DEF CancelOrder, CancelOrderDispatcher
  <1>2. o.side \in OrderSide /\ TightSide(rem)
    BY <1>1, TakenOutTight DEF TightWithout
  <1>3. TightSide(new)
    BY <1>2, PruneTight
  <1> HIDE DEF new
  <1> QED BY <1>1, <1>2, <1>3, OneSideTight

LEMMA ModifyKeepsTight ==
    ASSUME "growAlone" \notin AmendKinds, Book(orders, levels), TightBook,
           NEW id \in DOMAIN orders, NEW new_price \in Prices,
           NEW new_qty \in Quantities, ModifyOrder(id, new_price, new_qty)
    PROVE  TightBook'
  <1> DEFINE o == orders[id]
             side == o.side
             price == o.price
             sl == levels[side]
             rem == [sl EXCEPT ![price] = RemoveEntry(@, id)]
             moves == new_price # price \/ new_qty > o.quantity
             put == Enqueue(rem, new_price, id)
             new == RemovePriceLevelIfEmpty(IF moves THEN put ELSE sl, price)
  <1>1. Open(o) /\ levels' = [levels EXCEPT ![side] = new]
    BY DEF ModifyOrder, ModifyOrderDispatcher
  <1>2. /\ side \in OrderSide /\ price \in DOMAIN sl
        /\ id \in DOMAIN sl[price].orders_map /\ TightSide(sl)
        /\ TightSide(rem) /\ DOMAIN rem = DOMAIN sl /\ IsLevel(rem[price])
        /\ \A p \in DOMAIN sl : p # price => rem[p] = sl[p]
        /\ DOMAIN rem[price].orders_map = DOMAIN sl[price].orders_map \ {id}
    BY <1>1, TakenOutTight DEF TightWithout
  <1>3. id \in OrderIds
    BY RegistryDomain DEF Book
  <1>4. ASSUME moves PROVE TightSide(put)
    <2>1. \A p \in DOMAIN sl : /\ IsLevel(sl[p]) /\ ~ Empty(sl[p])
                               /\ MapOK(sl[p], orders, side, p)
      BY <1>2, LevelFacts DEF LevelInv
    <2>2. CASE new_price # price
      <3>1. new_price \in DOMAIN rem =>
                /\ IsLevel(rem[new_price]) /\ ~ Empty(rem[new_price])
                /\ id \notin DOMAIN rem[new_price].orders_map
        <4> SUFFICES ASSUME new_price \in DOMAIN sl
                     PROVE  id \notin DOMAIN sl[new_price].orders_map
          BY <1>2, <2>1, <2>2
        <4>1. MapOK(sl[new_price], orders, side, new_price)
          BY <2>1
        <4> HIDE DEF sl
        <4> QED BY <2>2, <4>1 DEF MapOK
      <3> HIDE DEF rem
      <3> QED BY <1>2, <1>3, <3>1, EnqueueTight
    <2>3. CASE new_price = price
      <3>1. o.quantity \in Nat /\ new_qty \in Nat
        BY DEF Book, Registry, OrderInv
      <3>2. DOMAIN sl[price].orders_map # {id}
        <4>1. AmendKind(id, new_price, new_qty) # "growAlone"
          BY DEF ModifyOrder
        <4> QED BY <1>4, <2>3, <3>1, <4>1 DEF AmendKind
      <3> HIDE DEF rem, sl
      <3>3. ~ Empty(rem[price]) /\ id \notin DOMAIN rem[price].orders_map
        BY <1>2, <3>2 DEF Empty
      <3> QED BY <1>2, <1>3, <2>3, <3>3, EnqueueTight
    <2> QED BY <2>2, <2>3
  <1>5. TightSide(IF moves THEN put ELSE sl)
    BY <1>2, <1>4
  <1>6. TightSide(new)
    BY <1>5, PruneTight
  <1> HIDE DEF new
  <1> QED BY <1>1, <1>2, <1>6, OneSideTight

\* The order at the front of the best level, which try_match fills and pops.
LEMMA BestFrontQueued ==
    ASSUME Book(orders, levels), TightBook, BothSides, NEW side \in OrderSide
    PROVE  /\ BestFront(side) \in DOMAIN BestLevel(side).orders_map
           /\ BestLevel(side).orders_map[BestFront(side)] =
                BestLevel(side).queue_head_index
  <1>1. /\ Best(side) \in DOMAIN levels[side] /\ ~ Empty(BestLevel(side))
        /\ LevelInv(BestLevel(side), orders, side, Best(side))
    BY BestFacts
  <1>2. Tight(BestLevel(side))
    BY <1>1 DEF TightBook, TightSide, BestLevel
  <1> QED BY <1>1, <1>2, FrontOfTight DEF BestFront

\* An iteration of try_match is defined as long as it reads no freed memory.
LEMMA MatchDefined ==
    ASSUME Book(orders, levels), TightBook, BothSides
    PROVE  MatchFault # "erase_end" /\ (stale = {} => MatchFault = "none")
  <1>1. \A side \in OrderSide :
            ~ PopIsUndefined(BestLevel(side), Filled(Matched(BestFront(side))))
    BY BestFrontQueued DEF PopIsUndefined, BestFront
  <1> QED BY <1>1 DEF MatchFault

LEMMA PopKeepsTight ==
    ASSUME Book(orders, levels), TightBook, BothSides, NEW side \in OrderSide
    PROVE  TightSide(PopBest(side))
  <1> DEFINE sl == levels[side]
             price == Best(side)
             f == BestFront(side)
             i == sl[price].orders_map[f]
             filled == Filled(Matched(f))
             rem == [sl EXCEPT ![price] = PopFrontIfFilled(@, filled)]
  <1>1. /\ price \in DOMAIN sl /\ sl[price] = BestLevel(side)
        /\ SideInv(sl, orders, side) /\ ~ Empty(sl[price])
    BY BestFacts DEF BestLevel, Book
  <1>2. TightSide(sl)
    BY DEF TightBook
  <1>3. /\ f \in DOMAIN sl[price].orders_map /\ i = sl[price].queue_head_index
        /\ FrontOrder(sl[price]) = f
    BY <1>1, BestFrontQueued DEF BestFront
  <1>4. PopBest(side) = RemovePriceLevelIfEmpty(rem, price)
    BY DEF PopBest
  <1>5. TightSide(rem)
    <2>1. CASE filled
      <3>1. rem = [sl EXCEPT ![price] = Bury(@, i, f)] /\ i = sl[price].orders_map[f]
        BY <1>1, <1>3, <2>1 DEF PopFrontIfFilled
      <3> HIDE DEF rem, i, sl, price, f
      <3>2. TightWithout(sl, rem, price, f)
        BY <1>1, <1>2, <1>3, <3>1, RemoveTight
      <3> QED BY <3>2 DEF TightWithout
    <2>2. CASE ~ filled
      <3>1. DOMAIN rem = DOMAIN sl /\ \A p \in DOMAIN sl : rem[p] = sl[p]
        BY <2>2 DEF PopFrontIfFilled
      <3> HIDE DEF rem, sl
      <3> QED BY <1>2, <3>1 DEF TightSide
    <2> QED BY <2>1, <2>2
  <1> HIDE DEF rem
  <1> QED BY <1>4, <1>5, PruneTight

LEMMA NextTight ==
    ASSUME "growAlone" \notin AmendKinds, IInv, TightBook, [Next]_vars
    PROVE  TightBook'
  <1>1. Book(orders, levels)
    BY DEF IInv
  <1>2. ASSUME NEW side \in OrderSide, NEW price \in Prices,
               NEW quantity \in Quantities, AddOrder(side, price, quantity)
        PROVE  TightBook'
    BY <1>1, <1>2, AddKeepsTight
  <1>3. ASSUME NEW id \in DOMAIN orders, CancelOrder(id) PROVE TightBook'
    BY <1>1, <1>3, CancelKeepsTight
  <1>4. ASSUME NEW id \in DOMAIN orders, NEW price \in Prices,
               NEW quantity \in Quantities, ModifyOrder(id, price, quantity)
        PROVE  TightBook'
    BY <1>1, <1>4, ModifyKeepsTight
  <1>5. CASE MatchOrders
    <2>1. BothSides /\ levels' = [side \in OrderSide |-> PopBest(side)]
      BY <1>5 DEF MatchOrders, Crossed
    <2> QED BY <1>1, <2>1, PopKeepsTight DEF TightBook
  <1>6. CASE UNCHANGED levels
    BY <1>6 DEF TightBook
  <1> QED
    BY <1>2, <1>3, <1>4, <1>5, <1>6
       DEF Next, TryMatch, CancelRejected, ModifyRejected, UseAfterFree,
           MatchReturns, MatchUndefined, vars

\* Undefined behaviour is reached only by reading freed memory, and that only
\* after the pool has grown.
LEMMA NextFault ==
    ASSUME IInv, TightBook, FaultInv, [Next]_vars
    PROVE  FaultInv'
  <1>1. Book(orders, levels) /\ (Len(orders) <= PoolReserve => stale = {})
    BY DEF IInv, PoolInv
  <1>2. ASSUME NEW side \in OrderSide, NEW price \in Prices,
               NEW quantity \in Quantities, AddOrder(side, price, quantity)
        PROVE  FaultInv'
    BY <1>2 DEF AddOrder, Idle, FaultInv
  <1>3. ASSUME NEW id \in DOMAIN orders, UseAfterFree(id) PROVE FaultInv'
    BY <1>1, <1>3 DEF UseAfterFree, FaultInv
  <1>4. CASE MatchUndefined
    BY <1>1, <1>4, MatchDefined DEF MatchUndefined, Crossed, FaultInv
  <1>5. ASSUME fault' = fault, fault = "none" PROVE FaultInv'
    BY <1>5 DEF FaultInv
  <1>6. CASE UNCHANGED vars
    BY <1>6 DEF FaultInv, vars
  <1> QED
    BY <1>2, <1>3, <1>4, <1>5, <1>6
       DEF Next, TryMatch, CancelRejected, ModifyRejected, CancelOrder, ModifyOrder,
           MatchReturns, MatchOrders, Idle

\* As long as no modify_order re-queues the only order of a level, the head of
\* every level stays on a valid entry: increment_to_valid never stops early.
THEOREM FrontInvariance ==
    ASSUME "growAlone" \notin AmendKinds
    PROVE  Spec => []FrontInv
  <1>1. Init => FrontInv
    BY DEF Init, FrontInv, TightBook, TightSide, FaultInv
  <1>2. IInv /\ FrontInv /\ [Next]_vars => FrontInv'
    BY NextTight, NextFault DEF FrontInv
  <1> QED BY <1>1, <1>2, Invariance, PTL DEF Spec

\* As long as no modify_order re-queues the only order of a level, the order at
\* the front of a level is queued there and has waited longest, for all that
\* front() never looks at is_valid.
THEOREM FrontIsOldest ==
    ASSUME "growAlone" \notin AmendKinds
    PROVE  Spec => []FrontIsFirstQueued
  <1>1. ASSUME IInv, FrontInv, NEW side \in OrderSide, NEW price \in DOMAIN levels[side]
        PROVE  LET level == levels[side][price]
               IN  /\ FrontOrder(level) \in DOMAIN level.orders_map
                   /\ \A id \in DOMAIN level.orders_map :
                        level.orders_map[FrontOrder(level)] <= level.orders_map[id]
    <2> DEFINE level == levels[side][price]
    <2>1. LevelInv(level, orders, side, price) /\ ~ Empty(level)
      BY <1>1, LevelFacts DEF IInv
    <2>2. Tight(level)
      BY <1>1 DEF FrontInv, TightBook, TightSide
    <2> HIDE DEF level
    <2>3. /\ FrontOrder(level) \in DOMAIN level.orders_map
          /\ \A id \in DOMAIN level.orders_map :
                level.orders_map[FrontOrder(level)] <= level.orders_map[id]
      BY <2>1, <2>2, FrontOfTight
    <2> QED BY <2>3 DEF level
  <1>2. IInv /\ FrontInv => FrontIsFirstQueued
    BY <1>1 DEF FrontIsFirstQueued
  <1> QED BY <1>2, Invariance, FrontInvariance, PTL

\* Under the same condition, and as long as the pool holds all orders it was
\* built for, no request and no iteration of try_match is undefined: neither
\* erase(end()) in pop_front_order_if_filled nor a pointer into freed memory.
THEOREM NothingUndefined ==
    ASSUME "growAlone" \notin AmendKinds, MaxOrders <= PoolReserve
    PROVE  Spec => []NoFault
  <1>1. IInv /\ FrontInv => NoFault
    <2> SUFFICES ASSUME IInv, FrontInv PROVE fault = "none"
      BY DEF NoFault
    <2>1. Len(orders) \in Nat /\ Len(orders) <= MaxOrders
      BY RegistryDomain DEF IInv, Book, Registry
    <2>2. Len(orders) <= PoolReserve
      BY <2>1, ReserveAssumption
    <2> QED BY <2>2 DEF FrontInv, FaultInv
  <1> QED BY <1>1, Invariance, FrontInvariance, PTL

-----------------------------------------------------------------------------
(***************************************************************************)
(* Crossed books                                                           *)
(***************************************************************************)

\* begin() of either map is the best price of its side.
LEMMA BestBounds ==
    ASSUME NEW side \in OrderSide, DOMAIN levels[side] \subseteq Prices,
           NEW price \in DOMAIN levels[side]
    PROVE  IF side = "BUY" THEN price <= Best(side) ELSE Best(side) <= price
  <1> DEFINE D == DOMAIN levels[side]
  <1>1. D \in SUBSET Nat /\ IsFiniteSet(D) /\ D # {}
    BY FS_Subset
  <1>2. \A y \in D : Min(D) <= y
    BY <1>1, LeastNat DEF Min
  <1>3. \A y \in D : Max(D) >= y
    <2>1. PICK x \in D : \A y \in D : y <= x
      BY <1>1, GreatestNat
    <2>2. x \in D /\ \A y \in D : x >= y
      BY <1>1, <2>1
    <2> QED BY <2>2 DEF Max
  <1>4. Best(side) \in Nat
    BY <1>1, BestIsLevel
  <1> QED BY <1>1, <1>2, <1>3, <1>4 DEF Best

\* If the loop's test on the two best prices fails, no two prices cross.
LEMMA UncrossedBook ==
    ASSUME Book(orders, levels), ~ Crossed
    PROVE  ~ Tradable
  <1> SUFFICES ASSUME NEW bid \in DOMAIN levels["BUY"],
                      NEW ask \in DOMAIN levels["SELL"], bid >= ask
               PROVE  FALSE
    BY DEF Tradable
  <1>1. \A side \in OrderSide : DOMAIN levels[side] \subseteq Prices
    BY DEF Book, SideInv, SideLevels
  <1>2. BothSides
    BY DEF BothSides, OrderSide
  <1>3. /\ Best("BUY") \in Nat /\ Best("SELL") \in Nat
        /\ bid \in Nat /\ ask \in Nat
    <2>1. "BUY" \in OrderSide /\ "SELL" \in OrderSide
      BY DEF OrderSide
    <2>2. Best("BUY") \in DOMAIN levels["BUY"] /\ Best("SELL") \in DOMAIN levels["SELL"]
      BY <1>1, <2>1, BestIsLevel
    <2> QED BY <1>1, <2>1, <2>2
  <1>4. bid <= Best("BUY") /\ Best("SELL") <= ask
    BY <1>1, BestBounds DEF OrderSide
  <1> QED BY <1>2, <1>3, <1>4 DEF Crossed

\* The only step that leaves try_match is its return.
LEMMA LeavesMatch ==
    ASSUME [Next]_vars, pc = "match", pc' = "idle"
    PROVE  MatchReturns
  BY DEF Next, TryMatch, AddOrder, CancelRejected, CancelOrder, ModifyRejected,
         ModifyOrder, UseAfterFree, MatchOrders, MatchUndefined, Idle, vars

\* Inside try_match, an add that opened its level has the flag raised.
OpenedInv == pc = "match" /\ OpenedLevel => try_match_flag

\* An add that joins a level is not first there.
LEMMA JoinsBehind ==
    ASSUME Book(orders, levels), NEW side \in OrderSide, NEW price \in Prices,
           NEW quantity \in Quantities, AddOrder(side, price, quantity),
           price \in DOMAIN levels[side]
    PROVE  ~ OpenedLevel'
  <1> DEFINE id == Len(orders) + 1
             level == levels[side][price]
             order == CopyFromClient(side, price, quantity)
  <1>1. /\ DOMAIN levels = OrderSide /\ orders \in Seq(OrderRecord)
        /\ IsLevel(level) /\ level.queue_head_index \in DOMAIN level.order_entries
    BY DEF Book, Registry, SideInv, SideLevels, LevelInv, HeadOK
  <1>2. Len(level.order_entries) \in Nat \ {0}
    BY <1>1 DEF IsLevel
  <1>3. /\ Len(orders') = id /\ orders'[id] = order
        /\ Open(order) /\ order.side = side /\ order.price = price
    <2>1. order = CopyFromClient(side, price, quantity)
      OBVIOUS
    <2>2. orders' = Append(orders, order)
      BY DEF AddOrder
    <2> HIDE DEF order
    <2>3. OrderInv(order) /\ Open(order) /\ order.side = side /\ order.price = price
      BY ONLY <2>1, NewOrderInv
    <2>4. order \in OrderRecord /\ Open(order) /\ order.side = side /\ order.price = price
      BY ONLY <2>3, OrderInvRecord
    <2> QED BY <1>1, <2>4, <2>2
  <1>4. levels'[side][price] = AddEntry(level, id)
    BY <1>1 DEF AddOrder, Enqueue
  <1>5. AddEntry(level, id).orders_map[id] = Len(level.order_entries) + 1
    BY <1>1 DEF AddEntry, IsLevel
  <1>6. Len(level.order_entries) + 1 # 1
    BY <1>2
  <1> HIDE DEF level, order, id
  <1> QED BY <1>3, <1>4, <1>5, <1>6 DEF OpenedLevel

LEMMA NextOpened ==
    ASSUME IInv, OpenedInv, [Next]_vars
    PROVE  OpenedInv'
  <1>1. ASSUME NEW side \in OrderSide, NEW price \in Prices,
               NEW quantity \in Quantities, AddOrder(side, price, quantity)
        PROVE  OpenedInv'
    <2>1. CASE price \in DOMAIN levels[side]
      BY <1>1, <2>1, JoinsBehind DEF IInv, OpenedInv
    <2>2. CASE price \notin DOMAIN levels[side]
      BY <1>1, <2>2 DEF AddOrder, OpenedInv
    <2> QED BY <2>1, <2>2
  <1>2. CASE pc' = "match" /\ UNCHANGED <<try_match_flag, pc>> /\ try_match_flag
    BY <1>2 DEF OpenedInv
  <1>3. CASE UNCHANGED <<orders, levels, try_match_flag, pc>>
    BY <1>3 DEF OpenedInv, OpenedLevel
  <1>4. CASE pc' = "idle"
    BY <1>4 DEF OpenedInv
  <1> QED
    BY <1>1, <1>2, <1>3, <1>4
       DEF Next, TryMatch, CancelRejected, CancelOrder, ModifyRejected, ModifyOrder,
           UseAfterFree, MatchReturns, MatchOrders, MatchUndefined, Idle, vars

\* An add that opens a price level ends with a book in which no bid reaches an
\* ask, whatever modify_order calls came before it: the flag that skips the
\* matching of an add is down only for an add that joined other orders.
THEOREM NewLevelMatchesAll == Spec => NewLevelUncrosses
  <1>1. ASSUME IInv, OpenedInv, [Next]_vars, pc = "match", pc' = "idle", OpenedLevel
        PROVE  ~ Tradable'
    <2>1. ~ Crossed /\ levels' = levels
      BY <1>1, LeavesMatch DEF MatchReturns, OpenedInv
    <2>2. ~ Tradable
      BY <1>1, <2>1, UncrossedBook DEF IInv
    <2> QED BY <2>1, <2>2 DEF Tradable
  <1>2. IInv /\ OpenedInv /\ [Next]_vars =>
            [pc = "match" /\ pc' = "idle" /\ OpenedLevel => ~ Tradable']_vars
    BY <1>1
  <1>3. Init => OpenedInv
    BY DEF Init, OpenedInv
  <1>4. IInv /\ OpenedInv /\ [Next]_vars => OpenedInv'
    BY NextOpened
  <1> QED BY <1>2, <1>3, <1>4, Invariance, PTL DEF Spec, NewLevelUncrosses

\* Between requests, and in a try_match that the flag will end at once, there
\* is nothing to trade.
UncrossedInv == pc = "idle" \/ ~ try_match_flag => ~ Tradable

\* Fewer prices cross no more than before.
LEMMA FewerPrices ==
    ASSUME \A side \in OrderSide : DOMAIN levels'[side] \subseteq DOMAIN levels[side],
           ~ Tradable
    PROVE  ~ Tradable'
  BY DEF Tradable, OrderSide

\* The side maps after a request that removes an order, or changes its quantity.
LEMMA PricesAfterCancel ==
    ASSUME Book(orders, levels), NEW id \in DOMAIN orders, CancelOrder(id),
           NEW side \in OrderSide
    PROVE  DOMAIN levels'[side] \subseteq DOMAIN levels[side]
  <1>1. orders[id].side \in OrderSide /\ DOMAIN levels = OrderSide
    BY OpenIsQueued DEF CancelOrder, Book
  <1>2. levels'[side] = IF side = orders[id].side
                        THEN CancelOrderDispatcher(levels[side], orders[id], id)
                        ELSE levels[side]
    BY <1>1 DEF CancelOrder
  <1>3. \A sl, o : DOMAIN CancelOrderDispatcher(sl, o, id) \subseteq DOMAIN sl
    BY DEF CancelOrderDispatcher, RemovePriceLevelIfEmpty
  <1> QED BY <1>2, <1>3

LEMMA PricesAfterModify ==
    ASSUME Book(orders, levels), NEW id \in DOMAIN orders, NEW new_price \in Prices,
           NEW new_qty \in Quantities, ModifyOrder(id, new_price, new_qty),
           new_price = orders[id].price, NEW side \in OrderSide
    PROVE  DOMAIN levels'[side] \subseteq DOMAIN levels[side]
  <1> DEFINE o == orders[id]
             sl == levels[o.side]
             rem == [sl EXCEPT ![o.price] = RemoveEntry(@, id)]
             new == ModifyOrderDispatcher(sl, o, id, new_price, new_qty)
  <1>1. o.side \in OrderSide /\ DOMAIN levels = OrderSide /\ o.price \in DOMAIN sl
    BY OpenIsQueued DEF ModifyOrder, Book
  <1>2. levels'[side] = IF side = o.side THEN new ELSE levels[side]
    BY <1>1 DEF ModifyOrder
  <1>3. DOMAIN Enqueue(rem, o.price, id) = DOMAIN sl
    BY <1>1 DEF Enqueue
  <1>4. \A s : DOMAIN RemovePriceLevelIfEmpty(s, o.price) \subseteq DOMAIN s
    BY DEF RemovePriceLevelIfEmpty
  <1>5. DOMAIN new \subseteq DOMAIN sl
    <2>1. new = RemovePriceLevelIfEmpty(
                    IF new_qty > o.quantity THEN Enqueue(rem, o.price, id) ELSE sl,
                    o.price)
      BY DEF ModifyOrderDispatcher
    <2> HIDE DEF new, rem
    <2> QED BY <2>1, <1>3, <1>4
  <1> QED BY <1>2, <1>5

LEMMA NextUncrossed ==
    ASSUME "reprice" \notin AmendKinds, IInv, UncrossedInv, [Next]_vars
    PROVE  UncrossedInv'
  <1>1. Book(orders, levels)
    BY DEF IInv
  <1>2. CASE UNCHANGED vars
    BY <1>2 DEF UncrossedInv, Tradable, vars
  <1>3. ASSUME NEW side \in OrderSide, NEW price \in Prices,
               NEW quantity \in Quantities, AddOrder(side, price, quantity)
        PROVE  UncrossedInv'
    <2>1. CASE price \notin DOMAIN levels[side]
      BY <1>3, <2>1 DEF AddOrder, UncrossedInv
    <2>2. CASE price \in DOMAIN levels[side]
      <3>1. DOMAIN levels = OrderSide
        BY <1>1 DEF Book
      <3>2. DOMAIN Enqueue(levels[side], price, Len(orders) + 1) = DOMAIN levels[side]
        BY <2>2 DEF Enqueue
      <3>3. \A s \in OrderSide : DOMAIN levels'[s] \subseteq DOMAIN levels[s]
        BY <1>3, <3>1, <3>2 DEF AddOrder
      <3> QED BY <1>3, <3>3, FewerPrices DEF AddOrder, UncrossedInv, Idle
    <2> QED BY <2>1, <2>2
  <1>4. ASSUME NEW id \in DOMAIN orders, CancelOrder(id) PROVE UncrossedInv'
    BY <1>1, <1>4, PricesAfterCancel, FewerPrices DEF CancelOrder, UncrossedInv, Idle
  <1>5. ASSUME NEW id \in DOMAIN orders, NEW price \in Prices,
               NEW quantity \in Quantities, ModifyOrder(id, price, quantity)
        PROVE  UncrossedInv'
    <2>1. price = orders[id].price
      BY <1>5 DEF ModifyOrder, AmendKind
    <2>2. \A side \in OrderSide : DOMAIN levels'[side] \subseteq DOMAIN levels[side]
      BY <1>1, <1>5, <2>1, PricesAfterModify
    <2> QED BY <1>5, <2>2, FewerPrices DEF ModifyOrder, UncrossedInv, Idle
  <1>6. ASSUME NEW id \in DOMAIN orders, UseAfterFree(id) PROVE UncrossedInv'
    BY <1>6 DEF UseAfterFree, UncrossedInv, Tradable
  <1>7. CASE MatchReturns
    <2>1. ~ Tradable
      BY <1>1, <1>7, UncrossedBook DEF MatchReturns, UncrossedInv
    <2> QED BY <1>7, <2>1 DEF MatchReturns, UncrossedInv, Tradable
  <1>8. CASE MatchOrders
    BY <1>8 DEF MatchOrders, UncrossedInv
  <1>9. CASE MatchUndefined
    BY <1>9 DEF MatchUndefined, UncrossedInv
  <1> QED
    BY <1>2, <1>3, <1>4, <1>5, <1>6, <1>7, <1>8, <1>9
       DEF Next, TryMatch, CancelRejected, ModifyRejected

\* As long as no modify_order changes a price, no bid reaches an ask between
\* requests: joining an existing level without matching is sound, because an
\* order that could trade at its price would have found the level gone.
THEOREM StaysUncrossed ==
    ASSUME "reprice" \notin AmendKinds
    PROVE  Spec => []NotCrossed
  <1>1. Init => UncrossedInv
    BY DEF Init, UncrossedInv, Tradable, OrderSide
  <1>2. IInv /\ UncrossedInv /\ [Next]_vars => UncrossedInv'
    BY NextUncrossed
  <1>3. UncrossedInv => NotCrossed
    BY DEF UncrossedInv, NotCrossed, Idle
  <1> QED BY <1>1, <1>2, <1>3, Invariance, PTL DEF Spec

-----------------------------------------------------------------------------
(***************************************************************************)
(* The count of trades                                                     *)
(***************************************************************************)

FilledIds(os) == {id \in DOMAIN os : Filled(os[id])}

\* Adding one or two new elements to a set.
LEMMA OneOrTwoMore ==
    ASSUME NEW S, IsFiniteSet(S), NEW a, NEW b, a # b, a \notin S, b \notin S,
           NEW T, T = S \cup {a} \/ T = S \cup {b} \/ T = S \cup {a, b}
    PROVE  \/ Cardinality(T) = Cardinality(S) + 1
           \/ Cardinality(T) = Cardinality(S) + 2
  <1>1. ASSUME NEW x, x \notin S
        PROVE  /\ IsFiniteSet(S \cup {x})
               /\ Cardinality(S \cup {x}) = Cardinality(S) + 1
    BY <1>1, FS_AddElement
  <1>2. CASE T = S \cup {a} \/ T = S \cup {b}
    BY <1>1, <1>2
  <1>3. CASE T = S \cup {a, b}
    <2> DEFINE U == S \cup {a}
    <2>1. IsFiniteSet(U) /\ Cardinality(U) = Cardinality(S) + 1 /\ b \notin U
      BY <1>1
    <2>2. T = U \cup {b}
      BY <1>3
    <2> HIDE DEF U
    <2>3. Cardinality(T) = Cardinality(U) + 1
      BY <2>1, <2>2, FS_AddElement
    <2>4. Cardinality(S) \in Nat
      BY FS_CardinalityType
    <2> QED BY <2>1, <2>3, <2>4
  <1> QED BY <1>2, <1>3

\* The two orders that an iteration of try_match trades.
LEMMA TwoFronts ==
    ASSUME Book(orders, levels), BothSides, MatchFault = "none"
    PROVE  /\ Fronts = {BestFront("BUY"), BestFront("SELL")}
           /\ BestFront("BUY") # BestFront("SELL")
           /\ orders[BestFront("BUY")].side = "BUY"
           /\ orders[BestFront("SELL")].side = "SELL"
  <1>1. \A side \in OrderSide : orders[BestFront(side)].side = side
    BY FrontsQueued
  <1> QED BY <1>1 DEF Fronts, OrderSide

\* Trading as much as both can trade completes at least one of them.
LEMMA OneIsFilled ==
    ASSUME Book(orders, levels), BothSides, MatchFault = "none"
    PROVE  \E x \in Fronts : Filled(Matched(x))
  <1> DEFINE b == BestFront("BUY")
             s == BestFront("SELL")
  <1>1. Fronts = {b, s}
    BY TwoFronts
  <1>2. OrderInv(orders[b]) /\ OrderInv(orders[s])
    BY BestFacts DEF OrderSide
  <1> HIDE DEF b, s
  <1>3. ASSUME NEW o, OrderInv(o)
        PROVE  Available(o) \in Int /\ Filled(Match(o, Available(o)))
    BY <1>3 DEF OrderInv, Available, Match, Filled
  <1>4. Available(orders[b]) \in Int /\ Available(orders[s]) \in Int
    BY <1>2, <1>3
  <1>5. {Available(orders[id]) : id \in Fronts} =
            {Available(orders[b]), Available(orders[s])}
    BY <1>1
  <1>6. MatchQty = Available(orders[b]) \/ MatchQty = Available(orders[s])
    BY <1>4, <1>5, MinOfPair DEF MatchQty
  <1>7. Filled(Matched(b)) \/ Filled(Matched(s))
    BY <1>2, <1>3, <1>6 DEF Matched
  <1> QED BY <1>1, <1>7

TradesInv ==
    /\ trades_completed <= Cardinality(FilledIds(orders))
    /\ Cardinality(FilledIds(orders)) <= 2 * trades_completed

LEMMA FilledFinite ==
    ASSUME NEW os, Registry(os)
    PROVE  IsFiniteSet(FilledIds(os)) /\ Cardinality(FilledIds(os)) \in Nat
  <1>1. IsFiniteSet(1 .. Len(os)) /\ DOMAIN os = 1 .. Len(os)
    BY RegistryDomain, FS_Interval
  <1>2. IsFiniteSet(FilledIds(os))
    BY <1>1, FS_Subset DEF FilledIds
  <1> QED BY <1>2, FS_CardinalityType

\* An iteration of try_match completes one or two orders.
LEMMA MatchFills ==
    ASSUME Book(orders, levels), BothSides, MatchFault = "none"
    PROVE  \/ Cardinality(FilledIds(AfterMatch)) = Cardinality(FilledIds(orders)) + 1
           \/ Cardinality(FilledIds(AfterMatch)) = Cardinality(FilledIds(orders)) + 2
  <1> DEFINE b == BestFront("BUY")
             s == BestFront("SELL")
             S == FilledIds(orders)
             T == FilledIds(AfterMatch)
  <1>1. Fronts = {b, s} /\ b # s
    BY TwoFronts
  <1>2. /\ DOMAIN AfterMatch = DOMAIN orders
        /\ \A x \in DOMAIN orders : x \notin Fronts => AfterMatch[x] = orders[x]
        /\ \A x \in Fronts : /\ x \in DOMAIN orders /\ Open(orders[x])
                             /\ AfterMatch[x] = Matched(x)
    BY MatchRegistry
  <1>3. Filled(Matched(b)) \/ Filled(Matched(s))
    BY <1>1, OneIsFilled
  <1> HIDE DEF b, s
  <1>4. b \notin S /\ s \notin S
    BY <1>1, <1>2 DEF FilledIds, Filled, Open
  <1>5. T = S \cup {x \in {b, s} : Filled(Matched(x))}
    BY <1>1, <1>2, <1>4 DEF FilledIds
  <1>6. T = S \cup {b} \/ T = S \cup {s} \/ T = S \cup {b, s}
    BY <1>3, <1>5
  <1>7. IsFiniteSet(S)
    BY FilledFinite DEF Book
  <1> HIDE DEF S, T
  <1>8. Cardinality(T) = Cardinality(S) + 1 \/ Cardinality(T) = Cardinality(S) + 2
    BY <1>1, <1>4, <1>6, <1>7, OneOrTwoMore
  <1> QED BY <1>8 DEF S, T

\* Requests fill nobody.
LEMMA RequestFillsNone ==
    ASSUME IInv, [Next]_vars, ~ MatchOrders
    PROVE  FilledIds(orders)' = FilledIds(orders) /\ trades_completed' = trades_completed
  <1>1. orders \in Seq(OrderRecord) /\ \A x \in DOMAIN orders : OrderInv(orders[x])
    BY DEF IInv, Book, Registry
  <1>2. ASSUME NEW side \in OrderSide, NEW price \in Prices,
               NEW quantity \in Quantities, AddOrder(side, price, quantity)
        PROVE  FilledIds(orders') = FilledIds(orders)
    <2> DEFINE o == CopyFromClient(side, price, quantity)
    <2>1. ~ Filled(o) /\ o \in OrderRecord
      BY NewOrderInv, OrderInvRecord DEF Filled, Open
    <2>2. orders' = Append(orders, o)
      BY <1>2 DEF AddOrder
    <2> HIDE DEF o
    <2>3. FilledIds(Append(orders, o)) = FilledIds(orders)
      BY <1>1, <2>1 DEF FilledIds
    <2> QED BY <2>2, <2>3
  <1>3. ASSUME NEW id \in DOMAIN orders, CancelOrder(id)
        PROVE  FilledIds(orders') = FilledIds(orders)
    <2>1. ~ Filled(orders[id]) /\ ~ Filled(Cancel(orders[id]))
      BY <1>1, <1>3 DEF CancelOrder, Filled, Open, Cancel, OrderInv
    <2>2. orders' = [orders EXCEPT ![id] = Cancel(orders[id])]
      BY <1>3 DEF CancelOrder
    <2> QED BY <2>1, <2>2 DEF FilledIds
  <1>4. ASSUME NEW id \in DOMAIN orders, NEW price \in Prices,
               NEW quantity \in Quantities, ModifyOrder(id, price, quantity)
        PROVE  FilledIds(orders') = FilledIds(orders)
    <2> DEFINE o == SetQuantity(SetPrice(orders[id], price), quantity)
    <2>1. Filled(o) <=> Filled(orders[id])
      BY <1>1 DEF Filled, SetQuantity, SetPrice, OrderInv
    <2>2. orders' = [orders EXCEPT ![id] = o]
      BY <1>4 DEF ModifyOrder
    <2> HIDE DEF o
    <2> QED BY <2>1, <2>2 DEF FilledIds
  <1>5. orders' = orders => FilledIds(orders') = FilledIds(orders)
    OBVIOUS
  <1>6. FilledIds(orders)' = FilledIds(orders')
    BY DEF FilledIds
  <1> QED
    BY <1>2, <1>3, <1>4, <1>5, <1>6
       DEF Next, TryMatch, CancelRejected, ModifyRejected, UseAfterFree,
           MatchReturns, MatchUndefined, vars, AddOrder, CancelOrder, ModifyOrder

\* The arithmetic of one more trade.
LEMMA OneMoreTrade ==
    ASSUME NEW t \in Nat, NEW n \in Nat, NEW m, m = n + 1 \/ m = n + 2,
           t <= n, n <= 2 * t
    PROVE  t + 1 <= m /\ m <= 2 * (t + 1)
  OBVIOUS

\* _trades_completed, which the worker reports, is at most the number of filled
\* orders and at least half of it: each iteration of try_match completes one or
\* two orders, and no request completes any.
THEOREM TradesCounted == Spec => []TradesFillOrders
  <1>1. Init => TradesInv
    <2>1. FilledIds(<<>>) = {}
      BY DEF FilledIds
    <2>2. Cardinality({}) = 0
      BY FS_EmptySet
    <2>3. Init => Cardinality(FilledIds(orders)) = 0 /\ trades_completed = 0
      BY <2>1, <2>2 DEF Init
    <2> QED BY <2>3 DEF TradesInv
  <1>2. IInv /\ TradesInv /\ [Next]_vars => TradesInv'
    <2> SUFFICES ASSUME IInv, TradesInv, [Next]_vars PROVE TradesInv'
      OBVIOUS
    <2>1. CASE ~ MatchOrders
      BY <2>1, RequestFillsNone DEF TradesInv
    <2>2. CASE MatchOrders
      <3> DEFINE n == Cardinality(FilledIds(orders))
                 m == Cardinality(FilledIds(AfterMatch))
      <3>1. /\ orders' = AfterMatch /\ trades_completed' = trades_completed + 1
            /\ BothSides /\ MatchFault = "none"
        BY <2>2 DEF MatchOrders, AfterMatch, Crossed
      <3>2. m = n + 1 \/ m = n + 2
        BY <3>1, MatchFills DEF IInv
      <3>3. n \in Nat /\ trades_completed \in Nat
        BY FilledFinite DEF IInv, Book, ControlInv
      <3>4. trades_completed <= n /\ n <= 2 * trades_completed
        BY DEF TradesInv
      <3> HIDE DEF n, m
      <3>5. trades_completed + 1 <= m /\ m <= 2 * (trades_completed + 1)
        BY <3>2, <3>3, <3>4, OneMoreTrade
      <3>6. m = Cardinality(FilledIds(orders'))
        BY <3>1 DEF m
      <3>7. FilledIds(orders)' = FilledIds(orders')
        BY DEF FilledIds
      <3> QED BY <3>1, <3>5, <3>6, <3>7 DEF TradesInv
    <2> QED BY <2>1, <2>2
  <1>3. TradesInv => TradesFillOrders
    BY DEF TradesInv, TradesFillOrders, FilledIds
  <1> QED BY <1>1, <1>2, <1>3, Invariance, PTL DEF Spec

\* What FilledOn sums up, for any registry and any set of orders.
FilledSum(os, S) == MapThenSumSet(LAMBDA id : os[id].quantity_filled, S)

LEMMA FilledSumIs ==
    ASSUME NEW os, NEW S, NEW f, \A id \in S : f[id] = os[id].quantity_filled
    PROVE  FilledSum(os, S) = Total(f, S)
  <1> DEFINE Eq(g) == g = [s \in SUBSET S |->
                        IF s = {} THEN 0
                        ELSE os[Pick(s)].quantity_filled + g[s \ {Pick(s)}]]
  <1>1. FilledSum(os, S) = (CHOOSE g : Eq(g))[S]
    BY DEF FilledSum, MapThenSumSet, MapThenFoldSet, Pick
  <1>2. \A g : Eq(g) <=> Iterates(g, f, S)
    <2>1. \A s \in SUBSET S : s # {} => f[Pick(s)] = os[Pick(s)].quantity_filled
      BY DEF Pick
    <2> QED BY <2>1 DEF Iterates
  <1> HIDE DEF Eq
  <1>3. (CHOOSE g : Eq(g)) = (CHOOSE g : Iterates(g, f, S))
    BY <1>2
  <1> QED BY <1>1, <1>3 DEF Total

HasFills(os, S) == IsFiniteSet(S) /\ \A id \in S : os[id].quantity_filled \in Nat

LEMMA FillsSummable ==
    ASSUME NEW os, NEW S, HasFills(os, S)
    PROVE  \E f : Summable(f, S) /\ \A id \in S : f[id] = os[id].quantity_filled
  <1> DEFINE f == [id \in S |-> os[id].quantity_filled]
  <1>1. Summable(f, S) /\ \A id \in S : f[id] = os[id].quantity_filled
    BY DEF Summable, HasFills
  <1> QED BY <1>1

\* A sum depends on its summands only.
LEMMA SumSame ==
    ASSUME NEW os, NEW os2, NEW S, HasFills(os, S),
           \A id \in S : os2[id].quantity_filled = os[id].quantity_filled
    PROVE  FilledSum(os2, S) = FilledSum(os, S) /\ FilledSum(os, S) \in Nat
  <1>1. PICK f : Summable(f, S) /\ \A id \in S : f[id] = os[id].quantity_filled
    BY FillsSummable
  <1>2. FilledSum(os, S) = Total(f, S) /\ FilledSum(os2, S) = Total(f, S)
    BY <1>1, FilledSumIs
  <1> QED BY <1>1, <1>2, TotalNat

\* Any one summand can be taken out.
LEMMA SumSplit ==
    ASSUME NEW os, NEW S, HasFills(os, S), NEW x \in S
    PROVE  FilledSum(os, S) = os[x].quantity_filled + FilledSum(os, S \ {x})
  <1>1. PICK f : Summable(f, S) /\ \A id \in S : f[id] = os[id].quantity_filled
    BY FillsSummable
  <1> DEFINE R == S \ {x}
  <1>2. \A id \in R : f[id] = os[id].quantity_filled
    BY <1>1
  <1>3. Total(f, S) = f[x] + Total(f, R)
    BY <1>1, TotalSplit
  <1> HIDE DEF R
  <1>4. FilledSum(os, S) = Total(f, S) /\ FilledSum(os, R) = Total(f, R)
    BY <1>1, <1>2, FilledSumIs
  <1> QED BY <1>1, <1>3, <1>4 DEF R

\* One summand grows.
LEMMA SumGrows ==
    ASSUME NEW os, NEW os2, NEW S, HasFills(os, S), NEW x \in S, NEW q \in Nat,
           os2[x].quantity_filled = os[x].quantity_filled + q,
           \A id \in S : id # x => os2[id].quantity_filled = os[id].quantity_filled
    PROVE  FilledSum(os2, S) = FilledSum(os, S) + q
  <1> DEFINE R == S \ {x}
  <1>1. HasFills(os, R) /\ HasFills(os2, S)
    BY FS_Subset DEF HasFills
  <1>2. \A id \in R : os2[id].quantity_filled = os[id].quantity_filled
    OBVIOUS
  <1>3. /\ FilledSum(os, S) = os[x].quantity_filled + FilledSum(os, R)
        /\ FilledSum(os2, S) = os2[x].quantity_filled + FilledSum(os2, R)
    BY <1>1, SumSplit
  <1> HIDE DEF R
  <1>4. FilledSum(os2, R) = FilledSum(os, R) /\ FilledSum(os, R) \in Nat
    BY <1>1, <1>2, SumSame
  <1>5. os[x].quantity_filled \in Nat
    BY DEF HasFills
  <1> QED BY <1>3, <1>4, <1>5

-----------------------------------------------------------------------------
(***************************************************************************)
(* Bought and sold quantities                                              *)
(***************************************************************************)

SideIds(os, side) == {id \in DOMAIN os : os[id].side = side}
SideFilled(os, side) == FilledSum(os, SideIds(os, side))

LEMMA SideHasFills ==
    ASSUME NEW os, Registry(os), NEW side
    PROVE  HasFills(os, SideIds(os, side))
  <1>1. IsFiniteSet(1 .. Len(os)) /\ DOMAIN os = 1 .. Len(os)
    BY RegistryDomain, FS_Interval
  <1>2. IsFiniteSet(SideIds(os, side))
    BY <1>1, FS_Subset DEF SideIds
  <1>3. \A id \in DOMAIN os : os[id].quantity_filled \in Nat
    BY DEF Registry, OrderInv
  <1> QED BY <1>2, <1>3 DEF HasFills, SideIds

\* Requests leave sides and fills of the orders alone; a new order has no fill.
SameFills(os, os2) ==
    /\ DOMAIN os2 = DOMAIN os
    /\ \A id \in DOMAIN os : /\ os2[id].side = os[id].side
                             /\ os2[id].quantity_filled = os[id].quantity_filled

LEMMA SameFillsSum ==
    ASSUME NEW os, NEW os2, Registry(os), SameFills(os, os2), NEW side
    PROVE  SideFilled(os2, side) = SideFilled(os, side)
  <1> DEFINE S == SideIds(os, side)
  <1>1. SideIds(os2, side) = S
    BY DEF SameFills, SideIds
  <1>2. HasFills(os, S) /\ \A id \in S : os2[id].quantity_filled = os[id].quantity_filled
    BY SideHasFills DEF SameFills, SideIds
  <1> HIDE DEF S
  <1>3. FilledSum(os2, S) = FilledSum(os, S)
    BY <1>2, SumSame
  <1> QED BY <1>1, <1>3 DEF SideFilled, S

OneMore(os, os2, id) ==
    /\ id \notin DOMAIN os /\ DOMAIN os2 = DOMAIN os \cup {id}
    /\ \A x \in DOMAIN os : os2[x] = os[x]
    /\ os2[id].quantity_filled = 0

LEMMA AddFillsNothing ==
    ASSUME NEW os, NEW os2, NEW id, Registry(os), OneMore(os, os2, id), NEW side
    PROVE  SideFilled(os2, side) = SideFilled(os, side)
  <1> DEFINE S == SideIds(os, side)
             T == SideIds(os2, side)
  <1>1. /\ id \notin DOMAIN os /\ DOMAIN os2 = DOMAIN os \cup {id}
        /\ \A x \in DOMAIN os : os2[x] = os[x]
    BY DEF OneMore
  <1>2. os2[id].quantity_filled = 0
    BY DEF OneMore
  <1>3. /\ HasFills(os, S) /\ id \notin S
        /\ \A x \in S : os2[x].quantity_filled = os[x].quantity_filled
    <2>1. HasFills(os, S)
      BY SideHasFills
    <2>2. S \subseteq DOMAIN os
      BY DEF SideIds
    <2> HIDE DEF S
    <2> QED BY <1>1, <2>1, <2>2
  <1>4. T = S \/ T = S \cup {id}
    BY <1>1 DEF SideIds
  <1> HIDE DEF S, T
  <1>5. FilledSum(os2, S) = FilledSum(os, S) /\ FilledSum(os, S) \in Nat
    BY <1>3, SumSame
  <1>6. CASE T = S
    BY <1>5, <1>6 DEF SideFilled, S, T
  <1>7. CASE T = S \cup {id}
    <2>1. HasFills(os2, T) /\ id \in T /\ T \ {id} = S
      <3>1. IsFiniteSet(T)
        BY <1>3, <1>7, FS_AddElement DEF HasFills
      <3>2. \A x \in T : os2[x].quantity_filled \in Nat
        <4>1. \A x \in S : os2[x].quantity_filled \in Nat
          BY <1>3 DEF HasFills
        <4> QED BY <1>7, <1>2, <4>1
      <3>3. id \in T /\ T \ {id} = S
        BY <1>3, <1>7
      <3> QED BY <3>1, <3>2, <3>3 DEF HasFills
    <2>2. FilledSum(os2, T) = os2[id].quantity_filled + FilledSum(os2, T \ {id})
      BY <2>1, SumSplit
    <2>3. FilledSum(os2, T) = 0 + FilledSum(os, S)
      BY <1>5, <1>2, <2>1, <2>2
    <2>4. FilledSum(os2, T) = FilledSum(os, S)
      BY <1>5, <2>3
    <2> QED BY <2>4 DEF SideFilled, S, T
  <1> QED BY <1>4, <1>6, <1>7

\* An iteration of try_match adds what it trades to both sides.
LEMMA MatchFillsBoth ==
    ASSUME Book(orders, levels), BothSides, MatchFault = "none", NEW side \in OrderSide
    PROVE  SideFilled(AfterMatch, side) = SideFilled(orders, side) + MatchQty
  <1> DEFINE os == orders
             os2 == AfterMatch
             S == SideIds(os, side)
             f == BestFront(side)
  <1>1. /\ DOMAIN os2 = DOMAIN os
        /\ \A x \in DOMAIN os : x \notin Fronts => os2[x] = os[x]
        /\ \A x \in Fronts : /\ x \in DOMAIN os /\ os2[x] = Matched(x)
                             /\ os2[x].side = os[x].side
    BY MatchRegistry
  <1>2. f \in Fronts /\ f \in S /\ \A x \in Fronts : x # f => x \notin S
    <2>1. f \in Fronts /\ os[f].side = side /\ f \in DOMAIN os
      BY FrontsQueued, BestFacts DEF Fronts
    <2>2. ASSUME NEW x \in Fronts, x # f PROVE os[x].side # side
      <3>1. PICK s \in OrderSide : x = BestFront(s)
        BY DEF Fronts
      <3>2. os[x].side = s /\ s # side
        BY <2>2, <3>1, FrontsQueued
      <3> QED BY <3>2
    <2> QED BY <2>1, <2>2 DEF SideIds
  <1>3. SideIds(os2, side) = S
    BY <1>1 DEF SideIds
  <1>4. MatchQty \in Nat /\ OrderInv(os[f])
    BY MatchQtyFacts, BestFacts
  <1>5. os2[f].quantity_filled = os[f].quantity_filled + MatchQty
    <2>1. os2[f] = Match(os[f], MatchQty)
      BY <1>1, <1>2 DEF Matched
    <2>2. ASSUME NEW o, OrderInv(o)
          PROVE  Match(o, MatchQty).quantity_filled = o.quantity_filled + MatchQty
      BY <2>2 DEF Match, OrderInv
    <2> QED BY <1>4, <2>1, <2>2
  <1>6. \A id \in S : id # f => os2[id].quantity_filled = os[id].quantity_filled
    BY <1>1, <1>2 DEF SideIds
  <1>7. HasFills(os, S)
    BY SideHasFills DEF Book
  <1> HIDE DEF os, os2, S, f
  <1>8. FilledSum(os2, S) = FilledSum(os, S) + MatchQty
    BY <1>2, <1>4, <1>5, <1>6, <1>7, SumGrows
  <1> QED BY <1>3, <1>8 DEF SideFilled, S, os, os2

LEMMA NextBalanced ==
    ASSUME IInv, [Next]_vars, ~ MatchOrders, NEW side \in OrderSide
    PROVE  SideFilled(orders', side) = SideFilled(orders, side)
  <1>1. Registry(orders) /\ \A x \in DOMAIN orders : OrderInv(orders[x])
    BY DEF IInv, Book, Registry
  <1>2. ASSUME NEW s \in OrderSide, NEW price \in Prices,
               NEW quantity \in Quantities, AddOrder(s, price, quantity)
        PROVE  SideFilled(orders', side) = SideFilled(orders, side)
    <2> DEFINE o == CopyFromClient(s, price, quantity)
    <2>1. o \in OrderRecord
      BY NewOrderInv, OrderInvRecord
    <2>2. o.quantity_filled = 0
      BY DEF CopyFromClient, DefaultOrder
    <2>3. orders' = Append(orders, o)
      BY <1>2 DEF AddOrder
    <2> HIDE DEF o
    <2>4. orders \in Seq(OrderRecord) /\ Len(orders) \in Nat
      BY <1>1, RegistryDomain DEF Registry
    <2>5. OneMore(orders, Append(orders, o), Len(orders) + 1)
      BY <2>1, <2>2, <2>4 DEF OneMore
    <2> QED BY <1>1, <2>3, <2>5, AddFillsNothing
  <1>3. ASSUME NEW id \in DOMAIN orders, CancelOrder(id)
        PROVE  SameFills(orders, orders')
    <2>1. ASSUME NEW o, OrderInv(o)
          PROVE  Cancel(o).side = o.side /\ Cancel(o).quantity_filled = o.quantity_filled
      BY <2>1 DEF Cancel, OrderInv
    <2>2. orders' = [orders EXCEPT ![id] = Cancel(orders[id])]
      BY <1>3 DEF CancelOrder
    <2> QED BY <1>1, <2>1, <2>2 DEF SameFills
  <1>4. ASSUME NEW id \in DOMAIN orders, NEW price \in Prices,
               NEW quantity \in Quantities, ModifyOrder(id, price, quantity)
        PROVE  SameFills(orders, orders')
    <2> DEFINE changed(o) == SetQuantity(SetPrice(o, price), quantity)
    <2>1. ASSUME NEW o, OrderInv(o)
          PROVE  changed(o).side = o.side /\ changed(o).quantity_filled = o.quantity_filled
      BY <2>1 DEF SetQuantity, SetPrice, OrderInv
    <2>2. orders' = [orders EXCEPT ![id] = changed(orders[id])]
      BY <1>4 DEF ModifyOrder
    <2> HIDE DEF changed
    <2> QED BY <1>1, <2>1, <2>2 DEF SameFills
  <1>5. SameFills(orders, orders') => SideFilled(orders', side) = SideFilled(orders, side)
    BY <1>1, SameFillsSum
  <1>6. UNCHANGED orders => SideFilled(orders', side) = SideFilled(orders, side)
    OBVIOUS
  <1> QED
    BY <1>2, <1>3, <1>4, <1>5, <1>6
       DEF Next, TryMatch, CancelRejected, ModifyRejected, UseAfterFree,
           MatchReturns, MatchUndefined, vars

\* Over the life of a book, through partial fills, cancels and modifies of
\* partly filled orders, the quantity bought equals the quantity sold.
THEOREM Balanced == Spec => []BoughtEqualsSold
  <1> DEFINE Even == SideFilled(orders, "BUY") = SideFilled(orders, "SELL")
  <1>1. Init => Even
    <2>1. SideIds(<<>>, "BUY") = {} /\ SideIds(<<>>, "SELL") = {}
      BY DEF SideIds
    <2>2. SideFilled(<<>>, "BUY") = SideFilled(<<>>, "SELL")
      BY <2>1 DEF SideFilled
    <2> QED BY <2>2 DEF Init
  <1>2. IInv /\ Even /\ [Next]_vars => Even'
    <2> SUFFICES ASSUME IInv, Even, [Next]_vars
                 PROVE  SideFilled(orders', "BUY") = SideFilled(orders', "SELL")
      OBVIOUS
    <2>1. CASE ~ MatchOrders
      BY <2>1, NextBalanced DEF OrderSide
    <2>2. CASE MatchOrders
      <3>1. orders' = AfterMatch /\ BothSides /\ MatchFault = "none"
        BY <2>2 DEF MatchOrders, AfterMatch, Crossed
      <3>2. \A side \in OrderSide :
                SideFilled(AfterMatch, side) = SideFilled(orders, side) + MatchQty
        BY <3>1, MatchFillsBoth DEF IInv
      <3> QED BY <3>1, <3>2 DEF OrderSide
    <2> QED BY <2>1, <2>2
  <1>3. Even => BoughtEqualsSold
    BY DEF BoughtEqualsSold, FilledOn, SideFilled, SideIds, FilledSum
  <1> QED BY <1>1, <1>2, <1>3, Invariance, PTL DEF Spec

-----------------------------------------------------------------------------
(***************************************************************************)
(* Why the while (true) loop of try_match ends                             *)
(***************************************************************************)

OpenIds(os) == {id \in DOMAIN os : Open(os[id])}

\* The number of open orders bounds the iterations that are left: a step inside
\* try_match makes it smaller, or returns, or is undefined.
LoopProgress ==
    [][pc = "match" =>
        \/ pc' = "idle" \/ fault' # "none"
        \/ Cardinality(OpenIds(orders')) < Cardinality(OpenIds(orders))]_vars

\* An iteration opens no order and closes one.
LEMMA MatchCloses ==
    ASSUME Book(orders, levels), BothSides, MatchFault = "none"
    PROVE  Cardinality(OpenIds(AfterMatch)) < Cardinality(OpenIds(orders))
  <1> DEFINE S == OpenIds(orders)
             T == OpenIds(AfterMatch)
  <1>1. PICK x \in Fronts : Filled(Matched(x))
    BY OneIsFilled
  <1>2. x \in DOMAIN orders /\ Open(orders[x]) /\ ~ Open(AfterMatch[x])
    BY <1>1, MatchRegistry
  <1>3. x \in S /\ x \notin T
    BY <1>2 DEF OpenIds
  <1>4. T \in SUBSET S
    <2>1. /\ DOMAIN AfterMatch = DOMAIN orders
          /\ \A y \in DOMAIN orders : y \notin Fronts => AfterMatch[y] = orders[y]
          /\ \A y \in Fronts : Open(orders[y])
      BY MatchRegistry
    <2> QED BY <2>1 DEF OpenIds
  <1>5. IsFiniteSet(S)
    <2>1. IsFiniteSet(1 .. Len(orders)) /\ DOMAIN orders = 1 .. Len(orders)
      BY RegistryDomain, FS_Interval DEF Book
    <2>2. S \in SUBSET (1 .. Len(orders))
      BY <2>1 DEF OpenIds
    <2> QED BY <2>1, <2>2, FS_Subset
  <1> HIDE DEF S, T
  <1>6. IsFiniteSet(T) /\ Cardinality(T) <= Cardinality(S) /\ T # S
    BY <1>3, <1>4, <1>5, FS_Subset
  <1>7. Cardinality(T) # Cardinality(S)
    BY <1>4, <1>5, <1>6, FS_Subset
  <1>8. Cardinality(T) \in Nat /\ Cardinality(S) \in Nat
    BY <1>5, <1>6, FS_CardinalityType
  <1>9. Cardinality(T) < Cardinality(S)
    BY <1>6, <1>7, <1>8
  <1> QED BY <1>9 DEF S, T

\* Every iteration of try_match that does not return closes an order, whatever
\* modify_order calls left the book crossed before it: the loop runs at most as
\* often as there are open orders, with quantities of zero too.
THEOREM LoopBounded == Spec => LoopProgress
  <1>1. ASSUME IInv, [Next]_vars, pc = "match"
        PROVE  \/ pc' = "idle" \/ fault' # "none" \/ UNCHANGED vars
               \/ Cardinality(OpenIds(orders')) < Cardinality(OpenIds(orders))
    <2>1. CASE MatchOrders
      <3>1. orders' = AfterMatch /\ BothSides /\ MatchFault = "none"
        BY <2>1 DEF MatchOrders, AfterMatch, Crossed
      <3>2. Cardinality(OpenIds(AfterMatch)) < Cardinality(OpenIds(orders))
        BY <1>1, <3>1, MatchCloses DEF IInv
      <3> QED BY <3>1, <3>2
    <2>2. CASE MatchReturns \/ MatchUndefined
      BY <2>2 DEF MatchReturns, MatchUndefined
    <2>3. ~ Idle
      BY <1>1 DEF Idle
    <2> QED
      BY <1>1, <2>1, <2>2, <2>3
         DEF Next, TryMatch, AddOrder, CancelRejected, CancelOrder, ModifyRejected,
             ModifyOrder, UseAfterFree
  <1>2. IInv /\ [Next]_vars =>
            [pc = "match" =>
                \/ pc' = "idle" \/ fault' # "none"
                \/ Cardinality(OpenIds(orders')) < Cardinality(OpenIds(orders))]_vars
    BY <1>1
  <1> QED BY <1>2, Invariance, PTL DEF Spec, LoopProgress

=============================================================================
