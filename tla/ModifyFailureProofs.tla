------------------------ MODULE ModifyFailureProofs ------------------------
(***************************************************************************)
(* A failed modify_order takes no order but its own out of the book, for   *)
(* every set of prices and quantities and any number of orders and         *)
(* failures, and where the code meets end() later, the order it does not   *)
(* find is one whose modify_order failed.                                  *)
(*                                                                         *)
(* The inductive invariant follows that of module OrderBookProofs, with    *)
(* all demands on an order dropped once it is in B, the set of orders left *)
(* behind by failures.  A request that changes the order id is looked at   *)
(* as if id were in B while it runs; at its end id is released from B,     *)
(* which needs that the levels hold no trace of id but its queued entry.   *)
(***************************************************************************)
EXTENDS ModifyFailure, OrderBookProofs

USE PricesAssumption, QuantitiesAssumption, BoundsAssumption

-----------------------------------------------------------------------------
(***************************************************************************)
(* One price level                                                         *)
(***************************************************************************)

\* Orders that may be in the vector without being in the map.
Settled(os, B, x) == x \in B \/ FilledIn(os, x)

MapKept(level, os, B, side, price) ==
    \A x \in DOMAIN level.orders_map :
        /\ x \in DOMAIN os /\ x \in OrderIds
        /\ level.orders_map[x] \in DOMAIN level.order_entries
        /\ level.order_entries[level.orders_map[x]] = [order |-> x, is_valid |-> TRUE]
        /\ level.queue_head_index <= level.orders_map[x]
        /\ x \notin B => os[x].side = side /\ os[x].price = price /\ Open(os[x])

EntriesKept(level, os, B) ==
    \A i \in DOMAIN level.order_entries :
        level.order_entries[i].is_valid =>
            \/ /\ level.order_entries[i].order \in DOMAIN level.orders_map
               /\ level.orders_map[level.order_entries[i].order] = i
            \/ Settled(os, B, level.order_entries[i].order)

HeadKept(level, os, B) ==
    /\ level.queue_head_index \in DOMAIN level.order_entries
    /\ \/ FrontOrder(level) \in DOMAIN level.orders_map
       \/ Settled(os, B, FrontOrder(level))

LevelSound(level, os, B, side, price) ==
    IsLevel(level) /\ MapKept(level, os, B, side, price) /\ EntriesKept(level, os, B)

\* The order id has no entry but its queued one.
Traceless(level, id) ==
    \A i \in DOMAIN level.order_entries :
        level.order_entries[i].is_valid /\ level.order_entries[i].order = id =>
            id \in DOMAIN level.orders_map /\ level.orders_map[id] = i

HeadTraceless(level, id) == FrontOrder(level) = id => id \in DOMAIN level.orders_map

\* The registry moves on and B grows.  Nothing else of the side that is not in
\* B2 may change.
Advance(os, os2, B, B2, side) ==
    /\ DOMAIN os \subseteq DOMAIN os2 /\ B \subseteq B2
    /\ \A x \in DOMAIN os : Filled(os[x]) => Filled(os2[x]) \/ x \in B2
    /\ \A x \in DOMAIN os \ B2 :
        os[x].side = side /\ Open(os[x]) =>
            os2[x].side = side /\ os2[x].price = os[x].price /\ Open(os2[x])

LEMMA LevelAdvances ==
    ASSUME NEW level, NEW os, NEW os2, NEW B, NEW B2, NEW side, NEW price,
           LevelSound(level, os, B, side, price), Advance(os, os2, B, B2, side)
    PROVE  /\ LevelSound(level, os2, B2, side, price)
           /\ HeadKept(level, os, B) => HeadKept(level, os2, B2)
  <1>1. \A x : Settled(os, B, x) => Settled(os2, B2, x)
    BY DEF Advance, Settled, FilledIn
  <1>2. MapKept(level, os2, B2, side, price)
    BY DEF LevelSound, MapKept, Advance
  <1>3. EntriesKept(level, os2, B2)
    BY <1>1 DEF LevelSound, EntriesKept
  <1> QED BY <1>1, <1>2, <1>3 DEF LevelSound, HeadKept

\* id is released from B: it is filled, or queued where it belongs and nowhere
\* else in the level.
LEMMA LevelReleases ==
    ASSUME NEW level, NEW os, NEW B, NEW side, NEW price, NEW id,
           LevelSound(level, os, B \cup {id}, side, price),
           HeadKept(level, os, B \cup {id}),
           id \in DOMAIN level.orders_map =>
                os[id].side = side /\ os[id].price = price /\ Open(os[id]),
           FilledIn(os, id) \/ (Traceless(level, id) /\ HeadTraceless(level, id))
    PROVE  LevelSound(level, os, B, side, price) /\ HeadKept(level, os, B)
  <1>1. \A x : Settled(os, B \cup {id}, x) => x = id \/ Settled(os, B, x)
    BY DEF Settled
  <1>2. MapKept(level, os, B, side, price)
    BY DEF LevelSound, MapKept
  <1>3. EntriesKept(level, os, B)
    <2>1. CASE FilledIn(os, id)
      BY <1>1, <2>1 DEF LevelSound, EntriesKept, Settled
    <2>2. CASE Traceless(level, id)
      BY <1>1, <2>2 DEF LevelSound, EntriesKept, Traceless
    <2> QED BY <2>1, <2>2
  <1>4. HeadKept(level, os, B)
    <2>1. CASE FilledIn(os, id)
      BY <1>1, <2>1 DEF HeadKept, Settled
    <2>2. CASE HeadTraceless(level, id)
      BY <1>1, <2>2 DEF HeadKept, HeadTraceless
    <2> QED BY <2>1, <2>2
  <1> QED BY <1>2, <1>3, <1>4 DEF LevelSound

\* An open order that is not in B has left no trace.
LEMMA OpenTraceless ==
    ASSUME NEW level, NEW os, NEW B, NEW side, NEW price, NEW id,
           LevelSound(level, os, B, side, price), HeadKept(level, os, B),
           ~ Settled(os, B, id)
    PROVE  Traceless(level, id) /\ HeadTraceless(level, id)
  BY DEF LevelSound, EntriesKept, HeadKept, Traceless, HeadTraceless

\* An entry at the end of the vector, as in add_order of a level.
Appended(e, e2, id) ==
    /\ e2 \in Seq(EntryRecord) /\ Len(e) \in Nat
    /\ DOMAIN e = 1 .. Len(e) /\ DOMAIN e2 = 1 .. Len(e) + 1
    /\ e2[Len(e) + 1] = [order |-> id, is_valid |-> TRUE]
    /\ \A i \in 1 .. Len(e) : e2[i] = e[i]

LEMMA AppendEntry ==
    ASSUME NEW e \in Seq(EntryRecord), NEW id \in OrderIds
    PROVE  Appended(e, Append(e, [order |-> id, is_valid |-> TRUE]), id)
  <1> DEFINE entry == [order |-> id, is_valid |-> TRUE]
             e2 == Append(e, entry)
  <1>1. entry \in EntryRecord
    BY DEF EntryRecord
  <1> HIDE DEF entry
  <1>2. /\ e2 \in Seq(EntryRecord) /\ Len(e2) = Len(e) + 1 /\ Len(e) \in Nat
        /\ DOMAIN e = 1 .. Len(e) /\ DOMAIN e2 = 1 .. Len(e2)
    BY <1>1
  <1>3. e2[Len(e) + 1] = entry /\ \A i \in 1 .. Len(e) : e2[i] = e[i]
    BY <1>1
  <1> QED BY <1>2, <1>3 DEF Appended, entry

LEMMA EmptyLevelSound ==
    ASSUME NEW os, NEW B, NEW side, NEW price, NEW id
    PROVE  /\ LevelSound(EmptyLevel, os, B, side, price)
           /\ DOMAIN EmptyLevel.orders_map = {} /\ Traceless(EmptyLevel, id)
  BY DEF LevelSound, IsLevel, MapKept, EntriesKept, EmptyLevel, EntryRecord, Traceless

\* PriceLevel::add_order for an order of B, queued already or not.
LEMMA AddSound ==
    ASSUME NEW level, NEW os, NEW B, NEW side, NEW price,
           LevelSound(level, os, B, side, price),
           level = EmptyLevel \/ HeadKept(level, os, B),
           NEW id, id \in B, id \in OrderIds, id \in DOMAIN os,
           NEW lv, lv = AddEntry(level, id)
    PROVE  /\ LevelSound(lv, os, B, side, price) /\ HeadKept(lv, os, B)
           /\ DOMAIN lv.orders_map = DOMAIN level.orders_map \cup {id}
           /\ Traceless(level, id) /\ id \notin DOMAIN level.orders_map =>
                Traceless(lv, id)
  <1> DEFINE e == level.order_entries
             m == level.orders_map
             n == Len(e) + 1
             h == level.queue_head_index
             e2 == lv.order_entries
             m2 == lv.orders_map
  <1>1. IsLevel(level)
    BY DEF LevelSound
  <1>2. /\ DOMAIN lv = {"order_entries", "queue_head_index", "orders_map"}
        /\ lv.queue_head_index = h
        /\ e2 = Append(e, [order |-> id, is_valid |-> TRUE])
        /\ DOMAIN m2 = DOMAIN m \cup {id} /\ m2[id] = n
        /\ \A x \in DOMAIN m : x # id => m2[x] = m[x]
    BY <1>1 DEF IsLevel, AddEntry
  <1>3. /\ e2 \in Seq(EntryRecord) /\ Len(e) \in Nat /\ DOMAIN e = 1 .. Len(e)
        /\ DOMAIN e2 = DOMAIN e \cup {n} /\ n \notin DOMAIN e
        /\ e2[n] = [order |-> id, is_valid |-> TRUE]
        /\ \A i \in DOMAIN e : e2[i] = e[i]
    <2>1. Appended(e, e2, id)
      BY <1>1, <1>2, AppendEntry DEF IsLevel
    <2> HIDE DEF e2, e
    <2> QED BY <2>1 DEF Appended
  <1>4. h \in Nat \ {0} /\ h <= n
    BY <1>1, <1>3 DEF IsLevel, HeadKept, EmptyLevel
  <1>5. IsLevel(lv)
    BY <1>2, <1>3, <1>4 DEF IsLevel
  <1>6. \A x \in DOMAIN m :
            /\ x \in DOMAIN os /\ x \in OrderIds /\ m[x] \in DOMAIN e
            /\ e[m[x]] = [order |-> x, is_valid |-> TRUE] /\ h <= m[x]
            /\ x \notin B => os[x].side = side /\ os[x].price = price /\ Open(os[x])
    BY DEF LevelSound, MapKept
  <1>7. \A i \in DOMAIN e : e[i].is_valid =>
            (e[i].order \in DOMAIN m /\ m[e[i].order] = i) \/ Settled(os, B, e[i].order)
    BY DEF LevelSound, EntriesKept
  <1>8. h \in DOMAIN e2 /\ (lv.order_entries[h].order \in DOMAIN m2
                              \/ Settled(os, B, lv.order_entries[h].order))
    <2>1. CASE level = EmptyLevel
      <3>1. h = n
        BY <2>1 DEF EmptyLevel
      <3> QED BY <1>2, <1>3, <3>1
    <2>2. CASE HeadKept(level, os, B)
      BY <1>2, <1>3, <2>2 DEF HeadKept, FrontOrder
    <2> QED BY <2>1, <2>2
  <1> HIDE DEF e, m, h, e2, m2, n
  <1>9. MapKept(lv, os, B, side, price)
    <2> SUFFICES ASSUME NEW x \in DOMAIN m2
                 PROVE  /\ x \in DOMAIN os /\ x \in OrderIds /\ m2[x] \in DOMAIN e2
                        /\ e2[m2[x]] = [order |-> x, is_valid |-> TRUE] /\ h <= m2[x]
                        /\ x \notin B => os[x].side = side /\ os[x].price = price
                                            /\ Open(os[x])
      BY <1>2 DEF MapKept, e2, m2
    <2>1. CASE x = id
      BY <1>2, <1>3, <1>4, <2>1
    <2>2. CASE x # id
      BY <1>2, <1>3, <1>6, <2>2
    <2> QED BY <2>1, <2>2
  <1>10. EntriesKept(lv, os, B)
    <2> SUFFICES ASSUME NEW i \in DOMAIN e2, e2[i].is_valid
                 PROVE  (e2[i].order \in DOMAIN m2 /\ m2[e2[i].order] = i)
                            \/ Settled(os, B, e2[i].order)
      BY DEF EntriesKept, e2, m2
    <2>1. CASE i = n
      BY <1>2, <1>3, <2>1
    <2>2. CASE i \in DOMAIN e
      BY <1>2, <1>3, <1>7, <2>2 DEF Settled
    <2> QED BY <1>3, <2>1, <2>2
  <1>11. HeadKept(lv, os, B)
    BY <1>2, <1>8 DEF HeadKept, FrontOrder, e2, m2
  <1>12. ASSUME Traceless(level, id), id \notin DOMAIN m PROVE Traceless(lv, id)
    BY <1>2, <1>3, <1>12 DEF Traceless, e, m, e2, m2
  <1> QED BY <1>2, <1>5, <1>9, <1>10, <1>11, <1>12 DEF LevelSound, m, m2

\* push_back on the vector of a level whose map then fails to grow.
LEMMA EnterSound ==
    ASSUME NEW level, NEW os, NEW B, NEW side, NEW price,
           LevelSound(level, os, B, side, price), HeadKept(level, os, B),
           NEW id, id \in B, id \in OrderIds,
           NEW lv, lv = [level EXCEPT !.order_entries =
                            Append(@, [order |-> id, is_valid |-> TRUE])]
    PROVE  LevelSound(lv, os, B, side, price) /\ HeadKept(lv, os, B)
  <1> DEFINE e == level.order_entries
             e2 == lv.order_entries
  <1>1. IsLevel(level)
    BY DEF LevelSound
  <1>2. /\ DOMAIN lv = {"order_entries", "queue_head_index", "orders_map"}
        /\ lv.queue_head_index = level.queue_head_index
        /\ lv.orders_map = level.orders_map
        /\ e2 = Append(e, [order |-> id, is_valid |-> TRUE])
    BY <1>1 DEF IsLevel
  <1>3. Appended(e, e2, id)
    BY <1>1, <1>2, AppendEntry DEF IsLevel
  <1>4. IsLevel(lv)
    BY <1>1, <1>2, <1>3 DEF IsLevel, Appended
  <1>5. /\ \A i \in DOMAIN e : i \in DOMAIN e2 /\ e2[i] = e[i]
        /\ \A i \in DOMAIN e2 : i \in DOMAIN e \/ e2[i].order = id
    <2> HIDE DEF e, e2
    <2>1. \A i \in 1 .. Len(e) : i \in 1 .. Len(e) + 1
      BY <1>3 DEF Appended
    <2>2. \A i \in 1 .. Len(e) + 1 : i \in 1 .. Len(e) \/ i = Len(e) + 1
      BY <1>3 DEF Appended
    <2> QED BY <1>3, <2>1, <2>2 DEF Appended
  <1>6. MapKept(lv, os, B, side, price)
    BY <1>2, <1>5 DEF LevelSound, MapKept
  <1>7. EntriesKept(lv, os, B)
    BY <1>2, <1>5 DEF LevelSound, EntriesKept, Settled
  <1>8. HeadKept(lv, os, B)
    BY <1>2, <1>5 DEF HeadKept, FrontOrder
  <1> QED BY <1>4, <1>6, <1>7, <1>8 DEF LevelSound

\* An entry of the queued order id, and no trace of id once it was taken out.
HasEntry(level, i, id) ==
    /\ id \in DOMAIN level.orders_map /\ i \in DOMAIN level.order_entries
    /\ level.order_entries[i].order = id

Gone(level, id) ==
    /\ id \notin DOMAIN level.orders_map /\ Traceless(level, id)
    /\ Empty(level) \/ HeadTraceless(level, id)

\* Bury for an order of B.
LEMMA BurySound ==
    ASSUME NEW level, NEW os, NEW B, NEW side, NEW price,
           LevelSound(level, os, B, side, price), HeadKept(level, os, B),
           NEW id, id \in B, NEW i, HasEntry(level, i, id),
           NEW lv, lv = Bury(level, i, id)
    PROVE  /\ LevelSound(lv, os, B, side, price) /\ HeadKept(lv, os, B)
           /\ DOMAIN lv.orders_map = DOMAIN level.orders_map \ {id}
           /\ i = level.orders_map[id] /\ Traceless(level, id) => Gone(lv, id)
  <1> USE DEF HasEntry
  <1> DEFINE b == Buried(level, i, id)
  <1>1. lv = IncrementToValid(b)
    BY DEF Bury, Buried
  <1>2. /\ IsLevel(b)
        /\ b.queue_head_index = level.queue_head_index
        /\ DOMAIN b.order_entries = DOMAIN level.order_entries
        /\ ~ b.order_entries[i].is_valid
        /\ \A j \in DOMAIN level.order_entries :
            /\ b.order_entries[j].order = level.order_entries[j].order
            /\ j # i => b.order_entries[j] = level.order_entries[j]
        /\ DOMAIN b.orders_map = DOMAIN level.orders_map \ {id}
        /\ \A x \in DOMAIN b.orders_map : b.orders_map[x] = level.orders_map[x]
    BY BuriedFields DEF LevelSound
  <1> HIDE DEF b
  <1>3. MapKept(b, os, B, side, price)
    <2> SUFFICES ASSUME NEW x \in DOMAIN b.orders_map
                 PROVE  /\ x \in DOMAIN os /\ x \in OrderIds
                        /\ b.orders_map[x] \in DOMAIN b.order_entries
                        /\ b.order_entries[b.orders_map[x]] =
                                [order |-> x, is_valid |-> TRUE]
                        /\ b.queue_head_index <= b.orders_map[x]
                        /\ x \notin B => os[x].side = side /\ os[x].price = price
                                            /\ Open(os[x])
      BY DEF MapKept
    <2>1. x \in DOMAIN level.orders_map /\ x # id /\ b.orders_map[x] = level.orders_map[x]
      BY <1>2
    <2>2. /\ x \in DOMAIN os /\ x \in OrderIds
          /\ level.orders_map[x] \in DOMAIN level.order_entries
          /\ level.order_entries[level.orders_map[x]] =
                [order |-> x, is_valid |-> TRUE]
          /\ level.queue_head_index <= level.orders_map[x]
          /\ x \notin B => os[x].side = side /\ os[x].price = price /\ Open(os[x])
      BY <2>1 DEF LevelSound, MapKept
    <2>3. level.orders_map[x] # i
      BY <2>1, <2>2
    <2>4. b.order_entries[b.orders_map[x]] = level.order_entries[level.orders_map[x]]
      BY <2>1, <2>2, <2>3, <1>2
    <2> QED BY <2>1, <2>2, <2>4, <1>2
  <1>4. EntriesKept(b, os, B)
    <2> SUFFICES ASSUME NEW j \in DOMAIN b.order_entries, b.order_entries[j].is_valid
                 PROVE  \/ /\ b.order_entries[j].order \in DOMAIN b.orders_map
                           /\ b.orders_map[b.order_entries[j].order] = j
                        \/ Settled(os, B, b.order_entries[j].order)
      BY DEF EntriesKept
    <2>1. j # i /\ j \in DOMAIN level.order_entries
            /\ b.order_entries[j] = level.order_entries[j]
      BY <1>2
    <2>2. CASE Settled(os, B, level.order_entries[j].order)
      BY <2>1, <2>2
    <2>3. CASE /\ level.order_entries[j].order \in DOMAIN level.orders_map
               /\ level.orders_map[level.order_entries[j].order] = j
      BY <2>1, <2>3, <1>2 DEF Settled
    <2> QED BY <2>1, <2>2, <2>3 DEF LevelSound, EntriesKept
  <1>5. ASSUME i = level.orders_map[id], Traceless(level, id),
               NEW j \in DOMAIN b.order_entries, b.order_entries[j].is_valid
        PROVE  b.order_entries[j].order # id
    BY <1>2, <1>5 DEF Traceless
  <1>6. CASE Empty(b)
    <2>1. lv = b
      BY <1>1, <1>6 DEF IncrementToValid
    <2>2. FrontOrder(b) = FrontOrder(level) /\ b.queue_head_index \in DOMAIN b.order_entries
      BY <1>2 DEF HeadKept, FrontOrder
    <2>3. HeadKept(b, os, B)
      BY <2>2, <1>2 DEF HeadKept, Settled
    <2>4. i = level.orders_map[id] /\ Traceless(level, id) => Gone(b, id)
      BY <1>2, <1>5, <1>6 DEF Gone, Traceless
    <2> QED BY <1>2, <1>3, <1>4, <2>1, <2>3, <2>4 DEF LevelSound
  <1>7. CASE ~ Empty(b)
    <2>1. PICK x \in DOMAIN b.orders_map : TRUE
      BY <1>7 DEF Empty
    <2>2. ASSUME NEW y \in DOMAIN b.orders_map
          PROVE  /\ b.orders_map[y] \in DOMAIN b.order_entries
                 /\ b.order_entries[b.orders_map[y]].is_valid
                 /\ b.queue_head_index <= b.orders_map[y]
      <3>1. /\ b.order_entries[b.orders_map[y]] = [order |-> y, is_valid |-> TRUE]
            /\ b.orders_map[y] \in DOMAIN b.order_entries
            /\ b.queue_head_index <= b.orders_map[y]
        BY <1>3 DEF MapKept
      <3>2. b.order_entries[b.orders_map[y]].is_valid = TRUE
        BY <3>1
      <3> QED BY <3>1, <3>2
    <2>3. /\ IsLevel(lv) /\ lv.order_entries = b.order_entries
          /\ lv.orders_map = b.orders_map
          /\ lv.queue_head_index \in DOMAIN b.order_entries
          /\ b.order_entries[lv.queue_head_index].is_valid
          /\ \A j \in DOMAIN b.order_entries :
                b.order_entries[j].is_valid /\ b.queue_head_index <= j
                    => lv.queue_head_index <= j
      <3> DEFINE k == b.orders_map[x]
      <3>1. /\ k \in DOMAIN b.order_entries /\ b.order_entries[k].is_valid
            /\ b.queue_head_index <= k
        BY <2>1, <2>2
      <3> HIDE DEF k
      <3> QED BY <1>1, <1>2, <1>7, <3>1, IncrementFields
    <2>4. MapKept(lv, os, B, side, price)
      <3>1. \A y \in DOMAIN lv.orders_map : lv.queue_head_index <= lv.orders_map[y]
        BY <2>2, <2>3
      <3> SUFFICES ASSUME NEW y \in DOMAIN lv.orders_map
                   PROVE  /\ y \in DOMAIN os /\ y \in OrderIds
                          /\ lv.orders_map[y] \in DOMAIN lv.order_entries
                          /\ lv.order_entries[lv.orders_map[y]] =
                                [order |-> y, is_valid |-> TRUE]
                          /\ lv.queue_head_index <= lv.orders_map[y]
                          /\ y \notin B => os[y].side = side /\ os[y].price = price
                                              /\ Open(os[y])
        BY DEF MapKept
      <3>2. /\ y \in DOMAIN os /\ y \in OrderIds
            /\ b.orders_map[y] \in DOMAIN b.order_entries
            /\ b.order_entries[b.orders_map[y]] = [order |-> y, is_valid |-> TRUE]
            /\ y \notin B => os[y].side = side /\ os[y].price = price /\ Open(os[y])
        BY <1>3, <2>3 DEF MapKept
      <3> QED BY <2>3, <3>1, <3>2
    <2>5. EntriesKept(lv, os, B)
      BY <1>4, <2>3 DEF EntriesKept
    <2>6. HeadKept(lv, os, B)
      BY <1>4, <2>3 DEF EntriesKept, HeadKept, FrontOrder
    <2>7. i = level.orders_map[id] /\ Traceless(level, id) => Gone(lv, id)
      BY <1>2, <1>5, <2>3 DEF Gone, Traceless, HeadTraceless, FrontOrder
    <2> QED BY <1>2, <2>3, <2>4, <2>5, <2>6, <2>7 DEF LevelSound
  <1> QED BY <1>6, <1>7

-----------------------------------------------------------------------------
(***************************************************************************)
(* One side of the book                                                    *)
(***************************************************************************)

\* Every level is sound, and every open order of the side that is not in B is
\* queued at its price.  A level may be empty.
SideSound(sl, os, B, side) ==
    /\ DOMAIN sl \subseteq Prices
    /\ \A p \in DOMAIN sl : LevelSound(sl[p], os, B, side, p) /\ HeadKept(sl[p], os, B)
    /\ \A x \in DOMAIN os \ B :
        os[x].side = side /\ Open(os[x]) =>
            os[x].price \in DOMAIN sl /\ x \in DOMAIN sl[os[x].price].orders_map

\* No order of the side that is not in B2 becomes open.
NoneReopened(os, os2, B2, side) ==
    \A x \in DOMAIN os2 \ B2 :
        os2[x].side = side /\ Open(os2[x]) =>
            x \in DOMAIN os /\ os[x].side = side /\ Open(os[x])

LEMMA SideAdvances ==
    ASSUME NEW sl, NEW os, NEW os2, NEW B, NEW B2, NEW side,
           SideSound(sl, os, B, side), Advance(os, os2, B, B2, side),
           NoneReopened(os, os2, B2, side)
    PROVE  SideSound(sl, os2, B2, side)
  <1>1. ASSUME NEW p \in DOMAIN sl
        PROVE  LevelSound(sl[p], os2, B2, side, p) /\ HeadKept(sl[p], os2, B2)
    <2>1. LevelSound(sl[p], os, B, side, p) /\ HeadKept(sl[p], os, B)
      BY DEF SideSound
    <2> QED BY <2>1, LevelAdvances
  <1>2. ASSUME NEW x \in DOMAIN os2 \ B2, os2[x].side = side, Open(os2[x])
        PROVE  os2[x].price \in DOMAIN sl /\ x \in DOMAIN sl[os2[x].price].orders_map
    <2>1. x \in DOMAIN os /\ os[x].side = side /\ Open(os[x])
      BY <1>2 DEF NoneReopened
    <2>2. x \notin B /\ os2[x].price = os[x].price
      BY <1>2, <2>1 DEF Advance
    <2> QED BY <2>1, <2>2 DEF SideSound
  <1> QED BY <1>1, <1>2 DEF SideSound

\* An order that is neither in B nor filled has left no trace in a side but its
\* queued entry.
Clean(level, id) == Traceless(level, id) /\ HeadTraceless(level, id)

CleanSide(sl, os, side, id) ==
    \A p \in DOMAIN sl :
        /\ Clean(sl[p], id)
        /\ id \in DOMAIN sl[p].orders_map =>
                id \in DOMAIN os /\ os[id].side = side /\ os[id].price = p

LEMMA SideClean ==
    ASSUME NEW sl, NEW os, NEW B, NEW side, SideSound(sl, os, B, side),
           NEW id, id \notin B, ~ FilledIn(os, id)
    PROVE  CleanSide(sl, os, side, id)
  <1> SUFFICES ASSUME NEW p \in DOMAIN sl
               PROVE  /\ Clean(sl[p], id)
                      /\ id \in DOMAIN sl[p].orders_map =>
                            id \in DOMAIN os /\ os[id].side = side /\ os[id].price = p
    BY DEF CleanSide
  <1>1. LevelSound(sl[p], os, B, side, p) /\ HeadKept(sl[p], os, B)
    BY DEF SideSound
  <1>2. ~ Settled(os, B, id)
    BY DEF Settled
  <1>3. Clean(sl[p], id)
    BY <1>1, <1>2, OpenTraceless DEF Clean
  <1> QED BY <1>1, <1>3 DEF LevelSound, MapKept

\* What it takes to release id from B.
Belongs(sl, os, side, id) ==
    /\ \A p \in DOMAIN sl :
        /\ id \in DOMAIN sl[p].orders_map =>
                os[id].side = side /\ os[id].price = p /\ Open(os[id])
        /\ FilledIn(os, id) \/ Clean(sl[p], id)
    /\ id \in DOMAIN os /\ os[id].side = side /\ Open(os[id]) =>
            os[id].price \in DOMAIN sl /\ id \in DOMAIN sl[os[id].price].orders_map

LEMMA SideReleases ==
    ASSUME NEW sl, NEW os, NEW B, NEW side, NEW id,
           SideSound(sl, os, B \cup {id}, side), Belongs(sl, os, side, id)
    PROVE  SideSound(sl, os, B, side)
  <1>1. ASSUME NEW p \in DOMAIN sl
        PROVE  LevelSound(sl[p], os, B, side, p) /\ HeadKept(sl[p], os, B)
    <2>1. LevelSound(sl[p], os, B \cup {id}, side, p) /\ HeadKept(sl[p], os, B \cup {id})
      BY DEF SideSound
    <2>2. /\ id \in DOMAIN sl[p].orders_map =>
                os[id].side = side /\ os[id].price = p /\ Open(os[id])
          /\ FilledIn(os, id) \/ (Traceless(sl[p], id) /\ HeadTraceless(sl[p], id))
      BY DEF Belongs, Clean
    <2> QED BY <2>1, <2>2, LevelReleases
  <1>2. ASSUME NEW x \in DOMAIN os \ B, os[x].side = side, Open(os[x])
        PROVE  os[x].price \in DOMAIN sl /\ x \in DOMAIN sl[os[x].price].orders_map
    BY <1>2 DEF SideSound, Belongs
  <1> QED BY <1>1, <1>2 DEF SideSound

\* The side new is sl with another level at price.
OtherLevels(sl, new, price) ==
    /\ price \in DOMAIN new /\ DOMAIN new = DOMAIN sl \cup {price}
    /\ \A p \in DOMAIN sl : p # price => new[p] = sl[p]

LosesOnly(sl, new, price, id) ==
    price \in DOMAIN sl =>
        DOMAIN sl[price].orders_map \subseteq DOMAIN new[price].orders_map \cup {id}

\* A change of one level that takes at most an order of B out of the map.
LEMMA LevelReplaced ==
    ASSUME NEW sl, NEW os, NEW B, NEW side, NEW price \in Prices, NEW new, NEW id,
           SideSound(sl, os, B, side), OtherLevels(sl, new, price), id \in B,
           LevelSound(new[price], os, B, side, price), HeadKept(new[price], os, B),
           LosesOnly(sl, new, price, id)
    PROVE  SideSound(new, os, B, side)
  <1>1. \A p \in DOMAIN new :
            LevelSound(new[p], os, B, side, p) /\ HeadKept(new[p], os, B)
    BY DEF SideSound, OtherLevels
  <1>2. ASSUME NEW x \in DOMAIN os \ B, os[x].side = side, Open(os[x])
        PROVE  os[x].price \in DOMAIN new /\ x \in DOMAIN new[os[x].price].orders_map
    <2>1. os[x].price \in DOMAIN sl /\ x \in DOMAIN sl[os[x].price].orders_map
      BY <1>2 DEF SideSound
    <2> QED BY <2>1, <1>2 DEF OtherLevels, LosesOnly
  <1>3. DOMAIN new \subseteq Prices
    BY DEF SideSound, OtherLevels
  <1> QED BY <1>1, <1>2, <1>3 DEF SideSound

TakesOut(sl, rem, price, i, id) ==
    OtherLevels(sl, rem, price) /\ rem[price] = Bury(sl[price], i, id)

IsGone(sl, rem, price, i, id) ==
    /\ DOMAIN rem[price].orders_map = DOMAIN sl[price].orders_map \ {id}
    /\ i = sl[price].orders_map[id] /\ Traceless(sl[price], id) => Gone(rem[price], id)

\* Bury on the level at price.
LEMMA SideBuries ==
    ASSUME NEW sl, NEW os, NEW B, NEW side, SideSound(sl, os, B, side),
           NEW id, id \in B, NEW price \in DOMAIN sl, NEW i,
           HasEntry(sl[price], i, id), NEW rem, TakesOut(sl, rem, price, i, id)
    PROVE  SideSound(rem, os, B, side) /\ IsGone(sl, rem, price, i, id)
  <1> DEFINE level == sl[price]
             lv == rem[price]
  <1>1. OtherLevels(sl, rem, price) /\ lv = Bury(level, i, id)
    BY DEF TakesOut
  <1>2. /\ LevelSound(level, os, B, side, price) /\ HeadKept(level, os, B)
        /\ price \in Prices
    BY DEF SideSound
  <1> HIDE DEF level, lv
  <1>3. HasEntry(level, i, id)
    BY DEF level
  <1>4. /\ LevelSound(lv, os, B, side, price) /\ HeadKept(lv, os, B)
        /\ DOMAIN lv.orders_map = DOMAIN level.orders_map \ {id}
        /\ i = level.orders_map[id] /\ Traceless(level, id) => Gone(lv, id)
    BY <1>1, <1>2, <1>3, BurySound
  <1>5. SideSound(rem, os, B, side)
    <2>1. LosesOnly(sl, rem, price, id)
      BY <1>4 DEF lv, level, LosesOnly
    <2>2. LevelSound(rem[price], os, B, side, price) /\ HeadKept(rem[price], os, B)
      BY <1>4 DEF lv
    <2> QED BY <1>1, <1>2, <2>1, <2>2, LevelReplaced
  <1> QED BY <1>1, <1>4, <1>5 DEF lv, level, IsGone

DropAt(sl, price, id) == [sl EXCEPT ![price] = RemoveEntry(@, id)]

RemovedAt(sl, rem, price, id) ==
    OtherLevels(sl, rem, price) /\ (Clean(sl[price], id) => Gone(rem[price], id))

\* remove_order on the level at price, which may not have the order.
LEMMA SideRemoves ==
    ASSUME NEW sl, NEW os, NEW B, NEW side, SideSound(sl, os, B, side),
           NEW id, id \in B, NEW price \in DOMAIN sl,
           NEW rem, rem = DropAt(sl, price, id)
    PROVE  SideSound(rem, os, B, side) /\ RemovedAt(sl, rem, price, id)
  <1>1. CASE id \in DOMAIN sl[price].orders_map
    <2> DEFINE i == sl[price].orders_map[id]
    <2>1. TakesOut(sl, rem, price, i, id)
      BY <1>1 DEF DropAt, RemoveEntry, TakesOut, OtherLevels
    <2>2. HasEntry(sl[price], i, id)
      <3>1. MapKept(sl[price], os, B, side, price)
        BY DEF SideSound, LevelSound
      <3>2. /\ i \in DOMAIN sl[price].order_entries
            /\ sl[price].order_entries[i] = [order |-> id, is_valid |-> TRUE]
        BY <1>1, <3>1 DEF MapKept
      <3>3. sl[price].order_entries[i].order = id
        BY <3>2
      <3> QED BY <1>1, <3>2, <3>3 DEF HasEntry
    <2>3. i = sl[price].orders_map[id]
      OBVIOUS
    <2> HIDE DEF i
    <2>4. SideSound(rem, os, B, side) /\ IsGone(sl, rem, price, i, id)
      BY <2>1, <2>2, SideBuries
    <2> QED BY <2>1, <2>3, <2>4 DEF Clean, IsGone, TakesOut, RemovedAt
  <1>2. CASE id \notin DOMAIN sl[price].orders_map
    <2>1. /\ DOMAIN rem = DOMAIN sl /\ \A p \in DOMAIN sl : rem[p] = sl[p]
      BY <1>2 DEF DropAt, RemoveEntry
    <2>2. SideSound(rem, os, B, side) /\ OtherLevels(sl, rem, price)
      BY <2>1 DEF SideSound, OtherLevels
    <2> QED BY <1>2, <2>1, <2>2 DEF Clean, Gone, RemovedAt
  <1> QED BY <1>1, <1>2

NoTrace(sl, price, id) ==
    price \in DOMAIN sl =>
        id \notin DOMAIN sl[price].orders_map /\ Traceless(sl[price], id)

PutAt(sl, new, price, id) ==
    /\ OtherLevels(sl, new, price) /\ id \in DOMAIN new[price].orders_map
    /\ NoTrace(sl, price, id) => Clean(new[price], id)

\* try_emplace and add_order of the level.
LEMMA SidePuts ==
    ASSUME NEW sl, NEW os, NEW B, NEW side, SideSound(sl, os, B, side),
           NEW id, id \in B, id \in OrderIds, id \in DOMAIN os, NEW price \in Prices,
           NEW new, new = Enqueue(sl, price, id)
    PROVE  SideSound(new, os, B, side) /\ PutAt(sl, new, price, id)
  <1> DEFINE level == IF price \in DOMAIN sl THEN sl[price] ELSE EmptyLevel
             lv == new[price]
  <1>1. OtherLevels(sl, new, price) /\ lv = AddEntry(level, id)
    BY DEF Enqueue, OtherLevels
  <1>2. /\ LevelSound(level, os, B, side, price)
        /\ level = EmptyLevel \/ HeadKept(level, os, B)
    BY EmptyLevelSound DEF SideSound
  <1>3. NoTrace(sl, price, id) =>
            Traceless(level, id) /\ id \notin DOMAIN level.orders_map
    BY EmptyLevelSound DEF NoTrace
  <1>4. price \in DOMAIN sl => level = sl[price]
    OBVIOUS
  <1> HIDE DEF level, lv
  <1>5. /\ LevelSound(lv, os, B, side, price) /\ HeadKept(lv, os, B)
        /\ DOMAIN lv.orders_map = DOMAIN level.orders_map \cup {id}
        /\ Traceless(level, id) /\ id \notin DOMAIN level.orders_map => Traceless(lv, id)
    BY <1>1, <1>2, AddSound
  <1>6. SideSound(new, os, B, side)
    <2>1. LosesOnly(sl, new, price, id)
      BY <1>4, <1>5 DEF lv, LosesOnly
    <2>2. LevelSound(new[price], os, B, side, price) /\ HeadKept(new[price], os, B)
      BY <1>5 DEF lv
    <2> QED BY <1>1, <2>1, <2>2, LevelReplaced
  <1> QED BY <1>1, <1>3, <1>5, <1>6 DEF lv, PutAt, Clean, HeadTraceless

PrunedAt(sl, new, price) ==
    /\ \A p \in DOMAIN new : p \in DOMAIN sl /\ new[p] = sl[p]
    /\ price \in DOMAIN new => ~ Empty(new[price])
    /\ \A p \in DOMAIN sl : ~ Empty(sl[p]) => p \in DOMAIN new

\* remove_price_level_if_empty
LEMMA SidePrunes ==
    ASSUME NEW sl, NEW os, NEW B, NEW side, SideSound(sl, os, B, side), NEW price,
           NEW new, new = RemovePriceLevelIfEmpty(sl, price)
    PROVE  SideSound(new, os, B, side) /\ PrunedAt(sl, new, price)
  <1>1. /\ DOMAIN new = {p \in DOMAIN sl : p = price => ~ Empty(sl[p])}
        /\ \A p \in DOMAIN new : p \in DOMAIN sl /\ new[p] = sl[p]
    BY DEF RemovePriceLevelIfEmpty
  <1>2. SideSound(new, os, B, side)
    BY <1>1 DEF SideSound, Empty
  <1> QED BY <1>1, <1>2 DEF PrunedAt

-----------------------------------------------------------------------------
(***************************************************************************)
(* Requests                                                                *)
(***************************************************************************)

\* The registry and both sides, with no demands on the orders of B.
Damaged(os, ls, B) ==
    /\ Registry(os) /\ B \subseteq DOMAIN os
    /\ DOMAIN ls = OrderSide
    /\ \A side \in OrderSide : SideSound(ls[side], os, B, side)

\* While a request changes the order id, id counts as damaged.
LEMMA OneOrderAdvances ==
    ASSUME NEW sl, NEW os, NEW os2, NEW B, NEW id, NEW side,
           OneOrder(os, os2, id), SideSound(sl, os, B, side)
    PROVE  SideSound(sl, os2, B \cup {id}, side)
  <1>1. Advance(os, os2, B, B \cup {id}, side)
    BY DEF OneOrder, Advance, Filled, Open
  <1>2. NoneReopened(os, os2, B \cup {id}, side)
    BY DEF OneOrder, NoneReopened
  <1> QED BY <1>1, <1>2, SideAdvances

\* It has been in B before, or it has left no trace but its queued entry.
LEMMA OneOrderClean ==
    ASSUME NEW sl, NEW os, NEW os2, NEW B, NEW id, NEW side,
           OneOrder(os, os2, id), SideSound(sl, os, B, side), id \notin B
    PROVE  CleanSide(sl, os, side, id)
  <1>1. ~ FilledIn(os, id)
    BY DEF OneOrder, FilledIn, Filled, Open
  <1> QED BY <1>1, SideClean

\* The other side of the book does not notice.
LEMMA OtherSound ==
    ASSUME NEW sl, NEW os, NEW os2, NEW B, NEW id, NEW side,
           OneOrder(os, os2, id), SideSound(sl, os, B, side), os2[id].side # side
    PROVE  SideSound(sl, os2, B, side)
  <1>1. SideSound(sl, os2, B \cup {id}, side)
    BY OneOrderAdvances
  <1>2. CASE id \in B
    <2>1. B \cup {id} = B
      BY <1>2
    <2> QED BY <1>1, <2>1
  <1>3. CASE id \notin B
    <2>1. CleanSide(sl, os, side, id)
      BY <1>3, OneOrderClean
    <2>2. Belongs(sl, os2, side, id)
      BY <2>1 DEF CleanSide, Belongs, OneOrder
    <2> QED BY <1>1, <2>2, SideReleases
  <1> QED BY <1>2, <1>3

Changed(os, os2, id, side) ==
    /\ OneOrder(os, os2, id) /\ OrderInv(os2[id]) /\ os2[id].side = side
    /\ os2 \in Seq(OrderRecord) /\ Len(os2) <= MaxOrders

\* So it is enough to look at the order that changes and at its side.
LEMMA OneSideSound ==
    ASSUME NEW os, NEW os2, NEW ls, NEW B, NEW id, NEW side \in OrderSide, NEW new,
           Damaged(os, ls, B), Changed(os, os2, id, side), SideSound(new, os2, B, side)
    PROVE  Damaged(os2, [ls EXCEPT ![side] = new], B)
  <1> DEFINE ls2 == [ls EXCEPT ![side] = new]
  <1>1. DOMAIN ls2 = OrderSide /\ ls2[side] = new
        /\ \A s \in OrderSide : s # side => ls2[s] = ls[s]
    BY DEF Damaged
  <1>2. Registry(os2) /\ B \subseteq DOMAIN os2
    <2>1. \A x \in DOMAIN os2 : OrderInv(os2[x])
      BY DEF Damaged, Registry, OneOrder, Changed
    <2> QED BY <2>1 DEF Registry, Damaged, OneOrder, Changed
  <1>3. ASSUME NEW s \in OrderSide, s # side
        PROVE  SideSound(ls[s], os2, B, s)
    <2>1. SideSound(ls[s], os, B, s) /\ os2[id].side # s
      BY <1>3 DEF Damaged, Changed
    <2>2. OneOrder(os, os2, id)
      BY DEF Changed
    <2> QED BY <2>1, <2>2, OtherSound
  <1> HIDE DEF ls2
  <1>4. Damaged(os2, ls2, B)
    BY <1>1, <1>2, <1>3 DEF Damaged
  <1> QED BY <1>4 DEF ls2

\* At the end of the request id is released, unless it was damaged before.
LEMMA Released ==
    ASSUME NEW new, NEW os, NEW B, NEW side, NEW id,
           SideSound(new, os, B \cup {id}, side),
           id \notin B => Belongs(new, os, side, id)
    PROVE  SideSound(new, os, B, side)
  <1>1. CASE id \in B
    <2>1. B \cup {id} = B
      BY <1>1
    <2> QED BY <2>1
  <1>2. CASE id \notin B
    BY <1>2, SideReleases
  <1> QED BY <1>1, <1>2

\* add_order
LEMMA AddDamaged ==
    ASSUME NEW os, NEW ls, NEW B, Damaged(os, ls, B),
           NEW side \in OrderSide, NEW price \in Prices, NEW quantity \in Quantities,
           NEW id, id = Len(os) + 1, id \in OrderIds,
           NEW os2, os2 = Append(os, CopyFromClient(side, price, quantity))
    PROVE  Damaged(os2, [ls EXCEPT ![side] = Enqueue(@, price, id)], B)
  <1> DEFINE o == CopyFromClient(side, price, quantity)
             sl == ls[side]
             new == Enqueue(sl, price, id)
  <1>1. OrderInv(o) /\ Open(o) /\ o.side = side /\ o.price = price
    <2>1. o = CopyFromClient(side, price, quantity)
      OBVIOUS
    <2> HIDE DEF o
    <2> QED BY <2>1, NewOrderInv
  <1>2. o \in OrderRecord
    BY <1>1, OrderInvRecord
  <1>3. /\ os \in Seq(OrderRecord) /\ Len(os) \in Nat /\ DOMAIN os = 1 .. Len(os)
        /\ SideSound(sl, os, B, side) /\ B \subseteq DOMAIN os
    BY RegistryDomain DEF Damaged, Registry
  <1> HIDE DEF o, sl
  <1>4. /\ os2 \in Seq(OrderRecord) /\ Len(os2) <= MaxOrders
        /\ os2[id] = o /\ DOMAIN os2 = DOMAIN os \cup {id}
        /\ id \notin DOMAIN os /\ \A x \in DOMAIN os : os2[x] = os[x]
    BY <1>2, <1>3 DEF OrderIds, o
  <1>5. OneOrder(os, os2, id) /\ id \notin B /\ id \in DOMAIN os2
    BY <1>3, <1>4 DEF OneOrder
  <1>6. SideSound(sl, os2, B \cup {id}, side)
    BY <1>3, <1>5, OneOrderAdvances
  <1>7. CleanSide(sl, os, side, id)
    BY <1>3, <1>5, OneOrderClean
  <1>8. SideSound(new, os2, B \cup {id}, side) /\ PutAt(sl, new, price, id)
    <2>1. id \in B \cup {id} /\ new = Enqueue(sl, price, id)
      OBVIOUS
    <2> HIDE DEF new
    <2> QED BY <1>5, <1>6, <2>1, SidePuts
  <1> HIDE DEF new
  <1>9. Belongs(new, os2, side, id)
    <2>1. NoTrace(sl, price, id) /\ \A p \in DOMAIN sl : id \notin DOMAIN sl[p].orders_map
      BY <1>4, <1>7 DEF CleanSide, Clean, NoTrace
    <2>2. Clean(new[price], id) /\ id \in DOMAIN new[price].orders_map
      BY <1>8, <2>1 DEF PutAt
    <2>3. \A p \in DOMAIN new : p # price =>
            Clean(new[p], id) /\ id \notin DOMAIN new[p].orders_map
      BY <1>7, <1>8, <2>1 DEF PutAt, OtherLevels, CleanSide
    <2>4. price \in DOMAIN new
      BY <1>8 DEF PutAt, OtherLevels
    <2> QED BY <1>1, <1>4, <2>2, <2>3, <2>4 DEF Belongs
  <1>10. SideSound(new, os2, B, side)
    BY <1>8, <1>9, SideReleases
  <1>11. Damaged(os2, [ls EXCEPT ![side] = new], B)
    <2>1. Changed(os, os2, id, side)
      BY <1>1, <1>4, <1>5 DEF Changed
    <2> QED BY <1>10, <2>1, OneSideSound
  <1> QED BY <1>11 DEF new, sl

\* An open order and the level that find(price) returns for it.
Findable(os, ls, id) ==
    id \in DOMAIN os /\ Open(os[id]) /\ os[id].price \in DOMAIN ls[os[id].side]

\* A damaged book on which a request changes the open order id.
LEMMA FoundSide ==
    ASSUME NEW os, NEW ls, NEW B, Damaged(os, ls, B), NEW id, Findable(os, ls, id),
           NEW o2, OrderInv(o2), o2.side = os[id].side, NEW os2,
           os2 = [os EXCEPT ![id] = o2]
    PROVE  /\ Changed(os, os2, id, os[id].side) /\ os2[id] = o2 /\ DOMAIN os2 = DOMAIN os
           /\ os[id].side \in OrderSide /\ id \in OrderIds /\ id \in DOMAIN os2
           /\ SideSound(ls[os[id].side], os, B, os[id].side)
           /\ SideSound(ls[os[id].side], os2, B \cup {id}, os[id].side)
           /\ id \notin B => CleanSide(ls[os[id].side], os, os[id].side, id)
  <1> DEFINE side == os[id].side
             sl == ls[side]
  <1>1. Registry(os) /\ id \in DOMAIN os /\ Open(os[id])
    BY DEF Damaged, Findable
  <1>2. /\ OneOrder(os, os2, id) /\ os2[id] = o2
        /\ os2 \in Seq(OrderRecord) /\ Len(os2) <= MaxOrders /\ DOMAIN os2 = DOMAIN os
    BY <1>1, ChangeOrder
  <1>3. side \in OrderSide /\ id \in OrderIds
    BY <1>1, RegistryDomain DEF Registry, OrderInv
  <1>4. SideSound(sl, os, B, side)
    BY <1>3 DEF Damaged
  <1>5. Changed(os, os2, id, side)
    BY <1>2 DEF Changed
  <1> HIDE DEF sl, side
  <1>6. SideSound(sl, os2, B \cup {id}, side)
    BY <1>2, <1>4, OneOrderAdvances
  <1>7. id \notin B => CleanSide(sl, os, side, id)
    BY <1>2, <1>4, OneOrderClean
  <1> QED BY <1>1, <1>2, <1>3, <1>4, <1>5, <1>6, <1>7 DEF sl, side

\* cancel_order
LEMMA CancelDamaged ==
    ASSUME NEW os, NEW ls, NEW B, Damaged(os, ls, B), NEW id, Findable(os, ls, id),
           NEW os2, os2 = [os EXCEPT ![id] = Cancel(@)]
    PROVE  Damaged(os2, [ls EXCEPT ![os[id].side] =
                            CancelOrderDispatcher(@, os[id], id)], B)
  <1> DEFINE o == os[id]
             o2 == Cancel(o)
             side == o.side
             price == o.price
             sl == ls[side]
             rem == DropAt(sl, price, id)
             new == RemovePriceLevelIfEmpty(rem, price)
  <1>1. OrderInv(o2) /\ ~ Open(o2) /\ o2.side = side
    BY CancelInv DEF Damaged, Registry, Findable
  <1>2. os2 = [os EXCEPT ![id] = o2]
    OBVIOUS
  <1>3. CancelOrderDispatcher(sl, o, id) = new
    BY DEF CancelOrderDispatcher, DropAt
  <1>4. price \in DOMAIN sl
    BY DEF Findable
  <1>5. /\ Changed(os, os2, id, side) /\ os2[id] = o2 /\ DOMAIN os2 = DOMAIN os
        /\ side \in OrderSide /\ SideSound(sl, os2, B \cup {id}, side)
        /\ id \notin B => CleanSide(sl, os, side, id)
    <2> HIDE DEF o2
    <2> QED BY <1>1, <1>2, FoundSide
  <1> HIDE DEF sl, side, price, o2
  <1>6. SideSound(rem, os2, B \cup {id}, side) /\ RemovedAt(sl, rem, price, id)
    <2>1. rem = DropAt(sl, price, id) /\ id \in B \cup {id}
      OBVIOUS
    <2> HIDE DEF rem
    <2> QED BY <1>4, <1>5, <2>1, SideRemoves
  <1> HIDE DEF rem
  <1>7. SideSound(new, os2, B \cup {id}, side) /\ PrunedAt(rem, new, price)
    BY <1>6, SidePrunes
  <1> HIDE DEF new
  <1>8. ASSUME id \notin B PROVE Belongs(new, os2, side, id)
    <2>1. CleanSide(sl, os, side, id) /\ Gone(rem[price], id)
      BY <1>4, <1>5, <1>6, <1>8 DEF CleanSide, RemovedAt
    <2>2. ASSUME NEW p \in DOMAIN new
          PROVE  Clean(new[p], id) /\ id \notin DOMAIN new[p].orders_map
      <3>1. p \in DOMAIN rem /\ new[p] = rem[p] /\ (p = price => ~ Empty(rem[p]))
        BY <1>7 DEF PrunedAt
      <3>2. CASE p = price
        BY <2>1, <3>1, <3>2 DEF Gone, Clean
      <3>3. CASE p # price
        <4>1. p \in DOMAIN sl /\ rem[p] = sl[p]
          BY <1>6, <3>1, <3>3 DEF RemovedAt, OtherLevels
        <4>2. Clean(sl[p], id) /\ id \notin DOMAIN sl[p].orders_map
          BY <2>1, <3>3, <4>1 DEF CleanSide, price
        <4> QED BY <3>1, <4>1, <4>2
      <3> QED BY <3>2, <3>3
    <2> QED BY <1>1, <1>5, <2>2 DEF Belongs
  <1>9. SideSound(new, os2, B, side)
    BY <1>7, <1>8, Released
  <1>10. Damaged(os2, [ls EXCEPT ![side] = new], B)
    BY <1>5, <1>9, OneSideSound
  <1> QED BY <1>3, <1>10 DEF sl, side

\* modify_order that leaves the order in its place
LEMMA ShrinkSound ==
    ASSUME NEW os, NEW ls, NEW B, Damaged(os, ls, B), NEW id, Findable(os, ls, id),
           NEW os2, Changed(os, os2, id, os[id].side), DOMAIN os2 = DOMAIN os,
           Open(os2[id]), os2[id].price = os[id].price
    PROVE  SideSound(ls[os[id].side], os2, B, os[id].side)
  <1> DEFINE side == os[id].side
  <1>1. SideSound(ls[side], os, B, side)
    BY DEF Damaged, Findable, Registry, OrderInv
  <1>2. Advance(os, os2, B, B, side)
    BY DEF Changed, OneOrder, Findable, Advance, Filled, Open
  <1>3. NoneReopened(os, os2, B, side)
    BY DEF Changed, OneOrder, Findable, NoneReopened, Open
  <1> QED BY <1>1, <1>2, <1>3, SideAdvances

\* modify_order that takes the order out and queues it at new_price
LEMMA MoveSound ==
    ASSUME NEW sl, NEW os, NEW os2, NEW B, NEW side, NEW id, NEW price \in DOMAIN sl,
           NEW new_price \in Prices, id \in OrderIds, id \in DOMAIN os2,
           SideSound(sl, os2, B \cup {id}, side),
           id \notin B => CleanSide(sl, os, side, id),
           os[id].price = price, os2[id].side = side, os2[id].price = new_price,
           Open(os2[id]),
           NEW rem, rem = DropAt(sl, price, id),
           NEW put, put = Enqueue(rem, new_price, id),
           NEW new, new = RemovePriceLevelIfEmpty(put, price)
    PROVE  SideSound(new, os2, B, side)
  <1> DEFINE C == B \cup {id}
  <1>1. id \in C /\ SideSound(sl, os2, C, side)
    OBVIOUS
  <1> HIDE DEF C
  <1>2. SideSound(rem, os2, C, side) /\ RemovedAt(sl, rem, price, id)
    BY <1>1, SideRemoves
  <1>3. SideSound(put, os2, C, side) /\ PutAt(rem, put, new_price, id)
    <2>1. id \in C /\ SideSound(rem, os2, C, side)
      BY <1>1, <1>2
    <2> QED BY <2>1, SidePuts, SMTT(30)
  <1>4. SideSound(new, os2, C, side) /\ PrunedAt(put, new, price)
    BY <1>3, SidePrunes
  <1>5. ASSUME id \notin B PROVE Belongs(new, os2, side, id)
    <2>1. CleanSide(sl, os, side, id)
      BY <1>5
    <2>2. Gone(rem[price], id) /\ price \in DOMAIN rem
      BY <1>2, <2>1 DEF CleanSide, RemovedAt, OtherLevels
    <2>3. ASSUME NEW p \in DOMAIN rem, p # price
          PROVE  Clean(rem[p], id) /\ id \notin DOMAIN rem[p].orders_map
      <3>1. p \in DOMAIN sl /\ rem[p] = sl[p]
        BY <1>2, <2>3 DEF RemovedAt, OtherLevels
      <3> QED BY <2>1, <2>3, <3>1 DEF CleanSide
    <2>4. NoTrace(rem, new_price, id)
      <3>1. CASE new_price = price
        BY <2>2, <3>1 DEF NoTrace, Gone
      <3>2. CASE new_price # price
        BY <2>3, <3>2 DEF NoTrace, Clean
      <3> QED BY <3>1, <3>2
    <2>5. /\ Clean(put[new_price], id) /\ id \in DOMAIN put[new_price].orders_map
          /\ new_price \in DOMAIN put /\ OtherLevels(rem, put, new_price)
      BY <1>3, <2>4 DEF PutAt, OtherLevels
    <2>6. new_price \in DOMAIN new /\ new[new_price] = put[new_price]
      BY <1>4, <2>5 DEF PrunedAt, Empty
    <2>7. ASSUME NEW p \in DOMAIN new, p # new_price
          PROVE  Clean(new[p], id) /\ id \notin DOMAIN new[p].orders_map
      <3>1. p \in DOMAIN put /\ new[p] = put[p] /\ (p = price => ~ Empty(new[p]))
        BY <1>4 DEF PrunedAt
      <3>2. p \in DOMAIN rem /\ put[p] = rem[p]
        BY <2>5, <2>7, <3>1 DEF OtherLevels
      <3>3. CASE p = price
        BY <2>2, <3>1, <3>2, <3>3 DEF Gone, Clean
      <3>4. CASE p # price
        BY <2>3, <3>1, <3>2, <3>4
      <3> QED BY <3>3, <3>4
    <2>8. \A p \in DOMAIN new :
            /\ id \in DOMAIN new[p].orders_map => p = new_price
            /\ Clean(new[p], id)
      BY <2>5, <2>6, <2>7
    <2>9. os2[id].price \in DOMAIN new /\ id \in DOMAIN new[os2[id].price].orders_map
      BY <2>5, <2>6
    <2>10. \A p \in DOMAIN new :
            /\ id \in DOMAIN new[p].orders_map =>
                    os2[id].side = side /\ os2[id].price = p /\ Open(os2[id])
            /\ FilledIn(os2, id) \/ Clean(new[p], id)
      BY <2>8
    <2> QED BY <2>9, <2>10 DEF Belongs
  <1> QED BY <1>4, <1>5, Released DEF C

\* modify_order
LEMMA ModifyDamaged ==
    ASSUME NEW os, NEW ls, NEW B, Damaged(os, ls, B), NEW id, Findable(os, ls, id),
           NEW new_price \in Prices, NEW new_qty \in Quantities,
           new_qty > os[id].quantity_filled,
           NEW os2, os2 = [os EXCEPT ![id] =
                                SetQuantity(SetPrice(@, new_price), new_qty)]
    PROVE  Damaged(os2, [ls EXCEPT ![os[id].side] =
                ModifyOrderDispatcher(@, os[id], id, new_price, new_qty)], B)
  <1> DEFINE o == os[id]
             o2 == SetQuantity(SetPrice(o, new_price), new_qty)
             side == o.side
             price == o.price
             sl == ls[side]
             rem == DropAt(sl, price, id)
             put == Enqueue(rem, new_price, id)
             moves == new_price # price \/ new_qty > o.quantity
             new == RemovePriceLevelIfEmpty(IF moves THEN put ELSE sl, price)
  <1>1. OrderInv(o2) /\ Open(o2) /\ o2.side = side /\ o2.price = new_price
    BY AmendInv DEF Damaged, Registry, Findable
  <1>2. os2 = [os EXCEPT ![id] = o2]
    OBVIOUS
  <1>3. ModifyOrderDispatcher(sl, o, id, new_price, new_qty) = new
    BY DEF ModifyOrderDispatcher, DropAt
  <1>4. price \in DOMAIN sl
    BY DEF Findable
  <1>5. /\ Changed(os, os2, id, side) /\ os2[id] = o2 /\ DOMAIN os2 = DOMAIN os
        /\ side \in OrderSide /\ id \in OrderIds /\ id \in DOMAIN os2
        /\ SideSound(sl, os2, B \cup {id}, side)
        /\ id \notin B => CleanSide(sl, os, side, id)
    <2> HIDE DEF o2
    <2> QED BY <1>1, <1>2, FoundSide
  <1>6. SideSound(new, os2, B, side)
    <2>1. CASE moves
      <3>1. new = RemovePriceLevelIfEmpty(put, price) /\ os[id].price = price
        BY <2>1
      <3>2. os2[id].side = side /\ os2[id].price = new_price /\ Open(os2[id])
        BY <1>1, <1>5
      <3>3. rem = DropAt(sl, price, id) /\ put = Enqueue(rem, new_price, id)
        OBVIOUS
      <3> HIDE DEF sl, side, price, o2, rem, put, new
      <3> QED BY <1>4, <1>5, <3>1, <3>2, <3>3, MoveSound
    <2>2. CASE ~ moves
      <3>1. new_price = price /\ new = RemovePriceLevelIfEmpty(sl, price)
        BY <2>2
      <3>2. Open(os2[id]) /\ os2[id].price = os[id].price
        BY <1>1, <1>5, <3>1
      <3>3. SideSound(sl, os2, B, side)
        <4> HIDE DEF o2
        <4> QED BY <1>5, <3>2, ShrinkSound
      <3> HIDE DEF sl, side, price, o2, new
      <3> QED BY <3>1, <3>3, SidePrunes
    <2> QED BY <2>1, <2>2
  <1> HIDE DEF new, o2
  <1>7. Damaged(os2, [ls EXCEPT ![side] = new], B)
    BY <1>5, <1>6, OneSideSound
  <1> QED BY <1>3, <1>7

\* modify_order that ends in an exception: what is left of the order ...
LEMMA HalfInv ==
    ASSUME NEW o, OrderInv(o), Open(o), NEW price \in Prices, NEW qty \in Quantities,
           qty > o.quantity_filled, NEW o2, o2 = HalfModified(o, price, qty)
    PROVE  OrderInv(o2) /\ o2.side = o.side
  <1>1. CASE price # o.price
    <2>1. /\ o2 \in [side : OrderSide, price : Prices, quantity : Nat,
                    quantity_filled : Nat, status : OrderStatus]
          /\ o2.side = o.side /\ o2.quantity = o.quantity
          /\ o2.quantity_filled = o.quantity_filled /\ o2.status = o.status
      BY <1>1 DEF OrderInv, HalfModified, SetPrice
    <2> QED BY <2>1 DEF OrderInv, Filled, Open
  <1>2. CASE price = o.price
    <2>1. /\ o2 \in [side : OrderSide, price : Prices, quantity : Nat,
                    quantity_filled : Nat, status : OrderStatus]
          /\ o2.side = o.side /\ o2.quantity = qty
          /\ o2.quantity_filled = o.quantity_filled /\ o2.status = o.status
      BY <1>2 DEF OrderInv, HalfModified, SetQuantity
    <2> QED BY <2>1 DEF OrderInv, Filled, Open
  <1> QED BY <1>1, <1>2

\* ... and of its side, with the order counted as damaged.
LEMMA HalfSound ==
    ASSUME NEW sl, NEW os, NEW C, NEW side, SideSound(sl, os, C, side),
           NEW o, NEW id, id \in C, id \in OrderIds, o.price \in DOMAIN sl,
           NEW new_price, NEW half \in HalfMoved(sl, o, id, new_price)
    PROVE  SideSound(half, os, C, side)
  <1> DEFINE price == o.price
             rem == DropAt(sl, price, id)
             level == rem[new_price]
             lv == [level EXCEPT !.order_entries =
                        Append(@, [order |-> id, is_valid |-> TRUE])]
             entered == [rem EXCEPT ![new_price] = lv]
  <1>1. SideSound(rem, os, C, side) /\ RemovedAt(sl, rem, price, id)
    <2>1. rem = DropAt(sl, price, id) /\ price \in DOMAIN sl
      OBVIOUS
    <2> HIDE DEF rem, price
    <2> QED BY <2>1, SideRemoves
  <1>2. half = rem \/ (new_price \in DOMAIN sl /\ half = entered)
    BY DEF HalfMoved, DropAt
  <1>3. CASE half = rem
    BY <1>1, <1>3
  <1>4. CASE new_price \in DOMAIN sl /\ half = entered
    <2>1. new_price \in DOMAIN rem
      BY <1>1, <1>4 DEF RemovedAt, OtherLevels
    <2> HIDE DEF rem
    <2>2. /\ LevelSound(level, os, C, side, new_price) /\ HeadKept(level, os, C)
          /\ new_price \in Prices
      BY <1>1, <2>1 DEF SideSound
    <2>3. lv.orders_map = level.orders_map
      BY <2>2 DEF LevelSound, IsLevel
    <2>4. LevelSound(lv, os, C, side, new_price) /\ HeadKept(lv, os, C)
      <3>1. lv = [level EXCEPT !.order_entries =
                        Append(@, [order |-> id, is_valid |-> TRUE])]
        OBVIOUS
      <3> HIDE DEF lv, level
      <3> QED BY <2>2, <3>1, EnterSound
    <2> HIDE DEF lv
    <2>5. OtherLevels(rem, half, new_price) /\ half[new_price] = lv
      BY <1>4, <2>1 DEF OtherLevels
    <2>6. LosesOnly(rem, half, new_price, id)
      BY <2>3, <2>5 DEF LosesOnly
    <2> HIDE DEF entered
    <2>7. LevelSound(half[new_price], os, C, side, new_price)
            /\ HeadKept(half[new_price], os, C)
      BY <2>4, <2>5
    <2> QED BY <1>1, <2>2, <2>5, <2>6, <2>7, LevelReplaced
  <1> QED BY <1>2, <1>3, <1>4

LEMMA FailDamaged ==
    ASSUME NEW os, NEW ls, NEW B, Damaged(os, ls, B), NEW id, Findable(os, ls, id),
           NEW new_price \in Prices, NEW new_qty \in Quantities,
           new_qty > os[id].quantity_filled,
           NEW half \in HalfMoved(ls[os[id].side], os[id], id, new_price),
           NEW os2, os2 = [os EXCEPT ![id] = HalfModified(@, new_price, new_qty)]
    PROVE  Damaged(os2, [ls EXCEPT ![os[id].side] = half], B \cup {id})
  <1> DEFINE o == os[id]
             o2 == HalfModified(o, new_price, new_qty)
             side == o.side
             sl == ls[side]
             ls2 == [ls EXCEPT ![side] = half]
             C == B \cup {id}
  <1>1. OrderInv(o2) /\ o2.side = side
    <2>1. OrderInv(o) /\ Open(o) /\ new_qty > o.quantity_filled
      BY DEF Damaged, Registry, Findable
    <2> HIDE DEF o
    <2> QED BY <2>1, HalfInv
  <1>2. os2 = [os EXCEPT ![id] = o2]
    OBVIOUS
  <1>3. /\ Changed(os, os2, id, side) /\ os2[id] = o2 /\ DOMAIN os2 = DOMAIN os
        /\ side \in OrderSide /\ id \in OrderIds /\ id \in DOMAIN os2
        /\ SideSound(sl, os2, C, side)
    <2> HIDE DEF o2
    <2> QED BY <1>1, <1>2, FoundSide
  <1>4. SideSound(half, os2, C, side)
    <2>1. o.price \in DOMAIN sl /\ id \in C /\ half \in HalfMoved(sl, o, id, new_price)
      BY DEF Findable
    <2> HIDE DEF sl, side, o, o2, C
    <2> QED BY <1>3, <2>1, HalfSound
  <1>5. DOMAIN ls2 = OrderSide /\ ls2[side] = half
        /\ \A s \in OrderSide : s # side => ls2[s] = ls[s]
    BY <1>3 DEF Damaged
  <1> HIDE DEF ls2, o2
  <1>6. Registry(os2) /\ C \subseteq DOMAIN os2
    <2>1. \A x \in DOMAIN os2 : OrderInv(os2[x])
      BY <1>3 DEF Damaged, Registry, OneOrder, Changed
    <2> QED BY <1>3, <2>1 DEF Registry, Damaged, OneOrder, Changed
  <1>7. ASSUME NEW s \in OrderSide, s # side
        PROVE  SideSound(ls[s], os2, C, s)
    <2>1. SideSound(ls[s], os, B, s) /\ OneOrder(os, os2, id)
      BY <1>3 DEF Damaged, Changed
    <2> QED BY <2>1, OneOrderAdvances
  <1>8. Damaged(os2, ls2, C)
    BY <1>4, <1>5, <1>6, <1>7 DEF Damaged
  <1> QED BY <1>8 DEF ls2

-----------------------------------------------------------------------------
(***************************************************************************)
(* Matching on a damaged book                                              *)
(***************************************************************************)

LEMMA FrontKept ==
    ASSUME Damaged(orders, levels, broken), BothSides, NEW side \in OrderSide
    PROVE  /\ Best(side) \in DOMAIN levels[side]
           /\ SideSound(levels[side], orders, broken, side)
           /\ HeadKept(BestLevel(side), orders, broken)
           /\ BestFront(side) \in DOMAIN orders /\ OrderInv(orders[BestFront(side)])
           /\ \/ Settled(orders, broken, BestFront(side))
              \/ /\ BestFront(side) \in DOMAIN BestLevel(side).orders_map
                 /\ Open(orders[BestFront(side)]) /\ orders[BestFront(side)].side = side
  <1> DEFINE f == BestFront(side)
  <1>1. SideSound(levels[side], orders, broken, side) /\ DOMAIN levels[side] # {}
    BY DEF Damaged, BothSides
  <1>2. Best(side) \in DOMAIN levels[side]
    BY <1>1, BestIsLevel DEF SideSound
  <1>3. /\ LevelSound(BestLevel(side), orders, broken, side, Best(side))
        /\ HeadKept(BestLevel(side), orders, broken)
    BY <1>1, <1>2 DEF SideSound, BestLevel
  <1>4. f \in DOMAIN BestLevel(side).orders_map \/ Settled(orders, broken, f)
    BY <1>3 DEF HeadKept, BestFront
  <1>5. f \in DOMAIN BestLevel(side).orders_map =>
            /\ f \in DOMAIN orders
            /\ f \notin broken => Open(orders[f]) /\ orders[f].side = side
    BY <1>3 DEF LevelSound, MapKept
  <1> HIDE DEF f
  <1>6. f \in DOMAIN orders
    BY <1>4, <1>5 DEF Settled, FilledIn, Damaged
  <1>7. OrderInv(orders[f])
    BY <1>6 DEF Damaged, Registry
  <1>8. \/ Settled(orders, broken, f)
        \/ f \in DOMAIN BestLevel(side).orders_map /\ Open(orders[f]) /\ orders[f].side = side
    BY <1>4, <1>5 DEF Settled
  <1> QED BY <1>1, <1>2, <1>3, <1>6, <1>7, <1>8 DEF f

LEMMA DamagedMatchQty ==
    ASSUME Damaged(orders, levels, broken), BothSides
    PROVE  /\ MatchQty \in Nat
           /\ \A side \in OrderSide : MatchQty <= Available(orders[BestFront(side)])
  <1> DEFINE b == Available(orders[BestFront("BUY")])
             s == Available(orders[BestFront("SELL")])
  <1>1. b \in Nat /\ s \in Nat
    <2>1. \A side \in OrderSide : OrderInv(orders[BestFront(side)])
      BY FrontKept
    <2>2. ASSUME NEW o, OrderInv(o) PROVE Available(o) \in Nat
      BY <2>2 DEF OrderInv, Available
    <2> QED BY <2>1, <2>2 DEF OrderSide
  <1>2. {Available(orders[id]) : id \in Fronts} = {b, s}
    BY DEF Fronts, OrderSide
  <1> HIDE DEF b, s
  <1>3. MatchQty = IF b <= s THEN b ELSE s
    BY <1>1, <1>2, MinOfPair DEF MatchQty
  <1>4. MatchQty \in Nat /\ MatchQty <= b /\ MatchQty <= s
    BY <1>1, <1>3
  <1> QED BY <1>4 DEF b, s, OrderSide

\* A filled order that is matched once more stays filled: there is nothing left.
LEMMA FilledStays ==
    ASSUME NEW o, OrderInv(o), Filled(o), NEW q \in Nat, q <= Available(o)
    PROVE  Filled(Match(o, q))
  <1>1. o.quantity \in Nat /\ o.quantity_filled = o.quantity
    BY DEF OrderInv
  <1>2. q = 0
    BY <1>1 DEF Available
  <1>3. Match(o, q).status = "FULLY_FILLED"
    BY <1>1, <1>2 DEF Match, OrderInv
  <1> QED BY <1>3 DEF Filled

\* What an iteration does to an order.
MatchesOrder(os, os2, x) ==
    /\ os2[x].side = os[x].side /\ os2[x].price = os[x].price
    /\ Filled(os[x]) => Filled(os2[x])
    /\ os2[x] = os[x] \/ (Open(os2[x]) <=> ~ Filled(os2[x]))

LEMMA DamagedMatch ==
    ASSUME Damaged(orders, levels, broken), BothSides
    PROVE  /\ Registry(AfterMatch) /\ DOMAIN AfterMatch = DOMAIN orders
           /\ \A x \in DOMAIN orders : MatchesOrder(orders, AfterMatch, x)
           /\ \A x \in DOMAIN orders : x \notin Fronts => AfterMatch[x] = orders[x]
           /\ \A x \in Fronts : AfterMatch[x] = Matched(x)
                    /\ (Open(AfterMatch[x]) <=> ~ Filled(AfterMatch[x]))
  <1> DEFINE os == orders
             os2 == AfterMatch
  <1>1. /\ os \in Seq(OrderRecord) /\ Len(os) \in Nat /\ Len(os) <= MaxOrders
        /\ DOMAIN os = 1 .. Len(os) /\ \A x \in DOMAIN os : OrderInv(os[x])
    BY RegistryDomain DEF Damaged, Registry
  <1>2. /\ DOMAIN os2 = DOMAIN os
        /\ \A x \in DOMAIN os : x \notin Fronts => os2[x] = os[x]
        /\ \A x \in DOMAIN os : x \in Fronts => os2[x] = Matched(x)
    BY DEF AfterMatch
  <1>3. ASSUME NEW x \in Fronts
        PROVE  /\ x \in DOMAIN os /\ OrderInv(Matched(x))
               /\ Matched(x).side = os[x].side /\ Matched(x).price = os[x].price
               /\ Open(Matched(x)) <=> ~ Filled(Matched(x))
               /\ Filled(os[x]) => Filled(Matched(x))
    <2>1. PICK side \in OrderSide : x = BestFront(side)
      BY DEF Fronts
    <2>2. x \in DOMAIN os /\ OrderInv(os[x])
      BY <2>1, FrontKept
    <2>3. MatchQty \in Nat /\ MatchQty <= Available(os[x])
      BY <2>1, DamagedMatchQty
    <2>4. Filled(os[x]) => Filled(Matched(x))
      BY <2>2, <2>3, FilledStays DEF Matched
    <2> QED BY <2>2, <2>3, <2>4, MatchInv DEF Matched
  <1> HIDE DEF os2
  <1>4. \A x \in DOMAIN os : OrderInv(os2[x]) /\ MatchesOrder(os, os2, x)
    BY <1>1, <1>2, <1>3 DEF MatchesOrder
  <1>5. os2 \in Seq(OrderRecord) /\ Len(os2) = Len(os)
    <2>1. \A x \in DOMAIN os : os2[x] \in OrderRecord
      BY <1>4, OrderInvRecord
    <2>2. os2 = [x \in 1 .. Len(os) |-> os2[x]]
      BY <1>1 DEF AfterMatch, os2
    <2> QED BY <2>1, <2>2, <1>1
  <1>6. Registry(os2)
    BY <1>1, <1>2, <1>4, <1>5 DEF Registry
  <1>7. \A x \in Fronts : os2[x] = Matched(x) /\ (Open(os2[x]) <=> ~ Filled(os2[x]))
    BY <1>2, <1>3
  <1> QED BY <1>2, <1>4, <1>6, <1>7 DEF os2

\* pop_front_order_if_filled and remove_price_level_if_empty on one side.
LEMMA PopBestSound ==
    ASSUME Damaged(orders, levels, broken), BothSides, MatchFault = "none",
           NEW side \in OrderSide
    PROVE  SideSound(PopBest(side), AfterMatch, broken, side)
  <1> DEFINE os == orders
             os2 == AfterMatch
             B == broken
             f == BestFront(side)
             price == Best(side)
             sl == levels[side]
             level == BestLevel(side)
             h == level.queue_head_index
             rem == [sl EXCEPT ![price] = PopFrontIfFilled(@, Filled(os2[f]))]
             new == RemovePriceLevelIfEmpty(rem, price)
  <1>1. /\ price \in DOMAIN sl /\ SideSound(sl, os, B, side) /\ f \in DOMAIN os
        /\ h \in DOMAIN level.order_entries /\ level.order_entries[h].order = f
        /\ level = sl[price]
        /\ Settled(os, B, f) \/ (f \in DOMAIN level.orders_map /\ Open(os[f]))
    BY FrontKept DEF HeadKept, BestFront, FrontOrder, BestLevel
  <1>2. f \in Fronts /\ \A x \in Fronts : x = f \/ Settled(os, B, x) \/ os[x].side # side
    <2>1. ASSUME NEW x \in Fronts PROVE x = f \/ Settled(os, B, x) \/ os[x].side # side
      <3>1. PICK s \in OrderSide : x = BestFront(s)
        BY DEF Fronts
      <3>2. Settled(os, B, x) \/ os[x].side = s
        BY <3>1, FrontKept
      <3> QED BY <3>1, <3>2
    <2> QED BY <2>1 DEF Fronts
  <1>3. /\ DOMAIN os2 = DOMAIN os
        /\ \A x \in DOMAIN os : MatchesOrder(os, os2, x)
        /\ \A x \in DOMAIN os : x \notin Fronts => os2[x] = os[x]
        /\ Filled(os2[f]) = Filled(Matched(f)) /\ (Open(os2[f]) <=> ~ Filled(os2[f]))
    BY <1>2, DamagedMatch
  <1>4. PopBest(side) = new
    BY <1>3 DEF PopBest
  <1>5. Filled(os2[f]) /\ ~ Empty(level) => f \in DOMAIN level.orders_map
    BY <1>3 DEF MatchFault, PopIsUndefined, BestFront
  <1> HIDE DEF os, os2, B, f, price, sl, level, h
  <1>6. \A x \in DOMAIN os \ B :
            /\ x # f /\ os[x].side = side /\ Open(os[x]) => os2[x] = os[x]
            /\ os2[x].side = side /\ Open(os2[x]) => os[x].side = side /\ Open(os[x])
    <2> SUFFICES ASSUME NEW x \in DOMAIN os, x \notin B
                 PROVE  /\ x # f /\ os[x].side = side /\ Open(os[x]) => os2[x] = os[x]
                        /\ os2[x].side = side /\ Open(os2[x]) =>
                                os[x].side = side /\ Open(os[x])
      OBVIOUS
    <2>1. Filled(os[x]) => ~ Open(os[x]) /\ ~ Open(os2[x])
      BY <1>3 DEF MatchesOrder, Filled, Open
    <2>2. os2[x].side = os[x].side
      BY <1>3 DEF MatchesOrder
    <2>3. CASE x \notin Fronts
      BY <1>3, <2>3
    <2>4. CASE Settled(os, B, x)
      BY <2>1, <2>4 DEF Settled, FilledIn
    <2>5. CASE os[x].side # side
      BY <2>2, <2>5
    <2>6. CASE x = f
      BY <1>1, <2>1, <2>2, <2>6 DEF Settled, FilledIn
    <2> QED BY <1>2, <2>3, <2>4, <2>5, <2>6
  <1>7. ASSUME NEW C, B \subseteq C, f \in C \/ ~ Open(os[f]) \/ Open(os2[f])
        PROVE  SideSound(sl, os2, C, side)
    <2>1. Advance(os, os2, B, C, side)
      <3>1. \A x \in DOMAIN os : Filled(os[x]) => Filled(os2[x])
        BY <1>3 DEF MatchesOrder
      <3>2. ASSUME NEW x \in DOMAIN os, x \notin C, os[x].side = side, Open(os[x])
            PROVE  os2[x].side = side /\ os2[x].price = os[x].price /\ Open(os2[x])
        <4>1. os2[x].side = os[x].side /\ os2[x].price = os[x].price
          BY <1>3 DEF MatchesOrder
        <4>2. CASE x = f
          BY <1>7, <3>2, <4>1, <4>2
        <4>3. CASE x # f
          BY <1>6, <1>7, <3>2, <4>3
        <4> QED BY <4>2, <4>3
      <3> QED BY <1>3, <1>7, <3>1, <3>2 DEF Advance
    <2>2. NoneReopened(os, os2, C, side)
      BY <1>3, <1>6, <1>7 DEF NoneReopened
    <2> QED BY <1>1, <2>1, <2>2, SideAdvances
  <1>8. CASE Filled(os2[f]) /\ ~ Empty(level)
    <2>1. TakesOut(sl, rem, price, h, f)
      BY <1>1, <1>8 DEF PopFrontIfFilled, h, FrontOrder, TakesOut, OtherLevels
    <2>2. HasEntry(sl[price], h, f)
      BY <1>1, <1>5, <1>8 DEF HasEntry
    <2> DEFINE C == B \cup {f}
    <2>3. SideSound(sl, os2, C, side) /\ f \in C
      BY <1>7
    <2> HIDE DEF rem, C
    <2>4. SideSound(rem, os2, C, side) /\ IsGone(sl, rem, price, h, f)
      BY <1>1, <2>1, <2>2, <2>3, SideBuries
    <2>5. SideSound(new, os2, C, side) /\ PrunedAt(rem, new, price)
      BY <2>4, SidePrunes
    <2>6. ASSUME f \notin B PROVE Belongs(new, os2, side, f)
      <3>1. MapKept(level, os, B, side, price)
        BY <1>1 DEF SideSound, LevelSound
      <3>2. os[f].price = price
        BY <1>5, <1>8, <2>6, <3>1 DEF MapKept
      <3>3. ASSUME NEW p \in DOMAIN new PROVE f \notin DOMAIN new[p].orders_map
        <4>1. p \in DOMAIN rem /\ new[p] = rem[p]
          BY <2>5 DEF PrunedAt
        <4>2. CASE p = price
          BY <2>4, <4>1, <4>2 DEF IsGone
        <4>3. CASE p # price
          <5>1. p \in DOMAIN sl /\ rem[p] = sl[p]
            BY <2>1, <4>1, <4>3 DEF TakesOut, OtherLevels
          <5>2. MapKept(sl[p], os, B, side, p)
            BY <1>1, <5>1 DEF SideSound, LevelSound
          <5> QED BY <2>6, <3>2, <4>1, <4>3, <5>1, <5>2 DEF MapKept
        <4> QED BY <4>2, <4>3
      <3>4. FilledIn(os2, f) /\ ~ Open(os2[f])
        BY <1>1, <1>3, <1>8 DEF FilledIn
      <3> QED BY <3>3, <3>4 DEF Belongs
    <2>7. SideSound(new, os2, B, side)
      BY <2>5, <2>6, Released DEF C
    <2> QED BY <1>4, <2>7 DEF os2, B
  <1>9. CASE ~ Filled(os2[f]) \/ Empty(level)
    <2>1. DOMAIN rem = DOMAIN sl /\ \A p \in DOMAIN sl : rem[p] = sl[p]
      BY <1>1, <1>9 DEF PopFrontIfFilled
    <2>2. f \in B \/ ~ Open(os[f]) \/ Open(os2[f])
      <3>1. Filled(os[f]) => ~ Open(os[f])
        BY DEF Filled, Open
      <3>2. Empty(level) => Settled(os, B, f)
        BY <1>1 DEF Empty
      <3> QED BY <1>3, <1>9, <3>1, <3>2 DEF Settled, FilledIn
    <2>3. SideSound(sl, os2, B, side)
      BY <1>7, <2>2
    <2> HIDE DEF rem
    <2>4. SideSound(rem, os2, B, side)
      BY <2>1, <2>3 DEF SideSound
    <2>5. SideSound(new, os2, B, side)
      BY <2>4, SidePrunes
    <2> QED BY <1>4, <2>5 DEF os2, B
  <1> QED BY <1>8, <1>9

-----------------------------------------------------------------------------
(***************************************************************************)
(* The inductive invariant                                                 *)
(***************************************************************************)

DamageInv == Damaged(orders, levels, broken)

LEMMA InitDamage == FailureInit => DamageInv
  <1> SUFFICES ASSUME FailureInit PROVE DamageInv
    OBVIOUS
  <1>1. Registry(orders) /\ broken \subseteq DOMAIN orders
    BY DEF FailureInit, Init, Registry
  <1>2. ASSUME NEW side \in OrderSide PROVE SideSound(levels[side], orders, broken, side)
    <2>1. levels[side] = <<>> /\ orders = <<>> /\ broken = {}
      BY DEF FailureInit, Init
    <2>2. DOMAIN <<>> = {}
      OBVIOUS
    <2>3. SideSound(<<>>, <<>>, {}, side)
      BY <2>2 DEF SideSound
    <2> QED BY <2>1, <2>3
  <1> QED BY <1>1, <1>2 DEF DamageInv, Damaged, FailureInit, Init

LEMMA AddKeepsDamage ==
    ASSUME DamageInv, NEW side \in OrderSide, NEW price \in Prices,
           NEW quantity \in Quantities, AddOrder(side, price, quantity), UNCHANGED broken
    PROVE  DamageInv'
  <1> DEFINE id == Len(orders) + 1
             os2 == Append(orders, CopyFromClient(side, price, quantity))
  <1>1. /\ id \in OrderIds /\ orders' = os2
        /\ levels' = [levels EXCEPT ![side] = Enqueue(@, price, id)]
    BY DEF AddOrder
  <1>2. Damaged(os2, [levels EXCEPT ![side] = Enqueue(@, price, id)], broken)
    <2>1. os2 = Append(orders, CopyFromClient(side, price, quantity)) /\ id = Len(orders) + 1
      OBVIOUS
    <2> HIDE DEF id, os2
    <2> QED BY <1>1, <2>1, AddDamaged DEF DamageInv
  <1> QED BY <1>1, <1>2 DEF DamageInv

LEMMA CancelKeepsDamage ==
    ASSUME DamageInv, NEW id \in DOMAIN orders, HasLevel(id), CancelOrder(id),
           UNCHANGED broken
    PROVE  DamageInv'
  <1> DEFINE os2 == [orders EXCEPT ![id] = Cancel(@)]
             ls2 == [levels EXCEPT ![orders[id].side] =
                        CancelOrderDispatcher(@, orders[id], id)]
  <1>1. orders' = os2 /\ levels' = ls2 /\ Findable(orders, levels, id)
    BY DEF CancelOrder, HasLevel, Findable
  <1>2. Damaged(os2, ls2, broken)
    BY <1>1, CancelDamaged DEF DamageInv
  <1> QED BY <1>1, <1>2 DEF DamageInv

LEMMA ModifyKeepsDamage ==
    ASSUME DamageInv, NEW id \in DOMAIN orders, HasLevel(id), NEW new_price \in Prices,
           NEW new_qty \in Quantities, ModifyOrder(id, new_price, new_qty),
           UNCHANGED broken
    PROVE  DamageInv'
  <1> DEFINE os2 == [orders EXCEPT ![id] =
                        SetQuantity(SetPrice(@, new_price), new_qty)]
             ls2 == [levels EXCEPT ![orders[id].side] =
                        ModifyOrderDispatcher(@, orders[id], id, new_price, new_qty)]
  <1>1. /\ orders' = os2 /\ levels' = ls2 /\ Findable(orders, levels, id)
        /\ new_qty > orders[id].quantity_filled
    BY DEF ModifyOrder, HasLevel, Findable, ValidateModifyOrder
  <1>2. Damaged(os2, ls2, broken)
    BY <1>1, ModifyDamaged DEF DamageInv
  <1> QED BY <1>1, <1>2 DEF DamageInv

LEMMA FailKeepsDamage ==
    ASSUME DamageInv, NEW id \in DOMAIN orders, NEW new_price \in Prices,
           NEW new_qty \in Quantities, ModifyFails(id, new_price, new_qty)
    PROVE  DamageInv'
  <1> DEFINE os2 == [orders EXCEPT ![id] = HalfModified(@, new_price, new_qty)]
  <1>1. /\ orders' = os2 /\ Findable(orders, levels, id)
        /\ new_qty > orders[id].quantity_filled /\ broken' = broken \cup {id}
    BY DEF ModifyFails, HasLevel, Findable, ValidateModifyOrder
  <1>2. PICK half \in HalfMoved(levels[orders[id].side], orders[id], id, new_price) :
            levels' = [levels EXCEPT ![orders[id].side] = half]
    BY DEF ModifyFails
  <1>3. Damaged(os2, [levels EXCEPT ![orders[id].side] = half], broken \cup {id})
    BY <1>1, FailDamaged DEF DamageInv
  <1> QED BY <1>1, <1>2, <1>3 DEF DamageInv

LEMMA PruneKeepsDamage ==
    ASSUME DamageInv, NEW id \in DOMAIN orders, ModifyPrunes(id)
    PROVE  DamageInv'
  <1> DEFINE side == orders[id].side
             new == RemovePriceLevelIfEmpty(levels[side], orders[id].price)
             ls2 == [levels EXCEPT ![side] = new]
  <1>1. levels' = ls2 /\ orders' = orders /\ broken' = broken
    BY DEF ModifyPrunes
  <1>2. side \in OrderSide
    BY DEF DamageInv, Damaged, Registry, OrderInv
  <1>3. SideSound(new, orders, broken, side)
    <2>1. SideSound(levels[side], orders, broken, side)
      BY <1>2 DEF DamageInv, Damaged
    <2> QED BY <2>1, SidePrunes
  <1> HIDE DEF new, side
  <1>4. Damaged(orders, ls2, broken)
    BY <1>2, <1>3 DEF DamageInv, Damaged
  <1> QED BY <1>1, <1>4 DEF DamageInv

LEMMA MatchKeepsDamage ==
    ASSUME DamageInv, MatchOrders, UNCHANGED broken
    PROVE  DamageInv'
  <1>1. /\ orders' = AfterMatch /\ levels' = [side \in OrderSide |-> PopBest(side)]
        /\ BothSides /\ MatchFault = "none"
    BY DEF MatchOrders, AfterMatch, Crossed
  <1>2. Registry(AfterMatch) /\ DOMAIN AfterMatch = DOMAIN orders
    BY <1>1, DamagedMatch DEF DamageInv
  <1>3. Damaged(AfterMatch, [side \in OrderSide |-> PopBest(side)], broken)
    BY <1>1, <1>2, PopBestSound DEF DamageInv, Damaged
  <1> QED BY <1>1, <1>3 DEF DamageInv

LEMMA NextDamage == DamageInv /\ [FailureNext]_allVars => DamageInv'
  <1> SUFFICES ASSUME DamageInv, [FailureNext]_allVars PROVE DamageInv'
    OBVIOUS
  <1>1. CASE UNCHANGED <<orders, levels, broken>>
    BY <1>1 DEF DamageInv
  <1>2. CASE Request /\ UNCHANGED broken
    <2>1. ASSUME NEW side \in OrderSide, NEW price \in Prices,
                 NEW quantity \in Quantities, AddOrder(side, price, quantity)
          PROVE  DamageInv'
      BY <1>2, <2>1, AddKeepsDamage
    <2>2. ASSUME NEW id \in DOMAIN orders, HasLevel(id), CancelOrder(id)
          PROVE  DamageInv'
      BY <1>2, <2>2, CancelKeepsDamage
    <2>3. ASSUME NEW id \in DOMAIN orders, HasLevel(id), NEW price \in Prices,
                 NEW quantity \in Quantities, ModifyOrder(id, price, quantity)
          PROVE  DamageInv'
      BY <1>2, <2>3, ModifyKeepsDamage
    <2>4. ASSUME NEW id \in DOMAIN orders, UseAfterFree(id) PROVE DamageInv'
      BY <1>1, <1>2, <2>4 DEF UseAfterFree
    <2> QED BY <1>2, <2>1, <2>2, <2>3, <2>4 DEF Request
  <1>3. ASSUME NEW id \in DOMAIN orders, NEW price \in Prices,
               NEW quantity \in Quantities, ModifyFails(id, price, quantity)
        PROVE  DamageInv'
    BY <1>3, FailKeepsDamage
  <1>4. ASSUME NEW id \in DOMAIN orders, FindEnd(id) \/ ModifyPrunes(id)
        PROVE  DamageInv'
    BY <1>1, <1>4, PruneKeepsDamage DEF FindEnd
  <1>5. CASE MatchStep
    BY <1>1, <1>5, MatchKeepsDamage DEF MatchStep, TryMatch, MatchReturns, MatchUndefined
  <1>6. CASE UNCHANGED allVars
    BY <1>1, <1>6 DEF allVars, vars
  <1> QED BY <1>2, <1>3, <1>4, <1>5, <1>6 DEF FailureNext

-----------------------------------------------------------------------------
(***************************************************************************)
(* Where the code erases end(), as long as no modify_order re-queues the   *)
(* only order of a level: only where the entry at the front is that of an  *)
(* order in B.  Every other valid entry is the queued one of its order,    *)
(* and the entry at the head is valid or that of an order in B.            *)
(***************************************************************************)

EntriesTight(level, B) ==
    \A i \in DOMAIN level.order_entries :
        level.order_entries[i].is_valid =>
            \/ level.order_entries[i].order \in B
            \/ /\ level.order_entries[i].order \in DOMAIN level.orders_map
               /\ level.orders_map[level.order_entries[i].order] = i

HeadTight(level, B) ==
    LET entry == level.order_entries[level.queue_head_index]
    IN  entry.order \in B \/ entry.is_valid

\* PriceLevel::add_order
LEMMA AddStaysTight ==
    ASSUME NEW level, NEW B, IsLevel(level), EntriesTight(level, B),
           level = EmptyLevel
                \/ (level.queue_head_index \in DOMAIN level.order_entries
                        /\ HeadTight(level, B)),
           NEW id \in OrderIds, id \in B \/ id \notin DOMAIN level.orders_map,
           NEW lv, lv = AddEntry(level, id)
    PROVE  EntriesTight(lv, B) /\ HeadTight(lv, B)
  <1> DEFINE e == level.order_entries
             m == level.orders_map
             n == Len(e) + 1
             h == level.queue_head_index
             e2 == lv.order_entries
             m2 == lv.orders_map
  <1>1. /\ lv.queue_head_index = h
        /\ e2 = Append(e, [order |-> id, is_valid |-> TRUE])
        /\ DOMAIN m2 = DOMAIN m \cup {id} /\ m2[id] = n
        /\ \A x \in DOMAIN m : x # id => m2[x] = m[x]
    BY DEF IsLevel, AddEntry
  <1>2. /\ DOMAIN e2 = DOMAIN e \cup {n} /\ n \notin DOMAIN e
        /\ e2[n] = [order |-> id, is_valid |-> TRUE]
        /\ \A i \in DOMAIN e : e2[i] = e[i]
    <2>1. Appended(e, e2, id)
      BY <1>1, AppendEntry DEF IsLevel
    <2> HIDE DEF e2, e
    <2> QED BY <2>1 DEF Appended
  <1>3. e2[n].order = id /\ e2[n].is_valid
    BY <1>2
  <1>4. \A i \in DOMAIN e : e[i].is_valid =>
            e[i].order \in B \/ (e[i].order \in DOMAIN m /\ m[e[i].order] = i)
    BY DEF EntriesTight
  <1>5. h = n \/ (h \in DOMAIN e /\ (e[h].order \in B \/ e[h].is_valid))
    BY DEF EmptyLevel, HeadTight
  <1>8. id \in B \/ id \notin DOMAIN m
    OBVIOUS
  <1> HIDE DEF e, m, n, h, e2, m2
  <1>6. ASSUME NEW i \in DOMAIN e2, e2[i].is_valid, e2[i].order \notin B
        PROVE  e2[i].order \in DOMAIN m2 /\ m2[e2[i].order] = i
    <2>1. CASE i = n
      BY <1>1, <1>3, <2>1
    <2>2. CASE i \in DOMAIN e
      BY <1>1, <1>2, <1>4, <1>6, <1>8, <2>2
    <2> QED BY <1>2, <2>1, <2>2
  <1>7. e2[h].order \in B \/ e2[h].is_valid
    BY <1>2, <1>3, <1>5
  <1> QED BY <1>1, <1>6, <1>7 DEF EntriesTight, HeadTight, e2, m2

\* push_back on the vector of a level whose map then fails to grow
LEMMA EnterStaysTight ==
    ASSUME NEW level, NEW B, IsLevel(level), EntriesTight(level, B),
           level.queue_head_index \in DOMAIN level.order_entries, HeadTight(level, B),
           NEW id \in OrderIds, id \in B,
           NEW lv, lv = [level EXCEPT !.order_entries =
                            Append(@, [order |-> id, is_valid |-> TRUE])]
    PROVE  EntriesTight(lv, B) /\ HeadTight(lv, B)
  <1> DEFINE e == level.order_entries
             e2 == lv.order_entries
  <1>1. /\ lv.queue_head_index = level.queue_head_index
        /\ lv.orders_map = level.orders_map
        /\ e2 = Append(e, [order |-> id, is_valid |-> TRUE])
    BY DEF IsLevel
  <1>2. /\ \A i \in DOMAIN e : i \in DOMAIN e2 /\ e2[i] = e[i]
        /\ \A i \in DOMAIN e2 : i \in DOMAIN e \/ e2[i].order = id
    <2>1. Appended(e, e2, id)
      BY <1>1, AppendEntry DEF IsLevel
    <2> HIDE DEF e, e2
    <2>2. \A i \in 1 .. Len(e) : i \in 1 .. Len(e) + 1
      BY <2>1 DEF Appended
    <2>3. \A i \in 1 .. Len(e) + 1 : i \in 1 .. Len(e) \/ i = Len(e) + 1
      BY <2>1 DEF Appended
    <2> QED BY <2>1, <2>2, <2>3 DEF Appended
  <1> QED BY <1>1, <1>2 DEF EntriesTight, HeadTight

\* Bury of a queued order: the head is on a valid entry afterwards, or was left
\* behind on an emptied level.
LEMMA BuryStaysTight ==
    ASSUME NEW level, NEW os, NEW C, NEW side, NEW price,
           LevelSound(level, os, C, side, price),
           NEW B, EntriesTight(level, B), HeadTight(level, B),
           NEW id, NEW i, HasEntry(level, i, id), id \in B \/ i = level.orders_map[id],
           NEW lv, lv = Bury(level, i, id)
    PROVE  /\ EntriesTight(lv, B)
           /\ ~ Empty(lv) \/ id \in B => HeadTight(lv, B)
  <1> USE DEF HasEntry
  <1> DEFINE b == Buried(level, i, id)
  <1>1. lv = IncrementToValid(b)
    BY DEF Bury, Buried
  <1>2. /\ IsLevel(b)
        /\ b.queue_head_index = level.queue_head_index
        /\ DOMAIN b.order_entries = DOMAIN level.order_entries
        /\ ~ b.order_entries[i].is_valid
        /\ \A j \in DOMAIN level.order_entries :
            /\ b.order_entries[j].order = level.order_entries[j].order
            /\ j # i => b.order_entries[j] = level.order_entries[j]
        /\ DOMAIN b.orders_map = DOMAIN level.orders_map \ {id}
        /\ \A x \in DOMAIN b.orders_map : b.orders_map[x] = level.orders_map[x]
    BY BuriedFields DEF LevelSound
  <1> HIDE DEF b
  <1>3. EntriesTight(b, B)
    <2> SUFFICES ASSUME NEW j \in DOMAIN b.order_entries, b.order_entries[j].is_valid,
                        b.order_entries[j].order \notin B
                 PROVE  /\ b.order_entries[j].order \in DOMAIN b.orders_map
                        /\ b.orders_map[b.order_entries[j].order] = j
      BY DEF EntriesTight
    <2>1. j # i /\ b.order_entries[j] = level.order_entries[j]
      BY <1>2
    <2>2. /\ level.order_entries[j].order \in DOMAIN level.orders_map
          /\ level.orders_map[level.order_entries[j].order] = j
      BY <2>1, <1>2 DEF EntriesTight
    <2> QED BY <2>1, <2>2, <1>2
  <1>4. CASE Empty(b)
    <2>1. lv = b
      BY <1>1, <1>4 DEF IncrementToValid
    <2>2. ASSUME id \in B, level.queue_head_index \in DOMAIN level.order_entries
          PROVE  HeadTight(b, B)
      BY <1>2, <2>2 DEF HeadTight
    <2>3. level.queue_head_index \in DOMAIN level.order_entries
      <3>1. /\ level.orders_map[id] \in DOMAIN level.order_entries
            /\ level.queue_head_index <= level.orders_map[id]
            /\ level.order_entries \in Seq(EntryRecord)
            /\ level.queue_head_index \in Nat \ {0}
        BY DEF LevelSound, IsLevel, MapKept
      <3> QED BY <3>1
    <2> QED BY <1>3, <1>4, <2>1, <2>2, <2>3
  <1>5. CASE ~ Empty(b)
    <2>1. PICK x \in DOMAIN b.orders_map : TRUE
      BY <1>5 DEF Empty
    <2> DEFINE k == level.orders_map[x]
    <2>2. /\ k \in DOMAIN level.order_entries /\ x # id
          /\ level.order_entries[k] = [order |-> x, is_valid |-> TRUE]
          /\ level.queue_head_index <= k
      BY <2>1, <1>2 DEF LevelSound, MapKept
    <2> HIDE DEF k
    <2>3. level.order_entries[k].order = x /\ level.order_entries[k].is_valid
      BY <2>2
    <2>4. /\ k \in DOMAIN b.order_entries /\ b.order_entries[k].is_valid
          /\ b.queue_head_index <= k
      BY <2>2, <2>3, <1>2
    <2>5. /\ lv.order_entries = b.order_entries /\ lv.orders_map = b.orders_map
          /\ b.order_entries[lv.queue_head_index].is_valid
      BY <1>1, <1>2, <1>5, <2>4, IncrementFields
    <2> QED BY <1>3, <2>5 DEF EntriesTight, HeadTight
  <1> QED BY <1>4, <1>5

\* A side of which every level is tight, and one of which the level at price may
\* have lost its head together with its last order.
TightFor(sl, B) == \A p \in DOMAIN sl : EntriesTight(sl[p], B) /\ HeadTight(sl[p], B)

LooseAt(sl, B, price) ==
    \A p \in DOMAIN sl :
        /\ EntriesTight(sl[p], B)
        /\ p # price \/ ~ Empty(sl[p]) => HeadTight(sl[p], B)

\* B may grow.
LEMMA TightMore ==
    ASSUME NEW sl, NEW B, NEW C, TightFor(sl, B), B \subseteq C
    PROVE  TightFor(sl, C)
  BY DEF TightFor, EntriesTight, HeadTight

\* remove_price_level_if_empty takes away the level that is not tight.
LEMMA PruneStaysTight ==
    ASSUME NEW sl, NEW B, NEW price, LooseAt(sl, B, price),
           NEW new, new = RemovePriceLevelIfEmpty(sl, price)
    PROVE  TightFor(new, B)
  <1>1. \A p \in DOMAIN new :
            p \in DOMAIN sl /\ new[p] = sl[p] /\ (p = price => ~ Empty(sl[p]))
    BY DEF RemovePriceLevelIfEmpty
  <1> QED BY <1>1 DEF LooseAt, TightFor

\* What Bury does to a tight side.
LEMMA TakeStaysTight ==
    ASSUME NEW sl, NEW os, NEW C, NEW side, SideSound(sl, os, C, side),
           NEW B, TightFor(sl, B), NEW id, NEW price \in DOMAIN sl, NEW i,
           HasEntry(sl[price], i, id), id \in B \/ i = sl[price].orders_map[id],
           NEW rem, TakesOut(sl, rem, price, i, id)
    PROVE  LooseAt(rem, B, price) /\ (id \in B => TightFor(rem, B))
  <1> DEFINE level == sl[price]
             lv == rem[price]
  <1>1. OtherLevels(sl, rem, price) /\ lv = Bury(level, i, id)
    BY DEF TakesOut
  <1>2. /\ LevelSound(level, os, C, side, price) /\ HasEntry(level, i, id)
        /\ EntriesTight(level, B) /\ HeadTight(level, B)
        /\ id \in B \/ i = level.orders_map[id]
    BY DEF SideSound, TightFor
  <1> HIDE DEF level, lv
  <1>3. EntriesTight(lv, B) /\ (~ Empty(lv) \/ id \in B => HeadTight(lv, B))
    BY <1>1, <1>2, BuryStaysTight
  <1>4. /\ EntriesTight(rem[price], B)
        /\ ~ Empty(rem[price]) \/ id \in B => HeadTight(rem[price], B)
    BY <1>3 DEF lv
  <1>5. \A p \in DOMAIN rem : p # price =>
            EntriesTight(rem[p], B) /\ HeadTight(rem[p], B)
    BY <1>1 DEF OtherLevels, TightFor
  <1> QED BY <1>4, <1>5 DEF LooseAt, TightFor

\* The level at price after remove_order.
DroppedFrom(sl, rem, price, id) ==
    /\ OtherLevels(sl, rem, price)
    /\ DOMAIN rem[price].orders_map = DOMAIN sl[price].orders_map \ {id}

LEMMA DropStaysTight ==
    ASSUME NEW sl, NEW os, NEW C, NEW side, SideSound(sl, os, C, side),
           NEW B, TightFor(sl, B), NEW id, id \in C, NEW price \in DOMAIN sl,
           NEW rem, rem = DropAt(sl, price, id)
    PROVE  /\ DroppedFrom(sl, rem, price, id) /\ LooseAt(rem, B, price)
           /\ id \in B \/ id \notin DOMAIN sl[price].orders_map => TightFor(rem, B)
  <1>1. CASE id \in DOMAIN sl[price].orders_map
    <2> DEFINE i == sl[price].orders_map[id]
    <2>1. TakesOut(sl, rem, price, i, id)
      BY <1>1 DEF DropAt, RemoveEntry, TakesOut, OtherLevels
    <2>2. HasEntry(sl[price], i, id)
      <3>1. MapKept(sl[price], os, C, side, price)
        BY DEF SideSound, LevelSound
      <3>2. /\ i \in DOMAIN sl[price].order_entries
            /\ sl[price].order_entries[i] = [order |-> id, is_valid |-> TRUE]
        BY <1>1, <3>1 DEF MapKept
      <3>3. sl[price].order_entries[i].order = id
        BY <3>2
      <3> QED BY <1>1, <3>2, <3>3 DEF HasEntry
    <2>3. i = sl[price].orders_map[id]
      OBVIOUS
    <2> HIDE DEF i
    <2>4. LooseAt(rem, B, price) /\ (id \in B => TightFor(rem, B))
      BY <2>1, <2>2, <2>3, TakeStaysTight
    <2>5. IsGone(sl, rem, price, i, id)
      BY <2>1, <2>2, SideBuries
    <2> QED BY <1>1, <2>1, <2>4, <2>5 DEF TakesOut, IsGone, DroppedFrom
  <1>2. CASE id \notin DOMAIN sl[price].orders_map
    <2>1. DOMAIN rem = DOMAIN sl /\ \A p \in DOMAIN sl : rem[p] = sl[p]
      BY <1>2 DEF DropAt, RemoveEntry
    <2> QED BY <1>2, <2>1 DEF DroppedFrom, OtherLevels, LooseAt, TightFor
  <1> QED BY <1>1, <1>2

\* try_emplace and add_order of the level.
LEMMA PutStaysTight ==
    ASSUME NEW sl, NEW os, NEW C, NEW side, SideSound(sl, os, C, side),
           NEW B, NEW price, LooseAt(sl, B, price), NEW new_price, NEW id \in OrderIds,
           new_price \in DOMAIN sl =>
                /\ HeadTight(sl[new_price], B)
                /\ id \in B \/ id \notin DOMAIN sl[new_price].orders_map,
           NEW new, new = Enqueue(sl, new_price, id)
    PROVE  LooseAt(new, B, price) /\ (new_price = price => TightFor(new, B))
  <1> DEFINE level == IF new_price \in DOMAIN sl THEN sl[new_price] ELSE EmptyLevel
             lv == new[new_price]
  <1>1. OtherLevels(sl, new, new_price) /\ lv = AddEntry(level, id)
    BY DEF Enqueue, OtherLevels
  <1>2. /\ IsLevel(level) /\ EntriesTight(level, B)
        /\ \/ level = EmptyLevel
           \/ /\ level.queue_head_index \in DOMAIN level.order_entries
              /\ HeadTight(level, B)
        /\ id \in B \/ id \notin DOMAIN level.orders_map
    <2>1. CASE new_price \in DOMAIN sl
      BY <2>1 DEF SideSound, LevelSound, HeadKept, LooseAt
    <2>2. CASE new_price \notin DOMAIN sl
      <3>1. level = EmptyLevel
        BY <2>2
      <3>2. IsLevel(EmptyLevel) /\ EntriesTight(EmptyLevel, B)
                /\ DOMAIN EmptyLevel.orders_map = {}
        BY DEF EmptyLevel, IsLevel, EntriesTight, EntryRecord
      <3> HIDE DEF level
      <3> QED BY <3>1, <3>2
    <2> QED BY <2>1, <2>2
  <1> HIDE DEF level, lv
  <1>3. EntriesTight(lv, B) /\ HeadTight(lv, B)
    BY <1>1, <1>2, AddStaysTight
  <1>4. EntriesTight(new[new_price], B) /\ HeadTight(new[new_price], B)
    BY <1>3 DEF lv
  <1>5. \A p \in DOMAIN new : p # new_price => p \in DOMAIN sl /\ new[p] = sl[p]
    BY <1>1 DEF OtherLevels
  <1> QED BY <1>4, <1>5 DEF LooseAt, TightFor

TightSides(ls, B) == \A side \in OrderSide : TightFor(ls[side], B)

LEMMA OneTightSide ==
    ASSUME NEW ls, DOMAIN ls = OrderSide, NEW B, TightSides(ls, B),
           NEW side \in OrderSide, NEW new, TightFor(new, B)
    PROVE  TightSides([ls EXCEPT ![side] = new], B)
  BY DEF TightSides

\* The side of an order in the registry, with the order counted as damaged.
LEMMA SideWider ==
    ASSUME NEW os, NEW ls, NEW B, Damaged(os, ls, B), NEW id, NEW side \in OrderSide
    PROVE  SideSound(ls[side], os, B \cup {id}, side) /\ DOMAIN ls = OrderSide
  <1>1. SideSound(ls[side], os, B, side) /\ DOMAIN ls = OrderSide
    BY DEF Damaged
  <1>2. Advance(os, os, B, B \cup {id}, side) /\ NoneReopened(os, os, B \cup {id}, side)
    BY DEF Advance, NoneReopened
  <1> QED BY <1>1, <1>2, SideAdvances

LEMMA AddKeepsTightSides ==
    ASSUME DamageInv, TightSides(levels, broken), NEW side \in OrderSide,
           NEW price \in Prices, NEW quantity \in Quantities,
           AddOrder(side, price, quantity), UNCHANGED broken
    PROVE  TightSides(levels, broken)'
  <1> DEFINE id == Len(orders) + 1
             sl == levels[side]
             new == Enqueue(sl, price, id)
  <1>1. /\ id \in OrderIds /\ levels' = [levels EXCEPT ![side] = new]
        /\ new = Enqueue(sl, price, id)
    BY DEF AddOrder
  <1>2. SideSound(sl, orders, broken, side) /\ DOMAIN levels = OrderSide
    BY DEF DamageInv, Damaged
  <1>3. id \notin DOMAIN orders
    BY RegistryDomain DEF DamageInv, Damaged
  <1>4. TightFor(sl, broken)
    BY DEF TightSides
  <1> HIDE DEF id, sl, new
  <1>5. LooseAt(sl, broken, price)
    BY <1>4 DEF TightFor, LooseAt
  <1>6. price \in DOMAIN sl =>
            HeadTight(sl[price], broken) /\ id \notin DOMAIN sl[price].orders_map
    BY <1>2, <1>3, <1>4 DEF TightFor, SideSound, LevelSound, MapKept
  <1>7. TightFor(new, broken)
    BY <1>1, <1>2, <1>5, <1>6, PutStaysTight
  <1>8. TightSides([levels EXCEPT ![side] = new], broken)
    BY <1>2, <1>7, OneTightSide
  <1> QED BY <1>1, <1>8 DEF TightSides

LEMMA CancelKeepsTightSides ==
    ASSUME DamageInv, TightSides(levels, broken), NEW id \in DOMAIN orders,
           HasLevel(id), CancelOrder(id), UNCHANGED broken
    PROVE  TightSides(levels, broken)'
  <1> DEFINE side == orders[id].side
             price == orders[id].price
             sl == levels[side]
             rem == DropAt(sl, price, id)
             new == RemovePriceLevelIfEmpty(rem, price)
             C == broken \cup {id}
  <1>1. side \in OrderSide
    BY DEF DamageInv, Damaged, Registry, OrderInv
  <1>2. SideSound(sl, orders, C, side) /\ DOMAIN levels = OrderSide /\ id \in C
    BY <1>1, SideWider DEF DamageInv
  <1>3. price \in DOMAIN sl /\ TightFor(sl, broken) /\ rem = DropAt(sl, price, id)
    BY <1>1 DEF HasLevel, TightSides
  <1>4. levels' = [levels EXCEPT ![side] = new]
    BY DEF CancelOrder, CancelOrderDispatcher, DropAt
  <1> HIDE DEF side, price, sl, rem, C
  <1>5. LooseAt(rem, broken, price)
    BY <1>2, <1>3, DropStaysTight
  <1>6. TightFor(new, broken)
    BY <1>5, PruneStaysTight
  <1> HIDE DEF new
  <1>7. TightSides([levels EXCEPT ![side] = new], broken)
    BY <1>1, <1>2, <1>6, OneTightSide
  <1> QED BY <1>4, <1>7 DEF TightSides

LEMMA ModifyKeepsTightSides ==
    ASSUME DamageInv, TightSides(levels, broken), NEW id \in DOMAIN orders,
           HasLevel(id), NEW new_price \in Prices, NEW new_qty \in Quantities,
           ModifyOrder(id, new_price, new_qty), UNCHANGED broken,
           "growAlone" \notin AmendKinds
    PROVE  TightSides(levels, broken)'
  <1> DEFINE o == orders[id]
             side == o.side
             price == o.price
             sl == levels[side]
             rem == DropAt(sl, price, id)
             put == Enqueue(rem, new_price, id)
             moves == new_price # price \/ new_qty > o.quantity
             new == RemovePriceLevelIfEmpty(IF moves THEN put ELSE sl, price)
             C == broken \cup {id}
  <1>1. side \in OrderSide /\ id \in OrderIds
    BY RegistryDomain DEF DamageInv, Damaged, Registry, OrderInv
  <1>2. /\ SideSound(sl, orders, C, side) /\ DOMAIN levels = OrderSide /\ id \in C
        /\ SideSound(sl, orders, broken, side)
    BY <1>1, SideWider DEF DamageInv, Damaged
  <1>3. /\ price \in DOMAIN sl /\ TightFor(sl, broken) /\ rem = DropAt(sl, price, id)
        /\ put = Enqueue(rem, new_price, id)
    BY <1>1 DEF HasLevel, TightSides
  <1>4. levels' = [levels EXCEPT ![side] = new]
    <2>1. ModifyOrderDispatcher(sl, o, id, new_price, new_qty) = new
      BY DEF ModifyOrderDispatcher, DropAt
    <2> HIDE DEF new
    <2> QED BY <2>1 DEF ModifyOrder
  <1>5. ASSUME new_price = price, moves
        PROVE  DOMAIN sl[price].orders_map # {id}
    <2>1. /\ new_price = orders[id].price
          /\ ~ (new_qty = orders[id].quantity) /\ ~ (new_qty < orders[id].quantity)
      <3>1. /\ new_qty > orders[id].quantity
            /\ new_qty \in Nat /\ orders[id].quantity \in Nat
        BY <1>5 DEF DamageInv, Damaged, Registry, OrderInv
      <3> QED BY <1>5, <3>1
    <2>2. AmendKind(id, new_price, new_qty) \in AmendKinds
      BY DEF ModifyOrder
    <2> QED BY <2>1, <2>2 DEF AmendKind
  <1>6. \A p \in DOMAIN sl : id \in DOMAIN sl[p].orders_map => id \in broken \/ p = price
    BY <1>2 DEF SideSound, LevelSound, MapKept
  <1> HIDE DEF side, price, sl, rem, put, C, moves
  <1>7. CASE moves
    <2>1. /\ DroppedFrom(sl, rem, price, id) /\ LooseAt(rem, broken, price)
          /\ id \in broken \/ id \notin DOMAIN sl[price].orders_map => TightFor(rem, broken)
          /\ SideSound(rem, orders, C, side)
      BY <1>2, <1>3, DropStaysTight, SideRemoves
    <2>2. ASSUME new_price \in DOMAIN rem
          PROVE  /\ HeadTight(rem[new_price], broken)
                 /\ id \in broken \/ id \notin DOMAIN rem[new_price].orders_map
      <3>1. CASE new_price # price
        <4>1. new_price \in DOMAIN sl /\ rem[new_price] = sl[new_price]
          BY <1>3, <2>1, <2>2, <3>1 DEF DroppedFrom, OtherLevels
        <4> QED BY <1>3, <1>6, <3>1, <4>1 DEF TightFor
      <3>2. CASE new_price = price
        <4>1. id \notin DOMAIN rem[price].orders_map
          BY <2>1 DEF DroppedFrom
        <4>2. CASE id \notin DOMAIN sl[price].orders_map
          BY <2>1, <2>2, <3>2, <4>1, <4>2 DEF TightFor
        <4>3. CASE id \in DOMAIN sl[price].orders_map
          <5>1. ~ Empty(rem[price])
            BY <1>5, <1>7, <2>1, <3>2, <4>3 DEF DroppedFrom, Empty
          <5> QED BY <2>1, <2>2, <3>2, <4>1, <5>1 DEF LooseAt
        <4> QED BY <4>2, <4>3
      <3> QED BY <3>1, <3>2
    <2>3. LooseAt(put, broken, price)
      BY <1>1, <1>3, <2>1, <2>2, PutStaysTight
    <2>4. new = RemovePriceLevelIfEmpty(put, price)
      BY <1>7
    <2> HIDE DEF new
    <2>5. TightFor(new, broken)
      BY <2>3, <2>4, PruneStaysTight
    <2>6. TightSides([levels EXCEPT ![side] = new], broken)
      BY <1>1, <1>2, <2>5, OneTightSide
    <2> QED BY <1>4, <2>6 DEF TightSides
  <1>8. CASE ~ moves
    <2>1. new = RemovePriceLevelIfEmpty(sl, price) /\ LooseAt(sl, broken, price)
      BY <1>3, <1>8 DEF TightFor, LooseAt
    <2> HIDE DEF new
    <2>2. TightFor(new, broken)
      BY <2>1, PruneStaysTight
    <2>3. TightSides([levels EXCEPT ![side] = new], broken)
      BY <1>1, <1>2, <2>2, OneTightSide
    <2> QED BY <1>4, <2>3 DEF TightSides
  <1> QED BY <1>7, <1>8

LEMMA FailKeepsTightSides ==
    ASSUME DamageInv, TightSides(levels, broken), NEW id \in DOMAIN orders,
           NEW new_price \in Prices, NEW new_qty \in Quantities,
           ModifyFails(id, new_price, new_qty)
    PROVE  TightSides(levels, broken)'
  <1> DEFINE o == orders[id]
             side == o.side
             price == o.price
             sl == levels[side]
             rem == DropAt(sl, price, id)
             level == rem[new_price]
             lv == [level EXCEPT !.order_entries =
                        Append(@, [order |-> id, is_valid |-> TRUE])]
             entered == [rem EXCEPT ![new_price] = lv]
             C == broken \cup {id}
  <1>1. side \in OrderSide /\ id \in OrderIds
    BY RegistryDomain DEF DamageInv, Damaged, Registry, OrderInv
  <1>2. SideSound(sl, orders, C, side) /\ DOMAIN levels = OrderSide /\ id \in C
    BY <1>1, SideWider DEF DamageInv
  <1>3. \A s \in OrderSide : TightFor(levels[s], C)
    BY TightMore DEF TightSides
  <1>4. price \in DOMAIN sl /\ TightFor(sl, C) /\ rem = DropAt(sl, price, id)
    BY <1>1, <1>3 DEF HasLevel, ModifyFails
  <1>5. broken' = C
    BY DEF ModifyFails
  <1>6. PICK half \in HalfMoved(sl, o, id, new_price) :
            levels' = [levels EXCEPT ![side] = half]
    BY DEF ModifyFails
  <1>7. half = rem \/ (new_price \in DOMAIN sl /\ half = entered)
    BY <1>6 DEF HalfMoved, DropAt
  <1> HIDE DEF side, price, sl, rem, C
  <1>8. TightFor(rem, C) /\ DroppedFrom(sl, rem, price, id) /\ SideSound(rem, orders, C, side)
    BY <1>2, <1>4, DropStaysTight, SideRemoves
  <1>9. TightFor(half, C)
    <2>1. CASE half = rem
      BY <1>8, <2>1
    <2>2. CASE new_price \in DOMAIN sl /\ half = entered
      <3>1. new_price \in DOMAIN rem
        BY <1>8, <2>2 DEF DroppedFrom, OtherLevels
      <3>2. /\ IsLevel(level) /\ EntriesTight(level, C) /\ HeadTight(level, C)
            /\ level.queue_head_index \in DOMAIN level.order_entries
        BY <1>8, <3>1 DEF SideSound, LevelSound, HeadKept, TightFor
      <3>3. lv = [level EXCEPT !.order_entries =
                        Append(@, [order |-> id, is_valid |-> TRUE])]
        OBVIOUS
      <3>4. entered = [rem EXCEPT ![new_price] = lv]
        OBVIOUS
      <3> HIDE DEF level, lv, entered
      <3>5. EntriesTight(lv, C) /\ HeadTight(lv, C)
        BY <1>1, <1>2, <3>2, <3>3, EnterStaysTight
      <3> QED BY <1>8, <2>2, <3>1, <3>4, <3>5 DEF TightFor
    <2> QED BY <1>7, <2>1, <2>2
  <1>10. TightSides([levels EXCEPT ![side] = half], C)
    BY <1>1, <1>2, <1>3, <1>9 DEF TightSides
  <1> QED BY <1>5, <1>6, <1>10 DEF TightSides

LEMMA PruneKeepsTightSides ==
    ASSUME DamageInv, TightSides(levels, broken), NEW id \in DOMAIN orders,
           ModifyPrunes(id)
    PROVE  TightSides(levels, broken)'
  <1> DEFINE side == orders[id].side
             sl == levels[side]
             new == RemovePriceLevelIfEmpty(sl, orders[id].price)
  <1>1. side \in OrderSide /\ DOMAIN levels = OrderSide
    BY DEF DamageInv, Damaged, Registry, OrderInv
  <1>2. levels' = [levels EXCEPT ![side] = new] /\ broken' = broken
    BY DEF ModifyPrunes
  <1>3. LooseAt(sl, broken, orders[id].price)
    BY <1>1 DEF TightSides, TightFor, LooseAt
  <1> HIDE DEF side, sl
  <1>4. TightFor(new, broken)
    BY <1>3, PruneStaysTight
  <1> HIDE DEF new
  <1>5. TightSides([levels EXCEPT ![side] = new], broken)
    BY <1>1, <1>4, OneTightSide
  <1> QED BY <1>2, <1>5 DEF TightSides

\* An order at the front of a tight level is in B, or is queued by this entry.
LEMMA FrontTight ==
    ASSUME NEW level, NEW B, EntriesTight(level, B), HeadTight(level, B),
           level.queue_head_index \in DOMAIN level.order_entries,
           FrontOrder(level) \notin B
    PROVE  /\ FrontOrder(level) \in DOMAIN level.orders_map
           /\ level.orders_map[FrontOrder(level)] = level.queue_head_index
  BY DEF EntriesTight, HeadTight, FrontOrder

LEMMA PopKeepsTightSide ==
    ASSUME DamageInv, TightSides(levels, broken), BothSides, MatchFault = "none",
           NEW side \in OrderSide
    PROVE  TightFor(PopBest(side), broken)
  <1> DEFINE f == BestFront(side)
             price == Best(side)
             sl == levels[side]
             level == BestLevel(side)
             h == level.queue_head_index
             filled == Filled(Matched(f))
             rem == [sl EXCEPT ![price] = PopFrontIfFilled(@, filled)]
             new == RemovePriceLevelIfEmpty(rem, price)
  <1>1. /\ price \in DOMAIN sl /\ SideSound(sl, orders, broken, side)
        /\ h \in DOMAIN level.order_entries /\ level.order_entries[h].order = f
        /\ level = sl[price] /\ f = FrontOrder(level)
    BY FrontKept DEF DamageInv, HeadKept, BestFront, FrontOrder, BestLevel
  <1>2. TightFor(sl, broken)
    BY DEF TightSides
  <1>3. filled /\ ~ Empty(level) => f \in DOMAIN level.orders_map
    BY DEF MatchFault, PopIsUndefined, BestFront
  <1>4. PopBest(side) = new
    BY DEF PopBest
  <1>5. f \in broken \/ h = level.orders_map[f]
    BY <1>1, <1>2, FrontTight DEF TightFor
  <1> HIDE DEF f, price, sl, level, filled
  <1>6. LooseAt(rem, broken, price)
    <2>1. CASE filled /\ ~ Empty(level)
      <3>1. TakesOut(sl, rem, price, h, f)
        BY <1>1, <2>1 DEF PopFrontIfFilled, TakesOut, OtherLevels
      <3>2. HasEntry(sl[price], h, f) /\ (f \in broken \/ h = sl[price].orders_map[f])
        BY <1>1, <1>3, <1>5, <2>1 DEF HasEntry
      <3> HIDE DEF rem, h
      <3> QED BY <1>1, <1>2, <3>1, <3>2, TakeStaysTight
    <2>2. CASE ~ (filled /\ ~ Empty(level))
      <3>1. DOMAIN rem = DOMAIN sl /\ \A p \in DOMAIN sl : rem[p] = sl[p]
        BY <1>1, <2>2 DEF PopFrontIfFilled
      <3> QED BY <1>2, <3>1 DEF TightFor, LooseAt
    <2> QED BY <2>1, <2>2
  <1> HIDE DEF rem
  <1>7. TightFor(new, broken)
    BY <1>6, PruneStaysTight
  <1> QED BY <1>4, <1>7

LEMMA NextTightSides ==
    ASSUME DamageInv, "growAlone" \notin AmendKinds, TightSides(levels, broken),
           [FailureNext]_allVars
    PROVE  TightSides(levels, broken)'
  <1>1. CASE UNCHANGED <<levels, broken>>
    BY <1>1 DEF TightSides
  <1>2. CASE Request /\ UNCHANGED broken
    <2>1. ASSUME NEW side \in OrderSide, NEW price \in Prices,
                 NEW quantity \in Quantities, AddOrder(side, price, quantity)
          PROVE  TightSides(levels, broken)'
      BY <1>2, <2>1, AddKeepsTightSides
    <2>2. ASSUME NEW id \in DOMAIN orders, HasLevel(id), CancelOrder(id)
          PROVE  TightSides(levels, broken)'
      BY <1>2, <2>2, CancelKeepsTightSides
    <2>3. ASSUME NEW id \in DOMAIN orders, HasLevel(id), NEW price \in Prices,
                 NEW quantity \in Quantities, ModifyOrder(id, price, quantity)
          PROVE  TightSides(levels, broken)'
      BY <1>2, <2>3, ModifyKeepsTightSides
    <2>4. ASSUME NEW id \in DOMAIN orders, UseAfterFree(id)
          PROVE  TightSides(levels, broken)'
      BY <1>1, <1>2, <2>4 DEF UseAfterFree
    <2> QED BY <1>2, <2>1, <2>2, <2>3, <2>4 DEF Request
  <1>3. ASSUME NEW id \in DOMAIN orders, NEW price \in Prices,
               NEW quantity \in Quantities, ModifyFails(id, price, quantity)
        PROVE  TightSides(levels, broken)'
    BY <1>3, FailKeepsTightSides
  <1>4. ASSUME NEW id \in DOMAIN orders, FindEnd(id) \/ ModifyPrunes(id)
        PROVE  TightSides(levels, broken)'
    BY <1>1, <1>4, PruneKeepsTightSides DEF FindEnd
  <1>5. CASE MatchStep
    <2>1. CASE MatchOrders
      <3>1. /\ levels' = [side \in OrderSide |-> PopBest(side)] /\ broken' = broken
            /\ BothSides /\ MatchFault = "none"
        BY <1>5, <2>1 DEF MatchStep, MatchOrders, Crossed
      <3>2. \A side \in OrderSide : TightFor(PopBest(side), broken)
        BY <3>1, PopKeepsTightSide
      <3>3. TightSides([side \in OrderSide |-> PopBest(side)], broken)
        BY <3>2 DEF TightSides
      <3> QED BY <3>1, <3>3 DEF TightSides
    <2>2. CASE MatchReturns \/ MatchUndefined
      BY <1>1, <1>5, <2>2 DEF MatchStep, MatchReturns, MatchUndefined
    <2> QED BY <1>5, <2>1, <2>2 DEF MatchStep, TryMatch
  <1>6. CASE UNCHANGED allVars
    BY <1>1, <1>6 DEF allVars, vars
  <1> QED BY <1>2, <1>3, <1>4, <1>5, <1>6 DEF FailureNext

TightInv == "growAlone" \notin AmendKinds => TightSides(levels, broken)

\* An order left behind by a failure is where undefined behaviour was met.
FaultInvolves ==
    /\ fault = "find_end" => \E id \in broken : Open(orders[id]) /\ ~ HasLevel(id)
    /\ fault = "erase_end" /\ "growAlone" \notin AmendKinds => Fronts \cap broken # {}

\* The iteration of try_match that erases end()
LEMMA EraseEndInvolves ==
    ASSUME DamageInv, TightSides(levels, broken), BothSides, MatchFault = "erase_end"
    PROVE  Fronts \cap broken # {}
  <1>1. PICK side \in OrderSide :
            PopIsUndefined(BestLevel(side), Filled(Matched(BestFront(side))))
    BY DEF MatchFault
  <1> DEFINE level == BestLevel(side)
  <1>2. FrontOrder(level) \notin DOMAIN level.orders_map
    BY <1>1 DEF PopIsUndefined
  <1>3. /\ Best(side) \in DOMAIN levels[side] /\ level = levels[side][Best(side)]
        /\ level.queue_head_index \in DOMAIN level.order_entries
    BY FrontKept DEF DamageInv, HeadKept, BestLevel
  <1>4. EntriesTight(level, broken) /\ HeadTight(level, broken)
    BY <1>3 DEF TightSides, TightFor
  <1> HIDE DEF level
  <1>5. FrontOrder(level) \in broken
    BY <1>2, <1>3, <1>4, FrontTight
  <1> QED BY <1>5 DEF level, Fronts, BestFront

LEMMA NextInvolves ==
    ASSUME DamageInv, TightInv, FaultInvolves, [FailureNext]_allVars
    PROVE  FaultInvolves'
  <1>1. CASE fault' = "none" \/ fault' = "use_after_free"
    BY <1>1 DEF FaultInvolves
  <1>2. CASE UNCHANGED allVars
    BY <1>2 DEF FaultInvolves, HasLevel, Fronts, BestFront, BestLevel, Best, allVars, vars
  <1>3. ASSUME NEW id \in DOMAIN orders, FindEnd(id) PROVE FaultInvolves'
    <2>1. /\ fault' = "find_end" /\ Open(orders[id]) /\ ~ HasLevel(id)
          /\ UNCHANGED <<orders, levels, broken>>
      BY <1>3 DEF FindEnd
    <2>2. id \in broken
      <3>1. orders[id].side \in OrderSide
        BY DEF DamageInv, Damaged, Registry, OrderInv
      <3>2. SideSound(levels[orders[id].side], orders, broken, orders[id].side)
        BY <3>1 DEF DamageInv, Damaged
      <3> QED BY <2>1, <3>2 DEF SideSound, HasLevel
    <2> QED BY <2>1, <2>2 DEF FaultInvolves, HasLevel
  <1>4. CASE MatchUndefined /\ UNCHANGED broken
    <2>1. /\ fault' = MatchFault /\ BothSides /\ UNCHANGED <<orders, levels, broken>>
      BY <1>4 DEF MatchUndefined, Crossed
    <2>2. MatchFault # "find_end"
      BY DEF MatchFault
    <2>3. ASSUME MatchFault = "erase_end", "growAlone" \notin AmendKinds
          PROVE  (Fronts \cap broken # {})'
      <3>1. Fronts \cap broken # {}
        BY <2>1, <2>3, EraseEndInvolves DEF TightInv
      <3>2. Fronts' = Fronts
        BY <2>1 DEF Fronts, BestFront, BestLevel, Best
      <3> QED BY <2>1, <3>1, <3>2
    <2> QED BY <2>1, <2>2, <2>3 DEF FaultInvolves
  <1>5. CASE fault = "none" /\ fault' = fault
    BY <1>1, <1>5
  <1> QED
    BY <1>1, <1>2, <1>3, <1>4, <1>5
       DEF FailureNext, Request, MatchStep, TryMatch, AddOrder, CancelOrder, ModifyOrder,
           UseAfterFree, ModifyFails, ModifyPrunes, MatchReturns, MatchOrders, Idle

\* However many modify_order calls have failed, and whatever requests and
\* matches came after them, the orders that did not fail are queued and
\* accounted for as the invariant says.
THEOREM DamageInvariance == FailureSpec => []DamageInv
  BY InitDamage, NextDamage, PTL DEF FailureSpec

LEMMA TightInvariance == FailureSpec => [](TightInv /\ FaultInvolves)
  <1>1. FailureInit => TightInv /\ FaultInvolves
    <2> SUFFICES ASSUME FailureInit PROVE TightInv /\ FaultInvolves
      OBVIOUS
    <2>1. /\ fault = "none"
          /\ \A side \in OrderSide : DOMAIN levels[side] = {}
      BY DEF FailureInit, Init
    <2>2. TightInv
      BY <2>1 DEF TightInv, TightSides, TightFor
    <2> QED BY <2>1, <2>2 DEF FaultInvolves
  <1>2. DamageInv /\ TightInv /\ [FailureNext]_allVars => TightInv'
    BY NextTightSides DEF TightInv
  <1>3. DamageInv /\ TightInv /\ FaultInvolves /\ [FailureNext]_allVars => FaultInvolves'
    BY NextInvolves
  <1> QED BY <1>1, <1>2, <1>3, DamageInvariance, PTL DEF FailureSpec

\* An order whose own modify_order has not failed is queued exactly while it is
\* open, in the level at its side and price: a std::bad_alloc that modify_order
\* swallows, and the try_match it runs then on the half-done book, take no other
\* order out of the book and leave none behind in it.  Where find(price) or the
\* map of a level is dereferenced or erased at end() later, an order whose
\* modify_order failed is the one not found (erasing end() also happens on
\* levels whose only order was re-queued there).
THEOREM DamageContained == FailureSpec => []FailureContained
  <1>1. DamageInv /\ FaultInvolves => FailureContained
    <2> SUFFICES ASSUME DamageInv, FaultInvolves PROVE FailureContained
      OBVIOUS
    <2>1. ASSUME NEW id \in DOMAIN orders \ broken, Open(orders[id])
          PROVE  HasLevel(id) /\ id \in DOMAIN LevelOf(id).orders_map
      <3>1. orders[id].side \in OrderSide
        BY DEF DamageInv, Damaged, Registry, OrderInv
      <3>2. SideSound(levels[orders[id].side], orders, broken, orders[id].side)
        BY <3>1 DEF DamageInv, Damaged
      <3> QED BY <2>1, <3>2 DEF SideSound, HasLevel, LevelOf
    <2>2. ASSUME NEW side \in OrderSide, NEW price \in DOMAIN levels[side],
                 NEW id \in DOMAIN levels[side][price].orders_map \ broken
          PROVE  orders[id].side = side /\ orders[id].price = price /\ Open(orders[id])
      <3>1. MapKept(levels[side][price], orders, broken, side, price)
        BY DEF DamageInv, Damaged, SideSound, LevelSound
      <3> QED BY <3>1 DEF MapKept
    <2> QED BY <2>1, <2>2 DEF FailureContained, FaultInvolves
  <1> QED BY <1>1, DamageInvariance, TightInvariance, PTL

\* No order is filled beyond its quantity, not even one that a failed
\* modify_order left half changed, or that is matched while it is in no map.
THEOREM DamageNeverOverfills == FailureSpec => []NoOverfill
  <1>1. DamageInv => NoOverfill
    <2>1. ASSUME NEW o, OrderInv(o)
          PROVE  /\ o.quantity_filled <= o.quantity
                 /\ Open(o) /\ o.quantity > 0 => Available(o) > 0
      BY <2>1 DEF OrderInv, Available
    <2> QED BY <2>1 DEF DamageInv, Damaged, Registry, NoOverfill
  <1> QED BY <1>1, DamageInvariance, PTL

\* A filled order never changes again, and neither does a cancelled one, unless
\* its own modify_order failed before it was cancelled: then its entry may have
\* stayed in a vector without its map entry, and try_match can still fill it.
ClosedUnlessBroken ==
    [][\A id \in DOMAIN orders :
            Filled(orders[id]) \/ (~ Open(orders[id]) /\ id \notin broken) =>
                orders'[id] = orders[id]]_allVars

\* A match of a filled order changes nothing of it.
LEMMA FilledUnchanged ==
    ASSUME NEW o, OrderInv(o), Filled(o), NEW q \in Nat, q <= Available(o)
    PROVE  Match(o, q) = o
  <1>1. o.quantity \in Nat /\ o.quantity_filled = o.quantity /\ o.status = "FULLY_FILLED"
    BY DEF OrderInv, Filled
  <1>2. q = 0
    BY <1>1 DEF Available
  <1>3. o \in OrderRecord
    BY OrderInvRecord
  <1> DEFINE total == o.quantity_filled + q
             status == IF total = o.quantity THEN "FULLY_FILLED" ELSE "PARTIALLY_FILLED"
  <1>4. total = o.quantity_filled /\ status = o.status
    BY <1>1, <1>2
  <1>5. Match(o, q) = [o EXCEPT !.quantity_filled = total, !.status = status]
    BY DEF Match
  <1> HIDE DEF total, status
  <1> QED BY <1>3, <1>4, <1>5 DEF OrderRecord

LEMMA ClosedKeptUnlessBroken ==
    ASSUME DamageInv, [FailureNext]_allVars, NEW id \in DOMAIN orders,
           Filled(orders[id]) \/ (~ Open(orders[id]) /\ id \notin broken)
    PROVE  orders'[id] = orders[id]
  <1>1. /\ Damaged(orders, levels, broken) /\ orders \in Seq(OrderRecord)
        /\ ~ Open(orders[id])
    BY DEF DamageInv, Damaged, Registry, Filled, Open
  <1>2. ASSUME NEW side \in OrderSide, NEW price \in Prices,
               NEW quantity \in Quantities, AddOrder(side, price, quantity)
        PROVE  orders'[id] = orders[id]
    BY <1>1, <1>2 DEF AddOrder
  <1>3. ASSUME NEW x \in DOMAIN orders, CancelOrder(x) PROVE orders'[id] = orders[id]
    BY <1>1, <1>3 DEF CancelOrder
  <1>4. ASSUME NEW x \in DOMAIN orders, NEW price \in Prices,
               NEW quantity \in Quantities,
               ModifyOrder(x, price, quantity) \/ ModifyFails(x, price, quantity)
        PROVE  orders'[id] = orders[id]
    BY <1>1, <1>4 DEF ModifyOrder, ModifyFails
  <1>5. CASE MatchOrders
    <2>1. orders' = AfterMatch /\ BothSides
      BY <1>5 DEF MatchOrders, AfterMatch, Crossed
    <2>2. CASE id \notin Fronts
      BY <1>1, <2>1, <2>2, DamagedMatch
    <2>3. CASE id \in Fronts
      <3>1. PICK side \in OrderSide : id = BestFront(side)
        BY <2>3 DEF Fronts
      <3>2. OrderInv(orders[id]) /\ (Settled(orders, broken, id) \/ Open(orders[id]))
        BY <1>1, <2>1, <3>1, FrontKept
      <3>3. Filled(orders[id])
        BY <1>1, <3>2 DEF Settled, FilledIn
      <3>4. MatchQty \in Nat /\ MatchQty <= Available(orders[id])
        BY <1>1, <2>1, <3>1, DamagedMatchQty
      <3>5. Matched(id) = orders[id]
        BY <3>2, <3>3, <3>4, FilledUnchanged DEF Matched
      <3> QED BY <1>1, <2>1, <2>3, <3>5, DamagedMatch
    <2> QED BY <2>2, <2>3
  <1>6. CASE UNCHANGED orders
    BY <1>6
  <1> QED
    BY <1>2, <1>3, <1>4, <1>5, <1>6
       DEF FailureNext, Request, MatchStep, TryMatch, UseAfterFree, FindEnd,
           ModifyPrunes, MatchReturns, MatchUndefined, allVars, vars

\* On a damaged book, after any number of failures, closed orders are as final
\* as they are on a sound one (ClosedFinal), except for a cancelled order that
\* a failed modify_order left in a vector.
THEOREM DamagedClosedFinal == FailureSpec => ClosedUnlessBroken
  <1>1. DamageInv /\ [FailureNext]_allVars =>
            [\A id \in DOMAIN orders :
                Filled(orders[id]) \/ (~ Open(orders[id]) /\ id \notin broken) =>
                    orders'[id] = orders[id]]_allVars
    BY ClosedKeptUnlessBroken
  <1> QED BY <1>1, DamageInvariance, PTL DEF FailureSpec, ClosedUnlessBroken

=============================================================================
