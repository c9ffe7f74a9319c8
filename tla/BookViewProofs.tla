--------------------------- MODULE BookViewProofs ---------------------------
(***************************************************************************)
(* What an order book looks like from outside, for every set of prices and *)
(* quantities, any number of orders and every kind of modify_order         *)
(* request: it implements the price-time priority book of PriceTimeBook,   *)
(* it shows the open orders of its registry (DepthTable), and fed with the *)
(* streams of the main programs it trades as they claim (Benchmarks).      *)
(*                                                                         *)
(* The refinement mapping reads the queue of a level from its map: the     *)
(* ids in the order of their entries.  First that this queue exists and is *)
(* unique, then what the operations of a level do to it, then each action. *)
(* For the depth table the orders in a level's map are the open orders at  *)
(* its price (LevelHolds), so that its sums are over the same sets.  For   *)
(* the streams the invariant counts a book's orders in rounds of ten.      *)
(***************************************************************************)
EXTENDS OrderBookProofs, Benchmarks

USE PricesAssumption, QuantitiesAssumption, BoundsAssumption

-----------------------------------------------------------------------------
(***************************************************************************)
(* The queue of one price level                                            *)
(***************************************************************************)

LEMMA ListsWithout ==
    ASSUME NEW D, NEW m, NEW q, Lists(q, D, m), Places(D, m), NEW x \in D
    PROVE  Lists(PriceTime!Without(q, x), D \ {x}, m)
  <1> DEFINE k == CHOOSE i \in DOMAIN q : q[i] = x
  <1>1. k \in DOMAIN q /\ q[k] = x
    BY DEF Lists
  <1>2. PriceTime!Without(q, x) = Gap(q, k)
    BY DEF PriceTime!Without, Gap
  <1> HIDE DEF k
  <1> QED BY <1>1, <1>2, ListsGap

LEMMA HeadWithout ==
    ASSUME NEW D, NEW m, NEW q, Lists(q, D, m), Places(D, m), NEW f, FirstOf(D, m, f)
    PROVE  q # <<>> /\ Head(q) = f /\ Tail(q) = PriceTime!Without(q, f)
  <1> DEFINE k == CHOOSE i \in DOMAIN q : q[i] = f
  <1>1. /\ q # <<>> /\ Head(q) = f /\ Tail(q) = Gap(q, 1)
        /\ \A j \in DOMAIN q : q[j] = f <=> j = 1
    BY HeadIsFirst
  <1>2. \E i \in DOMAIN q : q[i] = f
    BY DEF FirstOf, Lists
  <1>3. k = 1
    BY <1>1, <1>2
  <1>4. PriceTime!Without(q, f) = Gap(q, k)
    BY DEF PriceTime!Without, Gap
  <1> QED BY <1>1, <1>3, <1>4

LEMMA QueueLists ==
    ASSUME NEW level, Places(DOMAIN level.orders_map, level.orders_map)
    PROVE  Lists(Queue(level), DOMAIN level.orders_map, level.orders_map)
  <1> DEFINE m == level.orders_map
             D == DOMAIN m
             n == Size(level)
             S == [1 .. n -> D]
             P(q) == /\ Range(q) = D
                     /\ \A i, j \in DOMAIN q : i < j => m[q[i]] < m[q[j]]
             c == CHOOSE q \in S : P(q)
  <1>1. n \in Nat /\ n = Cardinality(D)
    BY FS_CardinalityType DEF Places, Size
  <1>2. PICK q : Lists(q, D, m) /\ Len(q) = n
    BY <1>1, ListsExists
  <1>3. q \in S /\ P(q)
    <2>1. q \in Seq(D) /\ DOMAIN q = 1 .. n
      BY <1>2 DEF Lists
    <2>2. Range(q) = D
      <3>1. \A i \in DOMAIN q : q[i] \in D
        <4> HIDE DEF D, n
        <4> QED BY <1>1, <2>1
      <3> QED BY <1>2, <3>1 DEF Lists, Range
    <2> QED BY <1>2, <2>1, <2>2 DEF Lists, Increasing
  <1>4. c \in S /\ P(c)
    BY <1>3
  <1>5. Queue(level) = c
    BY DEF Queue
  <1> HIDE DEF c
  <1>6. c \in Seq(D)
    BY <1>1, <1>4
  <1>7. \A x \in D : \E i \in DOMAIN c : c[i] = x
    BY <1>4 DEF Range
  <1> QED BY <1>4, <1>5, <1>6, <1>7 DEF Lists, Increasing

\* A list of the orders of a level by their entries is its queue.
LEMMA QueueIs ==
    ASSUME NEW level, Places(DOMAIN level.orders_map, level.orders_map),
           NEW q, Lists(q, DOMAIN level.orders_map, level.orders_map)
    PROVE  Queue(level) = q
  BY QueueLists, ListsUnique

LEMMA LevelPlaces ==
    ASSUME NEW level, NEW os, NEW side, NEW price, LevelInv(level, os, side, price)
    PROVE  Places(DOMAIN level.orders_map, level.orders_map)
  <1> DEFINE D == DOMAIN level.orders_map
  <1>1. \A x \in D : /\ x \in OrderIds
                     /\ level.orders_map[x] \in DOMAIN level.order_entries
                     /\ level.order_entries[level.orders_map[x]] =
                            [order |-> x, is_valid |-> TRUE]
    BY DEF LevelInv, MapOK
  <1>2. IsFiniteSet(OrderIds)
    BY FS_Interval DEF OrderIds
  <1>3. IsFiniteSet(D)
    BY <1>1, <1>2, FS_Subset
  <1>4. DOMAIN level.order_entries \subseteq Nat
    BY DEF LevelInv, IsLevel
  <1>5. ASSUME NEW x \in D, NEW y \in D, level.orders_map[x] = level.orders_map[y]
        PROVE  x = y
    <2>1. [order |-> x, is_valid |-> TRUE] = [order |-> y, is_valid |-> TRUE]
      BY <1>1, <1>5
    <2> QED BY <2>1
  <1> QED BY <1>1, <1>3, <1>4, <1>5 DEF Places

LEMMA EmptyQueue ==
    ASSUME NEW level, Empty(level)
    PROVE  Queue(level) = <<>>
  <1> DEFINE m == level.orders_map
  <1>1. DOMAIN m = {}
    BY DEF Empty
  <1>2. Places({}, m) /\ Lists(<<>>, {}, m)
    BY FS_EmptySet DEF Places, Lists, Increasing
  <1>3. Places(DOMAIN m, m) /\ Lists(<<>>, DOMAIN m, m)
    BY <1>1, <1>2
  <1> QED BY <1>3, QueueIs

LEMMA FullQueue ==
    ASSUME NEW level, NEW os, NEW side, NEW price, LevelInv(level, os, side, price),
           ~ Empty(level)
    PROVE  Queue(level) # <<>>
  <1>1. Lists(Queue(level), DOMAIN level.orders_map, level.orders_map)
    BY LevelPlaces, QueueLists
  <1> QED BY <1>1 DEF Lists, Empty

\* add_order puts an order at the back.
LEMMA QueueAdd ==
    ASSUME NEW level, NEW os, NEW side, NEW price, LevelInv(level, os, side, price),
           NEW id, id \notin DOMAIN level.orders_map,
           NEW lv, lv = AddEntry(level, id)
    PROVE  Queue(lv) = Append(Queue(level), id)
  <1> DEFINE m == level.orders_map
             D == DOMAIN m
             m2 == lv.orders_map
             n == Len(level.order_entries) + 1
  <1>1. /\ DOMAIN m2 = D \cup {id} /\ m2[id] = n /\ \A x \in D : m2[x] = m[x]
    BY DEF LevelInv, IsLevel, AddEntry
  <1>2. Places(D, m)
    BY LevelPlaces
  <1>3. n \in Nat /\ \A x \in D : m[x] \in Nat /\ m[x] < n
    <2>1. /\ Len(level.order_entries) \in Nat
          /\ DOMAIN level.order_entries = 1 .. Len(level.order_entries)
      BY DEF LevelInv, IsLevel
    <2>2. \A x \in D : m[x] \in DOMAIN level.order_entries
      BY DEF LevelInv, MapOK
    <2> QED BY <2>1, <2>2
  <1> HIDE DEF n, m2
  <1>4. Places(D \cup {id}, m2)
    <2>1. IsFiniteSet(D \cup {id})
      BY <1>2, FS_AddElement DEF Places
    <2> QED BY <1>1, <1>2, <1>3, <2>1 DEF Places
  <1>5. Lists(Queue(level), D, m)
    BY <1>2, QueueLists
  <1>6. Lists(Append(Queue(level), id), D \cup {id}, m2)
    <2>1. \A y \in D : m2[y] = m[y] /\ m2[y] < m2[id]
      BY <1>1, <1>3
    <2> HIDE DEF D, m
    <2> QED BY <1>5, <2>1, ListsAppend DEF D, m
  <1> QED BY <1>1, <1>4, <1>6, QueueIs DEF m2

\* remove_order, and a pop of the front order, take an order out.
LEMMA QueueBury ==
    ASSUME NEW level, NEW os, NEW side, NEW price, LevelInv(level, os, side, price),
           NEW id \in DOMAIN level.orders_map, NEW i, NEW lv, lv = Bury(level, i, id)
    PROVE  Queue(lv) = PriceTime!Without(Queue(level), id)
  <1> DEFINE m == level.orders_map
             D == DOMAIN m
             m2 == lv.orders_map
             r == PriceTime!Without(Queue(level), id)
  <1>1. DOMAIN m2 = D \ {id} /\ \A x \in D \ {id} : m2[x] = m[x]
    <2>1. m2 = Restrict(m, D \ {id})
      BY DEF LevelInv, IsLevel, Bury, IncrementToValid
    <2> QED BY <2>1 DEF Restrict
  <1>2. Places(D, m) /\ Lists(Queue(level), D, m)
    BY LevelPlaces, QueueLists
  <1>3. Lists(r, D \ {id}, m)
    BY <1>2, ListsWithout
  <1> HIDE DEF r, m2
  <1>4. Lists(r, D \ {id}, m2)
    <2>1. r \in Seq(D \ {id}) /\ \A j \in DOMAIN r : r[j] \in D \ {id}
      BY <1>3 DEF Lists
    <2> QED BY <1>1, <1>3, <2>1 DEF Lists, Increasing
  <1>5. Places(D \ {id}, m2)
    <2>1. IsFiniteSet(D \ {id})
      BY <1>2, FS_Subset DEF Places
    <2> QED BY <1>1, <1>2, <2>1 DEF Places
  <1> QED BY <1>1, <1>4, <1>5, QueueIs DEF m2, r

-----------------------------------------------------------------------------
(***************************************************************************)
(* The front of a level, if it is queued at all, is the first in its       *)
(* queue.  A filled order can be at the front when a modify_order had      *)
(* re-queued the only order of the level, and then nothing is traded.      *)
(***************************************************************************)

FrontFirst(level) ==
    FrontOrder(level) \in DOMAIN level.orders_map =>
        \A id \in DOMAIN level.orders_map :
            level.orders_map[FrontOrder(level)] <= level.orders_map[id]

ValidHead(level) ==
    /\ level.queue_head_index \in DOMAIN level.order_entries
    /\ level.order_entries[level.queue_head_index].is_valid

LEMMA ValidHeadFirst ==
    ASSUME NEW level, NEW os, NEW side, NEW price, LevelInv(level, os, side, price),
           Empty(level) \/ ValidHead(level)
    PROVE  FrontFirst(level)
  <1> SUFFICES ASSUME FrontOrder(level) \in DOMAIN level.orders_map
               PROVE  \A id \in DOMAIN level.orders_map :
                        level.orders_map[FrontOrder(level)] <= level.orders_map[id]
    BY DEF FrontFirst
  <1>1. ValidHead(level)
    BY DEF Empty
  <1>2. ~ FilledIn(os, FrontOrder(level))
    BY DEF LevelInv, MapOK, FilledIn, Filled, Open
  <1>3. level.orders_map[FrontOrder(level)] = level.queue_head_index
    BY <1>1, <1>2 DEF ValidHead, LevelInv, EntriesOK, FrontOrder
  <1>4. \A id \in DOMAIN level.orders_map :
            level.queue_head_index <= level.orders_map[id]
    BY DEF LevelInv, MapOK
  <1> QED BY <1>3, <1>4

\* Bury leaves an empty level, or one whose head is valid.
LEMMA BuryValid ==
    ASSUME NEW level, NEW os, NEW side, NEW price, LevelInv(level, os, side, price),
           NEW id \in DOMAIN level.orders_map, NEW i \in DOMAIN level.order_entries,
           level.order_entries[i].order = id, NEW lv, lv = Bury(level, i, id)
    PROVE  Empty(lv) \/ ValidHead(lv)
  <1> DEFINE b == Buried(level, i, id)
  <1>1. lv = IncrementToValid(b)
    BY DEF Bury, Buried
  <1>2. IsLevel(level)
    BY DEF LevelInv
  <1>3. /\ IsLevel(b) /\ b.queue_head_index = level.queue_head_index
        /\ DOMAIN b.order_entries = DOMAIN level.order_entries
        /\ \A j \in DOMAIN level.order_entries :
            j # i => b.order_entries[j] = level.order_entries[j]
        /\ DOMAIN b.orders_map = DOMAIN level.orders_map \ {id}
    BY <1>2, BuriedFields
  <1> HIDE DEF b
  <1>4. CASE Empty(b)
    BY <1>1, <1>4 DEF IncrementToValid
  <1>5. CASE ~ Empty(b)
    <2>1. PICK x \in DOMAIN b.orders_map : TRUE
      BY <1>5 DEF Empty
    <2> DEFINE k == level.orders_map[x]
    <2>2. /\ k \in DOMAIN level.order_entries
          /\ level.order_entries[k] = [order |-> x, is_valid |-> TRUE]
          /\ level.queue_head_index <= k
      BY <1>3 DEF LevelInv, MapOK
    <2>3. x # id
      BY <1>3
    <2> HIDE DEF k
    <2>4. k # i
      BY <2>2, <2>3
    <2>5. /\ k \in DOMAIN b.order_entries /\ b.order_entries[k].is_valid
          /\ b.queue_head_index <= k
      BY <1>3, <2>2, <2>4
    <2>6. /\ lv.order_entries = b.order_entries
          /\ lv.queue_head_index \in DOMAIN b.order_entries
          /\ b.order_entries[lv.queue_head_index].is_valid
      BY <1>1, <1>3, <1>5, <2>5, IncrementFields
    <2> QED BY <2>6 DEF ValidHead
  <1> QED BY <1>4, <1>5

\* PriceLevel::add_order for an order that is not queued in the level, on a new
\* level or on one that is in order.
LEMMA AddFirst ==
    ASSUME NEW level, NEW os, NEW side, NEW price, LevelInv(level, os, side, price),
           FrontFirst(level), NEW id, id \notin DOMAIN level.orders_map,
           ~ FilledIn(os, id),
           level = EmptyLevel \/ HeadOK(level, os, IF Empty(level) THEN {id} ELSE {}),
           NEW lv, lv = AddEntry(level, id)
    PROVE  FrontFirst(lv)
  <1> DEFINE e == level.order_entries
             m == level.orders_map
             h == level.queue_head_index
  <1>1. /\ DOMAIN lv.orders_map = DOMAIN m \cup {id}
        /\ lv.orders_map[id] = Len(e) + 1
        /\ \A x \in DOMAIN m : lv.orders_map[x] = m[x]
        /\ lv.order_entries = Append(e, [order |-> id, is_valid |-> TRUE])
        /\ lv.queue_head_index = h
    BY DEF LevelInv, IsLevel, AddEntry
  <1>2. e \in Seq(EntryRecord) /\ Len(e) \in Nat /\ DOMAIN e = 1 .. Len(e)
    BY DEF LevelInv, IsLevel
  <1>3. \A x \in DOMAIN m : m[x] \in Nat /\ m[x] <= Len(e) + 1
    <2>1. \A x \in DOMAIN m : m[x] \in DOMAIN e
      BY DEF LevelInv, MapOK
    <2> QED BY <1>2, <2>1
  <1>4. CASE Empty(level)
    <2>1. DOMAIN lv.orders_map = {id}
      BY <1>1, <1>4 DEF Empty
    <2> QED BY <1>1, <1>2, <2>1 DEF FrontFirst
  <1>5. CASE ~ Empty(level)
    <2>1. HeadOK(level, os, {})
      BY <1>5 DEF EmptyLevel, Empty
    <2>2. h \in DOMAIN e /\ (FrontOrder(level) \in DOMAIN m \/ FilledIn(os, FrontOrder(level)))
      BY <2>1 DEF HeadOK
    <2>3. lv.order_entries[h] = e[h]
      BY <1>1, <1>2, <2>2
    <2>4. FrontOrder(lv) = FrontOrder(level)
      BY <1>1, <2>3 DEF FrontOrder
    <2>5. FrontOrder(lv) # id
      BY <2>2, <2>4
    <2> HIDE DEF m, e, h
    <2> SUFFICES ASSUME FrontOrder(level) \in DOMAIN m, NEW x \in DOMAIN lv.orders_map
                 PROVE  lv.orders_map[FrontOrder(level)] <= lv.orders_map[x]
      BY <1>1, <2>4, <2>5 DEF FrontFirst
    <2>6. \A y \in DOMAIN m : m[FrontOrder(level)] <= m[y]
      BY DEF FrontFirst, m
    <2> QED BY <1>1, <1>3, <2>6
  <1> QED BY <1>4, <1>5

-----------------------------------------------------------------------------
(***************************************************************************)
(* One side of the book                                                    *)
(***************************************************************************)

SideQueue(sl) ==
    [p \in Prices |-> IF p \in DOMAIN sl THEN Queue(sl[p]) ELSE <<>>]

FirstSide(sl) == \A p \in DOMAIN sl : FrontFirst(sl[p])

\* An emptied level that is removed had an empty queue.
LEMMA PruneQueue ==
    ASSUME NEW sl, NEW price
    PROVE  /\ SideQueue(RemovePriceLevelIfEmpty(sl, price)) = SideQueue(sl)
           /\ FirstSide(sl) => FirstSide(RemovePriceLevelIfEmpty(sl, price))
  <1> DEFINE new == RemovePriceLevelIfEmpty(sl, price)
  <1>1. /\ DOMAIN new = {p \in DOMAIN sl : p = price => ~ Empty(sl[p])}
        /\ \A p \in DOMAIN new : new[p] = sl[p]
    BY DEF RemovePriceLevelIfEmpty
  <1> HIDE DEF new
  <1>2. ASSUME NEW p \in Prices
        PROVE  SideQueue(new)[p] = SideQueue(sl)[p]
    <2>1. CASE p \in DOMAIN new
      BY <1>1, <2>1 DEF SideQueue
    <2>2. CASE p \in DOMAIN sl /\ p \notin DOMAIN new
      <3>1. Queue(sl[p]) = <<>>
        BY <1>1, <2>2, EmptyQueue
      <3> QED BY <2>2, <3>1 DEF SideQueue
    <2>3. CASE p \notin DOMAIN sl
      BY <1>1, <2>3 DEF SideQueue
    <2> QED BY <2>1, <2>2, <2>3
  <1>3. SideQueue(new) = SideQueue(sl)
    BY <1>2 DEF SideQueue
  <1> QED BY <1>1, <1>3 DEF FirstSide, new

\* try_emplace and add_order at one price.
LEMMA PutQueue ==
    ASSUME NEW sl, NEW os, NEW side, NEW id, NEW E, NEW price \in Prices,
           SideLevels(sl, os, side, id, E), NowhereQueued(sl, id),
           ~ FilledIn(os, id), FirstSide(sl)
    PROVE  LET new == Enqueue(sl, price, id)
           IN  /\ FirstSide(new)
               /\ SideQueue(new) = [SideQueue(sl) EXCEPT ![price] = Append(@, id)]
  <1> DEFINE new == Enqueue(sl, price, id)
             level == IF price \in DOMAIN sl THEN sl[price] ELSE EmptyLevel
             lv == AddEntry(level, id)
             q == Append(SideQueue(sl)[price], id)
  <1>1. /\ DOMAIN new = DOMAIN sl \cup {price} /\ new[price] = lv
        /\ \A p \in DOMAIN sl : p # price => new[p] = sl[p]
    BY DEF Enqueue
  <1>2. /\ LevelInv(level, os, side, price) /\ id \notin DOMAIN level.orders_map
        /\ level = EmptyLevel \/ HeadOK(level, os, IF Empty(level) THEN {id} ELSE {})
        /\ FrontFirst(level) /\ SideQueue(sl)[price] = Queue(level)
    <2>1. CASE price \in DOMAIN sl
      BY <2>1 DEF SideLevels, NowhereQueued, FirstSide, SideQueue
    <2>2. CASE price \notin DOMAIN sl
      <3>1. level = EmptyLevel /\ SideQueue(sl)[price] = <<>>
        BY <2>2 DEF SideQueue
      <3>2. DOMAIN EmptyLevel.orders_map = {}
        BY DEF EmptyLevel
      <3>3. Queue(EmptyLevel) = <<>> /\ FrontFirst(EmptyLevel)
        BY <3>2, EmptyQueue DEF Empty, FrontFirst
      <3> QED BY <3>1, <3>2, <3>3, EmptyLevelInv
    <2> QED BY <2>1, <2>2
  <1> HIDE DEF level
  <1>3. lv = AddEntry(level, id)
    OBVIOUS
  <1> HIDE DEF lv, new
  <1>4. FrontFirst(lv)
    BY <1>2, <1>3, AddFirst
  <1>5. Queue(lv) = q
    BY <1>2, <1>3, QueueAdd
  <1>6. FirstSide(new)
    BY <1>1, <1>4 DEF FirstSide
  <1> HIDE DEF q
  <1>7. SideQueue(new) = [SideQueue(sl) EXCEPT ![price] = q]
    BY <1>1, <1>5 DEF SideQueue
  <1> QED BY <1>6, <1>7 DEF new, q

\* A side whose queue at price id has left.
QueueWithout(sl, rem, price, id) ==
    SideQueue(rem) = [SideQueue(sl) EXCEPT ![price] = PriceTime!Without(@, id)]

\* remove_order, or a pop of the front order, at one price.
LEMMA TakeQueue ==
    ASSUME NEW sl, NEW os, NEW side, SideInv(sl, os, side), NEW price \in DOMAIN sl,
           NEW id \in DOMAIN sl[price].orders_map, NEW i,
           NEW rem, rem = [sl EXCEPT ![price] = Bury(@, i, id)]
    PROVE  QueueWithout(sl, rem, price, id)
  <1> DEFINE level == sl[price]
             lv == Bury(level, i, id)
             q == PriceTime!Without(Queue(level), id)
  <1>1. /\ DOMAIN rem = DOMAIN sl /\ rem[price] = lv
        /\ \A p \in DOMAIN sl : p # price => rem[p] = sl[p]
    OBVIOUS
  <1>2. LevelInv(level, os, side, price) /\ price \in Prices /\ lv = Bury(level, i, id)
        /\ id \in DOMAIN level.orders_map
    BY DEF SideInv, SideLevels
  <1>3. SideQueue(sl)[price] = Queue(level)
    BY <1>2 DEF SideQueue
  <1> HIDE DEF level, lv
  <1>4. Queue(lv) = q
    BY <1>2, QueueBury
  <1> HIDE DEF q
  <1>5. SideQueue(rem) = [SideQueue(sl) EXCEPT ![price] = q]
    BY <1>1, <1>4 DEF SideQueue
  <1> QED BY <1>3, <1>5 DEF q, QueueWithout

-----------------------------------------------------------------------------
(***************************************************************************)
(* Requests                                                                *)
(***************************************************************************)

FirstBook == \A side \in OrderSide : FirstSide(levels[side])

\* The operators that the abstract book has from module Order.
LEMMA SameOrders ==
    /\ \A o : PriceTime!Open(o) <=> Open(o)
    /\ \A o : PriceTime!Available(o) = Available(o)
    /\ \A o : PriceTime!Cancel(o) = Cancel(o)
    /\ \A o, q : PriceTime!Match(o, q) = Match(o, q)
    /\ \A o, p, q : PriceTime!SetQuantity(PriceTime!SetPrice(o, p), q) =
                        SetQuantity(SetPrice(o, p), q)
    /\ \A s, p, q : PriceTime!CopyFromClient(s, p, q) = CopyFromClient(s, p, q)
    /\ PriceTime!OrderSide = OrderSide
  BY DEF PriceTime!Open, Open, PriceTime!Available, Available, PriceTime!Cancel, Cancel,
         PriceTime!Match, Match, PriceTime!SetQuantity, SetQuantity, PriceTime!SetPrice,
         SetPrice, PriceTime!CopyFromClient, CopyFromClient, PriceTime!DefaultOrder,
         DefaultOrder, PriceTime!OrderSide, OrderSide

\* One side changes.
LEMMA OneSideQueue ==
    ASSUME Book(orders, levels), FirstBook, NEW side \in OrderSide, NEW new,
           FirstSide(new), levels' = [levels EXCEPT ![side] = new]
    PROVE  /\ FirstBook'
           /\ BookQueue' = [BookQueue EXCEPT ![side] = SideQueue(new)]
  <1>1. \A s \in OrderSide : levels'[s] = IF s = side THEN new ELSE levels[s]
    BY DEF Book
  <1>2. FirstBook'
    BY <1>1 DEF FirstBook
  <1>3. BookQueue' = [s \in OrderSide |-> SideQueue(levels'[s])]
    BY DEF BookQueue, SideQueue
  <1> DEFINE q == BookQueue
             q2 == SideQueue(new)
  <1>4. q = [s \in OrderSide |-> SideQueue(levels[s])]
    BY DEF BookQueue, SideQueue
  <1>5. \A s \in OrderSide : SideQueue(levels'[s]) = IF s = side THEN q2 ELSE q[s]
    BY <1>1, <1>4
  <1>6. [q EXCEPT ![side] = q2] = [s \in OrderSide |-> IF s = side THEN q2 ELSE q[s]]
    BY <1>4
  <1> QED BY <1>2, <1>3, <1>5, <1>6

LEMMA AddRefines ==
    ASSUME Book(orders, levels), FirstBook, NEW side \in OrderSide,
           NEW price \in Prices, NEW quantity \in Quantities,
           AddOrder(side, price, quantity)
    PROVE  FirstBook' /\ PriceTime!Submit(side, price, quantity)
  <1> DEFINE id == Len(orders) + 1
             sl == levels[side]
             new == Enqueue(sl, price, id)
  <1>1. /\ orders' = Append(orders, CopyFromClient(side, price, quantity))
        /\ levels' = [levels EXCEPT ![side] = new]
    BY DEF AddOrder
  <1>2. SideInv(sl, orders, side) /\ id \notin DOMAIN orders /\ FirstSide(sl)
    BY RegistryDomain DEF Book, FirstBook
  <1> HIDE DEF id, sl
  <1>3. /\ SideLevels(sl, orders, side, id, {}) /\ NowhereQueued(sl, id)
        /\ ~ FilledIn(orders, id)
    BY <1>2 DEF SideInv, SideLevels, LevelInv, MapOK, NowhereQueued, FilledIn
  <1>4. /\ FirstSide(new)
        /\ SideQueue(new) = [SideQueue(sl) EXCEPT ![price] = Append(@, id)]
    BY <1>2, <1>3, PutQueue
  <1> HIDE DEF new
  <1>5. /\ FirstBook'
        /\ BookQueue' = [BookQueue EXCEPT ![side] = SideQueue(new)]
    BY <1>1, <1>4, OneSideQueue
  <1>6. BookQueue' =
            [BookQueue EXCEPT ![side][price] = Append(@, Len(orders) + 1)]
    <2>1. BookQueue[side] = SideQueue(sl)
      BY DEF BookQueue, SideQueue, sl
    <2> QED BY <1>4, <1>5, <2>1 DEF id
  <1> QED BY <1>1, <1>5, <1>6, SameOrders DEF PriceTime!Submit

\* The side of an open order once it is taken out of its level.
LEMMA TakenOpen ==
    ASSUME Book(orders, levels), FirstBook, NEW id \in DOMAIN orders, Open(orders[id])
    PROVE  LET o == orders[id]
               sl == levels[o.side]
               rem == [sl EXCEPT ![o.price] = RemoveEntry(@, id)]
           IN  /\ o.side \in OrderSide /\ o.price \in Prices
               /\ SideWithout(sl, rem, orders, o.side, id, o.price)
               /\ FirstSide(sl) /\ FirstSide(rem)
               /\ QueueWithout(sl, rem, o.price, id)
  <1> DEFINE o == orders[id]
             side == o.side
             price == o.price
             sl == levels[side]
             i == sl[price].orders_map[id]
             rem == [sl EXCEPT ![price] = RemoveEntry(@, id)]
  <1>1. /\ side \in OrderSide /\ SideInv(sl, orders, side)
        /\ price \in DOMAIN sl /\ id \in DOMAIN sl[price].orders_map
        /\ CanBury(sl[price], orders, i, id)
    BY OpenIsQueued
  <1>2. rem = [sl EXCEPT ![price] = Bury(@, i, id)]
    BY <1>1 DEF RemoveEntry
  <1>3. FirstSide(sl) /\ price \in Prices /\ 0 \notin DOMAIN orders
    BY <1>1, RegistryDomain DEF FirstBook, SideInv, SideLevels, Book
  <1>4. Progress(orders, orders, side, id) /\ NoneOpened(orders, orders, side, id)
    BY DEF Progress, NoneOpened
  <1> HIDE DEF rem, sl, side, price, i, o
  <1>5. SideWithout(sl, rem, orders, side, id, price)
    BY <1>1, <1>2, <1>3, <1>4, TakenOut
  <1>6. QueueWithout(sl, rem, price, id)
    BY <1>1, <1>2, TakeQueue
  <1>7. FirstSide(rem)
    <2> DEFINE level == sl[price]
               lv == Bury(level, i, id)
    <2>1. /\ DOMAIN rem = DOMAIN sl /\ rem[price] = lv
          /\ \A p \in DOMAIN sl : p # price => rem[p] = sl[p]
      BY <1>1, <1>2
    <2>2. LevelInv(level, orders, side, price) /\ LevelInv(lv, orders, side, price)
      BY <1>1, <1>5, <2>1 DEF SideInv, SideLevels, SideWithout
    <2>3. /\ id \in DOMAIN level.orders_map /\ i \in DOMAIN level.order_entries
          /\ level.order_entries[i].order = id /\ lv = Bury(level, i, id)
      BY <1>1 DEF CanBury
    <2> HIDE DEF level, lv
    <2>4. Empty(lv) \/ ValidHead(lv)
      BY <2>2, <2>3, BuryValid
    <2>5. FrontFirst(lv)
      BY <2>2, <2>4, ValidHeadFirst
    <2> QED BY <1>3, <2>1, <2>5 DEF FirstSide
  <1> QED BY <1>1, <1>3, <1>5, <1>6, <1>7 DEF rem, sl, side, price, o

LEMMA CancelRefines ==
    ASSUME Book(orders, levels), FirstBook, NEW id \in DOMAIN orders, CancelOrder(id)
    PROVE  FirstBook' /\ PriceTime!Withdraw(id)
  <1> DEFINE o == orders[id]
             side == o.side
             price == o.price
             sl == levels[side]
             rem == [sl EXCEPT ![price] = RemoveEntry(@, id)]
             new == RemovePriceLevelIfEmpty(rem, price)
  <1>1. /\ Open(o) /\ orders' = [orders EXCEPT ![id] = Cancel(o)]
        /\ levels' = [levels EXCEPT ![side] = new]
    BY DEF CancelOrder, CancelOrderDispatcher
  <1>2. /\ side \in OrderSide /\ price \in Prices /\ FirstSide(rem)
        /\ QueueWithout(sl, rem, price, id)
    BY <1>1, TakenOpen
  <1> HIDE DEF rem
  <1>3. FirstSide(new) /\ SideQueue(new) = SideQueue(rem)
    BY <1>2, PruneQueue
  <1>4. BookQueue[side] = SideQueue(sl)
    BY <1>2 DEF BookQueue, SideQueue
  <1> HIDE DEF new, sl, side, price
  <1>5. /\ FirstBook'
        /\ BookQueue' = [BookQueue EXCEPT ![side] = SideQueue(new)]
    BY <1>1, <1>2, <1>3, OneSideQueue
  <1>6. BookQueue' =
            [BookQueue EXCEPT ![side][price] = PriceTime!Without(@, id)]
    BY <1>2, <1>3, <1>4, <1>5 DEF QueueWithout
  <1> QED
    BY <1>1, <1>5, <1>6, SameOrders
       DEF PriceTime!Withdraw, side, price

LEMMA ModifyRefines ==
    ASSUME Book(orders, levels), FirstBook, NEW id \in DOMAIN orders,
           NEW new_price \in Prices, NEW new_qty \in Quantities,
           ModifyOrder(id, new_price, new_qty)
    PROVE  FirstBook' /\ PriceTime!Amend(id, new_price, new_qty)
  <1> DEFINE o == orders[id]
             side == o.side
             price == o.price
             sl == levels[side]
             rem == [sl EXCEPT ![price] = RemoveEntry(@, id)]
             stays == new_price = price /\ new_qty <= o.quantity
             put == Enqueue(rem, new_price, id)
             new == RemovePriceLevelIfEmpty(IF stays THEN sl ELSE put, price)
             q == BookQueue
             left == [q EXCEPT ![side][price] = PriceTime!Without(@, id)]
  <1>1. /\ Open(o) /\ new_qty > o.quantity_filled
        /\ orders' = [orders EXCEPT ![id] = SetQuantity(SetPrice(o, new_price), new_qty)]
    BY DEF ModifyOrder, ValidateModifyOrder
  <1>2. levels' = [levels EXCEPT ![side] = new]
    <2>1. o.quantity \in Nat /\ new_qty \in Nat
      BY DEF Book, Registry, OrderInv
    <2>2. stays <=> ~ (new_price # price \/ new_qty > o.quantity)
      BY <2>1
    <2> HIDE DEF stays
    <2> QED BY <2>2 DEF ModifyOrder, ModifyOrderDispatcher
  <1>3. /\ side \in OrderSide /\ price \in Prices
        /\ SideWithout(sl, rem, orders, side, id, price)
        /\ FirstSide(sl) /\ FirstSide(rem) /\ QueueWithout(sl, rem, price, id)
    BY <1>1, TakenOpen
  <1>4. ~ FilledIn(orders, id)
    BY <1>1 DEF FilledIn, Filled, Open
  <1>5. q[side] = SideQueue(sl)
    BY <1>3 DEF BookQueue, SideQueue
  <1>6. /\ DOMAIN q = OrderSide /\ q = [s \in OrderSide |-> q[s]]
        /\ DOMAIN SideQueue(sl) = Prices
    BY DEF BookQueue, SideQueue
  <1> HIDE DEF rem, sl, price, side, q
  <1> DEFINE goal == FirstBook' /\ q' = IF stays THEN q
                                    ELSE [left EXCEPT ![side][new_price] = Append(@, id)]
  <1>7. ASSUME stays PROVE goal
    <2>1. new = RemovePriceLevelIfEmpty(sl, price)
      BY <1>7
    <2> HIDE DEF new, stays
    <2>2. FirstSide(new) /\ SideQueue(new) = SideQueue(sl)
      BY <1>3, <2>1, PruneQueue
    <2>3. FirstBook' /\ q' = [q EXCEPT ![side] = SideQueue(new)]
      BY <1>2, <1>3, <2>2, OneSideQueue DEF q
    <2>4. q' = q
      BY <1>5, <1>6, <2>2, <2>3
    <2> QED BY <1>7, <2>3, <2>4
  <1>8. ASSUME ~ stays PROVE goal
    <2>1. new = RemovePriceLevelIfEmpty(put, price)
      BY <1>8
    <2> HIDE DEF new, stays
    <2>2. FirstSide(put) /\ SideQueue(put) = [SideQueue(rem) EXCEPT ![new_price] = Append(@, id)]
      BY <1>3, <1>4, PutQueue DEF SideWithout
    <2> HIDE DEF put
    <2>3. FirstSide(new) /\ SideQueue(new) = SideQueue(put)
      BY <2>1, <2>2, PruneQueue
    <2>4. FirstBook' /\ q' = [q EXCEPT ![side] = SideQueue(new)]
      BY <1>2, <1>3, <2>3, OneSideQueue DEF q
    <2>5. left[side] = SideQueue(rem) /\ left = [q EXCEPT ![side] = SideQueue(rem)]
      BY <1>3, <1>5, <1>6 DEF QueueWithout
    <2> HIDE DEF left
    <2>6. q' = [left EXCEPT ![side][new_price] = Append(@, id)]
      BY <1>3, <2>2, <2>3, <2>4, <2>5
    <2> QED BY <1>8, <2>4, <2>6
  <1> HIDE DEF left, stays
  <1>9. goal
    BY <1>7, <1>8
  <1>10. /\ PriceTime!Open(o)
         /\ orders' = [orders EXCEPT ![id] =
                PriceTime!SetQuantity(PriceTime!SetPrice(o, new_price), new_qty)]
    BY <1>1, SameOrders
  <1> QED BY <1>1, <1>9, <1>10 DEF PriceTime!Amend, left, q, stays, price, side

-----------------------------------------------------------------------------
(***************************************************************************)
(* Matching                                                                *)
(***************************************************************************)

\* The order that an iteration of try_match trades on a side is the first in
\* the queue there.
LEMMA BestQueue ==
    ASSUME Book(orders, levels), FirstBook, BothSides, MatchFault = "none",
           NEW side \in OrderSide, NEW q, q = BookQueue[side][Best(side)]
    PROVE  /\ q # <<>> /\ Head(q) = BestFront(side)
           /\ Tail(q) = PriceTime!Without(q, BestFront(side))
           /\ q = SideQueue(levels[side])[Best(side)]
  <1> DEFINE level == BestLevel(side)
             m == level.orders_map
             f == BestFront(side)
  <1>1. /\ Best(side) \in DOMAIN levels[side] /\ Best(side) \in Prices
        /\ LevelInv(level, orders, side, Best(side))
    BY BestFacts
  <1>2. f \in DOMAIN m
    BY FrontsQueued
  <1>3. \A x \in DOMAIN m : m[f] <= m[x]
    BY <1>1, <1>2 DEF FirstBook, FirstSide, FrontFirst, BestLevel, BestFront
  <1>4. q = Queue(level) /\ q = SideQueue(levels[side])[Best(side)]
    BY <1>1 DEF BookQueue, SideQueue, BestLevel
  <1> HIDE DEF level, f
  <1>5. Places(DOMAIN m, m) /\ Lists(q, DOMAIN m, m)
    BY <1>1, <1>4, LevelPlaces, QueueLists
  <1>6. q # <<>> /\ Head(q) = f /\ Tail(q) = PriceTime!Without(q, f)
    <2>1. FirstOf(DOMAIN m, m, f)
      BY <1>2, <1>3 DEF FirstOf
    <2> QED BY <1>5, <2>1, HeadWithout
  <1> QED BY <1>4, <1>6 DEF f

\* pop_front_order_if_filled and remove_price_level_if_empty on one side.
LEMMA PopQueue ==
    ASSUME Book(orders, levels), FirstBook, BothSides, MatchFault = "none",
           NEW side \in OrderSide
    PROVE  /\ FirstSide(PopBest(side))
           /\ SideQueue(PopBest(side)) =
                [SideQueue(levels[side]) EXCEPT ![Best(side)] =
                    IF Open(Matched(BestFront(side))) THEN @ ELSE Tail(@)]
  <1> DEFINE sl == levels[side]
             price == Best(side)
             level == BestLevel(side)
             f == BestFront(side)
             h == level.queue_head_index
             filled == Filled(Matched(f))
             rem == [sl EXCEPT ![price] = PopFrontIfFilled(@, filled)]
             new == RemovePriceLevelIfEmpty(rem, price)
             q == SideQueue(sl)
  <1>1. /\ price \in DOMAIN sl /\ level = sl[price] /\ ~ Empty(level)
        /\ h \in DOMAIN level.order_entries /\ level.order_entries[h].order = f
        /\ LevelInv(level, orders, side, price)
    BY BestFacts DEF HeadOK, BestFront, FrontOrder, BestLevel
  <1>2. f \in DOMAIN level.orders_map
    BY FrontsQueued
  <1>3. PopBest(side) = new
    BY DEF PopBest
  <1>4. SideInv(new, AfterMatch, side)
    BY <1>3, PopBestInv
  <1>5. Open(Matched(f)) <=> ~ filled
    <2>1. f \in Fronts
      BY DEF Fronts
    <2> QED BY <2>1, MatchRegistry
  <1>6. SideInv(sl, orders, side) /\ FirstSide(sl)
    BY DEF Book, FirstBook
  <1>7. Tail(q[price]) = PriceTime!Without(q[price], f)
    <2>1. BookQueue[side][price] = q[price]
      BY BestQueue
    <2> QED BY <2>1, BestQueue
  <1> HIDE DEF new, filled
  <1>8. new = RemovePriceLevelIfEmpty(rem, price)
    BY DEF new
  <1> HIDE DEF f, sl, price, h, level
  <1>9. DOMAIN q = Prices /\ q = [p \in Prices |-> q[p]]
    BY DEF SideQueue
  <1> DEFINE goal == /\ FirstSide(new)
                     /\ SideQueue(new) = [q EXCEPT ![price] =
                            IF Open(Matched(f)) THEN @ ELSE Tail(@)]
  <1>10. ASSUME ~ filled PROVE goal
    <2>1. DOMAIN rem = DOMAIN sl /\ \A p \in DOMAIN sl : rem[p] = sl[p]
      BY <1>10 DEF PopFrontIfFilled
    <2> HIDE DEF rem
    <2>2. FirstSide(rem) /\ SideQueue(rem) = SideQueue(sl)
      BY <1>6, <2>1 DEF FirstSide, SideQueue
    <2>3. FirstSide(new) /\ SideQueue(new) = q
      BY <1>8, <2>2, PruneQueue
    <2> HIDE DEF q
    <2>4. [q EXCEPT ![price] = q[price]] = q
      BY <1>9
    <2> QED BY <1>5, <1>10, <2>3, <2>4
  <1>11. ASSUME filled PROVE goal
    <2> DEFINE lv == Bury(level, h, f)
    <2>1. rem = [sl EXCEPT ![price] = Bury(@, h, f)]
      BY <1>1, <1>11 DEF PopFrontIfFilled, FrontOrder, h
    <2>2. /\ DOMAIN rem = DOMAIN sl /\ rem[price] = lv
          /\ \A p \in DOMAIN sl : p # price => rem[p] = sl[p]
      BY <1>1, <2>1
    <2>3. lv = Bury(level, h, f)
      OBVIOUS
    <2> HIDE DEF rem, lv
    <2>4. QueueWithout(sl, rem, price, f)
      BY <1>1, <1>2, <1>6, <2>1, TakeQueue
    <2>5. Empty(lv) \/ ValidHead(lv)
      BY <1>1, <1>2, <2>3, BuryValid
    <2>6. /\ DOMAIN new = {p \in DOMAIN rem : p = price => ~ Empty(rem[p])}
          /\ \A p \in DOMAIN new : new[p] = rem[p]
      BY <1>8 DEF RemovePriceLevelIfEmpty
    <2>7. FirstSide(new)
      <3> SUFFICES ASSUME NEW p \in DOMAIN new PROVE FrontFirst(new[p])
        BY DEF FirstSide
      <3>1. CASE p = price
        <4>1. new[p] = lv /\ LevelInv(new[p], AfterMatch, side, p)
          BY <1>4, <2>2, <2>6, <3>1 DEF SideInv, SideLevels
        <4> QED BY <2>5, <4>1, ValidHeadFirst
      <3>2. CASE p # price
        BY <1>6, <2>2, <2>6, <3>2 DEF FirstSide
      <3> QED BY <3>1, <3>2
    <2>8. SideQueue(new) = SideQueue(rem)
      BY <1>8, PruneQueue
    <2>9. SideQueue(new) = [q EXCEPT ![price] = Tail(q[price])]
      BY <1>7, <2>4, <2>8 DEF QueueWithout
    <2> QED BY <1>5, <1>11, <2>7, <2>9
  <1> QED BY <1>3, <1>10, <1>11 DEF f, sl, price

LEMMA QueuedPrices ==
    ASSUME Book(orders, levels), NEW side \in OrderSide
    PROVE  PriceTime!PricesOf(side) = DOMAIN levels[side]
  <1> DEFINE sl == levels[side]
  <1>1. DOMAIN sl \subseteq Prices
    BY DEF Book, SideInv, SideLevels
  <1>2. \A p \in DOMAIN sl : LevelInv(sl[p], orders, side, p) /\ ~ Empty(sl[p])
    BY DEF Book, SideInv, SideLevels
  <1>3. \A p \in Prices : BookQueue[side][p] = IF p \in DOMAIN sl THEN Queue(sl[p]) ELSE <<>>
    BY DEF BookQueue
  <1> HIDE DEF sl
  <1>4. \A p \in DOMAIN sl : Queue(sl[p]) # <<>>
    BY <1>2, FullQueue
  <1>5. \A p \in Prices : BookQueue[side][p] # <<>> <=> p \in DOMAIN sl
    BY <1>3, <1>4
  <1> QED BY <1>1, <1>5 DEF PriceTime!PricesOf, sl

LEMMA MatchRefines ==
    ASSUME Book(orders, levels), FirstBook, MatchOrders
    PROVE  FirstBook' /\ PriceTime!Trade
  <1> DEFINE q == BookQueue
             bid == Best("BUY")
             ask == Best("SELL")
             buyer == BestFront("BUY")
             seller == BestFront("SELL")
             rest(x) == IF PriceTime!Open(PriceTime!Match(orders[Head(x)], MatchQty))
                        THEN x ELSE Tail(x)
  <1>1. /\ BothSides /\ bid >= ask /\ MatchFault = "none"
        /\ orders' = AfterMatch /\ levels' = [side \in OrderSide |-> PopBest(side)]
    BY DEF MatchOrders, Crossed, AfterMatch
  <1>2. {"BUY", "SELL"} = OrderSide
    BY DEF OrderSide
  <1>3. /\ PriceTime!PricesOf("BUY") = DOMAIN levels["BUY"]
        /\ PriceTime!PricesOf("SELL") = DOMAIN levels["SELL"]
        /\ DOMAIN levels["BUY"] # {} /\ DOMAIN levels["SELL"] # {}
    BY <1>1, <1>2, QueuedPrices DEF BothSides
  <1>4. /\ PriceTime!Max(PriceTime!PricesOf("BUY")) = bid
        /\ PriceTime!Min(PriceTime!PricesOf("SELL")) = ask
    BY <1>3 DEF Best, PriceTime!Max, Max, PriceTime!Min, Min
  <1>5. Head(q["BUY"][bid]) = buyer /\ Head(q["SELL"][ask]) = seller
    BY <1>1, <1>2, BestQueue
  <1>6. PriceTime!Min({PriceTime!Available(orders[buyer]),
                       PriceTime!Available(orders[seller])}) = MatchQty
    <2>1. {Available(orders[id]) : id \in Fronts} =
                {Available(orders[buyer]), Available(orders[seller])}
      BY DEF Fronts, OrderSide
    <2>2. \A S : PriceTime!Min(S) = Min(S)
      BY DEF PriceTime!Min, Min
    <2> QED BY <2>1, <2>2, SameOrders DEF MatchQty
  <1>7. orders' = [orders EXCEPT ![buyer] = PriceTime!Match(orders[buyer], MatchQty),
                                 ![seller] = PriceTime!Match(orders[seller], MatchQty)]
    <2>1. /\ buyer \in DOMAIN orders /\ seller \in DOMAIN orders
          /\ Fronts = {buyer, seller}
      BY <1>1, <1>2, BestFacts DEF Fronts
    <2>2. buyer # seller
      BY <1>1, <1>2, FrontsQueued
    <2>3. orders = [x \in DOMAIN orders |-> orders[x]]
      BY DEF Book, Registry
    <2> HIDE DEF buyer, seller
    <2> QED BY <1>1, <2>1, <2>2, <2>3, SameOrders DEF AfterMatch, Matched
  <1>8. ASSUME NEW side \in OrderSide
        PROVE  /\ FirstSide(levels'[side]) /\ q[side] = SideQueue(levels[side])
               /\ q'[side] = [q[side] EXCEPT ![Best(side)] = rest(@)]
    <2> DEFINE x == q[side][Best(side)]
    <2>1. levels'[side] = PopBest(side) /\ q[side] = SideQueue(levels[side])
          /\ q'[side] = SideQueue(levels'[side])
      BY <1>1 DEF BookQueue, SideQueue
    <2>2. Head(x) = BestFront(side)
      BY <1>1, BestQueue
    <2>3. rest(x) = IF Open(Matched(BestFront(side))) THEN x ELSE Tail(x)
      BY <2>2, SameOrders DEF Matched
    <2>4. /\ FirstSide(PopBest(side))
          /\ SideQueue(PopBest(side)) =
                [q[side] EXCEPT ![Best(side)] =
                    IF Open(Matched(BestFront(side))) THEN @ ELSE Tail(@)]
      BY <1>1, <2>1, PopQueue
    <2> QED BY <2>1, <2>3, <2>4
  <1>9. FirstBook'
    BY <1>8 DEF FirstBook
  <1>10. q' = [q EXCEPT !["BUY"][bid] = rest(@), !["SELL"][ask] = rest(@)]
    <2>1. q = [s \in OrderSide |-> q[s]] /\ q' = [s \in OrderSide |-> q'[s]]
      BY DEF BookQueue
    <2> HIDE DEF q, rest
    <2> QED BY <1>2, <1>8, <2>1
  <1> QED
    BY <1>1, <1>3, <1>4, <1>5, <1>6, <1>7, <1>9, <1>10 DEF PriceTime!Trade

-----------------------------------------------------------------------------
(***************************************************************************)
(* The refinement                                                          *)
(***************************************************************************)

LEMMA InitRefines == Init => FirstBook /\ PriceTime!Init
  <1> SUFFICES ASSUME Init PROVE FirstBook /\ PriceTime!Init
    OBVIOUS
  <1>1. \A side \in OrderSide : DOMAIN levels[side] = {}
    <2>1. \A side \in OrderSide : levels[side] = <<>>
      BY DEF Init
    <2>2. DOMAIN <<>> = {}
      OBVIOUS
    <2> QED BY <2>1, <2>2
  <1>2. BookQueue = [side \in OrderSide |-> [price \in Prices |-> <<>>]]
    BY <1>1 DEF BookQueue
  <1>3. FirstBook
    BY <1>1 DEF FirstBook, FirstSide
  <1> QED BY <1>2, <1>3, SameOrders DEF Init, PriceTime!Init

LEMMA StepRefines ==
    IInv /\ FirstBook /\ [Next]_vars => FirstBook' /\ [PriceTime!Next]_(PriceTime!ptVars)
  <1> SUFFICES ASSUME IInv, FirstBook, [Next]_vars
               PROVE  FirstBook' /\ [PriceTime!Next]_(PriceTime!ptVars)
    OBVIOUS
  <1>1. Book(orders, levels)
    BY DEF IInv
  <1>2. ASSUME NEW side \in OrderSide, NEW price \in Prices,
               NEW quantity \in Quantities, AddOrder(side, price, quantity)
        PROVE  FirstBook' /\ PriceTime!Next
    BY <1>1, <1>2, AddRefines, SameOrders DEF PriceTime!Next
  <1>3. ASSUME NEW id \in DOMAIN orders, CancelOrder(id)
        PROVE  FirstBook' /\ PriceTime!Next
    BY <1>1, <1>3, CancelRefines DEF PriceTime!Next
  <1>4. ASSUME NEW id \in DOMAIN orders, NEW price \in Prices,
               NEW quantity \in Quantities, ModifyOrder(id, price, quantity)
        PROVE  FirstBook' /\ PriceTime!Next
    BY <1>1, <1>4, ModifyRefines DEF PriceTime!Next
  <1>5. CASE MatchOrders
    BY <1>1, <1>5, MatchRefines DEF PriceTime!Next
  <1>6. ASSUME UNCHANGED <<orders, levels>>
        PROVE  FirstBook' /\ UNCHANGED PriceTime!ptVars
    BY <1>6 DEF FirstBook, PriceTime!ptVars, BookQueue
  <1> QED
    BY <1>2, <1>3, <1>4, <1>5, <1>6
       DEF Next, TryMatch, CancelRejected, ModifyRejected, UseAfterFree,
           MatchReturns, MatchUndefined, vars

\* Every behaviour of the book, read through the maps of its levels, is one of
\* a price-time priority book: whatever the tombstones, the head index and the
\* match flag are, try_match trades the two orders that have waited longest at
\* the best prices, and only modify_order with another price or a larger
\* quantity costs an order its place.
THEOREM Refinement == Spec => PriceTimePriority
  <1>1. Init => FirstBook /\ PriceTime!Init
    BY InitRefines
  <1>2. IInv /\ FirstBook /\ [Next]_vars
            => FirstBook' /\ [PriceTime!Next]_(PriceTime!ptVars)
    BY StepRefines
  <1> QED
    BY <1>1, <1>2, Invariance, PTL DEF Spec, PriceTimePriority, PriceTime!Spec

-----------------------------------------------------------------------------
(***************************************************************************)
(* What the book shows: the depth table                                    *)
(***************************************************************************)

\* A level holds the open orders of its side and price.
LEMMA LevelHolds ==
    ASSUME Book(orders, levels), NEW side \in OrderSide
    PROVE  /\ DOMAIN levels[side] = {p \in Prices : OpenAt(side, p) # {}}
           /\ \A p \in DOMAIN levels[side] :
                /\ LevelInv(levels[side][p], orders, side, p)
                /\ DOMAIN levels[side][p].orders_map = OpenAt(side, p)
  <1> DEFINE sl == levels[side]
  <1>1. SideInv(sl, orders, side)
    BY DEF Book
  <1>2. /\ DOMAIN sl \subseteq Prices
        /\ \A p \in DOMAIN sl : LevelInv(sl[p], orders, side, p) /\ DOMAIN sl[p].orders_map # {}
    BY <1>1 DEF SideInv, SideLevels, Empty
  <1>3. Registry(orders)
    BY DEF Book
  <1>4. \A x \in DOMAIN orders : x # 0
    BY <1>3, RegistryDomain
  <1>5. ASSUME NEW p \in DOMAIN sl PROVE DOMAIN sl[p].orders_map = OpenAt(side, p)
    <2>1. \A x \in DOMAIN sl[p].orders_map : x \in OpenAt(side, p)
      BY <1>2 DEF LevelInv, MapOK, OpenAt
    <2>2. \A x \in OpenAt(side, p) : x \in DOMAIN sl[p].orders_map
      BY <1>1, <1>4 DEF SideInv, SideQueued, OpenAt
    <2> QED BY <2>1, <2>2
  <1>6. ASSUME NEW p \in Prices, OpenAt(side, p) # {} PROVE p \in DOMAIN sl
    <2>1. PICK x : x \in OpenAt(side, p)
      BY <1>6
    <2> QED BY <1>1, <1>4, <2>1 DEF SideInv, SideQueued, OpenAt
  <1> QED BY <1>2, <1>5, <1>6

LEMMA OpenAtFinite ==
    ASSUME Registry(orders), NEW side, NEW p
    PROVE  /\ IsFiniteSet(OpenAt(side, p))
           /\ \A id \in OpenAt(side, p) : Available(orders[id]) \in Nat
  <1>1. IsFiniteSet(DOMAIN orders)
    <2>1. IsFiniteSet(1 .. Len(orders)) /\ DOMAIN orders = 1 .. Len(orders)
      BY RegistryDomain, FS_Interval
    <2> QED BY <2>1
  <1>2. IsFiniteSet(OpenAt(side, p))
    <2>1. OpenAt(side, p) \in SUBSET DOMAIN orders
      BY DEF OpenAt
    <2> QED BY <1>1, <2>1, FS_Subset
  <1>3. \A id \in DOMAIN orders : Available(orders[id]) \in Nat
    BY DEF Registry, OrderInv, Available
  <1> QED BY <1>2, <1>3 DEF OpenAt

\* What OpenDepth sums up
RestSum(os, S) == MapThenSumSet(LAMBDA id : Available(os[id]), S)

LEMMA RestSumIs ==
    ASSUME NEW os, NEW S, NEW f, \A id \in S : f[id] = Available(os[id])
    PROVE  RestSum(os, S) = Total(f, S)
  <1> DEFINE Eq(g) == g = [s \in SUBSET S |->
                        IF s = {} THEN 0
                        ELSE Available(os[Pick(s)]) + g[s \ {Pick(s)}]]
  <1>1. RestSum(os, S) = (CHOOSE g : Eq(g))[S]
    BY DEF RestSum, MapThenSumSet, MapThenFoldSet, Pick
  <1>2. \A g : Eq(g) <=> Iterates(g, f, S)
    <2>1. \A s \in SUBSET S : s # {} => f[Pick(s)] = Available(os[Pick(s)])
      BY DEF Pick
    <2> QED BY <2>1 DEF Iterates
  <1> HIDE DEF Eq
  <1>3. (CHOOSE g : Eq(g)) = (CHOOSE g : Iterates(g, f, S))
    BY <1>2
  <1> QED BY <1>1, <1>3 DEF Total

\* total_qty walks the vector.  An entry that is valid and not in the map
\* belongs to a filled order, which adds nothing.
LEMMA TotalQtyOfMap ==
    ASSUME NEW os, Registry(os), NEW side, NEW price,
           NEW level, LevelInv(level, os, side, price)
    PROVE  TotalQty(level, os) = RestSum(os, DOMAIN level.orders_map)
  <1> DEFINE e == level.order_entries
             m == level.orders_map
             D == DOMAIN m
             V == ValidEntries(level)
             R == {i \in V : e[i].order \in D /\ m[e[i].order] = i}
             f == [i \in V |-> Available(os[e[i].order])]
             g == [id \in D |-> Available(os[id])]
  <1>1. LevelWith(OrderIds, level) /\ MapOK(level, os, side, price) /\ EntriesOK(level, os)
    BY IsLevelWith DEF LevelInv
  <1>2. IsFiniteSet(V)
    BY <1>1, ValidFinite
  <1>3. \A id \in DOMAIN os : Available(os[id]) \in Nat /\ (Filled(os[id]) => Available(os[id]) = 0)
    BY DEF Registry, OrderInv, Available
  <1>4. \A id \in D : /\ id \in DOMAIN os
                      /\ m[id] \in V /\ e[m[id]].order = id
    <2> DEFINE own(id) == [order |-> id, is_valid |-> TRUE]
    <2>1. \A id \in D : /\ id \in DOMAIN os /\ m[id] \in DOMAIN e
                        /\ e[m[id]] = own(id)
      BY <1>1 DEF MapOK
    <2>2. \A id : own(id).order = id /\ own(id).is_valid
      OBVIOUS
    <2> HIDE DEF own
    <2>3. \A id \in D : e[m[id]].order = id /\ e[m[id]].is_valid
      BY <2>1, <2>2
    <2> QED BY <2>1, <2>3 DEF ValidEntries
  <1>5. \A i \in V : i \notin R => FilledIn(os, e[i].order)
    BY <1>1 DEF EntriesOK, ValidEntries
  <1> HIDE DEF V, D, e, m
  <1>6. \A i \in V : f[i] \in Nat /\ (i \notin R => f[i] = 0)
    BY <1>3, <1>4, <1>5 DEF FilledIn
  <1>7. Summable(f, V) /\ R \in SUBSET V
    BY <1>2, <1>6 DEF Summable
  <1>8. Total(f, V) = Total(f, R)
    BY <1>6, <1>7, TotalZeros
  <1>9. OneForOne(g, D, f, R, m)
    <2>1. IsFiniteSet(R)
      BY <1>2, FS_Subset
    <2>2. R = {m[id] : id \in D}
      BY <1>4
    <2>3. \A x, y \in D : m[x] = m[y] => x = y
      BY <1>4
    <2>4. \A x \in D : f[m[x]] = g[x] /\ g[x] \in Nat
      BY <1>3, <1>4
    <2>5. IsFiniteSet(D)
      <3>1. IsFiniteSet(1 .. Len(os)) /\ DOMAIN os = 1 .. Len(os)
        BY RegistryDomain, FS_Interval
      <3>2. D \in SUBSET (1 .. Len(os))
        BY <1>4, <3>1
      <3> QED BY <3>1, <3>2, FS_Subset
    <2> HIDE DEF R, f, g
    <2> QED BY <2>1, <2>2, <2>3, <2>4, <2>5 DEF OneForOne, Summable
  <1>10. TotalQty(level, os) = Total(f, V)
    <2>1. \A i \in ValidEntries(level) : f[i] = Available(os[level.order_entries[i].order])
      BY DEF V, e
    <2> HIDE DEF f
    <2> QED BY <2>1, TotalQtyIs DEF V
  <1>11. RestSum(os, D) = Total(g, D)
    <2>1. \A id \in D : g[id] = Available(os[id])
      OBVIOUS
    <2> HIDE DEF g
    <2> QED BY <2>1, RestSumIs
  <1> HIDE DEF f, g, R
  <1>12. Total(f, R) = Total(g, D)
    BY <1>9, TotalMapped
  <1> QED BY <1>8, <1>10, <1>11, <1>12 DEF D, m

\* The levels of a side in the order of its map, as a column shows them
InMapOrder(side, w) ==
    LET P == DOMAIN levels[side]
        n == Cardinality(P)
    IN  /\ n \in Nat /\ w \in [1 .. n -> P]
        /\ \A p \in P : \E i \in 1 .. n : w[i] = p
        /\ \A i, j \in 1 .. n : i < j => Better(side, w[i], w[j])
        /\ P # {} => n > 0 /\ w[1] = Best(side)

LEMMA ColumnInMapOrder ==
    ASSUME Book(orders, levels), NEW side \in OrderSide
    PROVE  \E w : /\ InMapOrder(side, w)
                  /\ Column(side) =
                        [i \in 1 .. Cardinality(DOMAIN levels[side]) |-> Cells(side, w[i])]
  <1> DEFINE P == DOMAIN levels[side]
             n == Cardinality(P)
             Sorted(s) == IsSorted(s, LAMBDA p, q : Better(side, p, q))
             w == CHOOSE s \in SetToSeqs(P) : Sorted(s)
  <1>1. P \subseteq Prices /\ P \in SUBSET Nat /\ IsFiniteSet(P)
    <2>1. P \subseteq Prices
      BY LevelHolds
    <2> QED BY <2>1, FS_Subset
  <1>2. n \in Nat
    BY <1>1, FS_CardinalityType
  <1>3. \E b \in Nat : \A p \in P : p <= b
    <2>1. CASE P = {}
      BY <2>1
    <2>2. CASE P # {}
      BY <1>1, <2>2, GreatestNat
    <2> QED BY <2>1, <2>2
  <1>4. PICK b \in Nat : \A p \in P : p <= b
    BY <1>3
  <1>5. P # {} => Best(side) \in P /\ \A p \in P :
            IF side = "BUY" THEN p <= Best(side) ELSE Best(side) <= p
    BY <1>1, BestIsLevel, BestBounds
  <1> DEFINE m == [p \in P |-> IF side = "BUY" THEN b - p ELSE p]
  <1>6. Column(side) = [i \in DOMAIN w |-> Cells(side, w[i])]
    BY DEF Column
  <1>7. \A s \in SetToSeqs(P) :
            s \in [1 .. n -> P] /\ Len(s) = n
    <2>1. \A s \in SetToSeqs(P) : s \in [1 .. n -> P]
      BY DEF SetToSeqs
    <2> HIDE DEF n, P
    <2> QED BY <1>2, <2>1
  <1>8. Places(P, m)
    <2>1. \A p \in P : m[p] \in Nat
      BY <1>1, <1>4
    <2>2. \A p, q \in P : p # q => m[p] # m[q]
      BY <1>1, <1>4
    <2> QED BY <1>1, <2>1, <2>2 DEF Places
  <1>9. \A p, q \in P : Better(side, p, q) <=> m[p] < m[q]
    BY <1>1, <1>4 DEF Better
  <1>10. P # {} => FirstOf(P, m, Best(side))
    BY <1>1, <1>4, <1>5 DEF FirstOf
  <1> HIDE DEF m, P, n
  <1>11. \A s \in SetToSeqs(P) : Sorted(s) <=> Increasing(s, m)
    BY <1>7, <1>9 DEF IsSorted, Increasing
  <1> HIDE DEF Sorted
  <1>12. w \in SetToSeqs(P) /\ Increasing(w, m)
    BY <1>8, <1>11, SeqsListing
  <1>13. Lists(w, P, m)
    BY <1>8, <1>12, SeqsListing
  <1> HIDE DEF w
  <1>14. w \in [1 .. n -> P] /\ DOMAIN w = 1 .. n
    BY <1>7, <1>12
  <1>15. P # {} => n > 0 /\ w[1] = Best(side)
    <2> SUFFICES ASSUME P # {} PROVE n > 0 /\ w[1] = Best(side)
      OBVIOUS
    <2>1. \A j \in DOMAIN w : w[j] = Best(side) <=> j = 1
      BY <1>8, <1>10, <1>13, HeadIsFirst
    <2>2. \E j \in DOMAIN w : w[j] = Best(side)
      BY <1>5, <1>13 DEF Lists
    <2> QED BY <1>2, <1>14, <2>1, <2>2
  <1>16. InMapOrder(side, w)
    <2>1. \A p \in P : \E i \in 1 .. n : w[i] = p
      BY <1>13, <1>14 DEF Lists
    <2>2. \A i, j \in 1 .. n : i < j => Better(side, w[i], w[j])
      BY <1>9, <1>12, <1>14 DEF Increasing
    <2> QED BY <1>2, <1>14, <1>15, <2>1, <2>2 DEF InMapOrder, P, n
  <1> QED BY <1>6, <1>14, <1>16 DEF P, n

\* A level's cells show its open orders.
LEMMA CellsShowOpen ==
    ASSUME Book(orders, levels), NEW side \in OrderSide, NEW p \in DOMAIN levels[side]
    PROVE  Cells(side, p) =
            [price |-> p, size |-> Cardinality(OpenAt(side, p)),
             total_qty |-> RestSum(orders, OpenAt(side, p))]
  <1>1. /\ LevelInv(levels[side][p], orders, side, p)
        /\ DOMAIN levels[side][p].orders_map = OpenAt(side, p)
    BY LevelHolds
  <1>2. Registry(orders)
    BY DEF Book
  <1>3. TotalQty(levels[side][p], orders) = RestSum(orders, OpenAt(side, p))
    BY <1>1, <1>2, TotalQtyOfMap
  <1>4. Size(levels[side][p]) = Cardinality(OpenAt(side, p))
    BY <1>1 DEF Size
  <1> QED BY <1>3, <1>4 DEF Cells

LEMMA OpenDepthIsCells ==
    ASSUME Book(orders, levels), NEW side \in OrderSide
    PROVE  /\ OpenDepth(side) = {Cells(side, p) : p \in DOMAIN levels[side]}
           /\ Cardinality(OpenDepth(side)) = Cardinality(DOMAIN levels[side])
  <1> DEFINE P == DOMAIN levels[side]
             C == {Cells(side, p) : p \in P}
             f == [p \in P |-> Cells(side, p)]
  <1>1. OpenDepth(side) = C
    <2>1. OpenDepth(side) =
            {[price |-> p, size |-> Cardinality(OpenAt(side, p)),
              total_qty |-> RestSum(orders, OpenAt(side, p))] : p \in P}
      BY LevelHolds DEF OpenDepth, RestSum
    <2> QED BY <2>1, CellsShowOpen
  <1>2. \A p \in P : Cells(side, p).price = p
    BY DEF Cells
  <1>3. f \in Bijection(P, C)
    <2>1. f \in [P -> C]
      OBVIOUS
    <2>2. \A p, q \in P : f[p] = f[q] => p = q
      BY <1>2
    <2>3. \A c \in C : \E p \in P : f[p] = c
      OBVIOUS
    <2> HIDE DEF f, C
    <2> QED BY <2>1, <2>2, <2>3 DEF Bijection, Injection, Surjection, IsInjective
  <1>4. IsFiniteSet(P)
    <2>1. P \subseteq Prices
      BY LevelHolds
    <2> QED BY <2>1, FS_Subset
  <1>5. Cardinality(C) = Cardinality(P)
    <2>1. ExistsBijection(P, C)
      BY <1>3 DEF ExistsBijection
    <2> HIDE DEF P, C
    <2> QED BY <1>4, <2>1, FS_Bijection
  <1> QED BY <1>1, <1>5

\* The rows on one side: its column, then blanks.
LEMMA RowsOfSide ==
    ASSUME Book(orders, levels), NEW side \in OrderSide
    PROVE  \E N \in Nat :
            /\ DOMAIN Rows = 1 .. N /\ Cardinality(DOMAIN levels[side]) <= N
            /\ \A i \in 1 .. N :
                Rows[i][side] = IF i <= Cardinality(DOMAIN levels[side])
                                THEN Column(side)[i] ELSE Blank
  <1> DEFINE column == [s \in OrderSide |-> Column(s)]
             L == {Len(column[s]) : s \in OrderSide}
             N == Max(L)
  <1>1. ASSUME NEW s \in OrderSide
        PROVE  /\ Len(column[s]) = Cardinality(DOMAIN levels[s])
               /\ Cardinality(DOMAIN levels[s]) \in Nat
    <2>1. PICK w : /\ InMapOrder(s, w)
                   /\ Column(s) =
                        [i \in 1 .. Cardinality(DOMAIN levels[s]) |-> Cells(s, w[i])]
      BY ColumnInMapOrder
    <2>2. Cardinality(DOMAIN levels[s]) \in Nat
      BY <2>1 DEF InMapOrder
    <2> DEFINE n == Cardinality(DOMAIN levels[s])
               c == [i \in 1 .. n |-> Cells(s, w[i])]
    <2> HIDE DEF n
    <2>3. Len(c) = n
      BY <2>2 DEF n
    <2> QED BY <2>1, <2>2, <2>3 DEF n
  <1>2. Rows = [i \in 1 .. N |->
                    [s \in OrderSide |->
                        IF i <= Len(column[s]) THEN column[s][i] ELSE Blank]]
    BY DEF Rows
  <1>3. N \in L /\ \A x \in L : N >= x
    <2>1. L = {Len(column["BUY"]), Len(column["SELL"])}
      BY DEF OrderSide
    <2>2. Len(column["BUY"]) \in Nat /\ Len(column["SELL"]) \in Nat
      BY <1>1 DEF OrderSide
    <2> DEFINE a == Len(column["BUY"])
               b == Len(column["SELL"])
    <2> HIDE DEF L, column
    <2>3. \E x \in L : \A y \in L : x >= y
      <3>1. L = {a, b} /\ a \in Nat /\ b \in Nat
        BY <2>1, <2>2
      <3> HIDE DEF a, b
      <3>2. CASE a >= b
        BY <3>1, <3>2
      <3>3. CASE b >= a
        BY <3>1, <3>3
      <3> QED BY <3>1, <3>2, <3>3
    <2> QED BY <2>3 DEF Max
  <1>4. N \in Nat /\ Len(column[side]) <= N
    <2>1. \A x \in L : x \in Nat
      BY <1>1
    <2>2. Len(column[side]) \in L
      OBVIOUS
    <2> HIDE DEF L
    <2> QED BY <1>3, <2>1, <2>2
  <1> HIDE DEF N
  <1>5. ASSUME NEW i \in 1 .. N
        PROVE  Rows[i][side] = IF i <= Len(column[side]) THEN column[side][i] ELSE Blank
    BY <1>2
  <1>6. column[side] = Column(side)
    OBVIOUS
  <1>7. DOMAIN Rows = 1 .. N
    BY <1>2
  <1> HIDE DEF column
  <1>8. Len(column[side]) = Cardinality(DOMAIN levels[side])
    BY <1>1
  <1> QED BY <1>4, <1>5, <1>6, <1>7, <1>8

LEMMA TotalOrdersIs ==
    ASSUME NEW side, NEW f,
           \A p \in DOMAIN levels[side] : f[p] = Size(levels[side][p])
    PROVE  TotalOrders(side) = Total(f, DOMAIN levels[side])
  <1> DEFINE S == DOMAIN levels[side]
             Eq(g) == g = [s \in SUBSET S |->
                        IF s = {} THEN 0
                        ELSE Size(levels[side][Pick(s)]) + g[s \ {Pick(s)}]]
  <1>1. TotalOrders(side) = (CHOOSE g : Eq(g))[S]
    BY DEF TotalOrders, MapThenSumSet, MapThenFoldSet, Pick
  <1>2. \A g : Eq(g) <=> Iterates(g, f, S)
    <2>1. \A s \in SUBSET S : s # {} => f[Pick(s)] = Size(levels[side][Pick(s)])
      BY DEF Pick
    <2> QED BY <2>1 DEF Iterates
  <1> HIDE DEF Eq
  <1>3. (CHOOSE g : Eq(g)) = (CHOOSE g : Iterates(g, f, S))
    BY <1>2
  <1> QED BY <1>1, <1>3 DEF Total

OpenOn(side) == {id \in DOMAIN orders : orders[id].side = side /\ Open(orders[id])}

\* Adding up the sizes of the levels counts every open order once.
LEMMA TotalOrdersCounts ==
    ASSUME Book(orders, levels), NEW side \in OrderSide
    PROVE  TotalOrders(side) = Cardinality(OpenOn(side)) /\ IsFiniteSet(OpenOn(side))
  <1> DEFINE P == DOMAIN levels[side]
             M == [p \in P |-> OpenAt(side, p)]
             f == [p \in P |-> Cardinality(M[p])]
             U == UNION {M[p] : p \in P}
  <1>1. P = {p \in Prices : OpenAt(side, p) # {}}
    BY LevelHolds
  <1>2. Registry(orders)
    BY DEF Book
  <1>3. Apart(M, P)
    <2>1. IsFiniteSet(P)
      <3>1. P \in SUBSET Prices
        BY <1>1
      <3> QED BY <3>1, FS_Subset
    <2>2. \A p \in P : IsFiniteSet(M[p])
      BY <1>2, OpenAtFinite
    <2>3. \A p, q \in P : p # q => M[p] \cap M[q] = {}
      BY DEF OpenAt
    <2> HIDE DEF M, P
    <2> QED BY <2>1, <2>2, <2>3 DEF Apart
  <1>4. U = OpenOn(side)
    <2>1. ASSUME NEW id \in OpenOn(side) PROVE id \in U
      <3> DEFINE p == orders[id].price
      <3>1. id \in OpenAt(side, p)
        BY DEF OpenAt, OpenOn
      <3>2. p \in Prices
        BY <1>2 DEF Registry, OrderInv, OpenOn
      <3>3. p \in P /\ id \in M[p]
        BY <1>1, <3>1, <3>2
      <3> HIDE DEF p, M, P
      <3> QED BY <3>3
    <2>2. ASSUME NEW id \in U PROVE id \in OpenOn(side)
      BY DEF OpenAt, OpenOn
    <2> HIDE DEF U
    <2> QED BY <2>1, <2>2
  <1>5. \A p \in P : f[p] = Cardinality(M[p]) /\ f[p] = Size(levels[side][p])
    BY LevelHolds DEF Size
  <1> HIDE DEF f, M, P, U
  <1>6. Total(f, P) = Cardinality(UNION {M[p] : p \in P}) /\ IsFiniteSet(UNION {M[p] : p \in P})
    BY <1>3, <1>5, TotalCardinality
  <1>7. TotalOrders(side) = Total(f, P)
    <2>1. \A p \in DOMAIN levels[side] : f[p] = Size(levels[side][p])
      BY <1>5 DEF P
    <2> QED BY <2>1, TotalOrdersIs DEF P
  <1> QED BY <1>4, <1>6, <1>7 DEF U

LEMMA DepthOfSide ==
    ASSUME Book(orders, levels), NEW side \in OrderSide
    PROVE  LET rows == Rows
               open == OpenDepth(side)
               shown == {i \in DOMAIN rows : rows[i][side] # Blank}
           IN  /\ shown = 1 .. Cardinality(open)
               /\ {rows[i][side] : i \in shown} = open
               /\ \A i, j \in shown :
                    i < j => Better(side, rows[i][side].price, rows[j][side].price)
  <1> DEFINE rows == Rows
             open == OpenDepth(side)
             shown == {i \in DOMAIN rows : rows[i][side] # Blank}
             P == DOMAIN levels[side]
             n == Cardinality(P)
  <1>1. PICK w : InMapOrder(side, w) /\ Column(side) = [i \in 1 .. n |-> Cells(side, w[i])]
    BY ColumnInMapOrder
  <1>2. /\ n \in Nat /\ w \in [1 .. n -> P]
        /\ \A p \in P : \E i \in 1 .. n : w[i] = p
        /\ \A i, j \in 1 .. n : i < j => Better(side, w[i], w[j])
        /\ P # {} => n > 0 /\ w[1] = Best(side)
    BY <1>1 DEF InMapOrder
  <1>3. PICK N \in Nat :
            /\ DOMAIN rows = 1 .. N /\ n <= N
            /\ \A i \in 1 .. N : rows[i][side] = IF i <= n THEN Column(side)[i] ELSE Blank
    BY RowsOfSide
  <1>4. open = {Cells(side, p) : p \in P} /\ Cardinality(open) = n
    BY OpenDepthIsCells
  <1>5. \A p \in P : Cells(side, p).price = p /\ Cells(side, p) # Blank
    <2>1. \A p \in P : p \in Nat
      BY LevelHolds
    <2>2. \A p \in P : Cells(side, p).price = p
      BY DEF Cells
    <2>3. Blank.price = -1
      BY DEF Blank
    <2> QED BY <2>1, <2>2, <2>3
  <1> HIDE DEF rows, open, n, P
  <1>7. \A i \in 1 .. n : /\ i \in 1 .. N /\ w[i] \in P
                          /\ rows[i][side] = Cells(side, w[i])
    BY <1>1, <1>2, <1>3
  <1>8. shown = 1 .. n
    <2>1. ASSUME NEW i \in 1 .. N, ~ (i <= n) PROVE rows[i][side] = Blank
      BY <1>3, <2>1
    <2>2. ASSUME NEW i \in 1 .. n PROVE rows[i][side] # Blank
      BY <1>5, <1>7
    <2>3. \A i \in 1 .. N : i <= n <=> i \in 1 .. n
      BY <1>2
    <2> QED BY <1>3, <1>7, <2>1, <2>2, <2>3
  <1>9. {rows[i][side] : i \in 1 .. n} = open
    <2>1. \A c \in open : \E i \in 1 .. n : rows[i][side] = c
      BY <1>2, <1>4, <1>7
    <2>2. \A i \in 1 .. n : rows[i][side] \in open
      BY <1>4, <1>7
    <2> QED BY <2>1, <2>2
  <1>10. \A i, j \in 1 .. n : i < j => Better(side, rows[i][side].price, rows[j][side].price)
    BY <1>2, <1>5, <1>7
  <1> HIDE DEF shown
  <1> QED BY <1>4, <1>8, <1>9, <1>10 DEF rows, open, shown

\* get_best_bid and get_best_ask
LEMMA BestOfSide ==
    ASSUME Book(orders, levels), NEW side \in OrderSide
    PROVE  LET prices == {p \in Prices : OpenAt(side, p) # {}}
           IN  IF prices = {}
               THEN GetBest(side) = -1
               ELSE /\ GetBest(side) \in prices
                    /\ \A p \in prices : ~ Better(side, p, GetBest(side))
  <1> DEFINE P == DOMAIN levels[side]
  <1>1. P = {p \in Prices : OpenAt(side, p) # {}} /\ P \subseteq Prices
    BY LevelHolds
  <1>2. CASE P = {}
    BY <1>1, <1>2 DEF GetBest
  <1>3. CASE P # {}
    <2>1. GetBest(side) = Best(side) /\ Best(side) \in P
      BY <1>1, <1>3, BestIsLevel DEF GetBest
    <2>2. ASSUME NEW p \in P PROVE ~ Better(side, p, Best(side))
      <3>1. IF side = "BUY" THEN p <= Best(side) ELSE Best(side) <= p
        BY <1>1, BestBounds
      <3>2. p \in Nat /\ Best(side) \in Nat
        BY <1>1, <2>1
      <3> QED BY <3>1, <3>2 DEF Better
    <2> HIDE DEF P
    <2> QED BY <1>1, <1>3, <2>1, <2>2
  <1> QED BY <1>2, <1>3

LEMMA IInvDepth == IInv => DepthMatchesOpenOrders
  <1> SUFFICES ASSUME IInv PROVE DepthMatchesOpenOrders
    OBVIOUS
  <1>1. Book(orders, levels)
    BY DEF IInv
  <1>2. ASSUME Len(orders) <= PoolReserve PROVE PrintFault = "none"
    <2>1. stale = {}
      BY <1>2 DEF IInv, PoolInv
    <2> QED BY <2>1 DEF PrintFault
  <1>3. \A side \in OrderSide :
            TotalOrders(side) = Cardinality({id \in DOMAIN orders :
                                    orders[id].side = side /\ Open(orders[id])})
    BY <1>1, TotalOrdersCounts DEF OpenOn
  <1> QED BY <1>1, <1>2, <1>3, DepthOfSide, BestOfSide DEF DepthMatchesOpenOrders

\* get_best_bid, get_best_ask and the totals of open orders show the registry's
\* open orders, for every set of prices and quantities and any number of orders
\* and entries, and so does operator<< as long as the pool has moved none of the
\* orders it prints, at least until PoolReserve orders were added: the valid
\* entries that modify_order can leave behind belong to filled orders, which add
\* nothing to total_qty.
THEOREM DepthIsTrue == Spec => []DepthMatchesOpenOrders
  BY Invariance, IInvDepth, PTL

-----------------------------------------------------------------------------
(***************************************************************************)
(* The main programs' order streams                                        *)
(***************************************************************************)

\* Nothing in the streams is outside of the sets of prices and quantities.
StreamsWithinSets ==
    \A i \in Nat : \A cmd \in {InsertCommand(i), MatchCommand(i)} :
        cmd.price \in Prices /\ cmd.quantity \in Quantities

OpenIn(os, side) == {id \in DOMAIN os : os[id].side = side /\ Open(os[id])}
OpenInAt(os, side, price) == {id \in OpenIn(os, side) : os[id].price = price}

\* bench_insert: bids below 100.00, asks above it
InsertOrder(o) == IF o.side = "BUY" THEN o.price < 10000 ELSE o.price > 10000

\* bench_match20: bids up to 10.00, asks at 10.00 or from 11.00 on, all of the
\* same quantity
MatchOrder(o) ==
    /\ o.quantity = 1000 /\ (Open(o) => o.quantity_filled = 0)
    /\ IF o.side = "BUY" THEN o.price <= 1000 ELSE o.price = 1000 \/ o.price >= 1100

\* The n orders of a book are its r full rounds of ten and k orders of the next
\* one.  It is its turn to get orders when the round is not full.
InTurn ==
    Len(orders) % 10 =
        IF (next \div 10 + 1) % 5 = instrument THEN next % 10 ELSE 0

\* The bid and the ask at 10.00 are the fifth and the sixth of a round: each is
\* there until the trade of the round, in which both are filled.
Rounds(os, n, r, k, t) ==
    /\ \A id \in DOMAIN os : MatchOrder(os[id])
    /\ k <= 5 => t = 0
    /\ k = 6 => t \in {0, 1}
    /\ k >= 7 => t = 1
    /\ Cardinality(OpenIn(os, "BUY")) = 4 * r + IF k <= 5 THEN k ELSE 5 - t
    /\ Cardinality(OpenIn(os, "SELL")) = 4 * r + IF k <= 5 THEN 0 ELSE (k - 5) - t
    /\ OpenInAt(os, "BUY", 1000) =
            IF k = 5 THEN {n} ELSE IF k = 6 /\ t = 0 THEN {n - 1} ELSE {}
    /\ OpenInAt(os, "SELL", 1000) = IF k = 6 /\ t = 0 THEN {n} ELSE {}

MatchInv20 ==
    LET n == Len(orders)
        r == n \div 10
        k == n % 10
        t == trades_completed - r
    IN  /\ Rounds(orders, n, r, k, t)
        /\ k = 6 /\ t = 0 => pc = "match" /\ try_match_flag

BenchInv ==
    /\ IInv /\ TightBook
    /\ program \in {"insert", "match20"} /\ next \in Nat /\ instrument \in Nat
    /\ program = "insert" =>
        trades_completed = 0 /\ \A id \in DOMAIN orders : InsertOrder(orders[id])
    /\ program = "match20" => InTurn /\ MatchInv20

\* Counting in rounds of ten
LEMMA TenMore ==
    ASSUME NEW n \in Nat
    PROVE  /\ n \div 10 \in Nat /\ n % 10 \in 0 .. 9
           /\ n % 10 < 9 => (n + 1) \div 10 = n \div 10 /\ (n + 1) % 10 = (n % 10) + 1
           /\ n % 10 = 9 => (n + 1) \div 10 = n \div 10 + 1 /\ (n + 1) % 10 = 0
  OBVIOUS

LEMMA NextInTurn ==
    ASSUME NEW i \in Nat, NEW n \in Nat, NEW instr \in Nat, NEW n2 \in Nat,
           n % 10 = IF (i \div 10 + 1) % 5 = instr THEN i % 10 ELSE 0,
           n2 = IF (i \div 10 + 1) % 5 = instr THEN n + 1 ELSE n
    PROVE  n2 % 10 = IF ((i + 1) \div 10 + 1) % 5 = instr THEN (i + 1) % 10 ELSE 0
  <1> DEFINE b == i \div 10
  <1>1. b \in Nat /\ i % 10 \in 0 .. 9
    BY TenMore
  <1>2. CASE i % 10 < 9
    <2>1. (i + 1) \div 10 = b /\ (i + 1) % 10 = (i % 10) + 1
      BY <1>2, TenMore
    <2>2. CASE (b + 1) % 5 = instr
      <3>1. n % 10 = i % 10 /\ n2 = n + 1
        BY <2>2
      <3>2. (n + 1) % 10 = (n % 10) + 1
        BY <1>2, <3>1, TenMore
      <3> QED BY <2>1, <2>2, <3>1, <3>2
    <2>3. CASE (b + 1) % 5 # instr
      BY <2>1, <2>3
    <2> QED BY <2>2, <2>3
  <1>3. CASE i % 10 = 9
    <2>1. (i + 1) \div 10 = b + 1 /\ (i + 1) % 10 = 0
      BY <1>3, TenMore
    <2>2. n2 % 10 = 0
      <3>1. CASE (b + 1) % 5 = instr
        BY <1>3, <3>1, TenMore
      <3>2. CASE (b + 1) % 5 # instr
        BY <3>2
      <3> QED BY <3>1, <3>2
    <2> QED BY <2>1, <2>2
  <1> QED BY <1>1, <1>2, <1>3

\* The registry with one more order, which is open.
OneMoreOpen(os, os2, n, o) ==
    /\ n \in Nat /\ DOMAIN os = 1 .. n /\ DOMAIN os2 = 1 .. (n + 1)
    /\ os2[n + 1] = o /\ Open(o)
    /\ \A id \in 1 .. n : os2[id] = os[id]

LEMMA OneMoreSets ==
    ASSUME NEW os, NEW os2, NEW n, NEW o, OneMoreOpen(os, os2, n, o), NEW side, NEW price
    PROVE  /\ OpenIn(os2, side) =
                IF side = o.side THEN OpenIn(os, side) \cup {n + 1} ELSE OpenIn(os, side)
           /\ OpenInAt(os2, side, price) =
                IF side = o.side /\ price = o.price
                THEN OpenInAt(os, side, price) \cup {n + 1} ELSE OpenInAt(os, side, price)
           /\ Cardinality(OpenIn(os2, side)) =
                Cardinality(OpenIn(os, side)) + IF side = o.side THEN 1 ELSE 0
           /\ Cardinality(OpenIn(os, side)) \in Nat
  <1>1. /\ n \in Nat /\ DOMAIN os = 1 .. n /\ DOMAIN os2 = 1 .. (n + 1)
        /\ os2[n + 1] = o /\ Open(o)
        /\ \A id \in 1 .. n : os2[id] = os[id]
    BY DEF OneMoreOpen
  <1>2. \A id : id \in 1 .. (n + 1) <=> id \in 1 .. n \/ id = n + 1
    BY <1>1
  <1>3. n + 1 \notin 1 .. n
    BY <1>1
  <1>4. OpenIn(os2, side) =
            IF side = o.side THEN OpenIn(os, side) \cup {n + 1} ELSE OpenIn(os, side)
    BY <1>1, <1>2, <1>3 DEF OpenIn
  <1>5. OpenInAt(os2, side, price) =
            IF side = o.side /\ price = o.price
            THEN OpenInAt(os, side, price) \cup {n + 1} ELSE OpenInAt(os, side, price)
    BY <1>1, <1>2, <1>3 DEF OpenInAt, OpenIn
  <1>6. IsFiniteSet(OpenIn(os, side)) /\ n + 1 \notin OpenIn(os, side)
    <2>1. IsFiniteSet(1 .. n)
      BY <1>1, FS_Interval
    <2>2. OpenIn(os, side) \in SUBSET (1 .. n)
      BY <1>1 DEF OpenIn
    <2> QED BY <1>3, <2>1, <2>2, FS_Subset
  <1>7. Cardinality(OpenIn(os, side) \cup {n + 1}) = Cardinality(OpenIn(os, side)) + 1
    BY <1>6, FS_AddElement
  <1>8. Cardinality(OpenIn(os, side)) \in Nat
    BY <1>6, FS_CardinalityType
  <1> QED BY <1>4, <1>5, <1>7, <1>8

\* The order that a round gets next.
RoundOrder(o, k) ==
    /\ o.quantity = 1000 /\ o.quantity_filled = 0
    /\ o.side = IF k < 5 THEN "BUY" ELSE "SELL"
    /\ o.price = IF k < 5 THEN 600 + 100 * k ELSE 500 + 100 * k

LEMMA AddRounds ==
    ASSUME NEW os, NEW n \in Nat, NEW r \in Nat, NEW k \in 0 .. 9, NEW t \in Int,
           Rounds(os, n, r, k, t), ~ (k = 6 /\ t = 0),
           NEW os2, NEW o, OneMoreOpen(os, os2, n, o), RoundOrder(o, k),
           NEW r2, NEW k2, NEW t2,
           k < 9 => r2 = r /\ k2 = k + 1 /\ t2 = t,
           k = 9 => r2 = r + 1 /\ k2 = 0 /\ t2 = t - 1
    PROVE  Rounds(os2, n + 1, r2, k2, t2)
  <1>1. \A id \in DOMAIN os2 : MatchOrder(os2[id])
    <2>1. MatchOrder(o)
      BY DEF RoundOrder, MatchOrder
    <2>2. ASSUME NEW id \in DOMAIN os2 PROVE os2[id] = o \/ (id \in DOMAIN os /\ os2[id] = os[id])
      BY DEF OneMoreOpen
    <2> QED BY <2>1, <2>2 DEF Rounds
  <1> DEFINE b == Cardinality(OpenIn(os, "BUY"))
             s == Cardinality(OpenIn(os, "SELL"))
             b2 == Cardinality(OpenIn(os2, "BUY"))
             s2 == Cardinality(OpenIn(os2, "SELL"))
             bs == OpenInAt(os, "BUY", 1000)
             ss == OpenInAt(os, "SELL", 1000)
             bs2 == OpenInAt(os2, "BUY", 1000)
             ss2 == OpenInAt(os2, "SELL", 1000)
  <1>2. /\ b2 = b + IF "BUY" = o.side THEN 1 ELSE 0
        /\ s2 = s + IF "SELL" = o.side THEN 1 ELSE 0
        /\ b \in Nat /\ s \in Nat
    BY OneMoreSets
  <1>3. /\ bs2 = IF "BUY" = o.side /\ 1000 = o.price THEN bs \cup {n + 1} ELSE bs
        /\ ss2 = IF "SELL" = o.side /\ 1000 = o.price THEN ss \cup {n + 1} ELSE ss
    BY OneMoreSets
  <1>4. /\ k <= 5 => t = 0
        /\ k >= 6 => t = 1
        /\ b = 4 * r + IF k <= 5 THEN k ELSE 5 - t
        /\ s = 4 * r + IF k <= 5 THEN 0 ELSE (k - 5) - t
        /\ bs = IF k = 5 THEN {n} ELSE IF k = 6 /\ t = 0 THEN {n - 1} ELSE {}
        /\ ss = IF k = 6 /\ t = 0 THEN {n} ELSE {}
    BY DEF Rounds
  <1>5. /\ o.side = IF k < 5 THEN "BUY" ELSE "SELL"
        /\ o.price = IF k < 5 THEN 600 + 100 * k ELSE 500 + 100 * k
    BY DEF RoundOrder
  <1> HIDE DEF b, s, b2, s2, bs, ss, bs2, ss2
  <1>6. /\ k2 <= 5 => t2 = 0
        /\ k2 = 6 => t2 = 0
        /\ k2 >= 7 => t2 = 1
        /\ k2 \in 0 .. 9
    BY <1>4
  <1>7. /\ b2 = 4 * r2 + IF k2 <= 5 THEN k2 ELSE 5 - t2
        /\ s2 = 4 * r2 + IF k2 <= 5 THEN 0 ELSE (k2 - 5) - t2
    <2>1. CASE k < 5
      BY <1>2, <1>4, <1>5, <2>1
    <2>2. CASE k >= 5 /\ k < 9
      BY <1>2, <1>4, <1>5, <2>2
    <2>3. CASE k = 9
      BY <1>2, <1>4, <1>5, <2>3
    <2> QED BY <2>1, <2>2, <2>3
  <1>8. /\ bs2 = IF k2 = 5 THEN {n + 1} ELSE IF k2 = 6 /\ t2 = 0 THEN {(n + 1) - 1} ELSE {}
        /\ ss2 = IF k2 = 6 /\ t2 = 0 THEN {n + 1} ELSE {}
    <2>1. CASE k < 4
      BY <1>3, <1>4, <1>5, <2>1
    <2>2. CASE k = 4
      BY <1>3, <1>4, <1>5, <2>2
    <2>3. CASE k = 5
      <3>1. (n + 1) - 1 = n
        OBVIOUS
      <3> QED BY <1>3, <1>4, <1>5, <2>3, <3>1
    <2>4. CASE k >= 6
      BY <1>3, <1>4, <1>5, <1>6, <2>4
    <2> QED BY <2>1, <2>2, <2>3, <2>4
  <1> QED BY <1>1, <1>6, <1>7, <1>8 DEF Rounds, b2, s2, bs2, ss2

\* The trade of a round: the bid and the ask at 10.00 are closed.
TradeOfRound(os, os2, n) ==
    /\ DOMAIN os = 1 .. n /\ DOMAIN os2 = DOMAIN os
    /\ \A id \in {n - 1, n} :
        /\ ~ Open(os2[id]) /\ os2[id].quantity = os[id].quantity
        /\ os2[id].side = os[id].side /\ os2[id].price = os[id].price
    /\ \A id \in DOMAIN os \ {n - 1, n} : os2[id] = os[id]

LEMMA TradeRounds ==
    ASSUME NEW os, NEW n \in Nat, NEW r \in Nat, Rounds(os, n, r, 6, 0),
           NEW os2, TradeOfRound(os, os2, n)
    PROVE  Rounds(os2, n, r, 6, 1)
  <1> DEFINE B == OpenIn(os, "BUY")
             S == OpenIn(os, "SELL")
  <1>1. /\ OpenInAt(os, "BUY", 1000) = {n - 1} /\ OpenInAt(os, "SELL", 1000) = {n}
        /\ Cardinality(B) = 4 * r + 5 /\ Cardinality(S) = 4 * r + 1
        /\ \A id \in DOMAIN os : MatchOrder(os[id])
    BY DEF Rounds
  <1>2. /\ n - 1 \in B /\ os[n - 1].side = "BUY" /\ os[n - 1].price = 1000
        /\ n \in S /\ os[n].side = "SELL" /\ os[n].price = 1000
    BY <1>1 DEF OpenInAt, OpenIn
  <1>3. "BUY" # "SELL"
    OBVIOUS
  <1>4. n - 1 \notin S /\ n \notin B
    BY <1>2, <1>3 DEF OpenIn
  <1>5. n - 1 \in DOMAIN os /\ n \in DOMAIN os
    BY <1>2 DEF OpenIn
  <1>6. OpenIn(os2, "BUY") = B \ {n - 1}
    BY <1>2, <1>4, <1>5 DEF TradeOfRound, OpenIn
  <1>7. OpenIn(os2, "SELL") = S \ {n}
    BY <1>2, <1>4, <1>5 DEF TradeOfRound, OpenIn
  <1>8. IsFiniteSet(B) /\ IsFiniteSet(S)
    <2>1. IsFiniteSet(1 .. n)
      BY FS_Interval
    <2>2. B \in SUBSET (1 .. n) /\ S \in SUBSET (1 .. n)
      BY DEF OpenIn, TradeOfRound
    <2> QED BY <2>1, <2>2, FS_Subset
  <1>9. Cardinality(B \ {n - 1}) = 4 * r + 4 /\ Cardinality(S \ {n}) = 4 * r
    <2> DEFINE x == n - 1
               y == n
    <2>1. x \in B /\ y \in S
      BY <1>2
    <2> HIDE DEF B, S, x, y
    <2>2. Cardinality(B \ {x}) = Cardinality(B) - 1
      BY <1>8, <2>1, FS_RemoveElement
    <2>3. Cardinality(S \ {y}) = Cardinality(S) - 1
      BY <1>8, <2>1, FS_RemoveElement
    <2>4. Cardinality(B \ {x}) = 4 * r + 4 /\ Cardinality(S \ {y}) = 4 * r
      BY <1>1, <2>2, <2>3
    <2> QED BY <2>4 DEF x, y
  <1>10. \A id \in DOMAIN os \ {n - 1, n} : os2[id] = os[id]
    BY DEF TradeOfRound
  <1>11. OpenInAt(os2, "BUY", 1000) = {}
    <2> SUFFICES ASSUME NEW id \in OpenInAt(os2, "BUY", 1000) PROVE FALSE
      OBVIOUS
    <2>1. id \in B /\ id # n - 1 /\ os2[id].price = 1000
      BY <1>6 DEF OpenInAt
    <2>2. id # n /\ id \in DOMAIN os
      BY <1>4, <2>1 DEF OpenIn
    <2>3. os[id].price = 1000
      BY <1>10, <2>1, <2>2
    <2> QED BY <1>1, <2>1, <2>3 DEF OpenInAt
  <1>12. OpenInAt(os2, "SELL", 1000) = {}
    <2> SUFFICES ASSUME NEW id \in OpenInAt(os2, "SELL", 1000) PROVE FALSE
      OBVIOUS
    <2>1. id \in S /\ id # n /\ os2[id].price = 1000
      BY <1>7 DEF OpenInAt
    <2>2. id # n - 1 /\ id \in DOMAIN os
      BY <1>4, <2>1 DEF OpenIn
    <2>3. os[id].price = 1000
      BY <1>10, <2>1, <2>2
    <2> QED BY <1>1, <2>1, <2>3 DEF OpenInAt
  <1>13. \A id \in DOMAIN os2 : MatchOrder(os2[id])
    <2>1. ASSUME NEW id \in {n - 1, n} PROVE MatchOrder(os2[id])
      <3>1. MatchOrder(os[id])
        BY <1>1, <1>5
      <3>2. /\ ~ Open(os2[id]) /\ os2[id].quantity = os[id].quantity
            /\ os2[id].side = os[id].side /\ os2[id].price = os[id].price
        BY DEF TradeOfRound
      <3> QED BY <3>1, <3>2 DEF MatchOrder
    <2>2. \A id \in DOMAIN os \ {n - 1, n} : MatchOrder(os2[id])
      BY <1>1, <1>10
    <2>3. DOMAIN os2 = DOMAIN os
      BY DEF TradeOfRound
    <2> QED BY <2>1, <2>2, <2>3
  <1>14. Cardinality(OpenIn(os2, "BUY")) = 4 * r + 4 /\ Cardinality(OpenIn(os2, "SELL")) = 4 * r
    BY <1>6, <1>7, <1>9
  <1> QED BY <1>11, <1>12, <1>13, <1>14 DEF Rounds

-----------------------------------------------------------------------------
\* The best price of a side is that of an open order.
LEMMA BestIsOpen ==
    ASSUME Book(orders, levels), BothSides, NEW side \in OrderSide
    PROVE  /\ OpenAt(side, Best(side)) # {}
           /\ \A id \in OpenAt(side, Best(side)) : id \in OpenInAt(orders, side, Best(side))
           /\ Best(side) \in Nat
  <1>1. Best(side) \in DOMAIN levels[side] /\ Best(side) \in Prices
    BY BestFacts
  <1>2. OpenAt(side, Best(side)) # {}
    BY <1>1, LevelHolds
  <1> QED BY <1>1, <1>2 DEF OpenAt, OpenInAt, OpenIn

\* Bids below and asks above one price do not cross.
LEMMA InsertNotCrossed ==
    ASSUME Book(orders, levels), \A id \in DOMAIN orders : InsertOrder(orders[id])
    PROVE  ~ Crossed
  <1> SUFFICES ASSUME Crossed PROVE FALSE
    OBVIOUS
  <1>1. BothSides /\ Best("BUY") >= Best("SELL") /\ "BUY" \in OrderSide /\ "SELL" \in OrderSide
    BY DEF Crossed, OrderSide
  <1>2. PICK b : b \in OpenInAt(orders, "BUY", Best("BUY"))
    BY <1>1, BestIsOpen
  <1>3. PICK s : s \in OpenInAt(orders, "SELL", Best("SELL"))
    BY <1>1, BestIsOpen
  <1>4. InsertOrder(orders[b]) /\ orders[b].side = "BUY" /\ orders[b].price = Best("BUY")
    BY <1>2 DEF OpenInAt, OpenIn
  <1>5. InsertOrder(orders[s]) /\ orders[s].side = "SELL" /\ orders[s].price = Best("SELL")
    BY <1>3 DEF OpenInAt, OpenIn
  <1>6. Best("BUY") \in Nat /\ Best("SELL") \in Nat
    BY <1>1, BestIsOpen
  <1>7. Best("BUY") < 10000 /\ Best("SELL") > 10000
    BY <1>4, <1>5 DEF InsertOrder
  <1> QED BY <1>1, <1>6, <1>7

\* A match20 book is crossed between the sixth order of a round and its trade,
\* and then at 10.00 on both sides.
LEMMA MatchCrossed ==
    ASSUME Book(orders, levels), NEW n, NEW r, NEW k, NEW t, Rounds(orders, n, r, k, t)
    PROVE  /\ Crossed <=> k = 6 /\ t = 0
           /\ Crossed => Best("BUY") = 1000 /\ Best("SELL") = 1000
  <1>1. "BUY" \in OrderSide /\ "SELL" \in OrderSide /\ \A side \in OrderSide : side \in {"BUY", "SELL"}
    BY DEF OrderSide
  <1>2. /\ \A id \in DOMAIN orders : MatchOrder(orders[id])
        /\ k = 6 /\ t = 0 => /\ OpenInAt(orders, "BUY", 1000) # {}
                             /\ OpenInAt(orders, "SELL", 1000) # {}
        /\ ~ (k = 6 /\ t = 0) => OpenInAt(orders, "SELL", 1000) = {}
    BY DEF Rounds
  <1>3. ASSUME BothSides
        PROVE  /\ Best("BUY") \in Nat /\ Best("SELL") \in Nat
               /\ Best("BUY") <= 1000
               /\ Best("SELL") = 1000 \/ Best("SELL") >= 1100
               /\ Best("SELL") = 1000 => OpenInAt(orders, "SELL", 1000) # {}
    <2>1. PICK b : b \in OpenInAt(orders, "BUY", Best("BUY"))
      BY <1>1, <1>3, BestIsOpen
    <2>2. PICK s : s \in OpenInAt(orders, "SELL", Best("SELL"))
      BY <1>1, <1>3, BestIsOpen
    <2>3. MatchOrder(orders[b]) /\ orders[b].side = "BUY" /\ orders[b].price = Best("BUY")
      BY <1>2, <2>1 DEF OpenInAt, OpenIn
    <2>4. MatchOrder(orders[s]) /\ orders[s].side = "SELL" /\ orders[s].price = Best("SELL")
      BY <1>2, <2>2 DEF OpenInAt, OpenIn
    <2>5. Best("BUY") \in Nat /\ Best("SELL") \in Nat
      BY <1>1, <1>3, BestIsOpen
    <2>6. Best("BUY") <= 1000 /\ (Best("SELL") = 1000 \/ Best("SELL") >= 1100)
      BY <2>3, <2>4 DEF MatchOrder
    <2> QED BY <2>2, <2>5, <2>6
  <1>4. ASSUME Crossed PROVE k = 6 /\ t = 0 /\ Best("BUY") = 1000 /\ Best("SELL") = 1000
    <2>1. BothSides /\ Best("BUY") >= Best("SELL")
      BY <1>4 DEF Crossed
    <2>2. Best("BUY") = 1000 /\ Best("SELL") = 1000
      BY <1>3, <2>1
    <2> QED BY <1>2, <1>3, <2>1, <2>2
  <1>5. ASSUME k = 6, t = 0 PROVE Crossed
    <2>1. ASSUME NEW side \in OrderSide PROVE 1000 \in DOMAIN levels[side]
      <3>1. PICK id : id \in OpenInAt(orders, side, 1000)
        BY <1>1, <1>2, <1>5
      <3>2. id \in DOMAIN orders /\ orders[id].price = 1000 /\ id \in OpenAt(side, 1000)
        BY <3>1 DEF OpenInAt, OpenIn, OpenAt
      <3>3. OrderInv(orders[id])
        BY <3>2 DEF Book, Registry
      <3>4. 1000 \in Prices
        BY <3>2, <3>3 DEF OrderInv
      <3> QED BY <3>2, <3>4, LevelHolds
    <2>2. BothSides
      BY <2>1 DEF BothSides
    <2>3. \A side \in OrderSide : DOMAIN levels[side] \subseteq Prices
      BY LevelHolds
    <2>4. 1000 <= Best("BUY") /\ Best("SELL") <= 1000
      BY <1>1, <2>1, <2>3, BestBounds
    <2>5. Best("BUY") \in Nat /\ Best("SELL") \in Nat
      BY <1>3, <2>2
    <2> QED BY <2>2, <2>4, <2>5 DEF Crossed
  <1> QED BY <1>4, <1>5

\* An iteration of try_match in a match20 book fills both orders.
LEMMA MatchIsTrade ==
    ASSUME Book(orders, levels), MatchOrders,
           NEW n, n = Len(orders), NEW r, NEW k, NEW t, Rounds(orders, n, r, k, t)
    PROVE  k = 6 /\ t = 0 /\ TradeOfRound(orders, orders', n)
  <1>1. /\ Crossed /\ BothSides /\ MatchFault = "none"
        /\ orders' = [id \in DOMAIN orders |->
                        IF id \in Fronts THEN Matched(id) ELSE orders[id]]
    BY DEF MatchOrders, Crossed
  <1>2. k = 6 /\ t = 0 /\ Best("BUY") = 1000 /\ Best("SELL") = 1000
    BY <1>1, MatchCrossed
  <1>3. OpenInAt(orders, "BUY", 1000) = {n - 1} /\ OpenInAt(orders, "SELL", 1000) = {n}
    BY <1>2 DEF Rounds
  <1>4. n \in Nat /\ DOMAIN orders = 1 .. n
    BY RegistryDomain DEF Book
  <1> DEFINE b == BestFront("BUY")
             s == BestFront("SELL")
  <1>5. "BUY" \in OrderSide /\ "SELL" \in OrderSide
    BY DEF OrderSide
  <1>6. /\ b \in DOMAIN orders /\ Open(orders[b]) /\ orders[b].side = "BUY"
        /\ orders[b].price = 1000
        /\ s \in DOMAIN orders /\ Open(orders[s]) /\ orders[s].side = "SELL"
        /\ orders[s].price = 1000
    BY <1>1, <1>2, <1>5, FrontsQueued, BestFacts
  <1>7. b = n - 1 /\ s = n
    BY <1>3, <1>6 DEF OpenInAt, OpenIn
  <1>8. Fronts = {n - 1, n}
    BY <1>7 DEF Fronts, OrderSide
  <1>9. \A id \in {n - 1, n} :
            /\ id \in DOMAIN orders /\ orders[id].quantity = 1000
            /\ orders[id].quantity_filled = 0 /\ OrderInv(orders[id])
    <2>1. \A id \in {n - 1, n} : id \in DOMAIN orders /\ Open(orders[id])
      BY <1>6, <1>7
    <2> QED BY <2>1 DEF Rounds, MatchOrder, Book, Registry
  <1>10. MatchQty = 1000
    <2>1. Available(orders[n - 1]) = 1000 /\ Available(orders[n]) = 1000
      BY <1>9 DEF Available
    <2>2. {Available(orders[id]) : id \in Fronts} = {1000}
      BY <1>8, <2>1
    <2> QED BY <2>2 DEF MatchQty, Min
  <1>11. ASSUME NEW id \in {n - 1, n}
         PROVE  /\ ~ Open(orders'[id]) /\ orders'[id].quantity = orders[id].quantity
                /\ orders'[id].side = orders[id].side /\ orders'[id].price = orders[id].price
    <2> DEFINE o == orders[id]
    <2>1. orders'[id] = Match(o, 1000)
      BY <1>1, <1>8, <1>9, <1>10 DEF Matched
    <2>2. o \in OrderRecord
      BY <1>9, OrderInvRecord
    <2>3. o.quantity_filled + 1000 = o.quantity
      BY <1>9
    <2> HIDE DEF o
    <2>4. /\ Match(o, 1000).status = "FULLY_FILLED" /\ Match(o, 1000).quantity = o.quantity
          /\ Match(o, 1000).side = o.side /\ Match(o, 1000).price = o.price
      BY <2>2, <2>3 DEF Match, OrderRecord
    <2> QED BY <2>1, <2>4 DEF Open, o
  <1>12. \A id \in DOMAIN orders \ {n - 1, n} : orders'[id] = orders[id]
    BY <1>1, <1>8
  <1>13. DOMAIN orders' = DOMAIN orders
    BY <1>1
  <1> QED BY <1>2, <1>4, <1>11, <1>12, <1>13 DEF TradeOfRound

-----------------------------------------------------------------------------
\* What a command of either stream asks for
LEMMA CommandFacts ==
    ASSUME StreamsWithinSets, NEW i \in Nat, program \in {"insert", "match20"}
    PROVE  /\ Command(i).side \in OrderSide /\ Command(i).price \in Prices
           /\ Command(i).quantity \in Quantities
           /\ program = "insert" =>
                IF Command(i).side = "BUY" THEN Command(i).price < 10000
                                           ELSE Command(i).price > 10000
           /\ program = "match20" =>
                /\ Command(i).instrument = (i \div 10 + 1) % 5
                /\ Command(i).quantity = 1000
                /\ Command(i).side = IF i % 10 < 5 THEN "BUY" ELSE "SELL"
                /\ Command(i).price = IF i % 10 < 5 THEN 600 + 100 * (i % 10)
                                                    ELSE 500 + 100 * (i % 10)
  <1>1. /\ InsertCommand(i).price \in Prices /\ InsertCommand(i).quantity \in Quantities
        /\ MatchCommand(i).price \in Prices /\ MatchCommand(i).quantity \in Quantities
    BY DEF StreamsWithinSets
  <1>2. /\ InsertCommand(i).side \in OrderSide
        /\ IF InsertCommand(i).side = "BUY" THEN InsertCommand(i).price < 10000
                                            ELSE InsertCommand(i).price > 10000
    <2>1. i % 5 \in 0 .. 4
      OBVIOUS
    <2> QED BY <2>1 DEF InsertCommand, OrderSide
  <1>3. /\ MatchCommand(i).side \in OrderSide
        /\ MatchCommand(i).instrument = (i \div 10 + 1) % 5
        /\ MatchCommand(i).quantity = 1000
        /\ MatchCommand(i).side = IF i % 10 < 5 THEN "BUY" ELSE "SELL"
        /\ MatchCommand(i).price = IF i % 10 < 5 THEN 600 + 100 * (i % 10)
                                                 ELSE 500 + 100 * (i % 10)
    BY DEF MatchCommand, NumInstruments, OrderSide
  <1>4. CASE program = "insert"
    <2>1. Command(i) = InsertCommand(i)
      BY <1>4 DEF Command
    <2> QED BY <1>1, <1>2, <1>4, <2>1
  <1>5. CASE program = "match20"
    <2>1. Command(i) = MatchCommand(i)
      BY <1>5 DEF Command
    <2> QED BY <1>1, <1>3, <1>5, <2>1
  <1> QED BY <1>4, <1>5

\* The order that a command adds
NewOrder(cmd) == CopyFromClient(cmd.side, cmd.price, cmd.quantity)

\* A command that is this book's
Taken(cmd) == AddOrder(cmd.side, cmd.price, cmd.quantity)

LEMMA TakenAdds ==
    ASSUME Book(orders, levels), NEW cmd, cmd.side \in OrderSide, cmd.price \in Prices,
           cmd.quantity \in Quantities, Taken(cmd), NEW o, o = NewOrder(cmd)
    PROVE  /\ OneMoreOpen(orders, orders', Len(orders), o)
           /\ Len(orders') = Len(orders) + 1 /\ Len(orders) \in Nat
           /\ o.side = cmd.side /\ o.price = cmd.price /\ o.quantity = cmd.quantity
           /\ o.quantity_filled = 0
  <1>1. orders' = Append(orders, o)
    BY DEF Taken, AddOrder, NewOrder
  <1>2. OrderInv(o) /\ Open(o) /\ o.side = cmd.side /\ o.price = cmd.price
    <2> DEFINE side == cmd.side
               price == cmd.price
               quantity == cmd.quantity
    <2>1. side \in OrderSide /\ price \in Prices /\ quantity \in Quantities
      OBVIOUS
    <2>2. o = CopyFromClient(side, price, quantity)
      BY DEF NewOrder
    <2> HIDE DEF side, price, quantity
    <2>3. OrderInv(o) /\ Open(o) /\ o.side = side /\ o.price = price
      BY <2>1, <2>2, NewOrderInv
    <2> QED BY <2>3 DEF side, price
  <1>3. o \in OrderRecord
    BY <1>2, OrderInvRecord
  <1>4. o.quantity = cmd.quantity /\ o.quantity_filled = 0
    BY DEF NewOrder, CopyFromClient, DefaultOrder
  <1>5. orders \in Seq(OrderRecord) /\ Len(orders) \in Nat /\ DOMAIN orders = 1 .. Len(orders)
    BY RegistryDomain DEF Book, Registry
  <1>6. /\ Len(orders') = Len(orders) + 1 /\ DOMAIN orders' = 1 .. (Len(orders) + 1)
        /\ orders'[Len(orders) + 1] = o
        /\ \A id \in 1 .. Len(orders) : orders'[id] = orders[id]
    BY <1>1, <1>3, <1>5
  <1> QED BY <1>2, <1>4, <1>5, <1>6 DEF OneMoreOpen

\* Every step of the programs is one of the book's own.
LEMMA BenchIsNext ==
    ASSUME StreamsWithinSets, program \in {"insert", "match20"}, next \in Nat,
           [BenchNext]_<<vars, benchVars>>
    PROVE  [Next]_vars
  <1>1. CASE Deliver
    <2> DEFINE cmd == Command(next)
    <2>1. cmd.side \in OrderSide /\ cmd.price \in Prices /\ cmd.quantity \in Quantities
      BY CommandFacts
    <2>2. AddOrder(cmd.side, cmd.price, cmd.quantity) \/ UNCHANGED vars
      BY <1>1 DEF Deliver
    <2> HIDE DEF cmd
    <2> QED BY <2>1, <2>2 DEF Next
  <1>2. CASE TryMatch
    BY <1>2 DEF Next
  <1>3. CASE UNCHANGED vars
    BY <1>3
  <1> QED BY <1>1, <1>2, <1>3 DEF BenchNext

\* No step of the programs re-queues the only order of a level.
LEMMA BenchTight ==
    ASSUME StreamsWithinSets, program \in {"insert", "match20"}, next \in Nat,
           IInv, TightBook, [BenchNext]_<<vars, benchVars>>
    PROVE  TightBook'
  <1>1. Book(orders, levels)
    BY DEF IInv
  <1>2. CASE Deliver
    <2> DEFINE cmd == Command(next)
    <2>1. cmd.side \in OrderSide /\ cmd.price \in Prices /\ cmd.quantity \in Quantities
      BY CommandFacts
    <2>2. AddOrder(cmd.side, cmd.price, cmd.quantity) \/ UNCHANGED levels
      BY <1>2 DEF Deliver, vars
    <2> HIDE DEF cmd
    <2> QED BY <1>1, <2>1, <2>2, AddKeepsTight DEF TightBook
  <1>3. CASE MatchOrders
    <2>1. BothSides /\ levels' = [side \in OrderSide |-> PopBest(side)]
      BY <1>3 DEF MatchOrders, Crossed
    <2> QED BY <1>1, <2>1, PopKeepsTight DEF TightBook
  <1>4. CASE UNCHANGED levels
    BY <1>4 DEF TightBook
  <1> QED
    BY <1>2, <1>3, <1>4 DEF BenchNext, TryMatch, MatchReturns, MatchUndefined, vars

\* The insert programs never trade.
LEMMA InsertKept ==
    ASSUME StreamsWithinSets, IInv, program = "insert", next \in Nat,
           trades_completed = 0, \A id \in DOMAIN orders : InsertOrder(orders[id]),
           [BenchNext]_<<vars, benchVars>>
    PROVE  trades_completed' = 0 /\ \A id \in DOMAIN orders' : InsertOrder(orders'[id])
  <1>1. Book(orders, levels) /\ ~ Crossed
    BY InsertNotCrossed DEF IInv
  <1>2. CASE Deliver /\ ~ UNCHANGED vars
    <2> DEFINE cmd == Command(next)
               o == NewOrder(cmd)
    <2>1. /\ cmd.side \in OrderSide /\ cmd.price \in Prices /\ cmd.quantity \in Quantities
          /\ IF cmd.side = "BUY" THEN cmd.price < 10000 ELSE cmd.price > 10000
      BY CommandFacts
    <2>2. Taken(cmd) /\ trades_completed' = trades_completed
      BY <1>2 DEF Deliver, Taken, AddOrder
    <2>3. o = NewOrder(cmd)
      OBVIOUS
    <2> HIDE DEF cmd, o
    <2>4. /\ OneMoreOpen(orders, orders', Len(orders), o)
          /\ o.side = cmd.side /\ o.price = cmd.price
      BY <1>1, <2>1, <2>2, <2>3, TakenAdds
    <2>5. InsertOrder(o)
      BY <2>1, <2>4 DEF InsertOrder
    <2>6. \A id \in DOMAIN orders' : orders'[id] = o \/ (id \in DOMAIN orders /\ orders'[id] = orders[id])
      BY <2>4 DEF OneMoreOpen
    <2> QED BY <2>2, <2>5, <2>6
  <1>3. CASE MatchReturns
    BY <1>3 DEF MatchReturns
  <1>4. CASE UNCHANGED vars
    BY <1>4 DEF vars
  <1> QED BY <1>1, <1>2, <1>3, <1>4 DEF BenchNext, TryMatch, MatchOrders, MatchUndefined

\* Whose turn it is
LEMMA TurnKept ==
    ASSUME StreamsWithinSets, IInv, program = "match20", next \in Nat, instrument \in Nat,
           InTurn, [BenchNext]_<<vars, benchVars>>
    PROVE  InTurn'
  <1>1. Book(orders, levels) /\ Len(orders) \in Nat /\ DOMAIN orders = 1 .. Len(orders)
    BY RegistryDomain DEF IInv, Book
  <1>2. CASE Deliver
    <2> DEFINE cmd == Command(next)
               o == NewOrder(cmd)
               n == Len(orders)
               n2 == Len(orders')
    <2>1. /\ cmd.side \in OrderSide /\ cmd.price \in Prices /\ cmd.quantity \in Quantities
          /\ cmd.instrument = (next \div 10 + 1) % 5
      BY CommandFacts
    <2>2. /\ IF cmd.instrument = instrument THEN Taken(cmd) ELSE orders' = orders
          /\ next' = next + 1 /\ instrument' = instrument
      BY <1>2 DEF Deliver, Taken, vars
    <2>3. o = NewOrder(cmd)
      OBVIOUS
    <2> HIDE DEF cmd, o
    <2>4. n2 = IF (next \div 10 + 1) % 5 = instrument THEN n + 1 ELSE n
      BY <1>1, <2>1, <2>2, <2>3, TakenAdds
    <2>5. n % 10 = IF (next \div 10 + 1) % 5 = instrument THEN next % 10 ELSE 0
      BY DEF InTurn
    <2>6. n \in Nat /\ n2 \in Nat
      BY <1>1, <2>4
    <2> HIDE DEF n, n2
    <2>7. n2 % 10 = IF ((next + 1) \div 10 + 1) % 5 = instrument THEN (next + 1) % 10 ELSE 0
      BY <2>4, <2>5, <2>6, NextInTurn
    <2> QED BY <2>2, <2>7 DEF InTurn, n2
  <1>3. CASE MatchOrders /\ UNCHANGED benchVars
    <2>1. orders' = AfterMatch /\ BothSides /\ MatchFault = "none"
      BY <1>3 DEF MatchOrders, AfterMatch, Crossed
    <2>2. Registry(AfterMatch) /\ DOMAIN AfterMatch = DOMAIN orders
      BY <1>1, <2>1, MatchRegistry
    <2>3. Len(orders') = Len(orders)
      BY <1>1, <2>1, <2>2 DEF Registry, Book
    <2> QED BY <1>3, <2>3 DEF InTurn, benchVars
  <1>4. CASE UNCHANGED orders /\ UNCHANGED benchVars
    BY <1>4 DEF InTurn, benchVars
  <1> QED
    BY <1>2, <1>3, <1>4 DEF BenchNext, TryMatch, MatchReturns, MatchUndefined, vars

\* A round gets its next order.
LEMMA RoundGrows ==
    ASSUME StreamsWithinSets, IInv, program = "match20", next \in Nat,
           InTurn, MatchInv20, Deliver, Command(next).instrument = instrument
    PROVE  MatchInv20'
  <1> DEFINE cmd == Command(next)
             o == NewOrder(cmd)
             n == Len(orders)
             r == n \div 10
             k == n % 10
             t == trades_completed - r
             r2 == (n + 1) \div 10
             k2 == (n + 1) % 10
             t2 == trades_completed - r2
  <1>1. Book(orders, levels) /\ trades_completed \in Nat
    BY DEF IInv, ControlInv
  <1>2. Taken(cmd) /\ Idle
    BY DEF Deliver, Taken, AddOrder
  <1>3. /\ cmd.side \in OrderSide /\ cmd.price \in Prices /\ cmd.quantity \in Quantities
        /\ cmd.instrument = (next \div 10 + 1) % 5 /\ cmd.quantity = 1000
        /\ cmd.side = IF next % 10 < 5 THEN "BUY" ELSE "SELL"
        /\ cmd.price = IF next % 10 < 5 THEN 600 + 100 * (next % 10) ELSE 500 + 100 * (next % 10)
    BY CommandFacts
  <1>4. o = NewOrder(cmd)
    OBVIOUS
  <1>5. k = next % 10
    BY <1>3 DEF InTurn
  <1>6. Rounds(orders, n, r, k, t) /\ (k = 6 /\ t = 0 => pc = "match")
    BY DEF MatchInv20
  <1> HIDE DEF cmd, o
  <1>7. /\ OneMoreOpen(orders, orders', n, o) /\ Len(orders') = n + 1 /\ n \in Nat
        /\ o.side = cmd.side /\ o.price = cmd.price /\ o.quantity = cmd.quantity
        /\ o.quantity_filled = 0
    BY <1>1, <1>2, <1>3, <1>4, TakenAdds
  <1> HIDE DEF n
  <1>8. RoundOrder(o, k)
    BY <1>3, <1>5, <1>7 DEF RoundOrder
  <1>9. ~ (k = 6 /\ t = 0)
    BY <1>2, <1>6 DEF Idle
  <1>10. /\ r \in Nat /\ k \in 0 .. 9
         /\ k < 9 => r2 = r /\ k2 = k + 1
         /\ k = 9 => r2 = r + 1 /\ k2 = 0
    BY <1>7, TenMore
  <1> HIDE DEF r, k, r2, k2
  <1>11. /\ t \in Int
         /\ k < 9 => r2 = r /\ k2 = k + 1 /\ t2 = t
         /\ k = 9 => r2 = r + 1 /\ k2 = 0 /\ t2 = t - 1
    BY <1>1, <1>10
  <1> HIDE DEF t, t2
  <1>12. Rounds(orders', n + 1, r2, k2, t2)
    BY <1>6, <1>7, <1>8, <1>9, <1>10, <1>11, AddRounds
  <1>13. ASSUME k2 = 6, t2 = 0 PROVE pc' = "match" /\ try_match_flag'
    <2>1. k = 5 /\ cmd.side = "SELL" /\ cmd.price = 1000
      BY <1>3, <1>5, <1>10, <1>13
    <2>2. OpenInAt(orders, "SELL", 1000) = {}
      BY <1>6, <2>1 DEF Rounds
    <2>3. OpenAt("SELL", 1000) = {}
      BY <2>2 DEF OpenAt, OpenInAt, OpenIn
    <2>4. 1000 \notin DOMAIN levels["SELL"]
      BY <1>1, <2>3, LevelHolds DEF OrderSide
    <2>5. pc' = "match" /\ try_match_flag' = (cmd.price \notin DOMAIN levels[cmd.side])
      BY <1>2 DEF Taken, AddOrder
    <2> QED BY <2>1, <2>4, <2>5
  <1>14. trades_completed' = trades_completed
    BY <1>2 DEF Taken, AddOrder
  <1> QED BY <1>7, <1>12, <1>13, <1>14 DEF MatchInv20, r2, k2, t2

\* A round trades.
LEMMA RoundTrades ==
    ASSUME IInv, MatchInv20, MatchOrders
    PROVE  MatchInv20'
  <1> DEFINE n == Len(orders)
             r == n \div 10
             k == n % 10
             t == trades_completed - r
  <1>1. Book(orders, levels) /\ trades_completed \in Nat
    BY DEF IInv, ControlInv
  <1>2. n \in Nat /\ DOMAIN orders = 1 .. n
    BY <1>1, RegistryDomain DEF Book
  <1>3. Rounds(orders, n, r, k, t)
    BY DEF MatchInv20
  <1>4. trades_completed' = trades_completed + 1
    BY DEF MatchOrders
  <1>5. Len(orders') = n
    <2>1. orders' = AfterMatch /\ BothSides /\ MatchFault = "none"
      BY DEF MatchOrders, AfterMatch, Crossed
    <2>2. Registry(AfterMatch) /\ DOMAIN AfterMatch = DOMAIN orders
      BY <1>1, <2>1, MatchRegistry
    <2> QED BY <1>2, <2>1, <2>2 DEF Registry
  <1>6. n = Len(orders)
    OBVIOUS
  <1> HIDE DEF n, r, k, t
  <1>7. k = 6 /\ t = 0 /\ TradeOfRound(orders, orders', n)
    BY <1>1, <1>3, <1>6, MatchIsTrade
  <1>8. r \in Nat
    BY <1>2, TenMore DEF r
  <1>9. Rounds(orders', n, r, 6, 1)
    <2>1. Rounds(orders, n, r, 6, 0)
      BY <1>3, <1>7
    <2> QED BY <1>2, <1>7, <1>8, <2>1, TradeRounds
  <1>10. (trades_completed + 1) - r = 1
    BY <1>1, <1>7, <1>8 DEF t
  <1> QED BY <1>4, <1>5, <1>7, <1>9, <1>10 DEF MatchInv20, r, k

LEMMA RoundsKept ==
    ASSUME StreamsWithinSets, IInv, program = "match20", next \in Nat,
           InTurn, MatchInv20, [BenchNext]_<<vars, benchVars>>
    PROVE  MatchInv20'
  <1>1. CASE Deliver /\ Command(next).instrument = instrument
    BY <1>1, RoundGrows
  <1>2. CASE MatchOrders
    BY <1>2, RoundTrades
  <1>3. CASE MatchReturns
    <2>1. /\ Rounds(orders, Len(orders), Len(orders) \div 10, Len(orders) % 10,
                    trades_completed - (Len(orders) \div 10))
          /\ Book(orders, levels)
      BY DEF MatchInv20, IInv
    <2>2. ~ (Len(orders) % 10 = 6 /\ trades_completed - (Len(orders) \div 10) = 0)
      <3>1. ~ (try_match_flag /\ Crossed)
        BY <1>3 DEF MatchReturns
      <3> QED BY <2>1, <3>1, MatchCrossed DEF MatchInv20
    <2>3. orders' = orders /\ trades_completed' = trades_completed
      BY <1>3 DEF MatchReturns
    <2> QED BY <2>1, <2>2, <2>3 DEF MatchInv20
  <1>4. CASE UNCHANGED <<orders, trades_completed, pc, try_match_flag>>
    BY <1>4 DEF MatchInv20
  <1> QED
    BY <1>1, <1>2, <1>3, <1>4 DEF BenchNext, Deliver, TryMatch, MatchUndefined, vars

LEMMA InitBench == BenchInit => BenchInv
  <1> SUFFICES ASSUME BenchInit PROVE BenchInv
    OBVIOUS
  <1>1. /\ Init /\ program \in {"insert", "match20"} /\ next = 0
        /\ instrument \in 0 .. NumInstruments[program] - 1
    BY DEF BenchInit
  <1>2. orders = <<>> /\ trades_completed = 0
    BY <1>1 DEF Init
  <1>3. Len(orders) = 0 /\ DOMAIN orders = {}
    BY <1>2
  <1>4. IInv /\ TightBook
    BY <1>1, InitIInv DEF Init, TightBook, TightSide
  <1>5. NumInstruments["insert"] = 10 /\ NumInstruments["match20"] = 5
    BY DEF NumInstruments
  <1>6. instrument \in Nat
    <2>1. CASE program = "insert"
      BY <1>1, <1>5, <2>1
    <2>2. CASE program = "match20"
      BY <1>1, <1>5, <2>2
    <2> QED BY <1>1, <2>1, <2>2
  <1>7. InTurn
    BY <1>1, <1>3 DEF InTurn
  <1>8. /\ OpenIn(orders, "BUY") = {} /\ OpenInAt(orders, "BUY", 1000) = {}
        /\ OpenIn(orders, "SELL") = {} /\ OpenInAt(orders, "SELL", 1000) = {}
    BY <1>3 DEF OpenIn, OpenInAt
  <1>9. Cardinality(OpenIn(orders, "BUY")) = 0 /\ Cardinality(OpenIn(orders, "SELL")) = 0
    BY <1>8, FS_EmptySet
  <1>10. Rounds(orders, 0, 0, 0, 0)
    BY <1>3, <1>8, <1>9 DEF Rounds
  <1>11. 0 \div 10 = 0 /\ 0 % 10 = 0 /\ 0 - 0 = 0 /\ 0 # 6
    OBVIOUS
  <1>12. MatchInv20
    BY <1>2, <1>3, <1>10, <1>11 DEF MatchInv20
  <1> QED BY <1>1, <1>2, <1>3, <1>4, <1>6, <1>7, <1>12 DEF BenchInv

LEMMA NextBench ==
    ASSUME StreamsWithinSets, BenchInv, [BenchNext]_<<vars, benchVars>>
    PROVE  BenchInv'
  <1>1. /\ IInv /\ TightBook /\ program \in {"insert", "match20"}
        /\ next \in Nat /\ instrument \in Nat
    BY DEF BenchInv
  <1>2. IInv' /\ TightBook'
    BY <1>1, BenchIsNext, BenchTight, NextIInv
  <1>3. program' = program /\ instrument' = instrument /\ next' \in Nat
    BY <1>1 DEF BenchNext, Deliver, benchVars
  <1>4. program = "insert" =>
            trades_completed' = 0 /\ \A id \in DOMAIN orders' : InsertOrder(orders'[id])
    BY <1>1, InsertKept DEF BenchInv
  <1>5. program = "match20" => InTurn'
    BY <1>1, TurnKept DEF BenchInv
  <1>6. program = "match20" => MatchInv20'
    BY <1>1, RoundsKept DEF BenchInv
  <1> QED BY <1>1, <1>2, <1>3, <1>4, <1>5, <1>6 DEF BenchInv

LEMMA BenchRate == BenchInv => MatchRate
  <1> SUFFICES ASSUME BenchInv, program = "match20", Len(orders) % 10 = 0
               PROVE  LET rounds == Len(orders) \div 10
                      IN  Report = [trades |-> rounds, bids |-> 4 * rounds, asks |-> 4 * rounds]
    BY DEF MatchRate, BenchInv
  <1> DEFINE n == Len(orders)
             r == n \div 10
             t == trades_completed - r
  <1>1. Book(orders, levels) /\ trades_completed \in Nat
    BY DEF BenchInv, IInv, ControlInv
  <1>2. n \in Nat /\ r \in Nat
    BY <1>1, RegistryDomain, TenMore DEF Book
  <1>3. Rounds(orders, n, r, 0, t)
    BY DEF BenchInv, MatchInv20
  <1>4. TotalOrders("BUY") = Cardinality(OpenOn("BUY")) /\ TotalOrders("SELL") = Cardinality(OpenOn("SELL"))
    BY <1>1, TotalOrdersCounts DEF OrderSide
  <1>5. OpenOn("BUY") = OpenIn(orders, "BUY") /\ OpenOn("SELL") = OpenIn(orders, "SELL")
    BY DEF OpenOn, OpenIn
  <1> HIDE DEF n, r
  <1>6. t = 0 /\ TotalOrders("BUY") = 4 * r /\ TotalOrders("SELL") = 4 * r
    BY <1>2, <1>3, <1>4, <1>5 DEF Rounds
  <1>7. trades_completed = r
    BY <1>1, <1>2, <1>6
  <1> QED BY <1>6, <1>7 DEF Report, r, n

\* The streams of the main programs, for any number of commands, any sets of
\* prices and quantities that they are drawn from, and any book: nothing trades
\* in the insert programs, and two of every ten orders in the others.
THEOREM BenchmarksMeasure ==
    ASSUME StreamsWithinSets
    PROVE  BenchSpec => []MatchRate
  <1>1. BenchInv /\ [BenchNext]_<<vars, benchVars>> => BenchInv'
    BY NextBench
  <1> QED BY <1>1, InitBench, BenchRate, PTL DEF BenchSpec

-----------------------------------------------------------------------------
\* A round is never split by a growing pool, so what the pool has left behind
\* are orders of earlier rounds: the two that trade next are not among them.
PoolRounds ==
    /\ pool_size % 10 = 0 /\ Len(orders) <= pool_size
    /\ \E m \in Nat : m % 10 = 0 /\ m <= Len(orders) /\ \A id \in stale : id <= m
    /\ fault = "none"

LEMMA RoundsDefined ==
    ASSUME BenchInv, PoolRounds, MatchUndefined
    PROVE  FALSE
  <1>1. /\ Book(orders, levels) /\ TightBook /\ Crossed /\ BothSides /\ MatchFault # "none"
        /\ program \in {"insert", "match20"}
    BY DEF MatchUndefined, BenchInv, IInv, Crossed
  <1> DEFINE n == Len(orders)
             k == n % 10
             t == trades_completed - (n \div 10)
  <1>2. program = "match20" /\ Rounds(orders, n, n \div 10, k, t)
    BY <1>1, InsertNotCrossed DEF BenchInv, MatchInv20
  <1>3. k = 6 /\ t = 0 /\ Best("BUY") = 1000 /\ Best("SELL") = 1000
    BY <1>1, <1>2, MatchCrossed
  <1>4. OpenInAt(orders, "BUY", 1000) = {n - 1} /\ OpenInAt(orders, "SELL", 1000) = {n}
    BY <1>2, <1>3 DEF Rounds
  <1>5. n \in Nat
    BY <1>1, RegistryDomain DEF Book
  <1>6. Fronts \subseteq {n - 1, n}
    <2>1. ASSUME NEW side \in OrderSide PROVE BestFront(side) \in {n - 1, n}
      <3>1. /\ BestFront(side) \in DOMAIN BestLevel(side).orders_map
            /\ Best(side) \in DOMAIN levels[side]
        BY <1>1, BestFrontQueued, BestFacts
      <3>2. BestFront(side) \in OpenAt(side, Best(side))
        BY <1>1, <3>1, LevelHolds DEF BestLevel
      <3>3. BestFront(side) \in OpenInAt(orders, side, Best(side))
        BY <3>2 DEF OpenAt, OpenInAt, OpenIn
      <3>4. CASE side = "BUY"
        BY <1>3, <1>4, <3>3, <3>4
      <3>5. CASE side = "SELL"
        BY <1>3, <1>4, <3>3, <3>5
      <3> QED BY <3>4, <3>5 DEF OrderSide
    <2> QED BY <2>1 DEF Fronts
  <1>7. PICK m \in Nat : m % 10 = 0 /\ m <= n /\ \A id \in stale : id <= m
    BY DEF PoolRounds
  <1>8. m < n - 1
    <2> HIDE DEF n
    <2>1. n % 10 = 6 /\ (n - 1) % 10 = 5
      BY <1>3, <1>5
    <2>2. m # n /\ m # n - 1
      BY <1>7, <2>1
    <2> QED BY <1>5, <1>7, <2>2
  <1>9. stale \subseteq OrderIds
    BY DEF BenchInv, IInv, PoolInv
  <1>10. Fronts \cap stale = {}
    <2>1. ASSUME NEW id \in stale PROVE id \notin {n - 1, n}
      <3>1. id \in Nat /\ id <= m
        BY <1>7, <1>9 DEF OrderIds
      <3> HIDE DEF n
      <3> QED BY <1>5, <1>8, <3>1
    <2> HIDE DEF n
    <2> QED BY <1>6, <2>1
  <1>11. \A side \in OrderSide :
            ~ PopIsUndefined(BestLevel(side), Filled(Matched(BestFront(side))))
    BY <1>1, BestFrontQueued DEF PopIsUndefined, BestFront
  <1> QED BY <1>1, <1>10, <1>11 DEF MatchFault

\* The pool grows between two rounds.
LEMMA PoolGrowsBetween ==
    ASSUME BenchInv, PoolRounds, NEW cmd, cmd.side \in OrderSide, cmd.price \in Prices,
           cmd.quantity \in Quantities, Taken(cmd)
    PROVE  PoolRounds'
  <1> DEFINE n == Len(orders)
             o == NewOrder(cmd)
  <1>1. Book(orders, levels) /\ pool_size \in Nat /\ pool_size >= PoolReserve
    BY DEF BenchInv, IInv, PoolInv
  <1>2. o = NewOrder(cmd)
    OBVIOUS
  <1> HIDE DEF o
  <1>3. Len(orders') = n + 1 /\ n \in Nat /\ DOMAIN orders = 1 .. n
    BY <1>1, <1>2, TakenAdds, RegistryDomain DEF Book
  <1>4. fault' = "none"
    BY DEF Taken, AddOrder, PoolRounds
  <1>5. pool_size % 10 = 0 /\ n <= pool_size
    BY DEF PoolRounds
  <1>6. CASE n >= pool_size
    <2>1. pool_size' = 2 * pool_size /\ stale' = 1 .. n
      BY <1>3, <1>6 DEF Taken, AddOrder, Allocate
    <2> HIDE DEF n
    <2>2. n = pool_size
      BY <1>1, <1>3, <1>5, <1>6
    <2>3. (2 * pool_size) % 10 = 0 /\ n + 1 <= 2 * pool_size
      BY <1>1, <1>5, <2>2, ReserveAssumption
    <2>4. n \in Nat /\ n % 10 = 0 /\ n <= n + 1 /\ \A id \in 1 .. n : id <= n
      BY <1>3, <1>5, <2>2
    <2> QED BY <1>3, <1>4, <2>1, <2>3, <2>4 DEF PoolRounds
  <1>7. CASE ~ (n >= pool_size)
    <2>1. pool_size' = pool_size /\ stale' = stale
      BY <1>7 DEF Taken, AddOrder, Allocate, poolVars
    <2>2. PICK m \in Nat : m % 10 = 0 /\ m <= n /\ \A id \in stale : id <= m
      BY DEF PoolRounds
    <2> HIDE DEF n
    <2>3. m <= n + 1 /\ n + 1 <= pool_size
      BY <1>1, <1>3, <1>7, <2>2
    <2> QED BY <1>3, <1>4, <1>5, <2>1, <2>2, <2>3 DEF PoolRounds
  <1> QED BY <1>6, <1>7

LEMMA NextPoolRounds ==
    ASSUME StreamsWithinSets, BenchInv, PoolRounds, [BenchNext]_<<vars, benchVars>>
    PROVE  PoolRounds'
  <1>1. Book(orders, levels) /\ program \in {"insert", "match20"} /\ next \in Nat
    BY DEF BenchInv, IInv
  <1>2. CASE Deliver /\ ~ UNCHANGED vars
    <2> DEFINE cmd == Command(next)
    <2>1. cmd.side \in OrderSide /\ cmd.price \in Prices /\ cmd.quantity \in Quantities
      BY <1>1, CommandFacts
    <2>2. Taken(cmd)
      BY <1>2 DEF Deliver, Taken
    <2> HIDE DEF cmd
    <2> QED BY <2>1, <2>2, PoolGrowsBetween
  <1>3. CASE MatchOrders
    <2>1. orders' = AfterMatch /\ BothSides /\ MatchFault = "none"
      BY <1>3 DEF MatchOrders, AfterMatch, Crossed
    <2>2. Registry(AfterMatch) /\ DOMAIN AfterMatch = DOMAIN orders
      BY <1>1, <2>1, MatchRegistry
    <2>3. Len(orders') = Len(orders)
      BY <1>1, <2>1, <2>2 DEF Registry, Book
    <2> QED BY <1>3, <2>3 DEF PoolRounds, MatchOrders, poolVars
  <1>4. CASE MatchReturns
    BY <1>4 DEF PoolRounds, MatchReturns, poolVars
  <1>5. CASE UNCHANGED vars
    BY <1>5 DEF PoolRounds, vars, poolVars
  <1> QED BY <1>2, <1>3, <1>4, <1>5, RoundsDefined DEF BenchNext, TryMatch

\* The main programs run into no undefined behaviour, although they outgrow the
\* pool when they send a book more orders than it was built for, and nothing
\* repairs the pointers that this invalidates: SPACE_RESERVE is a multiple of
\* ten, so the pool never grows between the two orders of a trade.
THEOREM BenchmarksDefined ==
    ASSUME StreamsWithinSets, PoolReserve % 10 = 0
    PROVE  BenchSpec => []NoFault
  <1>1. BenchInit => PoolRounds
    <2> SUFFICES ASSUME BenchInit PROVE PoolRounds
      OBVIOUS
    <2>1. orders = <<>> /\ pool_size = PoolReserve /\ stale = {} /\ fault = "none"
      BY DEF BenchInit, Init
    <2>2. Len(orders) = 0 /\ 0 <= PoolReserve /\ 0 % 10 = 0 /\ 0 <= 0 /\ 0 \in Nat
      BY <2>1, ReserveAssumption
    <2> QED BY <2>1, <2>2 DEF PoolRounds
  <1>2. BenchInv /\ [BenchNext]_<<vars, benchVars>> => BenchInv'
    BY NextBench
  <1>3. BenchInv /\ PoolRounds /\ [BenchNext]_<<vars, benchVars>> => PoolRounds'
    BY NextPoolRounds
  <1>4. PoolRounds => NoFault
    BY DEF PoolRounds, NoFault
  <1> QED BY <1>1, <1>2, <1>3, <1>4, InitBench, PTL DEF BenchSpec

=============================================================================
