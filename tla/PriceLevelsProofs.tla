-------------------------- MODULE PriceLevelsProofs --------------------------
(***************************************************************************)
(* Proofs about module PriceLevels: the vector of price_level_v2.h is a    *)
(* drop-in replacement of the list of price_level.h, for any number of     *)
(* orders and entries, unless the only order of a level is re-queued.      *)
(*                                                                         *)
(* The inductive invariant says what the vector's map, its tombstones and  *)
(* its head have to do with each other (Sound), that the list holds the    *)
(* orders of that map in the order of their entries (Lists of LevelProofs) *)
(* and what the list's own map holds beyond them (filled orders).          *)
(***************************************************************************)
EXTENDS PriceLevels, LevelProofs, SequenceTheorems

USE LevelQuantitiesAssumption, LevelBoundsAssumption

-----------------------------------------------------------------------------
(***************************************************************************)
(* The inductive invariant                                                 *)
(***************************************************************************)

FillsOK(order) ==
    /\ order \in OrderRecord
    /\ order.quantity \in Nat /\ order.quantity_filled \in Nat
    /\ order.quantity_filled <= order.quantity

Pool(os) == os \in Seq(OrderRecord) /\ \A id \in DOMAIN os : FillsOK(os[id])

\* The map leads to the valid entries and to no others, none of them before the
\* head, and the head of a level in use is valid.
Sound(level) ==
    /\ LevelWith(Nat, level)
    /\ IsFiniteSet(DOMAIN level.orders_map)
    /\ \A id \in DOMAIN level.orders_map :
        /\ level.orders_map[id] \in DOMAIN level.order_entries
        /\ level.order_entries[level.orders_map[id]].is_valid
        /\ level.order_entries[level.orders_map[id]].order = id
        /\ level.queue_head_index <= level.orders_map[id]
    /\ \A i \in DOMAIN level.order_entries :
        level.order_entries[i].is_valid =>
            /\ level.order_entries[i].order \in DOMAIN level.orders_map
            /\ level.orders_map[level.order_entries[i].order] = i
    /\ ~ Empty(level) =>
        /\ level.queue_head_index \in DOMAIN level.order_entries
        /\ level.order_entries[level.queue_head_index].is_valid

FreshIfEmpty(level) == Empty(level) => level = EmptyLevel

ListShape(level) == level \in [orders_list : Seq(Nat), orders_map : SUBSET Nat]

Follows(listLevel, vectorLevel) ==
    Lists(listLevel.orders_list, DOMAIN vectorLevel.orders_map, vectorLevel.orders_map)

\* The list's map: the queued orders, and filled ones
MapsOK(os, listLevel, vectorLevel) ==
    /\ \A id \in DOMAIN vectorLevel.orders_map :
        id \in listLevel.orders_map /\ id \in DOMAIN os /\ Open(os[id])
    /\ \A id \in listLevel.orders_map :
        id \in DOMAIN os /\ (id \in DOMAIN vectorLevel.orders_map \/ Filled(os[id]))

Alike(os, listLevel, vectorLevel) ==
    /\ Sound(vectorLevel) /\ FreshIfEmpty(vectorLevel)
    /\ ListShape(listLevel) /\ Follows(listLevel, vectorLevel)
    /\ MapsOK(os, listLevel, vectorLevel)

IInv == Pool(orders) /\ Alike(orders, list, vector)

-----------------------------------------------------------------------------
(***************************************************************************)
(* The vector                                                              *)
(***************************************************************************)

LEMMA EmptyLevelSound == Sound(EmptyLevel) /\ Empty(EmptyLevel)
  <1>1. DOMAIN <<>> = {}
    OBVIOUS
  <1>2. /\ EmptyLevel.order_entries = <<>> /\ EmptyLevel.orders_map = <<>>
        /\ EmptyLevel.queue_head_index = 1
        /\ DOMAIN EmptyLevel = {"order_entries", "queue_head_index", "orders_map"}
    BY DEF EmptyLevel
  <1>3. LevelWith(Nat, EmptyLevel)
    BY <1>2 DEF LevelWith
  <1>4. DOMAIN EmptyLevel.orders_map = {} /\ DOMAIN EmptyLevel.order_entries = {}
    BY <1>1, <1>2
  <1>5. IsFiniteSet(DOMAIN EmptyLevel.orders_map)
    BY <1>4, FS_EmptySet
  <1> QED BY <1>3, <1>4, <1>5 DEF Sound, Empty

\* The places of the queued orders are distinct.
LEMMA SoundPlaces ==
    ASSUME NEW level, Sound(level)
    PROVE  Places(DOMAIN level.orders_map, level.orders_map)
  <1>1. \A id \in DOMAIN level.orders_map :
            /\ level.orders_map[id] \in Nat
            /\ level.order_entries[level.orders_map[id]].order = id
    BY DEF Sound, LevelWith
  <1> QED BY <1>1 DEF Sound, Places

\* What add_order does to a sound level: the new entry is the last.
Joined(level, id, lv) ==
    /\ Sound(lv) /\ ~ Empty(lv)
    /\ DOMAIN lv.orders_map = DOMAIN level.orders_map \cup {id}
    /\ \A x \in DOMAIN level.orders_map :
        /\ lv.orders_map[x] = level.orders_map[x]
        /\ lv.orders_map[x] < lv.orders_map[id]

LEMMA AddJoins ==
    ASSUME NEW level, Sound(level), FreshIfEmpty(level), NEW id \in Nat,
           id \notin DOMAIN level.orders_map
    PROVE  Joined(level, id, AddEntry(level, id))
  <1> DEFINE lv == AddEntry(level, id)
             old == level.order_entries
             m == level.orders_map
             D == DOMAIN m
             n == Len(old)
             h == level.queue_head_index
             e == [order |-> id, is_valid |-> TRUE]
             entries == Append(old, e)
             map == [i \in D \cup {id} |-> IF i = id THEN n + 1 ELSE m[i]]
  <1>1. /\ DOMAIN level = {"order_entries", "queue_head_index", "orders_map"}
        /\ old \in Seq(Entries(Nat)) /\ h \in Nat \ {0}
    BY DEF Sound, LevelWith
  <1>2. /\ lv.order_entries = entries /\ lv.orders_map = map
        /\ lv.queue_head_index = h
        /\ DOMAIN lv = {"order_entries", "queue_head_index", "orders_map"}
    BY <1>1 DEF AddEntry
  <1>3. e \in Entries(Nat) /\ e.order = id /\ e.is_valid
    BY DEF Entries
  <1>4. n \in Nat /\ DOMAIN old = 1 .. n
    BY <1>1
  <1> HIDE DEF e
  <1>5. /\ entries \in Seq(Entries(Nat)) /\ DOMAIN entries = 1 .. (n + 1)
        /\ entries[n + 1] = e /\ \A i \in 1 .. n : entries[i] = old[i]
    BY <1>1, <1>3
  <1>6. /\ DOMAIN map = D \cup {id} /\ map[id] = n + 1
        /\ \A x \in D : map[x] = m[x] /\ m[x] \in 1 .. n
    BY <1>4 DEF Sound
  <1> HIDE DEF entries, map, lv
  <1>7. LevelWith(Nat, lv)
    BY <1>1, <1>2, <1>5 DEF LevelWith
  <1>8. IsFiniteSet(DOMAIN lv.orders_map)
    <2>1. IsFiniteSet(D \cup {id})
      BY FS_AddElement DEF Sound
    <2> QED BY <1>2, <1>6, <2>1
  <1>9. h \in 1 .. (n + 1) /\ entries[h].is_valid
    <2>1. CASE D = {}
      <3>1. level = EmptyLevel
        BY <2>1 DEF FreshIfEmpty, Empty
      <3>2. n = 0 /\ h = 1
        BY <3>1 DEF EmptyLevel
      <3> QED BY <1>3, <1>5, <3>2
    <2>2. CASE D # {}
      <3>1. h \in 1 .. n /\ old[h].is_valid
        BY <1>4, <2>2 DEF Sound, Empty
      <3> QED BY <1>4, <1>5, <3>1
    <2> QED BY <2>1, <2>2
  <1>10. Sound(lv)
    <2>1. \A x \in DOMAIN map :
            /\ map[x] \in DOMAIN entries /\ entries[map[x]].is_valid
            /\ entries[map[x]].order = x /\ h <= map[x]
      BY <1>3, <1>4, <1>5, <1>6, <1>9, SMTT(30) DEF Sound
    <2>3. \A i \in DOMAIN entries : entries[i].is_valid =>
            entries[i].order \in DOMAIN map /\ map[entries[i].order] = i
      BY <1>3, <1>4, <1>5, <1>6 DEF Sound
    <2>4. h \in DOMAIN entries
      BY <1>5, <1>9
    <2> QED BY <1>2, <1>7, <1>8, <1>9, <2>1, <2>3, <2>4 DEF Sound
  <1>11. ~ Empty(lv)
    BY <1>2, <1>6 DEF Empty
  <1> QED BY <1>2, <1>4, <1>6, <1>10, <1>11 DEF Joined, lv

\* What taking an order out does to a sound level, unless it was the only one.
Left(level, id, lv) ==
    /\ DOMAIN lv.orders_map = DOMAIN level.orders_map \ {id}
    /\ \A x \in DOMAIN lv.orders_map : lv.orders_map[x] = level.orders_map[x]
    /\ ~ Empty(lv) => Sound(lv)

LEMMA BuryLeaves ==
    ASSUME NEW level, Sound(level), NEW id \in DOMAIN level.orders_map
    PROVE  Left(level, id, Bury(level, level.orders_map[id], id))
  <1> DEFINE i == level.orders_map[id]
             D == DOMAIN level.orders_map
             b == Buried(level, i, id)
             lv == IncrementToValid(b)
  <1>1. i \in DOMAIN level.order_entries /\ LevelWith(Nat, level)
    BY DEF Sound
  <1>2. Bury(level, i, id) = lv
    BY DEF Bury, Buried
  <1> HIDE DEF i, b, lv
  <1>3. /\ LevelWith(Nat, b)
        /\ b.queue_head_index = level.queue_head_index
        /\ DOMAIN b.order_entries = DOMAIN level.order_entries
        /\ ~ b.order_entries[i].is_valid
        /\ \A j \in DOMAIN level.order_entries :
            /\ b.order_entries[j].order = level.order_entries[j].order
            /\ j # i => b.order_entries[j] = level.order_entries[j]
        /\ DOMAIN b.orders_map = D \ {id}
        /\ \A x \in DOMAIN b.orders_map : b.orders_map[x] = level.orders_map[x]
    BY <1>1, BuriedLevel DEF b
  <1>4. CASE Empty(b)
    <2>1. lv = b
      BY <1>4 DEF lv, IncrementToValid
    <2> QED BY <1>2, <1>3, <1>4, <2>1 DEF Left, i
  <1>5. CASE ~ Empty(b)
    <2>1. \A x \in D \ {id} : level.orders_map[x] # i
      BY DEF Sound, i
    <2>2. \A x \in DOMAIN b.orders_map :
            /\ b.orders_map[x] \in DOMAIN b.order_entries
            /\ b.order_entries[b.orders_map[x]].is_valid
            /\ b.order_entries[b.orders_map[x]].order = x
            /\ b.queue_head_index <= b.orders_map[x]
      BY <1>3, <2>1 DEF Sound
    <2>3. PICK x \in DOMAIN b.orders_map : TRUE
      BY <1>5 DEF Empty
    <2>4. /\ LevelWith(Nat, lv)
          /\ lv.order_entries = b.order_entries
          /\ lv.orders_map = b.orders_map
          /\ lv.queue_head_index \in DOMAIN b.order_entries
          /\ b.order_entries[lv.queue_head_index].is_valid
          /\ \A j \in DOMAIN b.order_entries :
                b.order_entries[j].is_valid /\ b.queue_head_index <= j
                    => lv.queue_head_index <= j
      <3> DEFINE k == b.orders_map[x]
      <3>1. k \in DOMAIN b.order_entries /\ b.order_entries[k].is_valid /\ b.queue_head_index <= k
        BY <2>2
      <3> HIDE DEF k
      <3> QED BY <1>3, <1>5, <3>1, IncrementedLevel DEF lv
    <2>5. \A j \in DOMAIN b.order_entries : b.order_entries[j].is_valid =>
            /\ b.order_entries[j].order \in DOMAIN b.orders_map
            /\ b.orders_map[b.order_entries[j].order] = j
      <3> SUFFICES ASSUME NEW j \in DOMAIN b.order_entries, b.order_entries[j].is_valid
                   PROVE  /\ b.order_entries[j].order \in DOMAIN b.orders_map
                          /\ b.orders_map[b.order_entries[j].order] = j
        OBVIOUS
      <3>1. j # i /\ b.order_entries[j] = level.order_entries[j]
        BY <1>3
      <3>2. /\ level.order_entries[j].order \in D
            /\ level.orders_map[level.order_entries[j].order] = j
        BY <1>3, <3>1 DEF Sound
      <3> QED BY <1>3, <3>1, <3>2 DEF i
    <2>6. IsFiniteSet(DOMAIN b.orders_map)
      BY <1>3, FS_Subset DEF Sound
    <2>7. Sound(lv)
      BY <2>2, <2>4, <2>5, <2>6 DEF Sound
    <2> QED BY <1>2, <1>3, <2>4, <2>7 DEF Left, i
  <1> QED BY <1>4, <1>5

-----------------------------------------------------------------------------
(***************************************************************************)
(* The list                                                                *)
(***************************************************************************)

\* Who else has a place does not matter.
LEMMA ListsAgree ==
    ASSUME NEW D, NEW m, NEW q, Lists(q, D, m), NEW m2, \A x \in D : m2[x] = m[x]
    PROVE  Lists(q, D, m2)
  <1>1. \A i \in DOMAIN q : q[i] \in D
    BY DEF Lists
  <1> QED BY <1>1 DEF Lists, Increasing

LEMMA RemoveAtGap ==
    ASSUME NEW D, NEW q \in Seq(D), NEW k \in DOMAIN q
    PROVE  RemoveAt(q, k) = Gap(q, k)
  <1> DEFINE n == Len(q)
             a == SubSeq(q, 1, k - 1)
             b == SubSeq(q, k + 1, n)
             r == a \o b
  <1>1. n \in Nat /\ DOMAIN q = 1 .. n /\ k \in 1 .. n
    OBVIOUS
  <1>2. /\ a \in Seq(D) /\ Len(a) = k - 1 /\ \A i \in 1 .. (k - 1) : a[i] = q[i]
    BY <1>1
  <1>3. /\ b \in Seq(D) /\ Len(b) = n - k /\ \A i \in 1 .. (n - k) : b[i] = q[k + i]
    BY <1>1
  <1> HIDE DEF a, b
  <1>4. /\ r \in Seq(D) /\ Len(r) = Len(a) + Len(b)
        /\ \A i \in 1 .. Len(a) + Len(b) :
                r[i] = IF i <= Len(a) THEN a[i] ELSE b[i - Len(a)]
    BY <1>2, <1>3, ConcatProperties
  <1>5. RemoveAt(q, k) = r
    BY DEF RemoveAt, a, b
  <1> HIDE DEF r
  <1>6. DOMAIN r = 1 .. (n - 1) /\ r = [i \in DOMAIN r |-> r[i]]
    BY <1>1, <1>2, <1>3, <1>4
  <1>7. ASSUME NEW i \in 1 .. (n - 1)
        PROVE  r[i] = IF i < k THEN q[i] ELSE q[i + 1]
    <2>1. i < k => r[i] = q[i]
      BY <1>1, <1>2, <1>3, <1>4
    <2>2. ~ (i < k) => r[i] = b[i - (k - 1)] /\ i - (k - 1) \in 1 .. (n - k)
      BY <1>1, <1>2, <1>3, <1>4
    <2>3. ~ (i < k) => r[i] = q[k + (i - (k - 1))]
      BY <1>3, <2>2
    <2>4. k + (i - (k - 1)) = i + 1
      BY <1>1
    <2> QED BY <2>1, <2>3, <2>4
  <1>8. Gap(q, k) = [i \in 1 .. (n - 1) |-> IF i < k THEN q[i] ELSE q[i + 1]]
    BY DEF Gap
  <1> QED BY <1>5, <1>6, <1>7, <1>8

LEMMA ListAddFields ==
    ASSUME NEW level, ListShape(level), NEW id \in Nat
    PROVE  LET l == ListAdd(level, id)
           IN  /\ ListShape(l)
               /\ l.orders_list = Append(level.orders_list, id)
               /\ l.orders_map = level.orders_map \cup {id}
  <1>1. level.orders_list \in Seq(Nat) /\ level.orders_map \in SUBSET Nat
    BY DEF ListShape
  <1>2. /\ Append(level.orders_list, id) \in Seq(Nat)
        /\ level.orders_map \cup {id} \in SUBSET Nat
    BY <1>1
  <1> QED BY <1>2 DEF ListShape, ListAdd

LEMMA ListRemoveFields ==
    ASSUME NEW level, ListShape(level), NEW D, NEW m, Lists(level.orders_list, D, m),
           Places(D, m), NEW id \in D
    PROVE  LET l == ListRemoveOnIt(level, id)
           IN  /\ ListShape(l)
               /\ Lists(l.orders_list, D \ {id}, m)
               /\ l.orders_map = level.orders_map \ {id}
  <1> DEFINE q == level.orders_list
             k == Node(level, id)
             l == ListRemoveOnIt(level, id)
             r == RemoveAt(q, k)
  <1>1. k \in DOMAIN q /\ q[k] = id
    BY DEF Node, Lists
  <1>2. q \in Seq(Nat)
    BY DEF ListShape
  <1> HIDE DEF k
  <1>3. r = Gap(q, k) /\ r \in Seq(Nat)
    <2>1. r = Gap(q, k)
      BY <1>1, <1>2, RemoveAtGap
    <2>2. Gap(q, k) \in Seq(Nat)
      <3>1. Len(q) \in Nat /\ DOMAIN q = 1 .. Len(q)
        BY <1>2
      <3>2. Len(q) - 1 \in Nat
        BY <1>1, <3>1
      <3> QED BY <1>1, <1>2, <3>1, <3>2 DEF Gap
    <2> QED BY <2>1, <2>2
  <1>4. Lists(r, D \ {id}, m)
    BY <1>1, <1>3, ListsGap
  <1> HIDE DEF r
  <1>5. l.orders_list = r /\ l.orders_map = level.orders_map \ {id} /\ ListShape(l)
    BY <1>3 DEF ListShape, ListRemoveOnIt, r, k
  <1> QED BY <1>4, <1>5

LEMMA ListPopFields ==
    ASSUME NEW level, ListShape(level), ~ ListEmpty(level)
    PROVE  LET l == ListPopFrontIfFilled(level, TRUE)
           IN  /\ ListShape(l)
               /\ l.orders_list = Tail(level.orders_list)
               /\ l.orders_map = level.orders_map
  <1>1. level.orders_list \in Seq(Nat) /\ level.orders_list # <<>>
    BY DEF ListShape, ListEmpty
  <1>2. Tail(level.orders_list) \in Seq(Nat)
    BY <1>1
  <1> QED BY <1>2 DEF ListShape, ListPopFrontIfFilled, ListEmpty

LEMMA EmptyListShape ==
    ListShape(EmptyList) /\ EmptyList.orders_list = <<>> /\ EmptyList.orders_map = {}
  BY DEF ListShape, EmptyList

\* Both levels run empty together.
LEMMA EmptyTogether ==
    ASSUME NEW q, NEW D, NEW m, Lists(q, D, m)
    PROVE  q = <<>> <=> D = {}
  <1>1. q \in Seq(D) /\ \A x \in D : \E i \in DOMAIN q : q[i] = x
    BY DEF Lists
  <1>2. ASSUME D = {} PROVE q = <<>>
    BY <1>1, <1>2
  <1>3. ASSUME q = <<>> PROVE D = {}
    BY <1>1, <1>3
  <1> QED BY <1>2, <1>3

LEMMA EmptyAlike ==
    ASSUME NEW os
    PROVE  Alike(os, EmptyList, EmptyLevel)
  <1>1. DOMAIN EmptyLevel.orders_map = {}
    BY EmptyLevelSound DEF Empty
  <1>2. Lists(<<>>, {}, EmptyLevel.orders_map)
    BY DEF Lists, Increasing
  <1> QED BY <1>1, <1>2, EmptyLevelSound, EmptyListShape
          DEF Alike, FreshIfEmpty, Follows, MapsOK

-----------------------------------------------------------------------------
(***************************************************************************)
(* Both levels together                                                    *)
(***************************************************************************)

LEMMA JoinKeeps ==
    ASSUME NEW os, NEW l, NEW v, Alike(os, l, v),
           NEW id \in DOMAIN os, id \in Nat, Open(os[id]), id \notin DOMAIN v.orders_map
    PROVE  Alike(os, ListAdd(l, id), AddEntry(v, id))
  <1> DEFINE l2 == ListAdd(l, id)
             v2 == AddEntry(v, id)
             D == DOMAIN v.orders_map
  <1>1. Sound(v) /\ FreshIfEmpty(v) /\ ListShape(l) /\ MapsOK(os, l, v)
    BY DEF Alike
  <1>2. Lists(l.orders_list, D, v.orders_map)
    BY DEF Alike, Follows
  <1>3. Joined(v, id, v2)
    BY <1>1, AddJoins
  <1>4. /\ ListShape(l2) /\ l2.orders_list = Append(l.orders_list, id)
        /\ l2.orders_map = l.orders_map \cup {id}
    BY <1>1, ListAddFields
  <1> HIDE DEF l2, v2
  <1>5. Lists(Append(l.orders_list, id), D \cup {id}, v2.orders_map)
    BY <1>2, <1>3, ListsAppend DEF Joined
  <1>6. Follows(l2, v2)
    BY <1>3, <1>4, <1>5 DEF Follows, Joined
  <1>7. MapsOK(os, l2, v2)
    BY <1>1, <1>3, <1>4 DEF MapsOK, Joined
  <1>8. Sound(v2) /\ FreshIfEmpty(v2)
    BY <1>3 DEF Joined, FreshIfEmpty
  <1> QED BY <1>4, <1>6, <1>7, <1>8 DEF Alike, l2, v2

\* The list without an order: its map may keep the order if it is filled.
LeftList(os, l, D, m, id, l2) ==
    /\ ListShape(l2)
    /\ Lists(l2.orders_list, D \ {id}, m)
    /\ l.orders_map \ {id} \subseteq l2.orders_map
    /\ l2.orders_map \subseteq l.orders_map
    /\ id \in l2.orders_map => Filled(os[id])

\* A registry in which at most one order has changed its status
SameButOne(os, os2, id) ==
    /\ DOMAIN os2 = DOMAIN os
    /\ \A x \in DOMAIN os : x # id => os2[x].status = os[x].status

LEMMA LeaveKeeps ==
    ASSUME NEW os, NEW os2, NEW l, NEW v, Alike(os, l, v),
           NEW id \in DOMAIN v.orders_map, SameButOne(os, os2, id),
           NEW v2, Left(v, id, v2),
           NEW l2, LeftList(os2, l, DOMAIN v.orders_map, v.orders_map, id, l2)
    PROVE  /\ ~ Empty(v2) => Alike(os2, l2, v2)
           /\ Alike(os2, PruneList(l2), PruneVector(v2))
  <1> DEFINE D == DOMAIN v.orders_map
             D2 == DOMAIN v2.orders_map
  <1>1. D2 = D \ {id} /\ \A x \in D2 : v2.orders_map[x] = v.orders_map[x]
    BY DEF Left
  <1>2. Lists(l2.orders_list, D2, v2.orders_map)
    <2>1. Lists(l2.orders_list, D2, v.orders_map)
      BY <1>1 DEF LeftList
    <2> QED BY <1>1, <2>1, ListsAgree
  <1>3. l2.orders_list = <<>> <=> D2 = {}
    BY <1>2, EmptyTogether
  <1>4. ASSUME ~ Empty(v2) PROVE Alike(os2, l2, v2)
    <2>1. Sound(v2) /\ FreshIfEmpty(v2)
      BY <1>4 DEF Left, FreshIfEmpty
    <2>2. MapsOK(os, l, v)
      BY DEF Alike
    <2>3. \A x \in D2 : x \in l2.orders_map /\ x \in DOMAIN os2 /\ Open(os2[x])
      BY <1>1, <2>2 DEF MapsOK, LeftList, SameButOne, Open
    <2>4. \A x \in l2.orders_map : x \in DOMAIN os2 /\ (x \in D2 \/ Filled(os2[x]))
      BY <1>1, <2>2 DEF MapsOK, LeftList, SameButOne, Filled
    <2>5. MapsOK(os2, l2, v2)
      BY <2>3, <2>4 DEF MapsOK
    <2> QED BY <1>2, <2>1, <2>5 DEF Alike, Follows, LeftList
  <1>5. CASE Empty(v2)
    <2>1. PruneVector(v2) = EmptyLevel /\ PruneList(l2) = EmptyList
      BY <1>3, <1>5 DEF PruneVector, PruneList, Empty, ListEmpty
    <2> QED BY <1>5, <2>1, EmptyAlike
  <1>6. CASE ~ Empty(v2)
    <2>1. PruneVector(v2) = v2 /\ PruneList(l2) = l2
      BY <1>3, <1>6 DEF PruneVector, PruneList, Empty, ListEmpty
    <2> QED BY <1>4, <1>6, <2>1
  <1> QED BY <1>5, <1>6

\* remove_order on both levels
LEMMA RemoveLeaves ==
    ASSUME NEW os, NEW l, NEW v, Alike(os, l, v), NEW id \in DOMAIN v.orders_map, NEW os2
    PROVE  /\ Left(v, id, RemoveEntry(v, id))
           /\ ListRemove(l, id) = ListRemoveOnIt(l, id)
           /\ LeftList(os2, l, DOMAIN v.orders_map, v.orders_map, id, ListRemove(l, id))
  <1> DEFINE D == DOMAIN v.orders_map
             m == v.orders_map
             l2 == ListRemoveOnIt(l, id)
  <1>1. Sound(v) /\ ListShape(l) /\ Lists(l.orders_list, D, m)
    BY DEF Alike, Follows
  <1>2. Left(v, id, RemoveEntry(v, id))
    BY <1>1, BuryLeaves DEF RemoveEntry
  <1>3. Places(D, m)
    BY <1>1, SoundPlaces
  <1>4. id \in l.orders_map
    BY DEF Alike, MapsOK
  <1>5. ListRemove(l, id) = l2
    BY <1>4 DEF ListRemove
  <1> HIDE DEF m, D
  <1>6. /\ ListShape(l2) /\ Lists(l2.orders_list, D \ {id}, m)
        /\ l2.orders_map = l.orders_map \ {id}
    BY <1>1, <1>3, ListRemoveFields DEF D
  <1> HIDE DEF l2
  <1>7. LeftList(os2, l, D, m, id, l2)
    BY <1>6 DEF LeftList
  <1> QED BY <1>2, <1>5, <1>7 DEF D, m, l2

\* The front of both levels
LEMMA FrontIsFirst ==
    ASSUME NEW os, NEW l, NEW v, Alike(os, l, v), ~ Empty(v)
    PROVE  /\ FrontOrder(v) \in DOMAIN v.orders_map
           /\ v.orders_map[FrontOrder(v)] = v.queue_head_index
           /\ ~ ListEmpty(l) /\ Head(l.orders_list) = FrontOrder(v)
           /\ Tail(l.orders_list) = Gap(l.orders_list, 1)
           /\ 1 \in DOMAIN l.orders_list /\ l.orders_list[1] = FrontOrder(v)
  <1> DEFINE f == FrontOrder(v)
             h == v.queue_head_index
             m == v.orders_map
             D == DOMAIN m
             q == l.orders_list
  <1>1. Sound(v) /\ Lists(q, D, m)
    BY DEF Alike, Follows
  <1>2. Places(D, m)
    BY <1>1, SoundPlaces
  <1>3. h \in DOMAIN v.order_entries /\ v.order_entries[h].is_valid
    BY <1>1 DEF Sound
  <1>4. f \in D /\ m[f] = h
    BY <1>1, <1>3 DEF Sound, FrontOrder
  <1>5. FirstOf(D, m, f)
    BY <1>1, <1>4 DEF Sound, FirstOf
  <1> HIDE DEF f, m, D, q
  <1>6. /\ q # <<>> /\ Head(q) = f /\ Tail(q) = Gap(q, 1)
        /\ \A j \in DOMAIN q : q[j] = f <=> j = 1
    BY <1>1, <1>2, <1>5, HeadIsFirst
  <1>7. \E j \in DOMAIN q : q[j] = f
    BY <1>1, <1>4 DEF Lists
  <1> QED BY <1>4, <1>6, <1>7 DEF ListEmpty, f, m, D, q

\* pop_front_order_if_filled on both levels, with a front order that is filled
LEMMA PopLeaves ==
    ASSUME NEW os, NEW l, NEW v, Alike(os, l, v), ~ Empty(v), NEW os2,
           Filled(os2[FrontOrder(v)])
    PROVE  /\ Left(v, FrontOrder(v), PopFrontIfFilled(v, TRUE))
           /\ LeftList(os2, l, DOMAIN v.orders_map, v.orders_map, FrontOrder(v),
                       ListPopFrontIfFilled(l, TRUE))
  <1> DEFINE f == FrontOrder(v)
             m == v.orders_map
             D == DOMAIN m
             l2 == ListPopFrontIfFilled(l, TRUE)
             q == l.orders_list
  <1>1. /\ f \in D /\ m[f] = v.queue_head_index
        /\ ~ ListEmpty(l) /\ Tail(q) = Gap(q, 1)
        /\ 1 \in DOMAIN q /\ q[1] = f
    BY FrontIsFirst
  <1>2. Sound(v) /\ ListShape(l) /\ Lists(q, D, m)
    BY DEF Alike, Follows
  <1>3. Places(D, m)
    BY <1>2, SoundPlaces
  <1>4. PopFrontIfFilled(v, TRUE) = Bury(v, m[f], f)
    BY <1>1 DEF PopFrontIfFilled
  <1>5. Left(v, f, PopFrontIfFilled(v, TRUE))
    BY <1>1, <1>2, <1>4, BuryLeaves
  <1>6. ListShape(l2) /\ l2.orders_list = Tail(q) /\ l2.orders_map = l.orders_map
    BY <1>1, <1>2, ListPopFields
  <1> HIDE DEF l2, m, D
  <1>7. Lists(Gap(q, 1), D \ {f}, m)
    BY <1>1, <1>2, <1>3, ListsGap
  <1>8. LeftList(os2, l, D, m, f, l2)
    BY <1>1, <1>6, <1>7 DEF LeftList
  <1> QED BY <1>5, <1>8 DEF l2, m, D

-----------------------------------------------------------------------------
(***************************************************************************)
(* The invariant is inductive                                              *)
(***************************************************************************)

LEMMA PoolDomain ==
    ASSUME NEW os, Pool(os)
    PROVE  /\ Len(os) \in Nat /\ DOMAIN os = 1 .. Len(os)
           /\ \A id \in DOMAIN os : id \in Nat /\ os[id] \in OrderRecord
  BY DEF Pool

LEMMA ClientCopy ==
    ASSUME NEW side, NEW price, NEW quantity, NEW o, o = CopyFromClient(side, price, quantity)
    PROVE  o = [side |-> side, price |-> price, quantity |-> quantity,
                quantity_filled |-> 0, status |-> "NEW"]
  BY DEF DefaultOrder, CopyFromClient

LEMMA NewOrder ==
    ASSUME NEW quantity \in LevelQuantities
    PROVE  LET o == CopyFromClient(Side, LevelPrice, quantity)
           IN  FillsOK(o) /\ Open(o)
  <1> DEFINE o == CopyFromClient(Side, LevelPrice, quantity)
  <1>1. "BUY" \in OrderSide
    BY DEF OrderSide
  <1>2. Side \in OrderSide /\ LevelPrice \in Int /\ quantity \in Nat
    BY <1>1 DEF Side, LevelPrice
  <1>3. o = [side |-> Side, price |-> LevelPrice, quantity |-> quantity,
             quantity_filled |-> 0, status |-> "NEW"]
    BY ClientCopy
  <1> HIDE DEF o
  <1>4. o \in OrderRecord
    BY <1>2, <1>3 DEF OrderRecord, OrderStatus
  <1>5. o.quantity = quantity /\ o.quantity_filled = 0 /\ o.status = "NEW"
    BY <1>3
  <1> QED BY <1>2, <1>4, <1>5 DEF FillsOK, Open, o

\* A fill within what is available
LEMMA MatchedOrder ==
    ASSUME NEW order, FillsOK(order), NEW fill_qty \in Nat, fill_qty <= Available(order)
    PROVE  LET o == Match(order, fill_qty)
           IN  FillsOK(o) /\ o.status \in {"FULLY_FILLED", "PARTIALLY_FILLED"}
  <1> DEFINE filled == order.quantity_filled + fill_qty
             status == IF filled = order.quantity THEN "FULLY_FILLED" ELSE "PARTIALLY_FILLED"
             o == Match(order, fill_qty)
  <1>1. filled \in Nat /\ filled <= order.quantity /\ order.quantity \in Nat
    BY DEF FillsOK, Available
  <1>2. status \in OrderStatus /\ status \in {"FULLY_FILLED", "PARTIALLY_FILLED"}
    BY DEF OrderStatus
  <1>3. o = [order EXCEPT !.quantity_filled = filled, !.status = status]
    BY DEF Match
  <1>4. order \in OrderRecord /\ filled \in Int
    BY <1>1 DEF FillsOK
  <1> HIDE DEF filled, status, o
  <1>5. /\ o \in OrderRecord /\ o.quantity = order.quantity
        /\ o.quantity_filled = filled /\ o.status = status
    BY <1>2, <1>3, <1>4 DEF OrderRecord
  <1> QED BY <1>1, <1>2, <1>5 DEF FillsOK, o

\* What a step does to one order of the registry
LEMMA PoolWith ==
    ASSUME NEW os, Pool(os), NEW id \in DOMAIN os, NEW order, FillsOK(order)
    PROVE  LET os2 == [os EXCEPT ![id] = order]
           IN  Pool(os2) /\ SameButOne(os, os2, id) /\ os2[id] = order
  <1> DEFINE os2 == [os EXCEPT ![id] = order]
  <1>1. /\ DOMAIN os2 = DOMAIN os /\ os2[id] = order
        /\ \A x \in DOMAIN os : x # id => os2[x] = os[x]
    OBVIOUS
  <1>2. os2 \in Seq(OrderRecord)
    BY DEF Pool, FillsOK
  <1> HIDE DEF os2
  <1>3. Pool(os2)
    BY <1>1, <1>2 DEF Pool
  <1> QED BY <1>1, <1>3 DEF SameButOne, os2

LEMMA InitIInv == Init => IInv
  <1> SUFFICES ASSUME Init PROVE IInv
    OBVIOUS
  <1>1. Pool(<<>>)
    BY DEF Pool
  <1> QED BY <1>1, EmptyAlike DEF Init, IInv

LEMMA AddIInv ==
    ASSUME IInv, NEW quantity \in LevelQuantities, Add(quantity)
    PROVE  IInv'
  <1> DEFINE o == CopyFromClient(Side, LevelPrice, quantity)
             id == Len(orders) + 1
             os == Append(orders, o)
  <1>1. Pool(orders) /\ Alike(orders, list, vector)
    BY DEF IInv
  <1>2. /\ orders' = os /\ list' = ListAdd(list, id) /\ vector' = AddEntry(vector, id)
    BY DEF Add, Join
  <1>3. FillsOK(o) /\ Open(o)
    BY NewOrder
  <1> HIDE DEF o
  <1>4. /\ Len(orders) \in Nat /\ DOMAIN orders = 1 .. Len(orders) /\ orders \in Seq(OrderRecord)
        /\ \A x \in DOMAIN orders : FillsOK(orders[x])
    BY <1>1, PoolDomain DEF Pool
  <1>5. o \in OrderRecord
    BY <1>3 DEF FillsOK
  <1>6. /\ os \in Seq(OrderRecord) /\ DOMAIN os = 1 .. id /\ os[id] = o
        /\ \A x \in DOMAIN orders : os[x] = orders[x] /\ x \in DOMAIN os
    BY <1>4, <1>5
  <1> HIDE DEF os
  <1>7. Pool(os)
    BY <1>3, <1>4, <1>6 DEF Pool
  <1>8. MapsOK(os, list, vector)
    BY <1>1, <1>6 DEF Alike, MapsOK
  <1>9. Alike(os, list, vector)
    BY <1>1, <1>8 DEF Alike
  <1>10. id \in Nat /\ id \in DOMAIN os /\ Open(os[id]) /\ id \notin DOMAIN vector.orders_map
    BY <1>1, <1>3, <1>4, <1>6 DEF Alike, MapsOK
  <1> HIDE DEF id
  <1>11. Alike(os, ListAdd(list, id), AddEntry(vector, id))
    BY <1>9, <1>10, JoinKeeps
  <1> QED BY <1>2, <1>7, <1>11 DEF IInv

LEMMA MoveHereIInv ==
    ASSUME IInv, NEW id \in DOMAIN orders, MoveHere(id)
    PROVE  IInv'
  <1>1. Pool(orders) /\ Alike(orders, list, vector)
    BY DEF IInv
  <1>2. /\ orders' = orders
        /\ list' = ListAdd(list, id) /\ vector' = AddEntry(vector, id)
        /\ Open(orders[id]) /\ id \notin DOMAIN vector.orders_map
    BY DEF MoveHere, Join, Queued
  <1>3. id \in Nat
    BY <1>1, PoolDomain
  <1>4. Alike(orders, ListAdd(list, id), AddEntry(vector, id))
    BY <1>1, <1>2, <1>3, JoinKeeps
  <1> QED BY <1>1, <1>2, <1>4 DEF IInv

LEMMA LeaveAlike ==
    ASSUME IInv, NEW id \in DOMAIN orders, Leave(id), NEW os, SameButOne(orders, os, id)
    PROVE  Alike(os, list', vector')
  <1> DEFINE l2 == ListRemove(list, id)
             v2 == RemoveEntry(vector, id)
  <1>1. Alike(orders, list, vector) /\ id \in DOMAIN vector.orders_map
    BY DEF IInv, Leave, Queued
  <1>2. /\ Left(vector, id, v2)
        /\ l2 = ListRemoveOnIt(list, id)
        /\ LeftList(os, list, DOMAIN vector.orders_map, vector.orders_map, id, l2)
    BY <1>1, RemoveLeaves
  <1>3. list' = PruneList(l2) /\ vector' = PruneVector(v2)
    BY <1>2 DEF Leave
  <1> HIDE DEF l2, v2
  <1>4. Alike(os, PruneList(l2), PruneVector(v2))
    BY <1>1, <1>2, LeaveKeeps
  <1> QED BY <1>3, <1>4

LEMMA CancelOrderIInv ==
    ASSUME IInv, NEW id \in DOMAIN orders, CancelOrder(id)
    PROVE  IInv'
  <1> DEFINE o == Cancel(orders[id])
             os == [orders EXCEPT ![id] = o]
  <1>1. orders' = os /\ Leave(id) /\ Pool(orders)
    BY DEF CancelOrder, IInv
  <1>2. FillsOK(orders[id])
    BY <1>1 DEF Pool
  <1>3. FillsOK(o)
    BY <1>2 DEF FillsOK, Cancel, OrderRecord, OrderStatus
  <1> HIDE DEF o
  <1>4. Pool(os) /\ SameButOne(orders, os, id)
    BY <1>1, <1>3, PoolWith
  <1> HIDE DEF os
  <1>5. Alike(os, list', vector')
    BY <1>1, <1>4, LeaveAlike
  <1> QED BY <1>1, <1>4, <1>5 DEF IInv

LEMMA MoveAwayIInv ==
    ASSUME IInv, NEW id \in DOMAIN orders, MoveAway(id)
    PROVE  IInv'
  <1>1. orders' = orders /\ Leave(id)
    BY DEF MoveAway
  <1>2. SameButOne(orders, orders, id)
    BY DEF SameButOne
  <1>3. Alike(orders, list', vector')
    BY <1>1, <1>2, LeaveAlike
  <1> QED BY <1>1, <1>3 DEF IInv

\* The order that grows is not alone, so the vector is not empty in between and
\* its head finds the next valid entry.
LEMMA GrowIInv ==
    ASSUME IInv, ~ GrowAlone, NEW id \in DOMAIN orders,
           NEW quantity \in LevelQuantities, Grow(id, quantity)
    PROVE  IInv'
  <1> DEFINE o == SetQuantity(orders[id], quantity)
             os == [orders EXCEPT ![id] = o]
             D == DOMAIN vector.orders_map
             l2 == ListRemove(list, id)
             v2 == RemoveEntry(vector, id)
  <1>1. /\ orders' = os /\ id \in D
        /\ list' = ListAdd(l2, id) /\ vector' = AddEntry(v2, id)
        /\ quantity > orders[id].quantity /\ Size(vector) > 1
        /\ Pool(orders) /\ Alike(orders, list, vector)
    BY DEF Grow, IInv, Queued
  <1>2. FillsOK(orders[id])
    BY <1>1 DEF Pool
  <1>3. FillsOK(o) /\ o.status = orders[id].status
    BY <1>1, <1>2 DEF FillsOK, SetQuantity, OrderRecord
  <1> HIDE DEF o
  <1>4. Pool(os) /\ SameButOne(orders, os, id) /\ os[id] = o
    BY <1>1, <1>3, PoolWith
  <1> HIDE DEF os
  <1>5. /\ Left(vector, id, v2)
        /\ LeftList(os, list, D, vector.orders_map, id, l2)
    BY <1>1, RemoveLeaves
  <1> HIDE DEF l2, v2
  <1>6. ~ Empty(v2)
    <2>1. IsFiniteSet(D) /\ Cardinality(D) > 1
      BY <1>1 DEF Alike, Sound, Size
    <2>2. Cardinality(D \ {id}) = Cardinality(D) - 1 /\ Cardinality(D) \in Nat
      BY <1>1, <2>1, FS_RemoveElement, FS_CardinalityType
    <2>3. D \ {id} # {}
      <3> DEFINE R == D \ {id}
      <3>1. Cardinality(R) # 0
        BY <2>1, <2>2
      <3> HIDE DEF R
      <3>2. R # {}
        BY <3>1, FS_EmptySet
      <3> QED BY <3>2 DEF R
    <2>4. DOMAIN v2.orders_map = D \ {id}
      BY <1>5 DEF Left
    <2> QED BY <2>3, <2>4 DEF Empty
  <1>7. Alike(os, l2, v2)
    BY <1>1, <1>4, <1>5, <1>6, LeaveKeeps
  <1>8. Open(os[id]) /\ id \in DOMAIN os /\ id \in Nat
    <2>1. Open(orders[id])
      BY <1>1 DEF Alike, MapsOK
    <2> QED BY <1>1, <1>3, <1>4, <2>1, PoolDomain DEF Open, SameButOne
  <1>9. id \notin DOMAIN v2.orders_map
    BY <1>5 DEF Left
  <1>10. Alike(os, ListAdd(l2, id), AddEntry(v2, id))
    BY <1>7, <1>8, <1>9, JoinKeeps
  <1> QED BY <1>1, <1>4, <1>10 DEF IInv

LEMMA MatchFrontIInv ==
    ASSUME IInv, NEW fill_qty \in LevelQuantities, MatchFront(fill_qty)
    PROVE  IInv'
  <1> DEFINE f == FrontOrder(vector)
             o == Match(orders[f], fill_qty)
             os == [orders EXCEPT ![f] = o]
             D == DOMAIN vector.orders_map
  <1>1. /\ orders' = os /\ ~ Empty(vector) /\ fill_qty <= Available(orders[f])
        /\ list' = PruneList(ListPopFrontIfFilled(list, Filled(o)))
        /\ vector' = PruneVector(PopFrontIfFilled(vector, Filled(o)))
        /\ Pool(orders) /\ Alike(orders, list, vector)
    BY DEF MatchFront, IInv
  <1>2. f \in D /\ ~ ListEmpty(list)
    BY <1>1, FrontIsFirst
  <1>3. f \in DOMAIN orders /\ Open(orders[f])
    BY <1>1, <1>2 DEF Alike, MapsOK
  <1>4. FillsOK(orders[f])
    BY <1>1, <1>3 DEF Pool
  <1>5. FillsOK(o) /\ o.status \in {"FULLY_FILLED", "PARTIALLY_FILLED"}
    <2>1. fill_qty \in Nat
      OBVIOUS
    <2> QED BY <1>1, <1>4, <2>1, MatchedOrder
  <1> HIDE DEF o, f
  <1>6. Pool(os) /\ SameButOne(orders, os, f) /\ os[f] = o
    BY <1>1, <1>3, <1>5, PoolWith
  <1> HIDE DEF os
  <1>7. CASE Filled(o)
    <2> DEFINE l2 == ListPopFrontIfFilled(list, TRUE)
               v2 == PopFrontIfFilled(vector, TRUE)
    <2>1. list' = PruneList(l2) /\ vector' = PruneVector(v2)
      BY <1>1, <1>7 DEF ListPopFrontIfFilled, PopFrontIfFilled
    <2>2. Filled(os[f])
      BY <1>6, <1>7
    <2>3. Left(vector, f, v2) /\ LeftList(os, list, D, vector.orders_map, f, l2)
      BY <1>1, <2>2, PopLeaves DEF f
    <2> HIDE DEF l2, v2
    <2>4. Alike(os, PruneList(l2), PruneVector(v2))
      BY <1>1, <1>2, <1>6, <2>3, LeaveKeeps
    <2> QED BY <1>1, <1>6, <2>1, <2>4 DEF IInv
  <1>8. CASE ~ Filled(o)
    <2>1. list' = list /\ vector' = vector
      BY <1>1, <1>2, <1>8 DEF ListPopFrontIfFilled, PopFrontIfFilled, PruneList, PruneVector
    <2>2. Open(os[f]) /\ ~ Filled(orders[f])
      BY <1>3, <1>5, <1>6, <1>8 DEF Open, Filled
    <2>3. MapsOK(orders, list, vector)
      BY <1>1 DEF Alike
    <2>4. MapsOK(os, list, vector)
      <3>1. \A x \in DOMAIN os : Open(orders[x]) => Open(os[x])
        BY <1>6, <2>2 DEF SameButOne, Open
      <3>2. \A x \in DOMAIN os : Filled(orders[x]) => Filled(os[x])
        BY <1>6, <2>2 DEF SameButOne, Filled
      <3> QED BY <1>6, <2>3, <3>1, <3>2 DEF MapsOK, SameButOne
    <2>5. Alike(os, list, vector)
      BY <1>1, <2>4 DEF Alike
    <2> QED BY <1>1, <1>6, <2>1, <2>5 DEF IInv
  <1> QED BY <1>7, <1>8

LEMMA NextIInv == ~ GrowAlone /\ IInv /\ [Next]_vars => IInv'
  <1> SUFFICES ASSUME ~ GrowAlone, IInv, [Next]_vars PROVE IInv'
    OBVIOUS
  <1>1. ASSUME UNCHANGED vars PROVE IInv'
    BY <1>1 DEF vars, IInv, Queued
  <1>2. ASSUME NEW quantity \in LevelQuantities, Add(quantity) PROVE IInv'
    BY <1>2, AddIInv
  <1>3. ASSUME NEW id \in DOMAIN orders, MoveHere(id) PROVE IInv'
    BY <1>3, MoveHereIInv
  <1>4. ASSUME NEW id \in DOMAIN orders, CancelOrder(id) PROVE IInv'
    BY <1>4, CancelOrderIInv
  <1>5. ASSUME NEW id \in DOMAIN orders, MoveAway(id) PROVE IInv'
    BY <1>5, MoveAwayIInv
  <1>6. ASSUME NEW id \in DOMAIN orders, NEW quantity \in LevelQuantities, Grow(id, quantity)
        PROVE  IInv'
    BY <1>6, GrowIInv
  <1>7. ASSUME NEW fill_qty \in LevelQuantities, MatchFront(fill_qty) PROVE IInv'
    BY <1>7, MatchFrontIInv
  <1> QED BY <1>1, <1>2, <1>3, <1>4, <1>5, <1>6, <1>7 DEF Next

-----------------------------------------------------------------------------
(***************************************************************************)
(* What the levels show                                                    *)
(***************************************************************************)

LEMMA PrintedAlike ==
    ASSUME NEW os, NEW l, NEW v, Alike(os, l, v)
    PROVE  PrintedVector(v) = l.orders_list
  <1> DEFINE e == v.order_entries
             m == v.orders_map
             D == DOMAIN m
             V == ValidEntries(v)
             place == [i \in V |-> i]
             walk == CHOOSE q \in SetToSeqs(V) : IsSorted(q, <)
             printed == [k \in DOMAIN walk |-> e[walk[k]].order]
  <1>1. PrintedVector(v) = printed
    BY DEF PrintedVector, ValidEntries
  <1>2. Sound(v) /\ Lists(l.orders_list, D, m)
    BY DEF Alike, Follows
  <1>3. Places(D, m)
    BY <1>2, SoundPlaces
  <1>4. IsFiniteSet(V) /\ V \subseteq Nat
    BY <1>2, ValidFinite DEF Sound
  <1>5. Places(V, place)
    BY <1>4 DEF Places
  <1>6. \A q \in SetToSeqs(V) : IsSorted(q, <) <=> Increasing(q, place)
    <2>1. IsFiniteSet(V) /\ Cardinality(V) \in Nat
      BY <1>5, FS_CardinalityType DEF Places
    <2>2. \A q \in SetToSeqs(V) : q \in [1 .. Cardinality(V) -> V]
      BY DEF SetToSeqs
    <2> HIDE DEF V
    <2>3. \A q \in SetToSeqs(V) : Len(q) = Cardinality(V) /\ DOMAIN q = 1 .. Cardinality(V)
                                  /\ \A i \in DOMAIN q : q[i] \in V /\ place[q[i]] = q[i]
      BY <2>1, <2>2
    <2> QED BY <2>3 DEF IsSorted, Increasing
  <1> HIDE DEF V, place
  <1>7. walk \in SetToSeqs(V) /\ Increasing(walk, place)
    BY <1>5, <1>6, SeqsListing
  <1>8. Lists(walk, V, place)
    BY <1>5, <1>7, SeqsListing
  <1> HIDE DEF walk
  <1>9. /\ walk \in Seq(V) /\ \A k \in DOMAIN walk : walk[k] \in V
        /\ \A k \in DOMAIN walk : place[walk[k]] = walk[k]
    BY <1>8 DEF Lists, place
  <1>10. \A i \in V : e[i].order \in D /\ m[e[i].order] = i
    BY <1>2 DEF Sound, ValidEntries, V
  <1>11. \A x \in D : m[x] \in V /\ e[m[x]].order = x
    BY <1>2 DEF Sound, ValidEntries, V
  <1>12. /\ DOMAIN printed = DOMAIN walk
         /\ \A k \in DOMAIN walk : /\ printed[k] = e[walk[k]].order
                                   /\ printed[k] \in D /\ m[printed[k]] = walk[k]
    BY <1>9, <1>10
  <1>13. printed \in Seq(D)
    BY <1>9, <1>12
  <1> HIDE DEF printed
  <1>14. \A x \in D : \E k \in DOMAIN printed : printed[k] = x
    <2> SUFFICES ASSUME NEW x \in D PROVE \E k \in DOMAIN printed : printed[k] = x
      OBVIOUS
    <2>1. PICK k \in DOMAIN walk : walk[k] = m[x]
      BY <1>8, <1>11 DEF Lists
    <2> QED BY <1>11, <1>12, <2>1
  <1>15. Increasing(printed, m)
    BY <1>8, <1>9, <1>12 DEF Lists, Increasing
  <1>16. Lists(printed, D, m)
    BY <1>13, <1>14, <1>15 DEF Lists
  <1> QED BY <1>1, <1>2, <1>3, <1>16, ListsUnique

LEMMA ListTotalQtyIs ==
    ASSUME NEW l, NEW pool, NEW f,
           \A k \in DOMAIN l.orders_list : f[k] = Available(pool[l.orders_list[k]])
    PROVE  ListTotalQty(l, pool) = Total(f, DOMAIN l.orders_list)
  <1> DEFINE q == l.orders_list
             S == DOMAIN q
             Eq(g) == g = [s \in SUBSET S |->
                        IF s = {} THEN 0
                        ELSE Available(pool[q[Pick(s)]]) + g[s \ {Pick(s)}]]
  <1>1. ListTotalQty(l, pool) = (CHOOSE g : Eq(g))[S]
    BY DEF ListTotalQty, FoldSeq, FoldFunction, FoldFunctionOnSet, MapThenFoldSet, Pick
  <1> HIDE DEF S, q
  <1>2. \A g : Eq(g) <=> Iterates(g, f, S)
    <2>1. \A s \in SUBSET S : s # {} => f[Pick(s)] = Available(pool[q[Pick(s)]])
      BY DEF Pick, S, q
    <2> QED BY <2>1 DEF Iterates
  <1> HIDE DEF Eq
  <1>3. (CHOOSE g : Eq(g)) = (CHOOSE g : Iterates(g, f, S))
    BY <1>2
  <1> QED BY <1>1, <1>3 DEF Total, S, q

\* One walks the valid entries, the other the list: the same orders.
LEMMA QuantityAlike ==
    ASSUME NEW os, Pool(os), NEW l, NEW v, Alike(os, l, v)
    PROVE  TotalQty(v, os) = ListTotalQty(l, os)
  <1> DEFINE q == l.orders_list
             S == DOMAIN q
             e == v.order_entries
             m == v.orders_map
             D == DOMAIN m
             V == ValidEntries(v)
             f == [k \in S |-> Available(os[q[k]])]
             g == [i \in V |-> Available(os[e[i].order])]
             h == [k \in S |-> m[q[k]]]
  <1>1. Sound(v) /\ Lists(q, D, m) /\ MapsOK(os, l, v)
    BY DEF Alike, Follows
  <1>2. Places(D, m)
    BY <1>1, SoundPlaces
  <1>3. q \in Seq(D) /\ Len(q) \in Nat /\ S = 1 .. Len(q) /\ \A k \in S : q[k] \in D
    BY <1>1 DEF Lists
  <1>4. \A x \in D : /\ m[x] \in V /\ e[m[x]].order = x
                     /\ x \in DOMAIN os
    BY <1>1 DEF Sound, ValidEntries, MapsOK
  <1>5. \A i \in V : e[i].order \in D /\ m[e[i].order] = i
    BY <1>1 DEF Sound, ValidEntries
  <1>6. \A x \in DOMAIN os : Available(os[x]) \in Nat
    BY DEF Pool, FillsOK, Available
  <1>7. IsFiniteSet(S) /\ IsFiniteSet(V)
    <2>1. IsFiniteSet(V)
      BY <1>1, ValidFinite DEF Sound
    <2>2. IsFiniteSet(1 .. Len(q))
      BY <1>3, FS_Interval
    <2> QED BY <1>3, <2>1, <2>2
  <1> HIDE DEF V, D, e, m, q, S
  <1>8. \A k \in S : f[k] \in Nat /\ h[k] = m[q[k]] /\ h[k] \in V /\ g[h[k]] = f[k]
    BY <1>3, <1>4, <1>6
  <1>9. V = {h[k] : k \in S}
    <2>1. ASSUME NEW i \in V PROVE \E k \in S : h[k] = i
      <3>1. PICK k \in S : q[k] = e[i].order
        BY <1>1, <1>5 DEF Lists, S
      <3> QED BY <1>5, <1>8, <3>1
    <2> QED BY <1>8, <2>1
  <1>10. ASSUME NEW j \in S, NEW k \in S, h[j] = h[k] PROVE j = k
    <2>1. m[q[j]] = m[q[k]] /\ m[q[j]] \in Nat /\ m[q[k]] \in Nat
      BY <1>2, <1>3, <1>8, <1>10 DEF Places
    <2>2. j < k => m[q[j]] < m[q[k]]
      BY <1>1 DEF Lists, Increasing, S
    <2>3. k < j => m[q[k]] < m[q[j]]
      BY <1>1 DEF Lists, Increasing, S
    <2>4. j \in Nat /\ k \in Nat
      BY <1>3
    <2> QED BY <2>1, <2>2, <2>3, <2>4
  <1> HIDE DEF f, g, h
  <1>11. OneForOne(f, S, g, V, h)
    BY <1>7, <1>8, <1>9, <1>10 DEF OneForOne, Summable
  <1>12. Total(g, V) = Total(f, S)
    BY <1>11, TotalMapped
  <1>13. TotalQty(v, os) = Total(g, V)
    <2>1. \A i \in ValidEntries(v) : g[i] = Available(os[v.order_entries[i].order])
      BY DEF g, V, e
    <2> QED BY <2>1, TotalQtyIs DEF V
  <1>14. ListTotalQty(l, os) = Total(f, S)
    <2>1. \A k \in DOMAIN l.orders_list : f[k] = Available(os[l.orders_list[k]])
      BY DEF f, S, q
    <2> QED BY <2>1, ListTotalQtyIs DEF S, q
  <1> QED BY <1>12, <1>13, <1>14

LEMMA IInvSameQueue == IInv => SameQueue
  <1> SUFFICES ASSUME IInv PROVE SameQueue
    OBVIOUS
  <1>1. Pool(orders) /\ Alike(orders, list, vector)
    BY DEF IInv
  <1>2. PrintedVector(vector) = PrintedList(list)
    BY <1>1, PrintedAlike DEF PrintedList
  <1>3. TotalQty(vector, orders) = ListTotalQty(list, orders)
    BY <1>1, QuantityAlike
  <1>4. /\ Sound(vector)
        /\ Lists(list.orders_list, DOMAIN vector.orders_map, vector.orders_map)
    BY <1>1 DEF Alike, Follows
  <1>5. Size(vector) = Len(list.orders_list)
    BY <1>4, SoundPlaces, ListsLen DEF Size
  <1>6. ASSUME ~ ListEmpty(list) PROVE FrontOrder(vector) = ListFront(list)
    <2>1. ~ Empty(vector)
      BY <1>4, <1>6, EmptyTogether DEF ListEmpty, Empty
    <2> QED BY <1>1, <2>1, FrontIsFirst DEF ListFront
  <1> QED BY <1>2, <1>3, <1>5, <1>6 DEF SameQueue

LEMMA IInvOnlyFilledDangle == IInv => OnlyFilledDangle
  <1> SUFFICES ASSUME IInv, NEW id \in DOMAIN orders, Dangling(list, id)
               PROVE  Filled(orders[id])
    BY DEF OnlyFilledDangle
  <1> DEFINE q == list.orders_list
             D == DOMAIN vector.orders_map
  <1>1. Lists(q, D, vector.orders_map) /\ MapsOK(orders, list, vector)
    BY DEF IInv, Alike, Follows
  <1>2. id \in list.orders_map /\ \A i \in 1 .. Len(q) : q[i] # id
    BY DEF Dangling, Contains
  <1>3. id \notin D
    BY <1>1, <1>2 DEF Lists
  <1> QED BY <1>1, <1>2, <1>3 DEF MapsOK

-----------------------------------------------------------------------------
(***************************************************************************)
(* The theorems                                                            *)
(***************************************************************************)

\* The inductive invariant: in the vector of price_level_v2.h the map leads to
\* the valid entries and to no others and the head of a level in use is valid;
\* the list of price_level.h holds the orders of that map in the order of their
\* entries, and its own map, beyond them, filled orders only.
THEOREM LevelsInvariant == ~ GrowAlone /\ Spec => []IInv
  <1>1. ASSUME ~ GrowAlone PROVE IInv /\ [Next]_vars => IInv'
    BY <1>1, NextIInv
  <1>2. CASE ~ GrowAlone
    <2>1. IInv /\ [Next]_vars => IInv'
      BY <1>1, <1>2
    <2> QED BY <2>1, InitIInv, PTL DEF Spec
  <1>3. CASE GrowAlone
    BY <1>3, PTL
  <1> QED BY <1>2, <1>3

\* The vector is a drop-in replacement of the list, for any quantities and any
\* number of orders and entries, as long as modify_order does not re-queue the
\* only order of a level: same orders printed, same size, same quantity left,
\* same front.
THEOREM VectorReplacesList == ~ GrowAlone /\ Spec => []SameQueue
  BY LevelsInvariant, IInvSameQueue, PTL

\* pop_front_order_if_filled of the list leaves a dangling iterator in its map;
\* only filled orders, which no request reaches, have one.
THEOREM DanglingIsFilled == ~ GrowAlone /\ Spec => []OnlyFilledDangle
  BY LevelsInvariant, IInvOnlyFilledDangle, PTL


=============================================================================
