-------------------------- MODULE SPSCQueueProofs --------------------------
(***************************************************************************)
(* The ring buffer is correct for every capacity, every set of items and   *)
(* every number of pushes.  The inductive invariant says how the two       *)
(* indices, the other thread's possibly old views of them and the slots    *)
(* fit together (IndexOrder, SlotsHoldPushed of SPSCQueue).                *)
(***************************************************************************)
EXTENDS SPSCQueue, TLAPS

IInv == TypeOK /\ IndexOrder /\ SlotsHoldPushed

-----------------------------------------------------------------------------
(***************************************************************************)
(* Arithmetic of the ring                                                  *)
(***************************************************************************)

\* The successor of a slot, without the modulus.
LEMMA SuccSlot ==
    ASSUME NEW i \in Slots
    PROVE  /\ Succ(i) \in Slots
           /\ Succ(i) = IF i = Capacity - 1 THEN 0 ELSE i + 1
  <1>1. /\ \A n \in Nat : n < Capacity => n % Capacity = n
        /\ Capacity % Capacity = 0
    BY CapacityAssumption
  <1>2. CASE i = Capacity - 1
    BY <1>1, <1>2, CapacityAssumption DEF Slots, Succ
  <1>3. CASE i # Capacity - 1
    BY <1>1, <1>3, CapacityAssumption DEF Slots, Succ
  <1> QED
    BY <1>2, <1>3

\* Distances are smaller than the capacity, and only a slot is at distance 0.
LEMMA DistRange ==
    ASSUME NEW i \in Slots, NEW j \in Slots
    PROVE  /\ Dist(i, j) \in 0 .. Capacity - 1
           /\ Dist(i, j) = 0 <=> i = j
  BY CapacityAssumption DEF Slots, Dist

\* Storing _head: no slot but the new one joins, the other indices keep their
\* places.
LEMMA HeadMoves ==
    ASSUME NEW ts \in Slots, NEW t \in Slots, NEW hs \in Slots, NEW h \in Slots,
           OnTheWay(ts, t, h), OnTheWay(t, hs, h), Succ(h) # ts
    PROVE  /\ OnTheWay(ts, t, Succ(h)) /\ OnTheWay(t, hs, Succ(h))
           /\ Dist(t, Succ(h)) = Dist(t, h) + 1
  <1> DEFINE n == Succ(h)
  <1>1. n \in Slots /\ n = IF h = Capacity - 1 THEN 0 ELSE h + 1
    BY SuccSlot
  <1> HIDE DEF n
  <1>2. /\ OnTheWay(ts, t, n) /\ OnTheWay(t, hs, n)
        /\ Dist(t, n) = Dist(t, h) + 1
    <2>1. n # ts
      BY DEF n
    <2> QED
      BY <1>1, <2>1, CapacityAssumption DEF Slots, OnTheWay, Dist
  <1> QED
    BY <1>2 DEF n

\* Storing _tail: the slot it leaves drops out, every other one is one nearer.
LEMMA TailMoves ==
    ASSUME NEW ts \in Slots, NEW t \in Slots, NEW hs \in Slots, NEW h \in Slots,
           OnTheWay(ts, t, h), OnTheWay(t, hs, h), t # hs
    PROVE  /\ OnTheWay(ts, Succ(t), h) /\ OnTheWay(Succ(t), hs, h)
           /\ \A s \in Slots : s # t => Dist(Succ(t), s) = Dist(t, s) - 1
           /\ Dist(Succ(t), t) = Capacity - 1
           /\ t # h
  <1> DEFINE n == Succ(t)
  <1>1. n \in Slots /\ n = IF t = Capacity - 1 THEN 0 ELSE t + 1
    BY SuccSlot
  <1> HIDE DEF n
  <1>2. /\ OnTheWay(ts, n, h) /\ OnTheWay(n, hs, h)
        /\ \A s \in Slots : s # t => Dist(n, s) = Dist(t, s) - 1
        /\ Dist(n, t) = Capacity - 1
        /\ t # h
    BY <1>1, CapacityAssumption DEF Slots, OnTheWay, Dist
  <1> QED
    BY <1>2 DEF n

\* A store becoming visible to the other thread.
LEMMA ViewMoves ==
    ASSUME NEW i \in Slots, NEW j \in Slots, NEW k \in Slots,
           OnTheWay(i, j, k)
    PROVE  /\ i # j => OnTheWay(Succ(i), j, k) /\ Succ(k) # Succ(i)
           /\ j # k => OnTheWay(i, Succ(j), k) /\ i # Succ(j)
  <1>1. ASSUME i # j PROVE OnTheWay(Succ(i), j, k) /\ Succ(k) # Succ(i)
    <2> DEFINE n == Succ(i)
               m == Succ(k)
    <2>1. /\ n \in Slots /\ n = IF i = Capacity - 1 THEN 0 ELSE i + 1
          /\ m \in Slots /\ m = IF k = Capacity - 1 THEN 0 ELSE k + 1
      BY SuccSlot
    <2> HIDE DEF n, m
    <2>2. OnTheWay(n, j, k) /\ m # n
      BY <1>1, <2>1, CapacityAssumption DEF Slots, OnTheWay, Dist
    <2> QED
      BY <2>2 DEF n, m
  <1>2. ASSUME j # k PROVE OnTheWay(i, Succ(j), k) /\ i # Succ(j)
    <2> DEFINE n == Succ(j)
    <2>1. n \in Slots /\ n = IF j = Capacity - 1 THEN 0 ELSE j + 1
      BY SuccSlot
    <2> HIDE DEF n
    <2>2. OnTheWay(i, n, k) /\ i # n
      BY <1>2, <2>1, CapacityAssumption DEF Slots, OnTheWay, Dist
    <2> QED
      BY <2>2 DEF n
  <1> QED
    BY <1>1, <1>2

-----------------------------------------------------------------------------
(***************************************************************************)
(* The inductive invariant                                                 *)
(***************************************************************************)

\* An empty queue of any capacity satisfies the invariant.
LEMMA InitInv == Init => IInv
  <1> SUFFICES ASSUME Init PROVE IInv
    OBVIOUS
  <1>1. 0 \in Slots
    BY CapacityAssumption DEF Slots
  <1>2. TypeOK
    BY <1>1, MaxPushesAssumption DEF Init, TypeOK
  <1>3. Dist(0, 0) = 0
    BY DEF Dist
  <1>4. IndexOrder
    BY <1>1, <1>3 DEF Init, IndexOrder, OnTheWay
  <1>5. \A s \in Slots : Dist(0, s) >= 0
    BY <1>1, DistRange
  <1>6. SlotsHoldPushed
    BY <1>3, <1>5, DistRange, <1>1 DEF Init, SlotsHoldPushed, Leaving
  <1> QED
    BY <1>2, <1>4, <1>6 DEF IInv

\* push's load of _tail: the test it passes stays true.
LEMMA PushLoadInv ==
    ASSUME IInv, NEW x \in Items, PushLoad(x)
    PROVE  IInv'
  BY DEF IInv, TypeOK, IndexOrder, SlotsHoldPushed, Leaving, PushLoad, consVars

\* push's write: the slot is not one that holds an item.
LEMMA PushWriteInv ==
    ASSUME IInv, PushWrite
    PROVE  IInv'
  <1>1. TypeOK /\ head \in Slots /\ tail \in Slots /\ arg \in Items
    BY DEF IInv, TypeOK, IndexOrder, PushWrite
  <1>2. TypeOK'
    BY <1>1 DEF TypeOK, PushWrite, consVars
  <1>3. IndexOrder'
    BY <1>1 DEF TypeOK, IInv, IndexOrder, PushWrite, consVars
  <1>4. SlotsHoldPushed'
    <2>1. \A s \in Slots : Dist(tail, s) < Dist(tail, head) => buffer'[s] = buffer[s]
      <3>1. ~ (Dist(tail, head) < Dist(tail, head))
        BY <1>1, DistRange, CapacityAssumption
      <3> QED
        BY <3>1, <1>1 DEF PushWrite, TypeOK
    <2>2. UNCHANGED <<head, tail, pushed, popped, cpc>>
      BY DEF PushWrite, consVars
    <2> QED
      BY <2>1, <2>2 DEF IInv, SlotsHoldPushed, Leaving
  <1> QED
    BY <1>2, <1>3, <1>4 DEF IInv

\* push's store of _head: the item joins the queue.
LEMMA PushPublishInv ==
    ASSUME IInv, PushPublish
    PROVE  IInv'
  <1> DEFINE n == Succ(head)
  <1>1. /\ TypeOK /\ IndexOrder /\ SlotsHoldPushed
        /\ head \in Slots /\ tail \in Slots /\ head_seen \in Slots /\ tail_seen \in Slots
        /\ pushed \in Seq(Items) /\ popped \in Seq(Items \cup {Nothing})
    BY DEF IInv, TypeOK
  <1>2. /\ n # tail_seen /\ arg \in Items /\ Len(pushed) < MaxPushes
        /\ buffer[head] = arg
    BY <1>1 DEF IndexOrder, PushPublish
  <1>3. /\ n \in Slots
        /\ OnTheWay(tail_seen, tail, n) /\ OnTheWay(tail, head_seen, n)
        /\ Dist(tail, n) = Dist(tail, head) + 1
    BY <1>1, <1>2, HeadMoves, SuccSlot DEF IndexOrder
  <1> HIDE DEF n
  <1>4. /\ head' = n /\ pushed' = Append(pushed, arg) /\ ppc' = "ready"
        /\ UNCHANGED <<buffer, head_seen, tail_seen, tail, cpc, popped>>
        /\ arg' = Nothing
    BY DEF PushPublish, consVars, n
  <1>5. TypeOK'
    BY <1>1, <1>2, <1>3, <1>4, MaxPushesAssumption DEF TypeOK
  <1>6. IndexOrder'
    BY <1>1, <1>3, <1>4 DEF IndexOrder
  <1>7. SlotsHoldPushed'
    <2> DEFINE d(s) == Dist(tail, s)
               k == Len(popped) - Leaving
    <2>1. /\ Len(pushed) = k + d(head)
          /\ \A i \in 1 .. Len(popped) : popped[i] = pushed[i]
          /\ \A s \in Slots : Leaving <= d(s) /\ d(s) < d(head) =>
                buffer[s] = pushed[k + d(s) + 1]
      BY <1>1 DEF SlotsHoldPushed
    <2>2. /\ \A s \in Slots : d(s) \in 0 .. Capacity - 1
          /\ d(n) = d(head) + 1
          /\ \A s \in Slots : d(s) = d(head) => s = head
      BY <1>1, <1>3, CapacityAssumption, DistRange DEF Dist, Slots
    <2>3. /\ Leaving \in {0, 1} /\ Leaving' = Leaving
          /\ Leaving <= d(head) /\ k \in Int /\ Len(popped) <= Len(pushed)
      <3>1. Leaving \in {0, 1} /\ Leaving' = Leaving
        BY <1>4 DEF Leaving
      <3>2. cpc = "release" => tail # head
        BY <1>1, DistRange, SMTT(30) DEF IndexOrder, OnTheWay
      <3>3. Leaving <= d(head)
        BY <3>2, <1>1, DistRange, SMTT(30) DEF Leaving
      <3>4. Len(popped) \in Nat /\ Len(pushed) \in Nat /\ d(head) \in Nat
        BY <1>1, <2>2
      <3> QED
        BY <3>1, <3>3, <3>4, <2>1
    <2> HIDE DEF d, k
    <2>4. /\ Len(Append(pushed, arg)) = Len(pushed) + 1
          /\ Append(pushed, arg)[Len(pushed) + 1] = arg
          /\ \A i \in 1 .. Len(pushed) : Append(pushed, arg)[i] = pushed[i]
      BY <1>1, <1>2
    <2>5. /\ Len(Append(pushed, arg)) = k + d(n)
          /\ \A i \in 1 .. Len(popped) : popped[i] = Append(pushed, arg)[i]
      BY <1>1, <1>3, <2>1, <2>2, <2>3, <2>4
    <2>6. ASSUME NEW s \in Slots, Leaving <= d(s), d(s) < d(n)
          PROVE  buffer[s] = Append(pushed, arg)[k + d(s) + 1]
      <3>1. CASE d(s) = d(head)
        BY <3>1, <1>1, <1>2, <2>1, <2>2, <2>4
      <3>2. CASE d(s) # d(head)
        <4>1. d(s) < d(head)
          BY <3>2, <2>6, <2>2, <1>1
        <4>2. k + d(s) + 1 \in 1 .. Len(pushed)
          BY <4>1, <2>6, <2>1, <2>2, <2>3, <1>1 DEF k
        <4> QED
          BY <4>1, <4>2, <2>6, <2>1, <2>4
      <3> QED
        BY <3>1, <3>2
    <2> QED
      BY <1>4, <2>3, <2>5, <2>6 DEF SlotsHoldPushed, d, k
  <1> QED
    BY <1>5, <1>6, <1>7 DEF IInv

\* pop's load of _head: the test it passes stays true.
LEMMA PopLoadInv ==
    ASSUME IInv, PopLoad
    PROVE  IInv'
  BY DEF IInv, TypeOK, IndexOrder, SlotsHoldPushed, Leaving, PopLoad, prodVars

\* pop's move out of the slot: it takes the oldest item of the queue.
LEMMA PopReadInv ==
    ASSUME IInv, PopRead
    PROVE  IInv'
  <1>1. /\ TypeOK /\ IndexOrder /\ SlotsHoldPushed
        /\ head \in Slots /\ tail \in Slots /\ head_seen \in Slots
        /\ pushed \in Seq(Items) /\ popped \in Seq(Items \cup {Nothing})
    BY DEF IInv, TypeOK
  <1>2. /\ popped' = Append(popped, buffer[tail])
        /\ buffer' = [buffer EXCEPT ![tail] = Nothing]
        /\ cpc = "read" /\ cpc' = "release"
        /\ UNCHANGED <<head_seen, tail_seen, tail, head, ppc, arg, pushed>>
        /\ Leaving = 0 /\ Leaving' = 1
    BY DEF PopRead, prodVars, Leaving
  <1>3. tail # head_seen /\ tail # head
    BY <1>1, <1>2, DistRange DEF IndexOrder, OnTheWay
  <1>4. TypeOK'
    BY <1>1, <1>2 DEF TypeOK
  <1>5. IndexOrder'
    BY <1>1, <1>2, <1>3 DEF IndexOrder, TypeOK
  <1>6. SlotsHoldPushed'
    <2> DEFINE d(s) == Dist(tail, s)
               n == Len(popped)
               more == Append(popped, buffer[tail])
    <2>1. /\ Len(pushed) = n + d(head)
          /\ \A i \in 1 .. n : popped[i] = pushed[i]
          /\ \A s \in Slots : 0 <= d(s) /\ d(s) < d(head) =>
                buffer[s] = pushed[n + d(s) + 1]
      <3>1. Len(popped) - Leaving = Len(popped)
        BY <1>1, <1>2
      <3> QED
        BY <1>1, <1>2, <3>1 DEF SlotsHoldPushed
    <2>2. /\ \A s \in Slots : d(s) \in 0 .. Capacity - 1 /\ (d(s) = 0 <=> s = tail)
          /\ d(head) > 0
      BY <1>1, <1>3, CapacityAssumption, DistRange
    <2> HIDE DEF d
    <2>3. buffer[tail] = pushed[n + 1]
      BY <2>1, <2>2, <1>1
    <2>4. buffer[tail] \in Items \cup {Nothing}
      BY <1>1 DEF TypeOK
    <2>5. /\ Len(more) = n + 1 /\ more[n + 1] = pushed[n + 1]
          /\ \A i \in 1 .. n : more[i] = popped[i]
      BY <1>1, <2>3, <2>4
    <2> HIDE DEF more
    <2>6. \A i \in 1 .. Len(more) : more[i] = pushed[i]
      BY <2>1, <2>5, <1>1
    <2>7. Len(pushed) = Len(more) - 1 + d(head)
      BY <2>1, <2>2, <2>5, <1>1
    <2>8. ASSUME NEW s \in Slots, 1 <= d(s), d(s) < d(head)
          PROVE  buffer'[s] = pushed[Len(more) - 1 + d(s) + 1]
      <3>1. s # tail /\ buffer'[s] = buffer[s] /\ 0 <= d(s)
        BY <2>2, <2>8, <1>1, <1>2 DEF TypeOK
      <3>2. Len(more) - 1 + d(s) + 1 = n + d(s) + 1
        BY <2>2, <2>5, <1>1
      <3> QED
        BY <3>1, <3>2, <2>1, <2>8
    <2> QED
      BY <1>2, <2>6, <2>7, <2>8 DEF SlotsHoldPushed, d, more
  <1> QED
    BY <1>4, <1>5, <1>6 DEF IInv

\* pop's store of _tail: the slot is free again.
LEMMA PopReleaseInv ==
    ASSUME IInv, PopRelease
    PROVE  IInv'
  <1> DEFINE n == Succ(tail)
  <1>1. /\ TypeOK /\ IndexOrder /\ SlotsHoldPushed
        /\ head \in Slots /\ tail \in Slots /\ head_seen \in Slots /\ tail_seen \in Slots
        /\ pushed \in Seq(Items) /\ popped \in Seq(Items \cup {Nothing})
    BY DEF IInv, TypeOK
  <1>2. tail # head_seen
    BY <1>1 DEF IndexOrder, PopRelease
  <1>3. /\ n \in Slots
        /\ OnTheWay(tail_seen, n, head) /\ OnTheWay(n, head_seen, head)
        /\ \A s \in Slots : s # tail => Dist(n, s) = Dist(tail, s) - 1
        /\ Dist(n, tail) = Capacity - 1
        /\ tail # head
    BY <1>1, <1>2, TailMoves, SuccSlot DEF IndexOrder
  <1> HIDE DEF n
  <1>4. /\ tail' = n /\ cpc' = "ready"
        /\ UNCHANGED <<buffer, head_seen, tail_seen, popped, head, ppc, arg, pushed>>
        /\ Leaving = 1 /\ Leaving' = 0
    BY DEF PopRelease, prodVars, n, Leaving
  <1>5. TypeOK'
    BY <1>1, <1>3, <1>4 DEF TypeOK
  <1>6. IndexOrder'
    BY <1>1, <1>3, <1>4 DEF IndexOrder
  <1>7. SlotsHoldPushed'
    <2> DEFINE d(s) == Dist(tail, s)
               e(s) == Dist(n, s)
               k == Len(popped)
    <2>1. /\ Len(pushed) = k - 1 + d(head)
          /\ \A i \in 1 .. k : popped[i] = pushed[i]
          /\ \A s \in Slots : 1 <= d(s) /\ d(s) < d(head) =>
                buffer[s] = pushed[k - 1 + d(s) + 1]
      BY <1>1, <1>4 DEF SlotsHoldPushed
    <2>2. /\ \A s \in Slots : s # tail => e(s) = d(s) - 1
          /\ \A s \in Slots : d(s) \in Nat /\ e(s) \in 0 .. Capacity - 1
          /\ e(tail) = Capacity - 1
          /\ e(head) = d(head) - 1
          /\ k \in Nat
      <3>1. \A s \in Slots : d(s) \in 0 .. Capacity - 1 /\ e(s) \in 0 .. Capacity - 1
        BY <1>1, <1>3, DistRange
      <3>2. \A s \in Slots : d(s) \in Nat
        BY <3>1, CapacityAssumption
      <3> QED
        BY <1>1, <1>3, <3>1, <3>2
    <2> HIDE DEF d, e, k
    <2>3. Len(pushed) = k - 0 + e(head)
      BY <2>1, <2>2, <1>1
    <2>4. ASSUME NEW s \in Slots, 0 <= e(s), e(s) < e(head)
          PROVE  buffer[s] = pushed[k - 0 + e(s) + 1]
      <3>1. s # tail /\ e(s) = d(s) - 1
        BY <2>2, <2>4, <1>1, CapacityAssumption
      <3>2. 1 <= d(s) /\ d(s) < d(head)
        BY <3>1, <2>2, <2>4, <1>1
      <3>3. k - 1 + d(s) + 1 = k - 0 + e(s) + 1
        BY <3>1, <2>2
      <3> QED
        BY <3>2, <3>3, <2>1
    <2> QED
      BY <1>4, <2>1, <2>3, <2>4 DEF SlotsHoldPushed, e, k
  <1> QED
    BY <1>5, <1>6, <1>7 DEF IInv

\* A store to _head or _tail becoming visible to the other thread.
LEMMA PropagateInv ==
    ASSUME IInv, PropagateHead \/ PropagateTail
    PROVE  IInv'
  <1>1. /\ TypeOK /\ IndexOrder /\ SlotsHoldPushed
        /\ head \in Slots /\ tail \in Slots /\ head_seen \in Slots /\ tail_seen \in Slots
    BY DEF IInv, TypeOK
  <1>2. CASE PropagateHead
    <2>1. /\ head_seen' \in Slots /\ tail # head_seen'
          /\ OnTheWay(tail, head_seen', head)
      BY <1>1, <1>2, ViewMoves, SuccSlot DEF IndexOrder, PropagateHead
    <2> QED
      BY <1>1, <1>2, <2>1
      DEF IInv, TypeOK, IndexOrder, SlotsHoldPushed, Leaving, PropagateHead,
          prodVars, consVars
  <1>3. CASE PropagateTail
    <2>1. /\ tail_seen' \in Slots /\ Succ(head) # tail_seen'
          /\ OnTheWay(tail_seen', tail, head)
      BY <1>1, <1>3, ViewMoves, SuccSlot DEF IndexOrder, PropagateTail
    <2> QED
      BY <1>1, <1>3, <2>1
      DEF IInv, TypeOK, IndexOrder, SlotsHoldPushed, Leaving, PropagateTail,
          prodVars, consVars
  <1> QED
    BY <1>2, <1>3

-----------------------------------------------------------------------------
\* TypeOK, IndexOrder and SlotsHoldPushed hold in every state that push and pop
\* can reach, in any interleaving and with loads as old as the memory model
\* allows.
THEOREM RingInvariant == Spec => [](TypeOK /\ IndexOrder /\ SlotsHoldPushed)
  <1>1. IInv /\ [Next]_vars => IInv'
    <2> SUFFICES ASSUME IInv, [Next]_vars PROVE IInv'
      OBVIOUS
    <2>1. ASSUME NEW x \in Items, PushLoad(x) PROVE IInv'
      BY <2>1, PushLoadInv
    <2>2. CASE PushWrite
      BY <2>2, PushWriteInv
    <2>3. CASE PushPublish
      BY <2>3, PushPublishInv
    <2>4. CASE PopLoad
      BY <2>4, PopLoadInv
    <2>5. CASE PopRead
      BY <2>5, PopReadInv
    <2>6. CASE PopRelease
      BY <2>6, PopReleaseInv
    <2>7. CASE PropagateHead \/ PropagateTail
      BY <2>7, PropagateInv
    <2>8. CASE UNCHANGED vars
      BY <2>8 DEF IInv, TypeOK, IndexOrder, SlotsHoldPushed, Leaving, vars,
                  prodVars, consVars
    <2> QED
      BY <2>1, <2>2, <2>3, <2>4, <2>5, <2>6, <2>7, <2>8
      DEF Next, Push, Pop, PushFull, PopEmpty
  <1> QED
    BY <1>1, InitInv, PTL DEF Spec, IInv

\* The producer never writes the slot the consumer reads.
THEOREM NoRace == Spec => []RaceFree
  <1>1. TypeOK /\ IndexOrder /\ SlotsHoldPushed => RaceFree
    <2> SUFFICES ASSUME TypeOK, IndexOrder, cpc = "read" PROVE head # tail
      BY DEF RaceFree
    <2>1. tail # head_seen /\ tail \in Slots /\ head_seen \in Slots /\ head \in Slots
      BY DEF IndexOrder, TypeOK
    <2> QED
      BY <2>1, DistRange DEF IndexOrder, OnTheWay
  <1> QED
    BY <1>1, RingInvariant, PTL

\* pop delivers what push accepted, once each and in order.
THEOREM InOrder == Spec => []DeliveredInOrder
  <1>1. TypeOK /\ IndexOrder /\ SlotsHoldPushed => DeliveredInOrder
    <2> SUFFICES ASSUME TypeOK, IndexOrder, SlotsHoldPushed PROVE DeliveredInOrder
      OBVIOUS
    <2>1. tail \in Slots /\ head_seen \in Slots /\ head \in Slots
      BY DEF TypeOK
    <2>2. Leaving \in {0, 1} /\ (Leaving = 1 => tail # head_seen)
      BY DEF IndexOrder, Leaving
    <2>3. Leaving <= Dist(tail, head)
      BY <2>1, <2>2, DistRange DEF IndexOrder, OnTheWay
    <2>4. Len(popped) \in Nat /\ Dist(tail, head) \in Nat
      BY <2>1, DistRange, CapacityAssumption DEF TypeOK
    <2> QED
      BY <2>2, <2>3, <2>4 DEF SlotsHoldPushed, DeliveredInOrder
  <1> QED
    BY <1>1, RingInvariant, PTL

\* One slot always stays free.
THEOREM Capped == Spec => []WithinCapacity
  <1>1. TypeOK /\ IndexOrder /\ SlotsHoldPushed => WithinCapacity
    <2> SUFFICES ASSUME TypeOK, SlotsHoldPushed PROVE WithinCapacity
      OBVIOUS
    <2>1. Dist(tail, head) \in 0 .. Capacity - 1
      BY DistRange DEF TypeOK
    <2>2. Leaving \in {0, 1} /\ Len(popped) \in Nat
      BY DEF Leaving, TypeOK
    <2> QED
      BY <2>1, <2>2, CapacityAssumption DEF SlotsHoldPushed, WithinCapacity
  <1> QED
    BY <1>1, RingInvariant, PTL

\* The indices never leave the buffer and nothing but items is accepted.
THEOREM RingTypes == Spec => []TypeOK
  BY RingInvariant, PTL

\* The slots from _tail to _head hold what was pushed and not popped, in order.
THEOREM RingSlots == Spec => []SlotsHoldPushed
  BY RingInvariant, PTL

-----------------------------------------------------------------------------
(***************************************************************************)
(* Refinement                                                              *)
(***************************************************************************)

\* all without its first n items
Rest(all, n) == [i \in 1 .. Len(all) - n |-> all[n + i]]

\* An item accepted is the last to wait.
LEMMA RestAppend ==
    ASSUME NEW all \in Seq(Items), NEW n \in 0 .. Len(all), NEW x \in Items
    PROVE  /\ Rest(Append(all, x), n) = Append(Rest(all, n), x)
           /\ Len(Rest(all, n)) = Len(all) - n
  <1>1. /\ Len(all) \in Nat /\ Len(all) - n \in Nat
        /\ Len(Append(all, x)) = Len(all) + 1
        /\ Append(all, x)[Len(all) + 1] = x
        /\ \A i \in 1 .. Len(all) : Append(all, x)[i] = all[i] /\ all[i] \in Items
    OBVIOUS
  <1>2. Rest(all, n) \in Seq(Items) /\ Len(Rest(all, n)) = Len(all) - n
    BY <1>1 DEF Rest
  <1> QED
    BY <1>1, <1>2 DEF Rest

\* The item delivered next is the first to wait.
LEMMA RestTail ==
    ASSUME NEW all \in Seq(Items), NEW n \in Nat, n < Len(all)
    PROVE  /\ Rest(all, n) # <<>>
           /\ Head(Rest(all, n)) = all[n + 1]
           /\ Tail(Rest(all, n)) = Rest(all, n + 1)
  <1>1. /\ Len(all) \in Nat
        /\ \A i \in 1 .. Len(all) : all[i] \in Items
    OBVIOUS
  <1> DEFINE r == Rest(all, n)
  <1>2. /\ r \in Seq(Items) /\ Len(r) = Len(all) - n
        /\ \A i \in 1 .. Len(all) - n : r[i] = all[n + i]
    BY <1>1 DEF Rest
  <1> HIDE DEF r
  <1>3. r # <<>> /\ Head(r) = all[n + 1]
    BY <1>1, <1>2
  <1>4. Tail(r) = [i \in 1 .. Len(all) - (n + 1) |-> r[i + 1]]
    <2>1. /\ Tail(r) \in Seq(Items) /\ Len(Tail(r)) = Len(all) - (n + 1)
          /\ \A i \in 1 .. Len(all) - (n + 1) : Tail(r)[i] = r[i + 1]
      BY <1>1, <1>2, <1>3
    <2>2. \A q \in Seq(Items) : q = [i \in 1 .. Len(q) |-> q[i]]
      OBVIOUS
    <2> QED
      BY <2>1, <2>2
  <1>5. ASSUME NEW i \in 1 .. Len(all) - (n + 1)
        PROVE  r[i + 1] = all[n + 1 + i]
    <2>1. i + 1 \in 1 .. Len(all) - n /\ n + (i + 1) = n + 1 + i
      BY <1>1
    <2> QED
      BY <1>2, <2>1
  <1>6. Tail(r) = Rest(all, n + 1)
    BY <1>4, <1>5 DEF Rest
  <1> QED
    BY <1>3, <1>6 DEF r

\* The i-th slot from a slot on, and how far it is.
LEMMA NthSlot ==
    ASSUME NEW f \in Slots, NEW k \in 0 .. Capacity - 1
    PROVE  (f + k) % Capacity \in Slots /\ Dist(f, (f + k) % Capacity) = k
  <1>1. /\ \A n \in Nat : n < Capacity => n % Capacity = n
        /\ \A n \in Nat : n < Capacity => (n + Capacity) % Capacity = n
    BY CapacityAssumption
  <1>2. CASE f + k < Capacity
    BY <1>1, <1>2, CapacityAssumption DEF Slots, Dist
  <1>3. CASE f + k >= Capacity
    <2>1. /\ f + k - Capacity \in Nat /\ f + k - Capacity < Capacity
          /\ f + k - Capacity + Capacity = f + k
      BY <1>3, CapacityAssumption DEF Slots
    <2>2. (f + k) % Capacity = f + k - Capacity
      BY <1>1, <2>1
    <2> QED
      BY <2>1, <2>2, CapacityAssumption DEF Slots, Dist
  <1> QED
    BY <1>2, <1>3, CapacityAssumption DEF Slots

\* What the slots show is what was pushed and has not been popped.
LEMMA ContentsWaiting ==
    ASSUME IInv
    PROVE  /\ Contents = Rest(pushed, Len(popped))
           /\ Len(popped) \in 0 .. Len(pushed)
           /\ Len(pushed) - Len(popped) = Dist(tail, head) - Leaving
  <1>1. /\ tail \in Slots /\ head_seen \in Slots /\ head \in Slots
        /\ Len(popped) \in Nat /\ Len(pushed) \in Nat
        /\ Capacity \in Nat
    BY CapacityAssumption DEF IInv, TypeOK
  <1>2. /\ Leaving \in {0, 1}
        /\ Leaving = 1 <=> cpc = "release"
        /\ Leaving = 1 => tail # head_seen
    BY DEF IInv, IndexOrder, Leaving
  <1>3. /\ Dist(tail, head) \in 0 .. Capacity - 1
        /\ Leaving <= Dist(tail, head)
    BY <1>1, <1>2, DistRange DEF IInv, IndexOrder, OnTheWay
  <1> DEFINE first == IF cpc = "release" THEN Succ(tail) ELSE tail
             left == Len(pushed) - Len(popped)
  <1>4. left = Dist(tail, head) - Leaving
    BY <1>1, <1>2, <1>3 DEF IInv, SlotsHoldPushed
  <1>5. /\ first \in Slots
        /\ Dist(first, head) = Dist(tail, head) - Leaving
        /\ \A s \in Slots : Dist(first, s) < Dist(first, head) =>
                Dist(tail, s) = Dist(first, s) + Leaving
    <2>1. CASE cpc # "release"
      BY <1>1, <1>2, <2>1, DistRange
    <2>2. CASE cpc = "release"
      <3>1. /\ OnTheWay(tail_seen, tail, head) /\ OnTheWay(tail, head_seen, head)
            /\ tail_seen \in Slots /\ tail # head_seen
        BY <2>2 DEF IInv, TypeOK, IndexOrder
      <3>2. /\ \A s \in Slots : s # tail => Dist(Succ(tail), s) = Dist(tail, s) - 1
            /\ Dist(Succ(tail), tail) = Capacity - 1
            /\ tail # head
        BY <1>1, <3>1, TailMoves
      <3>3. Succ(tail) \in Slots
        BY <1>1, SuccSlot
      <3>4. /\ Leaving = 1 /\ Dist(Succ(tail), head) = Dist(tail, head) - 1
        BY <1>1, <1>2, <2>2, <3>2
      <3>5. ASSUME NEW s \in Slots, Dist(Succ(tail), s) < Dist(Succ(tail), head)
            PROVE  Dist(tail, s) = Dist(Succ(tail), s) + 1
        <4>1. s # tail
          BY <1>1, <1>3, <3>2, <3>4, <3>5
        <4> QED
          BY <1>1, <3>2, <4>1, DistRange
      <3> QED
        BY <2>2, <3>3, <3>4, <3>5
    <2> QED
      BY <2>1, <2>2
  <1> HIDE DEF first
  <1>6. ASSUME NEW i \in 1 .. left
        PROVE  buffer[(first + i - 1) % Capacity] = pushed[Len(popped) + i]
    <2> DEFINE s == (first + (i - 1)) % Capacity
    <2>1. i - 1 \in 0 .. Capacity - 1 /\ i - 1 < Dist(first, head)
      BY <1>1, <1>2, <1>3, <1>4, <1>5
    <2>2. s \in Slots /\ Dist(first, s) = i - 1
      BY <1>5, <2>1, NthSlot
    <2>3. first + (i - 1) = first + i - 1
      BY <1>5, <1>1, <1>4 DEF Slots
    <2> HIDE DEF s
    <2>4. Dist(tail, s) = i - 1 + Leaving
      BY <1>5, <2>1, <2>2
    <2>5. buffer[s] = pushed[Len(popped) - Leaving + Dist(tail, s) + 1]
      <3>1. Leaving <= Dist(tail, s) /\ Dist(tail, s) < Dist(tail, head)
        BY <1>1, <1>2, <1>3, <1>4, <2>1, <2>4, <1>5
      <3> QED
        BY <2>2, <3>1 DEF IInv, SlotsHoldPushed
    <2>6. Len(popped) - Leaving + Dist(tail, s) + 1 = Len(popped) + i
      BY <1>1, <1>2, <2>4, <2>1
    <2> QED
      BY <2>3, <2>5, <2>6 DEF s
  <1>7. Contents = [i \in 1 .. left |-> buffer[(first + i - 1) % Capacity]]
    BY <1>4, <1>5 DEF Contents, first
  <1>8. Contents = Rest(pushed, Len(popped))
    BY <1>6, <1>7 DEF Rest
  <1> QED
    BY <1>1, <1>2, <1>3, <1>4, <1>8

\* The ring buffer implements the bounded first-in first-out queue: storing
\* _head enqueues the item, moving it out of its slot dequeues it, and no other
\* step of push or pop is visible.
THEOREM RingImplementsFIFO == Spec => ImplementsFIFO
  <1>1. Init => FIFO!Init
    <2> SUFFICES ASSUME Init PROVE FIFO!Init
      OBVIOUS
    <2>1. Contents = Rest(pushed, Len(popped)) /\ Len(popped) = 0 /\ Len(pushed) = 0
      BY InitInv, ContentsWaiting DEF Init
    <2>2. Contents = <<>>
      BY <2>1 DEF Rest
    <2> QED
      BY <2>2 DEF FIFO!Init, Init
  <1>2. IInv => Contents = Rest(pushed, Len(popped))
    BY ContentsWaiting
  <1>3. IInv' => (Contents = Rest(pushed, Len(popped)))'
    BY <1>2, PTL
  <1>4. IInv /\ IInv' /\ [Next]_vars => [FIFO!Next]_(FIFO!fifoVars)
    <2> SUFFICES ASSUME IInv, IInv', [Next]_vars
                 PROVE  [FIFO!Next]_(FIFO!fifoVars)
      OBVIOUS
    <2>1. /\ Contents = Rest(pushed, Len(popped))
          /\ Len(popped) \in 0 .. Len(pushed)
          /\ Len(pushed) - Len(popped) = Dist(tail, head) - Leaving
      BY ContentsWaiting
    <2>2. Contents' = Rest(pushed', Len(popped'))
      BY <1>3
    <2>3. CASE UNCHANGED <<pushed, popped>>
      BY <2>1, <2>2, <2>3 DEF FIFO!fifoVars
    <2>4. CASE PushPublish
      <3>1. /\ pushed \in Seq(Items) /\ arg \in Items
            /\ pushed' = Append(pushed, arg) /\ popped' = popped
        BY <2>4 DEF IInv, TypeOK, IndexOrder, PushPublish, consVars
      <3>2. /\ Contents' = Append(Contents, arg)
            /\ Len(Contents) = Dist(tail, head) - Leaving
        BY <2>1, <2>2, <3>1, RestAppend
      <3>3. Len(Contents) < Capacity - 1
        <4>1. /\ Succ(head) # tail_seen
              /\ OnTheWay(tail_seen, tail, head)
              /\ tail_seen \in Slots /\ tail \in Slots /\ head \in Slots
          BY <2>4 DEF IInv, TypeOK, IndexOrder, PushPublish
        <4>2. Succ(head) = IF head = Capacity - 1 THEN 0 ELSE head + 1
          BY <4>1, SuccSlot
        <4>3. Dist(tail, head) < Capacity - 1
          BY <4>1, <4>2, CapacityAssumption DEF OnTheWay, Dist, Slots
        <4>4. Leaving \in {0, 1} /\ Dist(tail, head) \in Int /\ Capacity \in Nat
          BY <4>1, DistRange, CapacityAssumption DEF Leaving
        <4> QED
          BY <3>2, <4>3, <4>4
      <3>4. FIFO!Enqueue(arg)
        BY <3>1, <3>2, <3>3 DEF FIFO!Enqueue
      <3> QED
        BY <3>1, <3>4 DEF FIFO!Next
    <2>5. CASE PopRead
      <3>1. /\ pushed \in Seq(Items) /\ pushed' = pushed
            /\ popped \in Seq(Items \cup {Nothing})
            /\ popped' = Append(popped, buffer[tail])
            /\ tail \in Slots /\ head \in Slots /\ head_seen \in Slots
            /\ tail # head_seen /\ Leaving = 0
        BY <2>5 DEF IInv, TypeOK, IndexOrder, PopRead, prodVars, Leaving
      <3>2. Dist(tail, head) > 0 /\ Dist(tail, tail) = 0
        BY <3>1, DistRange, CapacityAssumption DEF IInv, IndexOrder, OnTheWay
      <3>3. buffer[tail] = pushed[Len(popped) + 1] /\ Len(popped) < Len(pushed)
        <4>1. buffer[tail] = pushed[Len(popped) - Leaving + Dist(tail, tail) + 1]
          BY <3>1, <3>2 DEF IInv, SlotsHoldPushed
        <4>2. Len(popped) \in Nat /\ Len(pushed) \in Nat /\ Dist(tail, head) \in Int
          BY <3>1, DistRange
        <4> QED
          BY <2>1, <3>1, <3>2, <4>1, <4>2
      <3>4. Len(popped) \in Nat /\ Len(popped') = Len(popped) + 1
        BY <3>1
      <3>5. /\ Contents # <<>> /\ Head(Contents) = buffer[tail]
            /\ Contents' = Tail(Contents)
        BY <2>1, <2>2, <3>1, <3>3, <3>4, RestTail
      <3>6. FIFO!Dequeue
        BY <3>1, <3>5 DEF FIFO!Dequeue
      <3> QED
        BY <3>6 DEF FIFO!Next
    <2> QED
      BY <2>3, <2>4, <2>5
      DEF Next, Push, Pop, PushLoad, PushFull, PushWrite, PopLoad, PopEmpty,
          PopRelease, PropagateHead, PropagateTail, vars, prodVars, consVars
  <1> QED
    BY <1>1, <1>4, RingInvariant, PTL DEF Spec, ImplementsFIFO, FIFO!Spec, IInv

=============================================================================
