----------------------------- MODULE SPSCQueue -----------------------------
(***************************************************************************)
(* SPSCQueue of include/spsc_queue.h: the lock-free ring buffer through    *)
(* which the producer thread hands commands to one worker thread.          *)
(*                                                                         *)
(* push and pop are split at their accesses to shared memory: the load of  *)
(* the other side's index, the access to the slot, the store of the own    *)
(* index.  A thread's own index is read without a step, since no other     *)
(* thread writes it.                                                       *)
(*                                                                         *)
(* Memory model.  A load of the other side's atomic index may return an    *)
(* old value, but never one older than the thread has already read:        *)
(* head_seen and tail_seen are the values currently visible to the other   *)
(* thread, and trail head and tail through every value these had.  The     *)
(* release store and the acquire load order the slot accesses around them, *)
(* so the slots themselves can be one shared array, provided no two        *)
(* threads access a slot at the same time (RaceFree).                      *)
(***************************************************************************)
EXTENDS Integers, Sequences

CONSTANTS
    Capacity,   \* _buffer.size(); one slot always stays free
    Items,      \* what is pushed
    Nothing,    \* content of a slot never written, or moved out of
    MaxPushes   \* bound: items accepted

\* A capacity of 0 would divide by zero in push.
ASSUME CapacityAssumption == Capacity \in Nat \ {0}
ASSUME NothingAssumption == Nothing \notin Items
ASSUME MaxPushesAssumption == MaxPushes \in Nat

VARIABLES
    buffer, head, tail,  \* _buffer, _head, _tail
    head_seen,           \* the value of _head that pop's load returns
    tail_seen,           \* the value of _tail that push's load returns
    ppc, arg,            \* the producer's position in push, and its argument
    cpc,                 \* the consumer's position in pop
    pushed, popped       \* history: items accepted by push, delivered by pop

prodVars == <<head, ppc, arg, pushed>>
consVars == <<tail, cpc, popped>>
vars == <<buffer, head_seen, tail_seen, prodVars, consVars>>

Slots == 0 .. Capacity - 1

Succ(i) == (i + 1) % Capacity

Init ==
    /\ buffer = [i \in Slots |-> Nothing]
    /\ head = 0 /\ head_seen = 0
    /\ tail = 0 /\ tail_seen = 0
    /\ ppc = "ready" /\ arg = Nothing
    /\ cpc = "ready"
    /\ pushed = <<>> /\ popped = <<>>

-----------------------------------------------------------------------------
(***************************************************************************)
(* push                                                                    *)
(***************************************************************************)

\* The test for a full queue lost
BugNoFullTest(x) ==
    /\ ppc = "ready" /\ Len(pushed) < MaxPushes
    /\ ppc' = "write" /\ arg' = x
    /\ UNCHANGED <<buffer, head_seen, tail_seen, head, pushed, consVars>>

\* The load of _tail finds a free slot.
PushLoad(x) ==
    /\ ppc = "ready" /\ Len(pushed) < MaxPushes
    /\ Succ(head) # tail_seen
    /\ ppc' = "write" /\ arg' = x
    /\ UNCHANGED <<buffer, head_seen, tail_seen, head, pushed, consVars>>

\* The load of _tail shows a full queue: push returns false.
PushFull ==
    /\ ppc = "ready"
    /\ Succ(head) = tail_seen
    /\ UNCHANGED vars

\* _head stored before the slot is written, as without the release order
BugPublishFirst ==
    /\ ppc = "write"
    /\ head' = Succ(head) /\ pushed' = Append(pushed, arg)
    /\ ppc' = "publish"
    /\ UNCHANGED <<buffer, head_seen, tail_seen, arg, consVars>>

\* _buffer[head] = item
PushWrite ==
    /\ ppc = "write"
    /\ buffer' = [buffer EXCEPT ![head] = arg]
    /\ ppc' = "publish"
    /\ UNCHANGED <<head_seen, tail_seen, head, arg, pushed, consVars>>

\* _head.store(next, release)
PushPublish ==
    /\ ppc = "publish"
    /\ head' = Succ(head)
    /\ pushed' = Append(pushed, arg)
    /\ ppc' = "ready" /\ arg' = Nothing
    /\ UNCHANGED <<buffer, head_seen, tail_seen, consVars>>

-----------------------------------------------------------------------------
(***************************************************************************)
(* pop                                                                     *)
(***************************************************************************)

\* The test for an empty queue lost, and a last item taken for an empty queue
BugNoEmptyTest ==
    /\ cpc = "ready"
    /\ cpc' = "read"
    /\ UNCHANGED <<buffer, head_seen, tail_seen, tail, popped, prodVars>>

BugLeaveLast ==
    /\ cpc = "ready"
    /\ tail # head_seen /\ Succ(tail) # head_seen
    /\ cpc' = "read"
    /\ UNCHANGED <<buffer, head_seen, tail_seen, tail, popped, prodVars>>

\* The load of _head finds an item.
PopLoad ==
    /\ cpc = "ready"
    /\ tail # head_seen
    /\ cpc' = "read"
    /\ UNCHANGED <<buffer, head_seen, tail_seen, tail, popped, prodVars>>

\* The load of _head shows an empty queue: pop returns false.
PopEmpty ==
    /\ cpc = "ready"
    /\ tail = head_seen
    /\ UNCHANGED vars

\* item = std::move(_buffer[tail])
PopRead ==
    /\ cpc = "read"
    /\ popped' = Append(popped, buffer[tail])
    /\ buffer' = [buffer EXCEPT ![tail] = Nothing]
    /\ cpc' = "release"
    /\ UNCHANGED <<head_seen, tail_seen, tail, prodVars>>

\* _tail stored without the wrap around the end of the buffer
BugNoWrap ==
    /\ cpc = "release"
    /\ tail' = tail + 1
    /\ cpc' = "ready"
    /\ UNCHANGED <<buffer, head_seen, tail_seen, popped, prodVars>>

\* _tail.store((tail + 1) % size, release)
PopRelease ==
    /\ cpc = "release"
    /\ tail' = Succ(tail)
    /\ cpc' = "ready"
    /\ UNCHANGED <<buffer, head_seen, tail_seen, popped, prodVars>>

-----------------------------------------------------------------------------
\* std::atomic: the next store to an index becomes visible to the other thread.
PropagateHead ==
    /\ head_seen # head
    /\ head_seen' = Succ(head_seen)
    /\ UNCHANGED <<buffer, tail_seen, prodVars, consVars>>

PropagateTail ==
    /\ tail_seen # tail
    /\ tail_seen' = Succ(tail_seen)
    /\ UNCHANGED <<buffer, head_seen, prodVars, consVars>>

Push == (\E x \in Items : PushLoad(x)) \/ PushWrite \/ PushPublish
Pop == PopLoad \/ PopRead \/ PopRelease

Next ==
    \/ Push \/ PushFull
    \/ Pop \/ PopEmpty
    \/ PropagateHead \/ PropagateTail

Spec == Init /\ [][Next]_vars

\* The producer retries a push that fails (submit_all_shutdown_commands), the
\* worker polls for ever (Worker::run), and a store to an atomic becomes
\* visible to other threads in finite time (the C++ progress guarantee).
FairSpec ==
    /\ Spec
    /\ WF_vars(Push) /\ WF_vars(Pop)
    /\ WF_vars(PropagateHead) /\ WF_vars(PropagateTail)

-----------------------------------------------------------------------------
(***************************************************************************)
(* Properties                                                              *)
(***************************************************************************)

\* Values each variable can take; the indices never leave the buffer.
TypeOK ==
    /\ buffer \in [Slots -> Items \cup {Nothing}]
    /\ head \in Slots /\ head_seen \in Slots
    /\ tail \in Slots /\ tail_seen \in Slots
    /\ ppc \in {"ready", "write", "publish"}
    /\ arg \in Items \cup {Nothing}
    /\ cpc \in {"ready", "read", "release"}
    /\ pushed \in Seq(Items) /\ Len(pushed) <= MaxPushes
    /\ popped \in Seq(Items \cup {Nothing})

\* The producer never writes the slot the consumer is moving an item out of,
\* however old the indices are that the two threads have seen.
RaceFree == ~ (ppc = "write" /\ cpc = "read" /\ head = tail)

\* pop delivers what push accepted, each item once and in order: never a slot
\* not yet written, moved out of or overwritten.
DeliveredInOrder ==
    /\ Len(popped) <= Len(pushed)
    /\ \A i \in 1 .. Len(popped) : popped[i] = pushed[i]

\* At most Capacity - 1 items are inside.
WithinCapacity == Len(pushed) - Len(popped) <= Capacity - 1

\* Steps from slot i forward to slot j, and "j is on the way from i to k"
Dist(i, j) == IF i <= j THEN j - i ELSE j - i + Capacity
OnTheWay(i, j, k) == Dist(i, k) = Dist(i, j) + Dist(j, k)

\* 1 while the item just popped still counts as inside
Leaving == IF cpc = "release" THEN 1 ELSE 0

\* Why the two threads never meet: going round the buffer from the oldest tail
\* the producer may see, one passes _tail, the head the consumer may see, and
\* _head; a push in progress has found a slot free that still is, a pop in
\* progress an item that still is there.
IndexOrder ==
    /\ OnTheWay(tail_seen, tail, head)
    /\ OnTheWay(tail, head_seen, head)
    /\ ppc # "ready" =>
            /\ Succ(head) # tail_seen
            /\ arg \in Items /\ Len(pushed) < MaxPushes
    /\ ppc = "publish" => buffer[head] = arg
    /\ cpc # "ready" => tail # head_seen

\* The slots from _tail to _head hold exactly what was pushed and not popped,
\* in order; what was popped is what was pushed first.
SlotsHoldPushed ==
    /\ Len(pushed) = Len(popped) - Leaving + Dist(tail, head)
    /\ \A i \in 1 .. Len(popped) : popped[i] = pushed[i]
    /\ \A s \in Slots :
            Leaving <= Dist(tail, s) /\ Dist(tail, s) < Dist(tail, head) =>
                buffer[s] = pushed[Len(popped) - Leaving + Dist(tail, s) + 1]

\* The items in the ring, read off the slots themselves.
Contents ==
    LET first == IF cpc = "release" THEN Succ(tail) ELSE tail
    IN  [i \in 1 .. Dist(first, head) |-> buffer[(first + i - 1) % Capacity]]

FIFO == INSTANCE BoundedFIFO WITH Bound <- Capacity - 1, queue <- Contents

\* The ring buffer implements a bounded first-in first-out queue.
ImplementsFIFO == FIFO!Spec

\* Every push that is retried eventually succeeds, so all MaxPushes items get
\* in (a queue needs two slots for that), and every item in is delivered.
AllDelivered == <>(Len(popped) = MaxPushes)

=============================================================================
