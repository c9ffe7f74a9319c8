---------------------------- MODULE BoundedFIFO ----------------------------
(***************************************************************************)
(* What a single-producer single-consumer queue promises: items come out   *)
(* once each, in the order they went in, and no more than Bound of them    *)
(* are inside.  A call that fails is a stuttering step: the producer may   *)
(* be told "full" and the consumer "empty" at any time.                    *)
(***************************************************************************)
EXTENDS Naturals, Sequences

CONSTANTS Items, Bound

VARIABLES queue,    \* accepted and not yet delivered, oldest first
          popped    \* delivered so far

fifoVars == <<queue, popped>>

Init == queue = <<>> /\ popped = <<>>

Enqueue(x) ==
    /\ Len(queue) < Bound
    /\ queue' = Append(queue, x)
    /\ UNCHANGED popped

Dequeue ==
    /\ queue # <<>>
    /\ popped' = Append(popped, Head(queue))
    /\ queue' = Tail(queue)

Next == (\E x \in Items : Enqueue(x)) \/ Dequeue

Spec == Init /\ [][Next]_fifoVars

=============================================================================
