----------------------------- MODULE TicketQueue -----------------------------
(***************************************************************************)
(* What LockFreeRingBuffer (src/src/core/spmc_ring_buffer.hpp) promises its *)
(* callers: a bounded FIFO whose entries are claimed first and become ready *)
(* later.  A pop takes the oldest entry, and only once it is ready.         *)
(*                                                                         *)
(* RingBuffer implements this specification; Engine and Telemetry use its   *)
(* actions as their queue.                                                 *)
(***************************************************************************)
EXTENDS Naturals, Sequences

CONSTANTS Capacity,   \* number of cells of the ring
          Values      \* what is pushed

VARIABLE queue        \* oldest first; entries [item, ready]

Entry == [item : Values, ready : BOOLEAN]

TypeOK == queue \in Seq(Entry)

Init == queue = << >>

\* A producer wins the compare-exchange on enqueue_pos_: its place in the
\* order is fixed, its item not yet visible.
Claim(v) ==
    /\ Len(queue) < Capacity
    /\ queue' = Append(queue, [item |-> v, ready |-> FALSE])

\* The release store of sequence = pos + 1.
Publish(k) ==
    /\ k \in 1..Len(queue)
    /\ ~ queue[k].ready
    /\ queue' = [queue EXCEPT ![k].ready = TRUE]

\* A consumer wins the compare-exchange on dequeue_pos_.
Take ==
    /\ queue # << >>
    /\ Head(queue).ready
    /\ queue' = Tail(queue)

Next ==
    \/ \E v \in Values : Claim(v)
    \/ \E k \in 1..Capacity : Publish(k)
    \/ Take

Spec == Init /\ [][Next]_queue
=============================================================================
