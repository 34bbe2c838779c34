----------------------------- MODULE RingBuffer -----------------------------
(***************************************************************************)
(* LockFreeRingBuffer<T, Capacity>, src/src/core/spmc_ring_buffer.hpp: the  *)
(* bounded queue of the ingress path (many HTTP handler threads push, the   *)
(* scheduler thread pops) and of telemetry.  Every atomic access is a step  *)
(* of its own; the non-atomic access to Cell::data is one step, and         *)
(* NoDataRace shows that no other thread can be at the same cell then.      *)
(*                                                                         *)
(* The positions are read with memory_order_relaxed: with RelaxedLoads a    *)
(* load may return any value the location ever held.  The acquire load of   *)
(* Cell::sequence may be stale as well; what it synchronises with is the    *)
(* very store whose value the thread compares for equality.                 *)
(***************************************************************************)
EXTENDS Integers, Sequences, FiniteSets

CONSTANTS Producers, Consumers,  \* the threads that call try_push / try_pop
          Capacity,              \* template parameter Capacity
          Values,                \* the values of T
          MovedFrom,             \* what std::move leaves in a cell
          MaxPushes,             \* bound: no new try_push after so many claims
          RelaxedLoads           \* TRUE: atomic loads may return old values

ASSUME CapacityAssumption == Capacity \in Nat /\ Capacity >= 2
ASSUME ThreadsAssumption == Producers \cap Consumers = {}
ASSUME ValuesAssumption == MovedFrom \notin Values
ASSUME BoundAssumption == MaxPushes \in Nat /\ RelaxedLoads \in BOOLEAN

VARIABLES enqueue_pos_, dequeue_pos_,  \* the two cursors
          sequence,                    \* Cell::sequence
          data,                        \* Cell::data
          pc,                          \* where each thread is in its call
          pos,                         \* the local pos of each thread
          item,                        \* producer: its argument; consumer: out
          pushed                       \* history: pushed[t + 1] has ticket t

vars == <<enqueue_pos_, dequeue_pos_, sequence, data, pc, pos, item, pushed>>

Threads == Producers \cup Consumers
Cells == 0..(Capacity - 1)

\* pos & kMask, for a power of two
CellOf(t) == t % Capacity

Init ==
    /\ enqueue_pos_ = 0
    /\ dequeue_pos_ = 0
    /\ sequence = [i \in Cells |-> i]
    /\ data = [i \in Cells |-> MovedFrom]
    /\ pc = [t \in Threads |-> "idle"]
    /\ pos = [t \in Threads |-> 0]
    /\ item = [t \in Threads |-> MovedFrom]
    /\ pushed = << >>

-----------------------------------------------------------------------------
(* Loads *)

\* The values a relaxed load of a cursor may return.
CursorLoads(cursor) == IF RelaxedLoads THEN 0..cursor ELSE {cursor}

\* The values a load of sequence in cell i may return: every value it held.
SequenceLoads(i) ==
    IF RelaxedLoads
    THEN {s \in i..sequence[i] : CellOf(s) = i \/ CellOf(s) = CellOf(i + 1)}
    ELSE {sequence[i]}

-----------------------------------------------------------------------------
(* try_push *)

PushCall(p, v) ==
    /\ pc[p] = "idle"
    /\ Len(pushed) < MaxPushes
    /\ item' = [item EXCEPT ![p] = v]
    /\ \E l \in CursorLoads(enqueue_pos_) : pos' = [pos EXCEPT ![p] = l]
    /\ pc' = [pc EXCEPT ![p] = "check"]
    /\ UNCHANGED <<enqueue_pos_, dequeue_pos_, sequence, data, pushed>>

\* Mutant of PushCheck: an occupied cell is not told from an overtaken one, the
\* test for "full" is gone.
PushCheckNeverFull(p) ==
    /\ pc[p] = "check"
    /\ \E seq \in SequenceLoads(CellOf(pos[p])) :
          pc' = [pc EXCEPT ![p] = IF seq <= pos[p] THEN "cas" ELSE "reload"]
    /\ UNCHANGED <<enqueue_pos_, dequeue_pos_, sequence, data, pos, item, pushed>>

\* The acquire load of sequence and the branch on diff: free for this lap,
\* still occupied ("full", the call returns false), or already overtaken.
PushCheck(p) ==
    /\ pc[p] = "check"
    /\ \E seq \in SequenceLoads(CellOf(pos[p])) :
          pc' = [pc EXCEPT ![p] = IF seq = pos[p] THEN "cas"
                                  ELSE IF seq < pos[p] THEN "idle"
                                  ELSE "reload"]
    /\ UNCHANGED <<enqueue_pos_, dequeue_pos_, sequence, data, pos, item, pushed>>

\* Mutant of PushReload: the retry keeps the old position.
PushReloadNothing(p) ==
    /\ pc[p] = "reload"
    /\ pc' = [pc EXCEPT ![p] = "check"]
    /\ UNCHANGED <<enqueue_pos_, dequeue_pos_, sequence, data, pos, item, pushed>>

PushReload(p) ==
    /\ pc[p] = "reload"
    /\ \E l \in CursorLoads(enqueue_pos_) : pos' = [pos EXCEPT ![p] = l]
    /\ pc' = [pc EXCEPT ![p] = "check"]
    /\ UNCHANGED <<enqueue_pos_, dequeue_pos_, sequence, data, item, pushed>>

\* Mutant of PushClaim: a plain store instead of the compare-exchange.
PushClaimByStore(p) ==
    /\ pc[p] = "cas"
    /\ enqueue_pos_' = pos[p] + 1
    /\ pushed' = Append(pushed, item[p])
    /\ pc' = [pc EXCEPT ![p] = "data"]
    /\ UNCHANGED <<dequeue_pos_, sequence, data, pos, item>>

PushClaim(p) ==
    /\ pc[p] = "cas"
    /\ enqueue_pos_ = pos[p]
    /\ enqueue_pos_' = pos[p] + 1
    /\ pushed' = Append(pushed, item[p])
    /\ pc' = [pc EXCEPT ![p] = "data"]
    /\ UNCHANGED <<dequeue_pos_, sequence, data, pos, item>>

\* compare_exchange_weak fails, because another producer was first or
\* spuriously, and leaves what it loaded in pos.
PushLose(p) ==
    /\ pc[p] = "cas"
    /\ \E l \in CursorLoads(enqueue_pos_) : pos' = [pos EXCEPT ![p] = l]
    /\ pc' = [pc EXCEPT ![p] = "check"]
    /\ UNCHANGED <<enqueue_pos_, dequeue_pos_, sequence, data, item, pushed>>

PushWrite(p) ==
    /\ pc[p] = "data"
    /\ data' = [data EXCEPT ![CellOf(pos[p])] = item[p]]
    /\ pc' = [pc EXCEPT ![p] = "store"]
    /\ UNCHANGED <<enqueue_pos_, dequeue_pos_, sequence, pos, item, pushed>>

\* Mutant of PushPublish: the sequence number is not advanced.
PushPublishNothing(p) ==
    /\ pc[p] = "store"
    /\ sequence' = [sequence EXCEPT ![CellOf(pos[p])] = pos[p]]
    /\ pc' = [pc EXCEPT ![p] = "idle"]
    /\ UNCHANGED <<enqueue_pos_, dequeue_pos_, data, pos, item, pushed>>

PushPublish(p) ==
    /\ pc[p] = "store"
    /\ sequence' = [sequence EXCEPT ![CellOf(pos[p])] = pos[p] + 1]
    /\ pc' = [pc EXCEPT ![p] = "idle"]
    /\ UNCHANGED <<enqueue_pos_, dequeue_pos_, data, pos, item, pushed>>

-----------------------------------------------------------------------------
(* try_pop *)

PopCall(c) ==
    /\ pc[c] = "idle"
    /\ \E l \in CursorLoads(dequeue_pos_) : pos' = [pos EXCEPT ![c] = l]
    /\ pc' = [pc EXCEPT ![c] = "check"]
    /\ UNCHANGED <<enqueue_pos_, dequeue_pos_, sequence, data, item, pushed>>

PopCheck(c) ==
    /\ pc[c] = "check"
    /\ \E seq \in SequenceLoads(CellOf(pos[c])) :
          pc' = [pc EXCEPT ![c] = IF seq = pos[c] + 1 THEN "cas"
                                  ELSE IF seq < pos[c] + 1 THEN "idle"
                                  ELSE "reload"]
    /\ UNCHANGED <<enqueue_pos_, dequeue_pos_, sequence, data, pos, item, pushed>>

PopReload(c) ==
    /\ pc[c] = "reload"
    /\ \E l \in CursorLoads(dequeue_pos_) : pos' = [pos EXCEPT ![c] = l]
    /\ pc' = [pc EXCEPT ![c] = "check"]
    /\ UNCHANGED <<enqueue_pos_, dequeue_pos_, sequence, data, item, pushed>>

PopClaim(c) ==
    /\ pc[c] = "cas"
    /\ dequeue_pos_ = pos[c]
    /\ dequeue_pos_' = pos[c] + 1
    /\ pc' = [pc EXCEPT ![c] = "data"]
    /\ UNCHANGED <<enqueue_pos_, sequence, data, pos, item, pushed>>

PopLose(c) ==
    /\ pc[c] = "cas"
    /\ \E l \in CursorLoads(dequeue_pos_) : pos' = [pos EXCEPT ![c] = l]
    /\ pc' = [pc EXCEPT ![c] = "check"]
    /\ UNCHANGED <<enqueue_pos_, dequeue_pos_, sequence, data, item, pushed>>

PopRead(c) ==
    /\ pc[c] = "data"
    /\ item' = [item EXCEPT ![c] = data[CellOf(pos[c])]]
    /\ data' = [data EXCEPT ![CellOf(pos[c])] = MovedFrom]
    /\ pc' = [pc EXCEPT ![c] = "store"]
    /\ UNCHANGED <<enqueue_pos_, dequeue_pos_, sequence, pos, pushed>>

\* Mutant of PopRelease: sequence = pos + kMask.
PopReleaseShort(c) ==
    /\ pc[c] = "store"
    /\ sequence' = [sequence EXCEPT ![CellOf(pos[c])] = pos[c] + Capacity - 1]
    /\ pc' = [pc EXCEPT ![c] = "idle"]
    /\ UNCHANGED <<enqueue_pos_, dequeue_pos_, data, pos, item, pushed>>

\* sequence = pos + kMask + 1: the cell is free for the next lap.
PopRelease(c) ==
    /\ pc[c] = "store"
    /\ sequence' = [sequence EXCEPT ![CellOf(pos[c])] = pos[c] + Capacity]
    /\ pc' = [pc EXCEPT ![c] = "idle"]
    /\ UNCHANGED <<enqueue_pos_, dequeue_pos_, data, pos, item, pushed>>

-----------------------------------------------------------------------------
PushStep(p) ==
    PushCheck(p) \/ PushReload(p) \/ PushClaim(p) \/ PushLose(p)
        \/ PushWrite(p) \/ PushPublish(p)

PopStep(c) ==
    PopCheck(c) \/ PopReload(c) \/ PopClaim(c) \/ PopLose(c)
        \/ PopRead(c) \/ PopRelease(c)

Next ==
    \/ \E p \in Producers : (\E v \in Values : PushCall(p, v)) \/ PushStep(p)
    \/ \E c \in Consumers : PopCall(c) \/ PopStep(c)

Spec == Init /\ [][Next]_vars

-----------------------------------------------------------------------------
(* Safety *)

\* Type invariant.
TypeOK ==
    /\ enqueue_pos_ \in Nat /\ dequeue_pos_ \in Nat
    /\ sequence \in [Cells -> Nat]
    /\ data \in [Cells -> Values \cup {MovedFrom}]
    /\ pc \in [Threads -> {"idle", "check", "reload", "cas", "data", "store"}]
    /\ pos \in [Threads -> Nat]
    /\ item \in [Threads -> Values \cup {MovedFrom}]
    /\ pushed \in Seq(Values)
    /\ Len(pushed) = enqueue_pos_

\* t has won its compare-exchange and not yet handed its cell over.
Holds(t) == pc[t] \in {"data", "store"}

\* Between the compare-exchange and the release store a thread has its cell
\* to itself: the unsynchronised accesses to Cell::data (lines 73 and 98)
\* never race, and no ticket is claimed twice.
NoDataRace ==
    \A t, u \in Threads :
        t # u /\ Holds(t) /\ Holds(u) => CellOf(pos[t]) # CellOf(pos[u])

\* What try_pop hands out is the item pushed under the same ticket: FIFO
\* order, nothing invented, nothing read before it was written.
FifoDelivery ==
    \A c \in Consumers : pc[c] = "store" => item[c] = pushed[pos[c] + 1]

\* Every claimed and not yet popped ticket is in its cell with its own item,
\* or its producer is still on the way to publish it: try_push never loses or
\* overwrites an item that no consumer has taken.
NoLostItem ==
    \A t \in dequeue_pos_..(enqueue_pos_ - 1) :
        \/ /\ sequence[CellOf(t)] = t + 1
           /\ data[CellOf(t)] = pushed[t + 1]
        \/ \E p \in Producers : Holds(p) /\ pos[p] = t

\* No cell is leaked: each of the Capacity tickets from dequeue_pos_ on that is
\* not claimed yet finds its cell free, or a consumer is about to free it.
\* In particular no more than Capacity tickets are ever outstanding.
NoLeakedCell ==
    /\ dequeue_pos_ <= enqueue_pos_
    /\ enqueue_pos_ <= dequeue_pos_ + Capacity
    /\ \A t \in enqueue_pos_..(dequeue_pos_ + Capacity - 1) :
        \/ sequence[CellOf(t)] = t
        \/ \E c \in Consumers : Holds(c) /\ pos[c] + Capacity = t

-----------------------------------------------------------------------------
(* The inductive invariant: what the four properties above rest on *)

\* A cursor never runs behind a thread that read it, nor beyond one lap.
PosInv ==
    /\ dequeue_pos_ <= enqueue_pos_ /\ enqueue_pos_ <= dequeue_pos_ + Capacity
    /\ \A p \in Producers : /\ pos[p] <= enqueue_pos_
                            /\ Holds(p) => pos[p] < enqueue_pos_
                            /\ pc[p] # "idle" => item[p] \in Values
    /\ \A c \in Consumers : /\ pos[c] <= dequeue_pos_
                            /\ Holds(c) => pos[c] < dequeue_pos_

\* The sequence number of a held cell is frozen at the value its holder saw,
\* and no ticket has two holders of one kind.
OwnInv ==
    /\ \A p \in Producers : Holds(p) => sequence[CellOf(pos[p])] = pos[p]
    /\ \A c \in Consumers : Holds(c) => sequence[CellOf(pos[c])] = pos[c] + 1
    /\ \A p, q \in Producers : p # q /\ Holds(p) /\ Holds(q) => pos[p] # pos[q]
    /\ \A c, d \in Consumers : c # d /\ Holds(c) /\ Holds(d) => pos[c] # pos[d]

\* The sequence number a thread compared is still there if the cursor is.
CasInv ==
    /\ \A p \in Producers : pc[p] = "cas" /\ enqueue_pos_ = pos[p]
            => sequence[CellOf(pos[p])] = pos[p]
    /\ \A c \in Consumers : pc[c] = "cas" /\ dequeue_pos_ = pos[c]
            => sequence[CellOf(pos[c])] = pos[c] + 1

\* A cell is free for a ticket of the current lap, or holds a pushed item that
\* at most one consumer is moving out.
CellInv ==
    \A i \in Cells :
        \/ CellOf(sequence[i]) = i /\ sequence[i] < dequeue_pos_ + Capacity
        \/ /\ sequence[i] \in 1..enqueue_pos_
           /\ CellOf(sequence[i] - 1) = i
           /\ \/ data[i] = pushed[sequence[i]]
              \/ \E c \in Consumers : pc[c] = "store" /\ pos[c] + 1 = sequence[i]

\* What a claiming producer is about to write, or has written.
ItemInv ==
    \A p \in Producers :
        /\ Holds(p) => pushed[pos[p] + 1] = item[p]
        /\ pc[p] = "store" => data[CellOf(pos[p])] = item[p]

IInv == /\ TypeOK /\ PosInv /\ OwnInv /\ CasInv /\ CellInv /\ ItemInv
        /\ FifoDelivery /\ NoLostItem /\ NoLeakedCell

-----------------------------------------------------------------------------
(* The ring implements the ticket queue *)

\* The outstanding tickets, oldest first; ready once published.
Outstanding ==
    [k \in 1..(enqueue_pos_ - dequeue_pos_) |->
        [item  |-> pushed[dequeue_pos_ + k],
         ready |-> sequence[CellOf(dequeue_pos_ + k - 1)] = dequeue_pos_ + k]]

Abstract == INSTANCE TicketQueue WITH queue <- Outstanding

\* The interleaved steps of try_push and try_pop refine a bounded FIFO with
\* claim, publish and take as its only state changes.
RefinesTicketQueue == Abstract!Spec

-----------------------------------------------------------------------------
(* Progress *)

\* Callers inside a call keep running, the scheduler loop keeps calling
\* try_pop, and the weak compare-exchange does not fail spuriously for ever.
Fairness ==
    /\ \A p \in Producers : WF_vars(PushStep(p)) /\ SF_vars(PushClaim(p))
    /\ \A c \in Consumers : /\ WF_vars(PopCall(c)) /\ WF_vars(PopStep(c))
                             /\ SF_vars(PopClaim(c))

FairSpec == Spec /\ Fairness

\* Every item a try_push has claimed a ticket for is eventually popped, whatever
\* else producers and consumers do: no interleaving leaves a cell unreachable.
EveryItemPopped ==
    \A t \in 0..(MaxPushes - 1) : enqueue_pos_ > t ~> dequeue_pos_ > t

\* Every call returns: nobody is left in the retry loop once pushes stop.
CallsReturn == \A p \in Producers : pc[p] # "idle" ~> pc[p] = "idle"
=============================================================================
