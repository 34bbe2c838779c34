------------------------------ MODULE Telemetry ------------------------------
(***************************************************************************)
(* Latency telemetry, src/src/core/telemetry.hpp: hot-path threads record   *)
(* samples into a shared ring buffer (TelemetryRecorder) and never wait; a  *)
(* background thread drains it into two vectors under a mutex               *)
(* (TelemetryFlusher), whose owner starts, stops and drains it by hand.     *)
(*                                                                         *)
(* The ring is used through TicketQueue.  Of a sample only who recorded it  *)
(* and its kind are kept, and the vectors are counts; what compute_stats    *)
(* makes of a vector of latencies is a definition of its own.               *)
(***************************************************************************)
EXTENDS Integers, Sequences, FiniteSets

CONSTANTS Recorders,   \* threads that record samples
          RingSize,    \* capacity of MetricRing
          MaxSamples,  \* bound: samples recorded
          Vectors      \* latency vectors to try compute_stats on

ASSUME TelemetryAssumption ==
    /\ RingSize \in Nat /\ RingSize >= 2
    /\ MaxSamples \in Nat /\ Vectors \subseteq Seq(Nat)
    /\ IsFiniteSet(Recorders)

Kinds == {"ttft", "inter_token"}

VARIABLES enabled_, dropped_,   \* TelemetryRecorder's switch and counter
          queue,                \* ring_, see TicketQueue
          rec, kind,            \* per recorder: where it is, its sample's kind
          issued, discarded,    \* history: samples record() went on with;
                                \* samples and drops that a reset removed
          running_, mutex_,     \* of the flusher
          flusher, owner,       \* where its thread and its owner are
          drainer,              \* the sample whoever drains has popped
          vectors,              \* sizes of ttft_ns_ and inter_token_ns_
          must_see              \* history: samples stop() or drain_once must collect

recorderVars == <<enabled_, dropped_, rec, kind, issued, discarded>>
flusherVars == <<running_, mutex_, flusher, owner, drainer, vectors, must_see>>
vars == <<recorderVars, queue, flusherVars>>

Q == INSTANCE TicketQueue WITH Capacity <- RingSize, Values <- Recorders \X Kinds

NoSample == << >>

Init ==
    /\ enabled_ = TRUE /\ dropped_ = 0
    /\ Q!Init
    /\ rec = [t \in Recorders |-> "idle"] /\ kind = [t \in Recorders |-> "ttft"]
    /\ issued = 0 /\ discarded = 0
    /\ running_ = FALSE /\ mutex_ = "free"
    /\ flusher = "none" /\ owner = "idle"
    /\ drainer = NoSample
    /\ vectors = [k \in Kinds |-> 0]
    /\ must_see = 0

-----------------------------------------------------------------------------
(* TelemetryRecorder *)

SetEnabled(b) ==
    /\ enabled_ # b /\ enabled_' = b
    /\ UNCHANGED <<dropped_, rec, kind, issued, discarded, queue, flusherVars>>

\* record() finds telemetry enabled; otherwise it returns and nothing happens.
Record(t, k) ==
    /\ rec[t] = "idle" /\ enabled_
    /\ issued < MaxSamples
    /\ issued' = issued + 1
    /\ rec' = [rec EXCEPT ![t] = "push"] /\ kind' = [kind EXCEPT ![t] = k]
    /\ UNCHANGED <<enabled_, dropped_, discarded, queue, flusherVars>>

\* Cells of the ring that no push can use.
CellsTaken == Len(queue) + (IF drainer = NoSample THEN 0 ELSE 1)

PushClaimed(t) ==
    /\ rec[t] = "push" /\ CellsTaken < RingSize
    /\ Q!Claim(<<t, kind[t]>>)
    /\ rec' = [rec EXCEPT ![t] = "publish"]
    /\ UNCHANGED <<enabled_, dropped_, kind, issued, discarded, flusherVars>>

PushPublished(t) ==
    /\ rec[t] = "publish"
    /\ \E k \in 1..Len(queue) : queue[k].item[1] = t /\ Q!Publish(k)
    /\ rec' = [rec EXCEPT ![t] = "idle"]
    /\ UNCHANGED <<enabled_, dropped_, kind, issued, discarded, flusherVars>>

PushFull(t) ==
    /\ rec[t] = "push" /\ CellsTaken = RingSize
    /\ rec' = [rec EXCEPT ![t] = "drop"]
    /\ UNCHANGED <<enabled_, dropped_, kind, issued, discarded, queue, flusherVars>>

\* Mutant of CountDrop: a sample that finds the ring full just vanishes.
DropSilently(t) ==
    /\ rec[t] = "drop"
    /\ rec' = [rec EXCEPT ![t] = "idle"]
    /\ UNCHANGED <<enabled_, dropped_, kind, issued, discarded, queue, flusherVars>>

CountDrop(t) ==
    /\ rec[t] = "drop"
    /\ dropped_' = dropped_ + 1
    /\ rec' = [rec EXCEPT ![t] = "idle"]
    /\ UNCHANGED <<enabled_, kind, issued, discarded, queue, flusherVars>>

-----------------------------------------------------------------------------
(* The loop over try_pop in drain_once, by the flusher's thread or by the owner, *)
(* and in reset_for_testing                                                      *)

\* try_pop wins the oldest ticket.
DrainPop ==
    /\ mutex_ # "free" \/ owner = "reset"
    /\ drainer = NoSample
    /\ Q!Take
    /\ drainer' = Head(queue).item
    /\ UNCHANGED <<recorderVars, running_, mutex_, flusher, owner, vectors, must_see>>

\* try_pop frees the cell and returns, the sample goes to its vector.
DrainStore ==
    /\ drainer # NoSample /\ owner # "reset"
    /\ vectors' = [vectors EXCEPT ![drainer[2]] = @ + 1]
    /\ drainer' = NoSample
    /\ UNCHANGED <<recorderVars, queue, running_, mutex_, flusher, owner, must_see>>

\* try_pop returns false.
NothingToPop ==
    drainer = NoSample /\ ~ (queue # << >> /\ Head(queue).ready)

-----------------------------------------------------------------------------
(* The flusher's thread: run() *)

\* Mutant of FlusherTest: the running_ is not what ends the loop.
FlusherTestQueue ==
    /\ flusher = "test"
    /\ flusher' = IF running_ \/ queue # << >> THEN "lock" ELSE "test"
    /\ UNCHANGED <<recorderVars, queue, running_, mutex_, owner, drainer, vectors, must_see>>

FlusherTest ==
    /\ flusher = "test"
    /\ flusher' = IF running_ THEN "lock" ELSE "returned"
    /\ UNCHANGED <<recorderVars, queue, running_, mutex_, owner, drainer, vectors, must_see>>

FlusherLock ==
    /\ flusher = "lock" /\ mutex_ = "free"
    /\ mutex_' = "flusher" /\ flusher' = "drain"
    /\ UNCHANGED <<recorderVars, queue, running_, owner, drainer, vectors, must_see>>

\* Mutant of FlusherDrained: run() drains once instead of in a loop.
FlusherOnce ==
    /\ flusher = "drain" /\ NothingToPop
    /\ mutex_' = "free" /\ flusher' = "returned"
    /\ UNCHANGED <<recorderVars, queue, running_, owner, drainer, vectors, must_see>>

\* drain_once returns; sleeping does not matter.
FlusherDrained ==
    /\ flusher = "drain" /\ NothingToPop
    /\ mutex_' = "free" /\ flusher' = "test"
    /\ UNCHANGED <<recorderVars, queue, running_, owner, drainer, vectors, must_see>>

-----------------------------------------------------------------------------
(* The owner: start, stop and drain_once *)

Start ==
    /\ owner = "idle" /\ ~ running_
    /\ running_' = TRUE /\ flusher' = "test"
    /\ UNCHANGED <<recorderVars, queue, mutex_, owner, drainer, vectors, must_see>>

Collected == vectors["ttft"] + vectors["inter_token"]

\* Places of the samples not behind one whose record() is still about to publish
\* it.
ReadyPrefix == {k \in DOMAIN queue : \A j \in 1..k : queue[j].ready}

\* Samples that are collected or dropped, or that try_pop can get from the ring.
Settled ==
    dropped_ + Collected + (IF drainer = NoSample THEN 0 ELSE 1)
        + Cardinality(ReadyPrefix)

Stop ==
    /\ owner = "idle" /\ running_
    /\ running_' = FALSE /\ owner' = "join"
    /\ must_see' = Settled
    /\ UNCHANGED <<recorderVars, queue, mutex_, flusher, drainer, vectors>>

\* Mutant of Joined: stop() returns without the final drain.
JoinedNoDrain ==
    /\ owner = "join" /\ flusher = "returned"
    /\ flusher' = "none" /\ owner' = "drained"
    /\ UNCHANGED <<recorderVars, queue, running_, mutex_, drainer, vectors, must_see>>

Joined ==
    /\ owner = "join" /\ flusher = "returned"
    /\ flusher' = "none" /\ owner' = "lock"
    /\ UNCHANGED <<recorderVars, queue, running_, mutex_, drainer, vectors, must_see>>

\* drain_once as a call of its own.
Drain ==
    /\ owner = "idle"
    /\ owner' = "lock"
    /\ must_see' = Settled
    /\ UNCHANGED <<recorderVars, queue, running_, mutex_, flusher, drainer, vectors>>

OwnerLock ==
    /\ owner = "lock" /\ mutex_ = "free"
    /\ mutex_' = "owner" /\ owner' = "drain"
    /\ UNCHANGED <<recorderVars, queue, running_, flusher, drainer, vectors, must_see>>

\* drain_once, and with it stop(), returns.
OwnerDrained ==
    /\ owner = "drain" /\ NothingToPop
    /\ mutex_' = "free" /\ owner' = "drained"
    /\ UNCHANGED <<recorderVars, queue, running_, flusher, drainer, vectors, must_see>>

\* reset_for_testing zeroes the drop counter and then empties the ring, without
\* the mutex; it is called while no flusher runs.
Reset ==
    /\ owner = "idle" /\ ~ running_
    /\ dropped_' = 0 /\ discarded' = discarded + dropped_
    /\ owner' = "reset"
    /\ UNCHANGED <<enabled_, rec, kind, issued, queue, running_, mutex_, flusher,
                   drainer, vectors, must_see>>

ResetDiscard ==
    /\ owner = "reset" /\ drainer # NoSample
    /\ drainer' = NoSample /\ discarded' = discarded + 1
    /\ UNCHANGED <<enabled_, dropped_, rec, kind, issued, queue, running_, mutex_,
                   flusher, owner, vectors, must_see>>

ResetDone ==
    /\ owner = "reset" /\ NothingToPop
    /\ owner' = "idle"
    /\ UNCHANGED <<recorderVars, queue, running_, mutex_, flusher, drainer, vectors,
                   must_see>>

\* The owner has looked at the snapshot.
Snapshot ==
    /\ owner = "drained" /\ mutex_ = "free"
    /\ owner' = "idle" /\ must_see' = 0
    /\ UNCHANGED <<recorderVars, queue, running_, mutex_, flusher, drainer, vectors>>

-----------------------------------------------------------------------------
(* compute_stats, of a vector that is not empty *)

\* Where entry j goes in sorted order, equal entries as they come.
Place(v, j) == Cardinality({i \in DOMAIN v : v[i] < v[j] \/ (v[i] = v[j] /\ i <= j)})

\* std::sort.
Sorted(v) == [r \in DOMAIN v |-> v[CHOOSE j \in DOMAIN v : Place(v, j) = r]]

\* Mutant of Rank: the product is rounded down.
RankFloor(percent, n) == IF percent * n < 100 THEN 1 ELSE (percent * n) \div 100

\* ceil(p * n), clamped to 1..n.  The doubles 0.5, 0.95 and 0.99 are not above
\* what they stand for, so rounding never lifts p * n over an integer.
Rank(percent, n) ==
    LET idx == (percent * n + 99) \div 100
    IN  IF idx = 0 THEN 1 ELSE IF idx > n THEN n ELSE idx

compute_stats(v) ==
    [p50 |-> Sorted(v)[Rank(50, Len(v))], p95 |-> Sorted(v)[Rank(95, Len(v))],
     p99 |-> Sorted(v)[Rank(99, Len(v))], max |-> Sorted(v)[Len(v)]]

-----------------------------------------------------------------------------
RecorderStep(t) == PushClaimed(t) \/ PushPublished(t) \/ PushFull(t) \/ CountDrop(t)

DrainStep == DrainPop \/ DrainStore \/ ResetDiscard

FlusherStep == FlusherTest \/ FlusherLock \/ FlusherDrained

\* What the owner does inside a call.
OwnerStep == Joined \/ OwnerLock \/ OwnerDrained \/ ResetDone

Next ==
    \/ \E b \in BOOLEAN : SetEnabled(b)
    \/ \E t \in Recorders : RecorderStep(t) \/ \E k \in Kinds : Record(t, k)
    \/ DrainStep \/ FlusherStep
    \/ Start \/ Stop \/ Drain \/ Reset \/ OwnerStep \/ Snapshot

Spec == Init /\ [][Next]_vars

\* Every thread inside a call, and the flusher's thread, keep running; a lock
\* that is free time and again is got in the end.
FairSpec ==
    /\ Spec
    /\ \A t \in Recorders : WF_vars(RecorderStep(t))
    /\ WF_vars(DrainStep) /\ WF_vars(FlusherStep) /\ WF_vars(OwnerStep)
    /\ SF_vars(FlusherLock) /\ SF_vars(OwnerLock)

-----------------------------------------------------------------------------
(* Safety *)

\* Type invariant, with the lock discipline of drain_once.
TypeOK ==
    /\ enabled_ \in BOOLEAN /\ running_ \in BOOLEAN
    /\ dropped_ \in 0..MaxSamples /\ issued \in 0..MaxSamples
    /\ Q!TypeOK
    /\ rec \in [Recorders -> {"idle", "push", "publish", "drop"}]
    /\ kind \in [Recorders -> Kinds]
    /\ mutex_ \in {"free", "flusher", "owner"}
    /\ flusher \in {"none", "test", "lock", "drain", "returned"}
    /\ owner \in {"idle", "join", "lock", "drain", "drained", "reset"}
    /\ discarded \in 0..MaxSamples
    /\ mutex_ = "flusher" <=> flusher = "drain"
    /\ mutex_ = "owner" <=> owner = "drain"
    /\ drainer = NoSample \/ drainer \in Recorders \X Kinds
    /\ vectors \in [Kinds -> 0..MaxSamples] /\ must_see \in 0..MaxSamples

\* Recorders with a sample that is not in the ring.
InHand == {t \in Recorders : rec[t] \in {"push", "drop"}}

\* "Every sample must be accounted for: either collected or dropped; none may
\* vanish", nor be counted twice, at any moment and whoever drains; a reset takes
\* away only what was dropped or is in the ring.
Accounting ==
    issued = dropped_ + Collected + discarded + CellsTaken
                 + Cardinality(InHand)

\* "Final drain so a snapshot right after stop() is complete": stop() and
\* drain_once leave no sample in the ring that was recorded before the call,
\* unless an unfinished record() was in front of it.  (A sample dropped after the
\* call adds to the left side; without such drops the comparison is exact.)
CompleteSnapshot == owner = "drained" => dropped_ + Collected >= must_see

\* By definition, without sorting: x is an entry of v that at least percent per
\* cent of the entries do not exceed, and fewer than that are below x.
IsPercentile(x, percent, v) ==
    LET UpTo == {i \in DOMAIN v : v[i] <= x}
        Below == {i \in UpTo : v[i] < x}
    IN  /\ Below # UpTo
        /\ 100 * Cardinality(UpTo) >= percent * Len(v)
        /\ 100 * Cardinality(Below) < percent * Len(v)

\* Every percentile and the maximum are what their names say.
StatsRight ==
    \A v \in Vectors \ {<< >>} :
        LET s == compute_stats(v)
        IN  /\ IsPercentile(s.p50, 50, v) /\ IsPercentile(s.p95, 95, v)
            /\ IsPercentile(s.p99, 99, v) /\ IsPercentile(s.max, 100, v)

\* "Nearest-rank method": in the snapshot after a drain, p50, p95, p99 and the
\* maximum are right, whatever latencies were collected: vectors of every
\* length, in any order and with repetitions.
NearestRank == owner = "drained" => StatsRight

-----------------------------------------------------------------------------
(* The inductive invariant behind the theorems of TelemetryProofs *)

\* The thread exists from start() until stop() has joined it.
FlusherInv ==
    /\ flusher = "none" <=> ~ running_ /\ owner # "join"
    /\ owner = "join" => ~ running_

\* Until the drain of stop() or drain_once is over, what it must collect is
\* collected already or can still be popped.
SnapshotInv == owner \in {"join", "lock", "drain"} => must_see <= Settled

IInv == TypeOK /\ Accounting /\ FlusherInv /\ SnapshotInv /\ CompleteSnapshot

-----------------------------------------------------------------------------
(* Progress *)

\* stop() returns: the flusher is joined and the final drain ends.  The drain is
\* a loop "while (try_pop)" under the mutex, so it ends because no more than
\* MaxSamples are recorded; recorders that never pause could keep it busy.
StopReturns == owner = "join" ~> owner = "drained"

\* Samples whose record() has returned.
Recorded == issued - Cardinality({t \in Recorders : rec[t] # "idle"})

\* A sample that was recorded while the flusher runs reaches the vectors (or the
\* drop counter) without anyone calling drain_once, unless it is stopped.
SamplesFlushed ==
    \A n \in 1..MaxSamples :
        (running_ /\ Recorded >= n) ~> (dropped_ + Collected + discarded >= n \/ ~ running_)
=============================================================================
