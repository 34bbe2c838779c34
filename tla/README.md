# AetherMoE: specifications, model checking and proofs

TLA+ models of the concurrent and stateful parts of AetherMoE, a small
mixture-of-experts serving engine: the lock-free ingress queue, the paged
KV-cache allocator, the continuous-batching scheduler, the HTTP engine built
from them, the simulated expert-parallel cluster from the router's calls down
to descriptors and bytes, the latency telemetry and the gating kernel.
TLC checks every module on small instances; TLAPS proves every safety property
and every refinement that the passing runs check for every size of the system.

Paths below are those of the repository (`src/core/...`, `tests/...`).

## 1. The system

| Component | State | Operations | Interacts with |
|---|---|---|---|
| Ring buffer, `src/core/spmc_ring_buffer.hpp` | two cursors; per cell a sequence number and data | `try_push`, `try_pop`, `size_approx` | ingress handlers push and the engine loop pops; recorders push and the flusher pops |
| Page table, `src/core/page_table.hpp` | free list, table per sequence, one mutex | `ensure_capacity`, `free_sequence`, queries | called by the scheduler |
| Sequence and scheduler, `src/core/sequence.hpp`, `scheduler.hpp` | `waiting_`, `active_`, per sequence phase, prefill cursor, generated tokens | `admit`, `step()`: decode pass, prefill pass, admission pass | owned by the engine loop, calls the page table |
| Ingress and main loop, `src/api/ingress_server.*`, `src/main.cpp` | id counter, ingress queue, status table, shutdown flag | `POST /generate`, `GET /status`, drain, step, upsert, SIGINT | handler threads and engine thread share queue and status table |
| Router and workers, `src/orchestration/router.hpp`, `worker_shard.hpp` | transports, expert map, `unhealthy_shards_` | `route_batch`, `route_batch_tolerant`, `run_worker_loop` | processes connected by Unix sockets |
| Transport and serialization, `unix_socket_transport.hpp`, `serialization.hpp` | a file descriptor, bytes in the socket | `send`, `receive`, encode and decode | carries the batches of the router |
| Process spawning and chaos, `process_spawn.hpp`, `chaos.hpp` | child pids, socket pairs, kill threads | `spawn_workers`, `join_all`, timed SIGKILL, delays | starts and kills the workers |
| Telemetry, `src/core/telemetry.hpp` | ring, drop counter, enable switch; flusher thread, mutex, two vectors | `record`, `start`, `stop`, `drain_once`, `snapshot`, `reset_for_testing` | any thread records, one thread flushes |
| Gating and quantized GEMM kernels, `src/kernels/` | weight cache, threadgroup memory | fused projection, top-k and softmax, INT8 product | Python, on the GPU |
| Double-buffer demo, `tools/double_buffer_demo.mm` | events of two command queues | copy and compute overlapped | stand-alone |
| Benchmarks, prototype, validation | none of their own | drivers and reference mathematics | use the components above |

What is hard here:

* *interleavings of threads* in the ring buffer, between handlers and engine
  loop (the status table is written by both) and between recorders, flusher and
  the owner of the flusher;
* *resource bounds*: a full ring, no free block, no token budget left;
* *failures of one of several*: a worker dies while other workers have already
  been sent their part of the batch;
* *blocking on both ends of a socket*, and ending all workers at shutdown, which
  rests on no process keeping a descriptor that is not its own;
* *bytes in pieces*: a message comes in several reads or ends in the middle;
* *a cache keyed by address*, and SIMD groups that share memory;
* *boundaries*: empty prompt, zero new tokens, lap ends of the ring, the
  `size_t` budget;
* *order*: arrival order through four queues, turns in the passes of a step,
  results by `batch_position`.

`PROJECT.json` lists these as hazards, line by line, with the properties that
cover them, or why none does.

## 2. Modules

    TicketQueue  <-- refined by --  RingBuffer  <-- RingBufferProofs
        ^ used by Engine, Telemetry
    PageTable  <--  Scheduler        <--  Engine
                        ^                   ^
                    SchedulerProofs  <--  EngineProofs

    MessageChannel  <-- refined by --  Framing --> Serialization
        the channel that Router works with ^
                                       FramingProofs
    Router          ProcessSpawn          Telemetry          Gating
        ^               ^                     ^                 ^
    RouterProofs    ProcessSpawnProofs    TelemetryProofs    GatingProofs

`MC*.tla` modules only give values to the constants.

**TicketQueue** is the abstract specification of the ring: a bounded FIFO
whose entries are *claimed* (the order is fixed), later *published*, and
*taken* from the front once published. It says precisely what callers may rely
on, and what they may not: an unpublished front entry hides published ones.

**RingBuffer** has one action per atomic access of `try_push` and `try_pop`:
call and first cursor load, load of the cell's sequence number and the
three-way branch, reload, successful and failing (also spuriously failing)
`compare_exchange_weak`, the plain access to `data`, the release store. With
`RelaxedLoads` a load returns any value its location ever held, a superset of
what C++ lets a `memory_order_relaxed` or acquire load return; so the safety
results do not rest on sequential consistency. A `std::move` leaves
`MovedFrom` behind. `size_approx` changes nothing and is left out. Wrap-around of the 64-bit
cursors is not modelled.

**PageTable** keeps the free list and the tables as sets. Which free block is
handed out is left open: the code pops a stack and states that the order does not
matter. Every method holds the mutex, so each is one step.

**Scheduler** has one action per iteration of the three loops of `step()`, so
that the erasure from `active_` in the middle of the decode loop, the budget
and the results are seen as they evolve. Tokens are counted, not kept.
`ChunkRefused` and `ChunkDone` are the two outcomes of `do_prefill_chunk`; the
former includes the transition to DECODE of a sequence whose prompt is empty.
A sequence id may be reused once its sequence is gone, which the program never
does; it makes the state space finite while requests keep coming, and is
harmless because a finished sequence leaves nothing behind. `max_batch_tokens`
and `max_prefill_chunk` are assumed positive (the code does not check this).

**Engine** composes the scheduler with the handler threads, the ingress queue
(TicketQueue), the drain loop, the status table and the shutdown. A handler
draws an id, constructs the sequence, claims and publishes a ticket or is
rejected with 503, and *then* writes the status. Main returns after SIGINT and
drops what is still queued, as the code does.

**Router** has the calls `route_batch` (send to all, gather from all,
reassemble) and `route_batch_tolerant` (shard by shard, failures recorded), the
loop of each worker and the sockets. A socket holds whole messages;
`SocketBuffer[sh]` of them fit, so that 0 stands for messages larger than the
buffer and makes every send wait for its reader. A worker can be killed in every state; a
reply that is not completely written is lost. These are the sockets that
MessageChannel describes and Framing implements. A shard without a transport
throws like a dead one. `ReuseAfterThrow` says whether the caller keeps using a
Router that threw.

**Telemetry** has recorders, the flusher's thread, the mutex of `drain_once`
and the owner that calls `start`, `stop`, `drain_once`, `snapshot` and, while
no flusher runs as in the tests, `reset_for_testing`. `compute_stats` is an
operator that is compared with the definition of a percentile. The double
`p * n` is modelled exactly: 0.5, 0.95 and 0.99 are stored as numbers that are
not above them, so `ceil` never comes out one too high. The mean is left out.

**MessageChannel** is the abstract specification of one direction of an
`ICollectiveTransport`: whole messages in order, and three ways for the sending
side to end, of which only the clean one may be reported as `PeerClosedError`.

**Framing** is `UnixSocketTransport` at the level of single `write` and `read`
calls: each moves any number of bytes that fits. `send` writes a header and a
payload, `receive` reads a header and as many bytes as it says. Either process
may close or be killed at any point of a call; one that dies with unread bytes of
the other direction resets the connection. `EINTR` changes nothing. Other
errors of `read` and `write` do not occur. What is sent are batches encoded by
**Serialization**, where a byte has `Base` values and integers and floats are a
byte or two wide; integers are written in the host's order and the length
big-endian, as in the code. Decoding stops at the first failing `need()`.

**ProcessSpawn** records which process holds which end of which socketpair:
`spawn_workers` in its three phases with a possible failure at each call, the
children's closing loops (a child may be killed before it gets there), the ends
of the workers, the caller that closes the transports, the kill threads of
`ChaosScript` and `join_all`. A group is one call of `spawn_workers`. The caller
follows the order of the tests and benchmarks: one group at a time (`Overlap`
says whether a second one may start earlier), transports closed, `ChaosScript`
joined, then `join_all`.

**Gating** is one call of `fused_gating` after another by a program that may
replace its weights in between, at any address the interpreter has free. The
selection only compares logits, so weights are modelled by the logits they give
for the row at hand. The transposed copy is a copy of the same contents. SIMD
groups write logits in any order up to the barrier; then one thread runs the
k rounds of the selection. `ReferenceGating` is `reference_gating.py`: any
descending argsort, because the order of equal logits is MLX's choice.

Engine and Telemetry use the ring through TicketQueue with one consumer, and
take its cells to be read up to date: a push finds the ring full exactly when
the outstanding tickets and the cell being popped fill it. With a stale load
`try_push` may report a full ring a little longer, which both callers treat the same way.

## 3. What the runs check

| Run | Instance | Shows |
|---|---|---|
| `ring_safety` | 2 producers, 2 consumers, 2 cells, 2 values, 3 pushes, stale loads | `NoDataRace`, `FifoDelivery`, `NoLostItem`, `NoLeakedCell`; `RefinesTicketQueue` |
| `ring_progress` | the same with fresh loads and one value, under fairness | every claimed item is popped, every `try_push` returns |
| `scheduler_safety` | 3 sequences, 4 blocks of 2 tokens, budget 3, chunk 2; prompts of 0, 1, 3 tokens, 0 or 3 new tokens | queues, blocks, counters and results stay consistent at every loop iteration; `ServedInTurn`: decodes first, then in order of arrival, and only want of blocks makes a sequence miss its turn; the page table never leaks, shares or steals a block |
| `engine` | 2 handlers, 3 requests of different lengths, queue of 2, drain limit 2, 2 blocks for 3 sequences, shutdown | a request is always in exactly one place; 200 and 503 mean what they say; `/status` never runs ahead; places are kept in the order of arrival through all queues; every request is answered even if the engine stalls; if it runs, every accepted request finishes |
| `router` | 2 shards, 3 experts, capacity 1, 3 calls, kills of both, one socket with room for a message and one without | own answers, right expert, no false failure, nothing left behind, no hang, workers end |
| `framing` | 4 batches (empty message, empty batch, a token, two results), 3 messages, socket of 3 bytes, bytes of 4 values | `ImplementsChannel`: no split of writes and reads and no death makes a message partial, doubled or misplaced; `BatchesIntact`: what arrives decodes to what was sent and a proper part of it to nothing; `SentIsReceived`: complete messages arrive, calls end |
| `spawn` | 2 groups of 3 workers | `NoForeignDescriptor`: after the closing loops each end is open in one process; so `JoinReturns`, also after a spawn that threw, and `DeathSeen`: a dead worker gives end of file |
| `telemetry` | 2 recorders, 2 cells, 3 samples; some 130 latency vectors | every sample accounted for over drops, drains and resets, snapshots complete, `stop` returns, samples flushed, percentiles are nearest ranks |
| `gating` | 4 experts, 2 SIMD groups, 2 addresses, all 75 orders of logits, every k | `FusedMatchesReference`, `CacheFresh` |
| `scheduler_empty_prompt`, `engine_status`, `router_retry` | as small as shows it | violations, see 5 |

Why the bounds are enough. Three pushes on two cells use a cell for a second
lap while the first lap is still being popped, and full and empty ring both
occur. Four blocks for three sequences of up to three blocks make every kind of allocation
fail; a budget of three runs out in each pass. Prompts of three tokens take two
chunks, and with a block size of two end inside a block. Two handlers and a queue of two make pushes
overlap and be refused; three requests exceed one drain. Two shards
are the least with which one can fail after another has been sent to, and three
calls let a call follow both a failure and a success. Three samples overflow the ring.
A socket of three bytes cuts the headers (two bytes) and the payloads anywhere,
and lengths from zero to more than one byte's worth occur; a third message
lets a complete one be followed by one that is cut. With three workers a child
inherits ends of siblings forked before and after it, and with two groups those
of a group that failed. Four experts and two SIMD groups give each group two
rounds; two addresses are the least with which one can be reused.
A type invariant is stated in every module with actions but the abstract channel;
all of them are proved, and that of the scheduler is also checked with its run.
Symmetry is used only in runs without liveness properties. Deadlock is checked
in the runs of the ring, the scheduler, telemetry and gating; the engine stops
after its bounded ids or at shutdown, the router when closed or after
`MaxCalls`, the transport when both ends are gone, and the spawner after its
last group.

Well-formed batches given to `route_batch` in `router` list their tokens by
position, as the tests and benchmarks do (section 5 says what happens
otherwise); it also gets experts without a shard and positions that occur twice
or are out of range, which it must answer by throwing. `route_batch_tolerant`
gets well-formed batches in any order; for malformed ones its result has holes
that the model does not follow.

### Fairness

* Ring: a thread inside a call keeps running (weak fairness), the consumer keeps
  calling `try_pop` (the drain loop and the flusher do), and a weak
  compare-exchange that could succeed again and again does not fail spuriously
  for ever (strong fairness on the claims). Loads are current in this run: a
  cursor value cannot stay invisible for ever.
* Scheduler: `main` calls `step()` for ever.
* Engine: weak fairness of each handler inside a request; that the engine
  thread runs is a premise of `AcceptedFinishes` only, so `EveryRequestAnswered`
  holds without it. New requests are never fair: clients need not come.
* Framing: a `send` or `receive` that has begun keeps running, and the receiver
  calls `receive` again, as `run_worker_loop` does. Nobody has to send or end.
* Spawning: the parent inside `spawn_workers` or `join_all` keeps running, and
  every child gets to close its descriptors and to notice end of file.
  `worker_fn` returning on end of file is `run_worker_loop`, see `WorkersExit`.
* Router: the router's thread and every living worker keep running. No fairness
  of calls or kills.
* Telemetry: threads inside a call and the flusher's thread keep running; a
  mutex that is free again and again is eventually obtained (strong fairness of
  the two lock actions), which a `std::mutex` does not promise formally but the
  flusher's sleep between two drains gives in practice.

## 4. What is proved

Each theorem holds for every value of the constants that the named assumptions
allow (`CapacityAssumption`, `BlocksAssumption`, `EngineAssumption`, ...; TLC
evaluates them in the runs). A safety property is seldom inductive, so every
component's module has a section with its inductive invariant, a conjunction of
named parts; TLC has checked it on the instance of the component's run before it
was proved. A proof has one lemma or step per action and, under it, one per
conjunct that the action can disturb.

| Module | Theorem | Property of a run |
|---|---|---|
| RingBufferProofs | `DataRaceFreedom`, `Fifo`, `NothingLost`, `NothingLeaked` | `NoDataRace`, `FifoDelivery`, `NoLostItem`, `NoLeakedCell` |
| | `ImplementsTicketQueue` | `RefinesTicketQueue` |
| SchedulerProofs | `PageTablePartition` | `Partition` (of `PTSpec`, the page table with any caller) |
| | `TypeCorrect`, `SchedulerPartition`, `ZeroFragmentation`, `BoundedGeneration` | `TypeOK`, `Partition`, `BlocksMatchTokens`, `GenerationBound` |
| | `QueuesKept`, `ReportsFaithful`, `TurnsKept`, `NoBlockStolen` | `QueueDiscipline`, `ResultsFaithful`, `ServedInTurn`, `NoSteal` |
| EngineProofs | `RequestsInOnePlace`, `AnswersReliable`, `StatusHonest`, `FirstInFirstServed` | `OnePlace`, `AnswersKept`, `StatusNeverAhead`, `ArrivalOrder` |
| RouterProofs | `EveryTokenAnswered`, `HealthyShardsUnaffected`, `ExpertsNamed`, `CleanReturn` | `OwnAnswers`, `NoFalseFailure`, `ExpertAnnotated`, `NothingLeftBehind` |
| FramingProofs | `NothingGarbled`, `ImplementsMessageChannel` | `BatchesIntact`, `ImplementsChannel` |
| | `RoundTrip` | used by `NothingGarbled`; about `EncodeBatch` and `DecodeBatch` alone |
| ProcessSpawnProofs | `NoInheritedEnds` | `NoForeignDescriptor` |
| TelemetryProofs | `NothingVanishes`, `SnapshotsComplete`, `PercentilesRight` | `Accounting`, `CompleteSnapshot`, `NearestRank` |
| GatingProofs | `DropInReplacement`, `CacheNeverStale` | `FusedMatchesReference`, `CacheFresh` |

The type invariants of all of these modules are proved too (`TypeCorrect`,
`EngineTypeCorrect`).

**RingBufferProofs**: any capacity of at least two, any disjoint sets of
producers and consumers (also infinite), any values, with and without stale
loads. The properties speak of cells and claimed tickets only. The inductive
invariant `IInv` adds where a thread's `pos` can be relative to the cursors
(`PosInv`), that the sequence number of a held cell is frozen (`OwnInv`), that the
number a thread has compared is still valid *if* the cursor is still what it read
(`CasInv`, the reason why the compare-exchange on the cursor suffices and stale
loads are harmless), which sequence numbers a cell can have (`CellInv`), and what
a claiming producer writes (`ItemInv`). Arithmetic on cells is confined to lemmas
about `%`: two tickets less than a lap apart in the same cell are equal.
`ImplementsTicketQueue` maps the outstanding tickets to the abstract queue: a
successful compare-exchange is a claim or a take, the producer's release store
flips exactly one entry to ready (`ReadyFlip`), and every other access stutters.

**SchedulerProofs**: any requests, budget, chunk, positive block size and finite
pool. Of the page table alone, typing and partition are inductive together, and what
`ensure_capacity` does to the number of blocks is a lemma about cardinalities
(`GrowTable`), which the scheduler's proof uses.
`IInv` is about blocks: `CountersInv` relates the prefill cursor to the phase,
without which the token count that `ensure_capacity` is asked for could not be
related to the tokens held. `QueueInv` is about the deques and the results: they
share out the unfinished sequences (`DequesInv`), and a reported sequence is
finished or will not be come to again in this step (`ReportInv`, with `Passed`:
behind the iterator, or in a phase that the pass skips). That is why no sequence
is reported twice although a sequence may change its phase between two passes of
one step. `TurnsKept` has two halves. That no step changes the order of the deques
(`KeepsLine`), like `ArrivalOrder` in the engine, comes from one notion
`Ordered(old, new)` and lemmas about appending to, erasing from and moving within a
row of lists. That sequences are served in turn needs `TurnInv`: while budget is
left, whoever the step has gone past (`Passed` again) has been served in this step
or is short of blocks. The latter counts the free blocks without those that
finished sequences gave back in this step (`Returned`), because a sequence refused
early in the decode loop may find blocks free later in the same step and is not
asked again; with that, a shortage lasts to the end of the step (`ShortKept`).

**EngineProofs**, on top of SchedulerProofs: any set of handlers (also infinite), any queue
capacity, drain limit and finite number of requests, with or without a shutdown.
`EngineInv` keeps the scheduler's `IInv` and adds that handlers have sequences of
their own (`HandlersInv`), that exactly the ids handed out and not rejected have
an object (`IdsInv`), that the pipeline (active, waiting, popped and queued
sequences in a row) and the pushing handlers share out the unfinished sequences
(`PipelineInv`), and that what is still to be written to the status table has
happened (`ReportedInv`), which is why the table never runs ahead. `Worked` says
once what an iteration of `step()` does to the sequence it works on; the scheduler's
own steps are not taken apart again. The ring enters as TicketQueue, which
`ImplementsTicketQueue` justifies.

**RouterProofs**: any set of shards, any placement of experts, any batches,
sockets and kills, under the hypothesis `~ ReuseAfterThrow`; without it the
theorems are false, see finding 3. `ExpertsNamed` also assumes that `route_batch`
gets its batches in the order of positions (`StrictInOrder`), see section 5.
`IInv` says where a call is (every shard of the batch is still to be sent to,
waited for or done), that at most one message is under way with a shard and only
with one that is engaged (`Flight`: the request of this call or the reply to it),
and what has been gathered (`AnswerInv`).

**FramingProofs**: any width of bytes, integers, floats and header, any size of the
socket, any set of batches, any number of messages. `BatchesAssumption` asks that
what is sent is a byte vector or a batch whose numbers fit their fields, and that
the length fits the header, which the types of the code give, except that a vector
may have more than 2^32 - 1 entries and then loses its count to the cast. The proof has
three layers.

* *Numbers and lists.* `Put` and `Get` are inverse for a number that fits
  (`GetPut`), from division with remainder (`ShiftsFacts`, `NumberOfBytes`); a
  flattened list has its parts at known places (`FlattenPlaces`).
* *Batches.* `RoundTrip` follows the decoding loop over the places of the items:
  with all bytes each iteration gives the item encoded there, and with some missing
  a `need()` fails at the latest at the last item, and a failed Reader stays failed
  (`FailedStays`).
* *The stream.* The receiver remembers a header only as a number, so neither
  property is inductive. `IInv` puts the bytes back in a row: those taken by
  `receive` (the header encoded again), those in the socket and those still to be
  written are exactly the framed messages of the channel's queue (`Whole`), or these
  and a proper part of one more, and then the sender was cut off or reset
  (`CutOff`). Cutting bytes off the front of the row needs that a header determines
  its length, hence `Fits(len, HeaderSize)`; a send that ends needs that no message is
  received before it is written (`HistoryInv`). From the message at the front of the
  row (`PayloadFront`) follow what `receive` returns, that end of file inside a message is
  an error and that a clean close means an empty queue (`ReadEndsStep`).
  `ImplementsMessageChannel` then maps each action to one of the channel or a stutter.

**ProcessSpawnProofs**: any number of shards and groups, under `~ Overlap`; with
overlapping groups the theorem is false, see section 5. `IInv` says of which groups
the parent and the children can hold ends, those left by a failed call included.

**TelemetryProofs**: any finite set of recorders, any ring. `SnapshotInv` carries
what `stop()` or `drain_once()` has to collect through the drain: it is collected or
can still be popped. `PercentilesRight` is about `compute_stats` and every vector of
natural numbers: the places of the entries are a bijection, and the rank is the
nearest one.

**GatingProofs**: any number of experts and SIMD groups, any weights and k. The
scan finds the first maximum of what is not struck out, and k rounds of it are a
beginning of some argsort (`Leading`), so the reference could have returned it.
`ProjectInv` says which logits are written, so that after the barrier all are.

Induction. The library's induction theorems cannot be instantiated by the
installed provers. Where a loop has to be followed by induction (the scan of the
gating kernel, the sum of the reported tokens, bytes and items of a batch),
`SetInduction` does it with a set of numbers in place of a predicate; it follows from
the well-foundedness of `<`. In the same way `Recursion` of FramingProofs shows that
the recursive functions of Serialization exist and satisfy their equations.

Only model-checked: liveness (`EveryItemPopped`, `CallsReturn`, `AcceptedFinishes`,
`EveryRequestAnswered`, `WorkersExit`, `JoinReturns`, `DeathSeen`, `StopReturns`,
`SamplesFlushed`, `SentIsReceived`). It needs fairness and ENABLED, out of the
prover's reach.

## 5. Findings

Each has a run that TLC must end with a counterexample.

1. *An empty prompt blocks the scheduler for ever* (`scheduler_empty_prompt`).
   `do_prefill_chunk` returns 0 for it, which `step()` takes for "no budget or no
   capacity" and stops admitting; the sequence never leaves the front.
2. *`/status` goes back* (`engine_status`). The handler writes PREFILL after the
   push; the engine may already have reported DECODE or FINISHED. A finished
   sequence then shows PREFILL for good.
3. *A Router that threw returns old answers* (`router_retry`). Replies to the
   failed call stay in the sockets of the healthy shards and are taken for
   the answers to the next call.

Further behaviours that the same models show and that bound what the
passing runs claim:

* An in-flight decode can be starved by an endless stream of new admissions
  (`InFlightNeverStarved`, configuration `Scheduler_starvation.cfg` of
  MCScheduler). A decode that finds no block is skipped; blocks freed afterwards
  in the same step go to admissions of pass 3. The comment in
  `scheduler.hpp:79-82` says this cannot happen. `AcceptedFinishes` is about
  finitely many requests.
* `route_batch` names the wrong expert when the batch vector is not in position
  order (`ExpertAnnotated`, configuration `Router_annotate.cfg` of MCRouter):
  `effective_expert[i]` is indexed by vector position, `ordered[i]` by
  `batch_position`.
* Sequences that together hold all blocks and each need one more wait for each
  other for ever: the scheduler never preempts. Hence no two requests of
  `engine` can each need a second block at the same time: only the one with three
  prompt tokens and two new ones outgrows its first block, and the others give
  theirs back. Empty prompts and endless streams of requests are not in
  `engine` either, for the reasons above.
* `max_new_tokens = 0` still generates one token (`GenerationBound` says so).
* `try_pop` returns false while the front ticket is claimed and not published,
  although later pushes have completed. Hence the wording of `CompleteSnapshot`.
* `route_batch_tolerant` throws for an expert without a shard, before sending
  anything. Hence the batches of that method in `router`.
* With messages larger than the socket buffer, reusing a Router that threw can
  leave router and worker both blocked in `write`. Hence `ReuseAfterThrow` is
  FALSE in `router`.
* A second `spawn_workers` before the first group is closed hands the first
  group's router ends to its children, which close only the pairs of their own
  call; then `join_all` of the first group hangs until the second group ends
  (`Overlap = TRUE` violates `JoinReturns`). Hence one group at a time.
* A `socketpair` or `fork` that fails midway leaves its descriptors open and
  earlier children running with nobody who knows their pids. Later groups still
  join.
* `drain_once` pops until the ring is empty, holding its mutex. Recorders that
  never pause can keep it there, and with it `stop()` and `snapshot()`
  (`telemetry.hpp:231`). `StopReturns` is about finitely many samples.
* A kill thread that outlives `join_all` aims at a pid that is already free. The
  callers join the ChaosScript first.
* `reset_for_testing` during a drain by a flusher that runs leaves it open which
  of the two takes a sample. It is called while none runs.
* `/status` reports `generated_count` 0 always: every `upsert` passes 0.
  `IngressServer::stop` sets a flag that nobody reads.
* The gating cache serves the old copy of an array that is updated in place, and
  the kernel selects index -1 if all remaining logits are minus infinity or NaN.
  Arrays are not updated in place and logits are finite in the model. Kernel and
  reference get the same exact logits, so what rounding does to near ties, the
  question `fused_gating_metal.py:67-77` leaves open, is not asked. Fewer experts
  than SIMD groups are in the theorem, not in the run.
* Shutdown drops accepted requests that are not finished.

## 6. Not modelled

* Floating-point arithmetic: dot products and softmax of the gating kernels, the
  quantized GEMM (its argument cache is the pattern of Gating), the mean of the
  telemetry, the prototype and the validation scripts.
* Lengths and counts from a peer that does not follow the protocol: both ends
  run this code, so `receive` allocates what the header says.
* The double-buffer demo: stand-alone, and its order is the one Metal's shared
  events give.
* Benchmarks, load generator and command lines: drivers of the components above.
* Delays injected by `DelayInjectingTransport`: interleaving already allows any.
* `size_approx`, `GET /status`, `/healthz` and requests that do not parse change
  no state.

## 7. Plan

The modelling is complete up to the list in section 6, and every safety property
and refinement of the passing runs is proved. What could follow: Router over two
channels of MessageChannel by INSTANCE instead of sockets of its own, so that the
composition with Framing is a theorem too, and both directions of one connection in
one module.
