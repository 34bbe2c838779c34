------------------------------- MODULE Engine -------------------------------
(***************************************************************************)
(* The engine process: HTTP handler threads of                              *)
(* src/src/api/ingress_server.cpp, the ingress ring buffer, the loop of     *)
(* src/src/main.cpp that drains it into the scheduler and steps the         *)
(* scheduler, and the SequenceStatusTable both sides write.                 *)
(*                                                                         *)
(* The ring is used through TicketQueue, which RingBuffer implements; with  *)
(* the engine as its only consumer it is full when the outstanding tickets  *)
(* and the cell being popped make up its capacity (loads of its cells are   *)
(* taken to be current here, see RingBuffer for stale ones).  Requests that *)
(* fail to parse (400), /healthz and GET /status change no state.           *)
(***************************************************************************)
EXTENDS Scheduler

CONSTANTS Handlers,       \* threads of the HTTP server's pool
          QueueCapacity,  \* kIngressQueueCapacity
          MaxDrain,       \* 256: most sequences admitted per iteration
          MayShutdown     \* whether SIGINT or SIGTERM may arrive

ASSUME EngineAssumption ==
    /\ QueueCapacity \in Nat /\ QueueCapacity >= 2
    /\ MaxDrain \in Nat \ {0}
    /\ MayShutdown \in BOOLEAN
    /\ IsFiniteSet(Seqs) /\ Seqs = 1..Cardinality(Seqs)   \* bound: the ids handed out

VARIABLES next_seq_id,     \* the atomic id counter
          handler, hseq,   \* per handler: where it is, its sequence
          queue,           \* the ingress queue, see TicketQueue
          loop,            \* where the engine loop is
          drained, popped, \* its locals: drained, and seq while popping
          status,          \* the status table, "unknown": no entry
          accepted, rejected, \* history: ids answered 200 and 503
          g_shutdown

Q == INSTANCE TicketQueue WITH Capacity <- QueueCapacity, Values <- Seqs

ingressVars == <<next_seq_id, handler, hseq, accepted, rejected>>
engineVars == <<loop, drained, popped, g_shutdown>>
allVars == <<vars, ingressVars, engineVars, queue, status>>

None == 0

EngineInit ==
    /\ Init /\ Q!Init
    /\ next_seq_id = 1
    /\ handler = [h \in Handlers |-> "idle"] /\ hseq = [h \in Handlers |-> None]
    /\ loop = "drain" /\ drained = 0 /\ popped = None
    /\ status = [s \in Seqs |-> "unknown"]
    /\ accepted = {} /\ rejected = {}
    /\ g_shutdown = FALSE

-----------------------------------------------------------------------------
(* POST /generate *)

\* The process is still there.
Running == loop # "exit"

\* The status table is one critical section; generated_count is 0 in every call.
upsert(s, ph) == status' = [status EXCEPT ![s] = ph]

\* Mutant of Generate: the status is written before the push is tried.
GenerateUpserts(h, r) ==
    /\ Running /\ handler[h] = "idle"
    /\ next_seq_id \in Seqs
    /\ Construct(next_seq_id, r)
    /\ next_seq_id' = next_seq_id + 1
    /\ hseq' = [hseq EXCEPT ![h] = next_seq_id]
    /\ handler' = [handler EXCEPT ![h] = "push"]
    /\ upsert(next_seq_id, "PREFILL")
    /\ UNCHANGED <<queueVars, free_blocks, tables, pass, it, budget, results,
                   engineVars, queue, accepted, rejected>>

\* fetch_add on the id counter and the construction of the Sequence.
Generate(h, r) ==
    /\ Running /\ handler[h] = "idle"
    /\ next_seq_id \in Seqs
    /\ Construct(next_seq_id, r)
    /\ next_seq_id' = next_seq_id + 1
    /\ hseq' = [hseq EXCEPT ![h] = next_seq_id]
    /\ handler' = [handler EXCEPT ![h] = "push"]
    /\ UNCHANGED <<queueVars, free_blocks, tables, pass, it, budget, results,
                   engineVars, queue, status, accepted, rejected>>

\* Cells of the ring that no push can use.
CellsTaken == Len(queue) + (IF popped = None THEN 0 ELSE 1)

PushClaimed(h) ==
    /\ Running /\ handler[h] = "push"
    /\ CellsTaken < QueueCapacity
    /\ Q!Claim(hseq[h])
    /\ handler' = [handler EXCEPT ![h] = "publish"]
    /\ UNCHANGED <<vars, engineVars, next_seq_id, hseq, status, accepted, rejected>>

\* Mutant of PushRejected: a full queue makes the handler wait.
PushWaits(h) == Running /\ CellsTaken > QueueCapacity /\ UNCHANGED allVars

\* try_push returns false: 503, and the sequence is dropped with its id.
PushRejected(h) ==
    /\ Running /\ handler[h] = "push"
    /\ CellsTaken = QueueCapacity
    /\ rejected' = rejected \cup {hseq[h]}
    /\ phase' = [phase EXCEPT ![hseq[h]] = "none"]
    /\ prompt' = [prompt EXCEPT ![hseq[h]] = 0]
    /\ max_new' = [max_new EXCEPT ![hseq[h]] = 0]
    /\ handler' = [handler EXCEPT ![h] = "idle"]
    /\ hseq' = [hseq EXCEPT ![h] = None]
    /\ UNCHANGED <<cursor, generated, queueVars, free_blocks, tables, pass, it, budget,
                   results, engineVars, queue, next_seq_id, status, accepted>>

\* Mutant of PushPublished: the push is tried again although it succeeded.
PushPublishedRetries(h) ==
    /\ Running /\ handler[h] = "publish"
    /\ \E k \in 1..Len(queue) : queue[k].item = hseq[h] /\ Q!Publish(k)
    /\ handler' = [handler EXCEPT ![h] = "push"]
    /\ UNCHANGED <<vars, engineVars, next_seq_id, hseq, status, accepted, rejected>>

PushPublished(h) ==
    /\ Running /\ handler[h] = "publish"
    /\ \E k \in 1..Len(queue) : queue[k].item = hseq[h] /\ Q!Publish(k)
    /\ handler' = [handler EXCEPT ![h] = "upsert"]
    /\ UNCHANGED <<vars, engineVars, next_seq_id, hseq, status, accepted, rejected>>

\* Mutant of Answer: no upsert, the scheduler's first one has to do.
AnswerOnly(h) ==
    /\ Running /\ handler[h] = "upsert"
    /\ accepted' = accepted \cup {hseq[h]}
    /\ handler' = [handler EXCEPT ![h] = "idle"]
    /\ hseq' = [hseq EXCEPT ![h] = None]
    /\ UNCHANGED <<vars, engineVars, queue, next_seq_id, rejected, status>>

\* The status entry is written only now, then the client gets its 200.
Answer(h) ==
    /\ Running /\ handler[h] = "upsert"
    /\ upsert(hseq[h], "PREFILL")
    /\ accepted' = accepted \cup {hseq[h]}
    /\ handler' = [handler EXCEPT ![h] = "idle"]
    /\ hseq' = [hseq EXCEPT ![h] = None]
    /\ UNCHANGED <<vars, engineVars, queue, next_seq_id, rejected>>

-----------------------------------------------------------------------------
(* The engine loop *)

\* The oldest ticket is published.
HeadReady == queue # << >> /\ Head(queue).ready

\* try_pop wins the oldest ticket.
DrainPop ==
    /\ loop = "drain" /\ popped = None
    /\ drained < MaxDrain
    /\ Q!Take
    /\ popped' = Head(queue).item
    /\ UNCHANGED <<vars, ingressVars, loop, drained, g_shutdown, status>>

\* try_pop frees the cell and returns; the sequence goes to the scheduler.
DrainAdmit ==
    /\ loop = "drain" /\ popped # None
    /\ admit(popped)
    /\ popped' = None /\ drained' = drained + 1
    /\ UNCHANGED <<seqVars, active_, free_blocks, tables, pass, it, budget, results,
                   ingressVars, loop, g_shutdown, queue, status>>

\* try_pop finds nothing, or enough was drained: step() starts.
DrainEnd ==
    /\ loop = "drain" /\ popped = None
    /\ drained = MaxDrain \/ ~ HeadReady
    /\ StepBegin
    /\ loop' = "step"
    /\ UNCHANGED <<ingressVars, drained, popped, g_shutdown, queue, status>>

EngineStep ==
    /\ loop = "step" /\ pass # "idle"
    /\ Step
    /\ loop' = IF pass' = "idle" THEN "upsert" ELSE "step"
    /\ UNCHANGED <<ingressVars, drained, popped, g_shutdown, queue, status>>

\* One result of step() after the other goes to the status table.
UpsertResult ==
    /\ loop = "upsert" /\ results # << >>
    /\ upsert(Head(results).seq_id, Head(results).phase_after)
    /\ results' = Tail(results)
    /\ UNCHANGED <<seqVars, queueVars, free_blocks, tables, pass, it, budget,
                   ingressVars, engineVars, queue>>

\* Mutant of LoopAgain: drained is not reset.
LoopAgainNoReset ==
    /\ loop = "upsert" /\ results = << >>
    /\ loop' = IF g_shutdown THEN "exit" ELSE "drain"
    /\ UNCHANGED <<vars, ingressVars, drained, popped, g_shutdown, queue, status>>

\* The end of the loop body and the test of g_shutdown at its head; after the
\* loop main returns and takes the detached server thread with it: handlers do
\* nothing any more, although the code lets them run on while main's objects are
\* being destroyed.
LoopAgain ==
    /\ loop = "upsert" /\ results = << >>
    /\ loop' = IF g_shutdown THEN "exit" ELSE "drain"
    /\ drained' = 0
    /\ UNCHANGED <<vars, ingressVars, popped, g_shutdown, queue, status>>

Signal ==
    /\ MayShutdown /\ Running /\ ~ g_shutdown
    /\ g_shutdown' = TRUE
    /\ UNCHANGED <<vars, ingressVars, loop, drained, popped, queue, status>>

-----------------------------------------------------------------------------
EngineLoop == \/ DrainPop \/ DrainAdmit \/ DrainEnd
              \/ EngineStep \/ UpsertResult \/ LoopAgain

HandlerStep(h) == PushClaimed(h) \/ PushRejected(h) \/ PushPublished(h) \/ Answer(h)

EngineNext ==
    \/ EngineLoop
    \/ \E h \in Handlers : HandlerStep(h)
    \/ \E h \in Handlers, s \in Seqs : \E r \in Requests[s] :
          s = next_seq_id /\ Generate(h, r)
    \/ Signal

EngineSpec == EngineInit /\ [][EngineNext]_allVars

\* The engine thread and every handler inside a request keep running.
EngineFairSpec ==
    /\ EngineSpec
    /\ WF_allVars(EngineLoop)
    /\ \A h \in Handlers : WF_allVars(HandlerStep(h))

\* As above, but the engine thread may fall behind or stall.
HandlerFairSpec == EngineSpec /\ \A h \in Handlers : WF_allVars(HandlerStep(h))

-----------------------------------------------------------------------------
(* Safety *)

\* Type invariant.
EngineTypeOK ==
    /\ TypeOK /\ Q!TypeOK
    /\ next_seq_id \in 1..(Cardinality(Seqs) + 1)
    /\ handler \in [Handlers -> {"idle", "push", "publish", "upsert"}]
    /\ hseq \in [Handlers -> Seqs \cup {None}]
    /\ loop \in {"drain", "step", "upsert", "exit"}
    /\ drained \in 0..MaxDrain /\ popped \in Seqs \cup {None}
    /\ status \in [Seqs -> {"unknown", "PREFILL", "DECODE", "FINISHED"}]
    /\ accepted \subseteq Seqs /\ rejected \subseteq Seqs
    /\ g_shutdown \in BOOLEAN

\* Everything between the compare-exchange of a push and the end of decoding, in
\* the order of arrival.
Pipeline ==
    active_ \o waiting_ \o (IF popped = None THEN << >> ELSE <<popped>>)
        \o [k \in DOMAIN queue |-> queue[k].item]

\* Every request is in exactly one place on its way: with its handler until the
\* push succeeds, then exactly once in the pipeline until it is finished; a
\* rejected one is nowhere and holds nothing.
OnePlace ==
    \A s \in Seqs :
        Cardinality(Occurrences(Pipeline, s))
                + Cardinality({h \in Handlers : handler[h] = "push" /\ hseq[h] = s})
            = IF s < next_seq_id /\ s \notin rejected /\ phase[s] # "FINISHED"
              THEN 1 ELSE 0

\* The answer to /generate can be relied on: an accepted id is known to /status
\* and is never lost, a rejected one never becomes known or runs.
AnswersKept ==
    /\ accepted \cap rejected = {}
    /\ \A s \in accepted : status[s] # "unknown" /\ phase[s] # "none"
    /\ \A s \in rejected : status[s] = "unknown" /\ phase[s] = "none" /\ tables[s] = {}

Rank == [unknown |-> 0, none |-> 0, PREFILL |-> 1, DECODE |-> 2, FINISHED |-> 3]

\* /status may lag behind the scheduler but never claims progress that was not
\* made.
StatusNeverAhead == \A s \in Seqs : Rank[status[s]] <= Rank[phase[s]]

\* From the ticket on requests keep their order, through ring, drain, waiting
\* queue and batch: a later one never gets a place before an earlier one.  (Who
\* is served when is ServedInTurn of the scheduler.)
ArrivalOrder ==
    [][\A i, j \in DOMAIN Pipeline, k, l \in DOMAIN Pipeline' :
          i < j /\ Pipeline[i] = Pipeline'[k] /\ Pipeline[j] = Pipeline'[l]
              => k < l]_allVars

\* "The scheduler thread updates this after every step(); HTTP handler threads
\* only read it": the status of a sequence never goes back.
StatusNeverRegresses ==
    [][\A s \in Seqs : Rank[status[s]] <= Rank[status'[s]]]_allVars

-----------------------------------------------------------------------------
(* The inductive invariant *)

\* Sequences whose push has not been decided yet.
Pushing == {hseq[h] : h \in {g \in Handlers : handler[g] = "push"}}

\* Handlers have sequences of their own, not answered yet; before the push one
\* is as it was constructed and unknown to /status.
HandlersInv ==
    /\ \A h \in Handlers : handler[h] = "idle" <=> hseq[h] = None
    /\ \A h, g \in Handlers : hseq[h] # None /\ hseq[h] = hseq[g] => h = g
    /\ \A h \in Handlers : hseq[h] # None =>
          hseq[h] < next_seq_id /\ hseq[h] \notin accepted \cup rejected
    /\ \A s \in Pushing : /\ phase[s] = "PREFILL" /\ cursor[s] = 0 /\ generated[s] = 0
                          /\ status[s] = "unknown"

\* Ids not handed out yet and rejected ones have no object.
IdsInv ==
    /\ \A s \in Seqs : phase[s] = "none" <=> s >= next_seq_id \/ s \in rejected
    /\ \A s \in accepted \cup rejected : s < next_seq_id

\* The pipeline and the handlers share out the unfinished sequences.
PipelineInv ==
    /\ IsInjective(Pipeline) /\ Range(Pipeline) \cap Pushing = {}
    /\ Range(Pipeline) \cup Pushing = Unfinished

\* What step() has reported has happened.
ReportedInv ==
    \A k \in DOMAIN results :
        /\ results[k].seq_id \notin Pushing /\ results[k].phase_after # "none"
        /\ Rank[results[k].phase_after] <= Rank[phase[results[k].seq_id]]

DrainInv == popped # None => loop = "drain" /\ drained < MaxDrain

EngineInv ==
    /\ EngineTypeOK /\ IInv /\ HandlersInv /\ IdsInv /\ PipelineInv
    /\ ReportedInv /\ DrainInv /\ StatusNeverAhead
    /\ accepted \cap rejected = {} /\ \A s \in accepted : status[s] # "unknown"

-----------------------------------------------------------------------------
(* Progress *)

\* If the engine thread keeps running, every request answered with 200 is
\* eventually finished, unless the process is told to shut down first.  It needs
\* prompts that are not empty, finitely many requests, and no two that can wait
\* for each other's blocks.
AcceptedFinishes ==
    WF_allVars(EngineLoop) =>
        \A s \in Seqs : s \in accepted ~> phase[s] = "FINISHED" \/ g_shutdown

\* "No request-blocking under sustained load": every /generate gets its answer,
\* 200 or 503, even if the engine thread makes no progress at all.
EveryRequestAnswered ==
    \A h \in Handlers : handler[h] # "idle" ~> handler[h] = "idle" \/ g_shutdown
=============================================================================
