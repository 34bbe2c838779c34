------------------------------ MODULE Scheduler ------------------------------
(***************************************************************************)
(* ContinuousBatchingScheduler, src/src/core/scheduler.hpp, with the        *)
(* Sequence state machine of src/src/core/sequence.hpp and the page table.  *)
(*                                                                         *)
(* step() makes three passes: decode every active DECODE sequence, advance  *)
(* every active PREFILL sequence, admit from the waiting queue.  One action *)
(* is one iteration of one of these loops.  Tokens are counted, not kept.   *)
(* A sequence id whose object is gone may name a later request (Construct); *)
(* the program draws fresh ids, and QueueDiscipline and BlocksMatchTokens   *)
(* show that a finished sequence leaves nothing behind.                     *)
(***************************************************************************)
EXTENDS PageTable, Sequences, Functions

CONSTANTS MaxBatchTokens,   \* SchedulerConfig::max_batch_tokens
          MaxPrefillChunk,  \* SchedulerConfig::max_prefill_chunk
          Requests          \* per sequence id, the requests [prompt, max_new]

ASSUME ConfigAssumption ==
    /\ MaxBatchTokens \in Nat \ {0}
    /\ MaxPrefillChunk \in Nat \ {0}
ASSUME RequestsAssumption ==
    /\ DOMAIN Requests = Seqs
    /\ \A s \in Seqs : \A r \in Requests[s] : r.prompt \in Nat /\ r.max_new \in Nat

VARIABLES waiting_, active_,          \* the two deques of sequences
          phase,                      \* Sequence::phase, "none": no object
          prompt, max_new,            \* prompt_tokens.size(), max_new_tokens
          cursor, generated,          \* prefill_cursor, generated_tokens.size()
          pass, it, budget, results   \* step(): its loop, iterator and locals

seqVars == <<phase, prompt, max_new, cursor, generated>>
queueVars == <<waiting_, active_>>
vars == <<seqVars, queueVars, free_blocks, tables, pass, it, budget, results>>

Phases == {"none", "PREFILL", "DECODE", "FINISHED"}
Passes == {"idle", "decode", "prefill", "admit"}

Init ==
    /\ PTInit
    /\ waiting_ = << >> /\ active_ = << >>
    /\ phase = [s \in Seqs |-> "none"]
    /\ prompt = [s \in Seqs |-> 0] /\ max_new = [s \in Seqs |-> 0]
    /\ cursor = [s \in Seqs |-> 0] /\ generated = [s \in Seqs |-> 0]
    /\ pass = "idle" /\ it = 1 /\ budget = 0 /\ results = << >>

-----------------------------------------------------------------------------
(* Sequence *)

\* Mutant of prefill_complete: > for >=.
prefill_complete_late(s) == cursor[s] > prompt[s]

prefill_complete(s) == cursor[s] >= prompt[s]

\* Mutant of total_tokens: the generated tokens are forgotten.
prompt_tokens_only(s) == prompt[s]

total_tokens(s) == prompt[s] + generated[s]

\* The legal transitions; transition_to throws on any other.
Legal == [none     |-> {},
          PREFILL  |-> {"PREFILL", "DECODE", "FINISHED"},
          DECODE   |-> {"DECODE", "FINISHED"},
          FINISHED |-> {"FINISHED"}]

transition_to(s, next) ==
    /\ next \in Legal[phase[s]]
    /\ phase' = [phase EXCEPT ![s] = next]

\* The constructor of Sequence.
Construct(s, r) ==
    /\ phase[s] \in {"none", "FINISHED"}
    /\ phase' = [phase EXCEPT ![s] = "PREFILL"]
    /\ prompt' = [prompt EXCEPT ![s] = r.prompt]
    /\ max_new' = [max_new EXCEPT ![s] = r.max_new]
    /\ cursor' = [cursor EXCEPT ![s] = 0]
    /\ generated' = [generated EXCEPT ![s] = 0]

\* Mutant of admit: push_front for push_back.
admit_front(s) == waiting_' = <<s>> \o waiting_

admit(s) == waiting_' = Append(waiting_, s)

\* A new request reaches the scheduler between two steps.
Admit(s, r) ==
    /\ pass = "idle"
    /\ Construct(s, r)
    /\ admit(s)
    /\ UNCHANGED <<active_, free_blocks, tables, pass, it, budget, results>>

-----------------------------------------------------------------------------
(* step(): the start, and pass 1, decode *)

StepBegin ==
    /\ pass = "idle"
    /\ pass' = "decode" /\ it' = 1
    /\ budget' = MaxBatchTokens
    /\ results' = << >>
    /\ UNCHANGED <<seqVars, queueVars, free_blocks, tables>>

\* A loop of step() over active_ stands at this sequence.
At(p, s) == pass = p /\ it <= Len(active_) /\ budget > 0 /\ s = active_[it]

\* A loop over active_ ends: at the end or out of budget.
LoopEnd(p, next) ==
    /\ pass = p
    /\ it > Len(active_) \/ budget = 0
    /\ pass' = next /\ it' = 1
    /\ UNCHANGED <<seqVars, queueVars, free_blocks, tables, budget, results>>

Advance == it' = it + 1 /\ UNCHANGED <<queueVars, pass>>

\* Mutant of Report: the phase before the step's transition.
ReportBefore(s, tokens) ==
    /\ budget' = budget - tokens
    /\ results' = Append(results, [seq_id |-> s, tokens |-> tokens,
                                   phase_after |-> phase[s]])

Report(s, tokens) ==
    /\ budget' = budget - tokens
    /\ results' = Append(results, [seq_id |-> s, tokens |-> tokens,
                                   phase_after |-> phase'[s]])

DecodeSkip(s) ==
    /\ At("decode", s)
    /\ phase[s] # "DECODE" \/ ~ HasCapacity(s, total_tokens(s) + 1)
    /\ Advance
    /\ UNCHANGED <<seqVars, free_blocks, tables, budget, results>>

\* Mutant of LastToken: tested before the push_back.
LastTokenBefore(s) == generated[s] >= max_new[s]

\* generated_tokens.size() >= max_new_tokens after the next push_back.
LastToken(s) == generated[s] + 1 >= max_new[s]

\* The decode of one token that is, or is not, the last one.
GenerateToken(s) ==
    /\ At("decode", s)
    /\ phase[s] = "DECODE"
    /\ HasCapacity(s, total_tokens(s) + 1)
    /\ generated' = [generated EXCEPT ![s] = @ + 1]
    /\ UNCHANGED <<prompt, max_new, cursor>>

DecodeToken(s) ==
    /\ GenerateToken(s)
    /\ ~ LastToken(s)
    /\ EnsureCapacity(s, total_tokens(s) + 1)
    /\ UNCHANGED phase
    /\ Report(s, 1)
    /\ Advance

\* Mutant of DecodeFinish: the loop goes on with ++it after the erase.
DecodeFinishSkips(s) ==
    /\ GenerateToken(s)
    /\ LastToken(s)
    /\ transition_to(s, "FINISHED")
    /\ FreeSequence(s)
    /\ Report(s, 1)
    /\ active_' = SubSeq(active_, 1, it - 1) \o SubSeq(active_, it + 1, Len(active_))
    /\ it' = it + 1
    /\ UNCHANGED <<waiting_, pass>>

\* The last token: what ensure_capacity allocated goes back with the rest.
DecodeFinish(s) ==
    /\ GenerateToken(s)
    /\ LastToken(s)
    /\ transition_to(s, "FINISHED")
    /\ FreeSequence(s)
    /\ Report(s, 1)
    /\ active_' = SubSeq(active_, 1, it - 1) \o SubSeq(active_, it + 1, Len(active_))
    /\ UNCHANGED <<waiting_, pass, it>>

DecodeEnd == LoopEnd("decode", "prefill")

-----------------------------------------------------------------------------
(* step(): pass 2, prefill, and pass 3, admission *)

\* Mutant of ChunkOf: the budget is not a limit.
ChunkOfUnbudgeted(s) ==
    LET remaining == prompt[s] - cursor[s]
    IN  IF remaining < MaxPrefillChunk THEN remaining ELSE MaxPrefillChunk

\* The slice do_prefill_chunk goes for.
ChunkOf(s) ==
    LET remaining == prompt[s] - cursor[s]
        limit == IF MaxPrefillChunk < budget THEN MaxPrefillChunk ELSE budget
    IN  IF remaining < limit THEN remaining ELSE limit

\* do_prefill_chunk returns 0: nothing left to prefill, which makes it a
\* DECODE sequence, or no blocks for the chunk.
ChunkRefused(s) ==
    /\ \/ prefill_complete(s) /\ transition_to(s, "DECODE")
       \/ /\ ~ prefill_complete(s)
          /\ ~ HasCapacity(s, cursor[s] + ChunkOf(s))
          /\ UNCHANGED phase
    /\ UNCHANGED <<prompt, max_new, cursor, generated, free_blocks, tables,
                   budget, results>>

\* do_prefill_chunk returns the size of the chunk.
ChunkDone(s) ==
    /\ ~ prefill_complete(s)
    /\ EnsureCapacity(s, cursor[s] + ChunkOf(s))
    /\ cursor' = [cursor EXCEPT ![s] = @ + ChunkOf(s)]
    /\ IF cursor[s] + ChunkOf(s) >= prompt[s]
       THEN transition_to(s, "DECODE") ELSE UNCHANGED phase
    /\ Report(s, ChunkOf(s))
    /\ UNCHANGED <<prompt, max_new, generated>>

PrefillSkip(s) ==
    /\ At("prefill", s)
    /\ phase[s] # "PREFILL"
    /\ Advance
    /\ UNCHANGED <<seqVars, free_blocks, tables, budget, results>>

PrefillRefused(s) ==
    /\ At("prefill", s)
    /\ phase[s] = "PREFILL"
    /\ ChunkRefused(s)
    /\ Advance

PrefillChunk(s) ==
    /\ At("prefill", s)
    /\ phase[s] = "PREFILL"
    /\ ChunkDone(s)
    /\ Advance

PrefillEnd == LoopEnd("prefill", "admit")

AdmitChunk(s) ==
    /\ pass = "admit" /\ budget > 0
    /\ waiting_ # << >> /\ s = Head(waiting_)
    /\ ChunkDone(s)
    /\ waiting_' = Tail(waiting_)
    /\ active_' = Append(active_, s)
    /\ UNCHANGED <<pass, it>>

\* The front of the queue got nothing: stop admitting, the step returns.
AdmitRefused(s) ==
    /\ pass = "admit" /\ budget > 0
    /\ waiting_ # << >> /\ s = Head(waiting_)
    /\ ChunkRefused(s)
    /\ pass' = "idle"
    /\ UNCHANGED <<queueVars, it>>

AdmitEnd ==
    /\ pass = "admit"
    /\ budget = 0 \/ waiting_ = << >>
    /\ pass' = "idle"
    /\ UNCHANGED <<seqVars, queueVars, free_blocks, tables, it, budget, results>>

-----------------------------------------------------------------------------
Step ==
    \/ StepBegin \/ DecodeEnd \/ PrefillEnd \/ AdmitEnd
    \/ \E s \in Seqs :
          \/ DecodeSkip(s) \/ DecodeToken(s) \/ DecodeFinish(s)
          \/ PrefillSkip(s) \/ PrefillRefused(s) \/ PrefillChunk(s)
          \/ AdmitChunk(s) \/ AdmitRefused(s)

Next == Step \/ \E s \in Seqs : \E r \in Requests[s] : Admit(s, r)

Spec == Init /\ [][Next]_vars

\* The loop of main.cpp calls step() for ever.
FairSpec == Spec /\ WF_vars(Step)

-----------------------------------------------------------------------------
(* Safety *)

\* Type invariant.  The budget, a size_t in the code, never wraps around.
TypeOK ==
    /\ PTTypeOK
    /\ waiting_ \in Seq(Seqs) /\ active_ \in Seq(Seqs)
    /\ phase \in [Seqs -> Phases]
    /\ prompt \in [Seqs -> Nat] /\ max_new \in [Seqs -> Nat]
    /\ cursor \in [Seqs -> Nat] /\ generated \in [Seqs -> Nat]
    /\ pass \in Passes /\ it \in Nat \ {0}
    /\ budget \in 0..MaxBatchTokens
    /\ results \in Seq([seq_id : Seqs, tokens : Nat, phase_after : Phases])

\* Sequences with a live object that has work left.
Unfinished == {s \in Seqs : phase[s] \in {"PREFILL", "DECODE"}}

Occurrences(q, s) == {k \in DOMAIN q : q[k] = s}

\* An unfinished sequence is in exactly one place of exactly one deque, a
\* finished one in none: no pass drops, duplicates or revives a sequence,
\* erasing from active_ in the middle of the decode loop included.  A waiting
\* sequence has not started, and one still in PREFILL has prompt left.
QueueDiscipline ==
    /\ \A s \in Seqs :
          Cardinality(Occurrences(active_, s)) + Cardinality(Occurrences(waiting_, s))
              = IF s \in Unfinished THEN 1 ELSE 0
    /\ \A s \in Range(waiting_) : cursor[s] = 0 /\ generated[s] = 0
    /\ \A s \in Range(active_) :
          cursor[s] > 0 /\ (phase[s] = "DECODE" <=> cursor[s] = prompt[s])

\* "Zero fragmentation": a sequence holds exactly the blocks its processed
\* tokens fill, at every point of a step, so no block is reserved for a
\* sequence that uses no slot of it; a finished sequence holds none.
BlocksMatchTokens ==
    \A s \in Seqs :
        Cardinality(tables[s]) =
            IF s \in Unfinished THEN blocks_needed_for(cursor[s] + generated[s])
            ELSE 0

\* Generation stops exactly at max_new_tokens, except that a request for no
\* token at all still gets one (the test comes after the push_back).
GenerationBound ==
    \A s \in Seqs :
        LET last == IF max_new[s] = 0 THEN 1 ELSE max_new[s]
        IN  /\ s \in Unfinished => generated[s] < last
            /\ phase[s] = "FINISHED" => generated[s] = last

\* The tokens of a list of results.
Total(list) ==
    LET total[n \in 0..Len(list)] ==
            IF n = 0 THEN 0 ELSE total[n - 1] + list[n].tokens
    IN  total[Len(list)]

\* What step() reports is what it did: a sequence is reported at most once, the
\* tokens add up to the budget spent, and the reported phase is the one the
\* sequence has when step() returns, not an intermediate one.
ResultsFaithful ==
    pass # "idle" =>
        /\ \A j, k \in DOMAIN results : results[j].seq_id = results[k].seq_id => j = k
        /\ Total(results) = MaxBatchTokens - budget
        /\ \A k \in DOMAIN results :
              results[k].phase_after = phase[results[k].seq_id]

\* The sequences that got tokens in this step so far.
Reported == {results[k].seq_id : k \in DOMAIN results}

\* Per result, the blocks the sequence gave back by finishing; and all of them.
Refunds ==
    [k \in DOMAIN results |->
        [tokens |-> IF results[k].phase_after = "FINISHED"
                    THEN blocks_needed_for(total_tokens(results[k].seq_id) - 1)
                    ELSE 0]]

Returned == Total(Refunds)

\* What the next token, or the next chunk if no budget cuts it, takes it to.
NextTarget(s) ==
    LET remaining == prompt[s] - cursor[s]
    IN  IF phase[s] = "DECODE" THEN total_tokens(s) + 1
        ELSE cursor[s] + IF remaining < MaxPrefillChunk THEN remaining ELSE MaxPrefillChunk

\* That needs more blocks than are free without those this step got back.
ShortOfBlocks(s) ==
    ToAllocate(s, NextTarget(s)) > Cardinality(free_blocks) - Returned

\* The two deques in a row: the order of arrival.
Line == active_ \o waiting_

\* Nobody comes to stand before a sequence who did not stand before it.
KeepsLine ==
    \A j \in DOMAIN Line, l \in DOMAIN Line' :
        Line[j] = Line'[l] =>
            \A k \in 1..(l - 1) : \E i \in 1..(j - 1) : Line[i] = Line'[k]

\* The turn of t in a step is before that of s: decodes come first, and
\* sequences in the same phase in the order of the line.
TurnBefore(t, s) ==
    \/ phase[t] = "DECODE" /\ phase[s] = "PREFILL" /\ t \in Range(active_)
    \/ /\ phase[t] = phase[s]
       /\ \E j \in DOMAIN Line : \E i \in 1..(j - 1) : Line[i] = t /\ Line[j] = s

Gains(s) == cursor'[s] > cursor[s] \/ generated'[s] > generated[s]

\* Decodes are served before prefill and admission, and each of them "in FIFO
\* order": whenever a sequence gets tokens, every sequence whose turn is before
\* its own has had tokens in this step or was refused for want of blocks, and
\* turns go by arrival, since no step changes the order of the deques.  A
\* sequence refused for want of blocks is passed over and waits for a later
\* step; neither the budget, nor an erasure in the decode loop, nor a new
\* arrival makes anybody miss his turn.
ServedInTurn ==
    [][/\ KeepsLine
       /\ \A s, t \in Seqs :
             Gains(s) /\ TurnBefore(t, s) => t \in Reported \/ ShortOfBlocks(t)]_vars

-----------------------------------------------------------------------------
(* The inductive invariant behind the block accounting *)

\* Prefill is complete in every phase but PREFILL and nothing is generated
\* before: the token count ensure_capacity is asked for is the right one.
CountersInv ==
    \A s \in Seqs :
        /\ cursor[s] <= prompt[s]
        /\ phase[s] # "PREFILL" => cursor[s] = prompt[s]
        /\ phase[s] = "PREFILL" => generated[s] = 0

IInv == TypeOK /\ Partition /\ CountersInv /\ BlocksMatchTokens /\ GenerationBound

-----------------------------------------------------------------------------
(* The inductive invariants behind QueueDiscipline and ResultsFaithful *)

\* The deques share out the unfinished sequences.
DequesInv ==
    /\ IsInjective(active_) /\ IsInjective(waiting_)
    /\ Range(active_) \cap Range(waiting_) = {}
    /\ Unfinished = Range(active_) \cup Range(waiting_)

\* What a sequence in each deque has been through.
WorkInv ==
    /\ \A s \in Range(waiting_) : cursor[s] = 0 /\ generated[s] = 0
    /\ \A s \in Range(active_) :
          cursor[s] > 0 /\ (phase[s] = "DECODE" <=> cursor[s] = prompt[s])

\* The sequences the pass of step() under way will not come to (again): behind
\* the iterator, or in a phase the pass skips.
Passed(s) ==
    \E k \in DOMAIN active_ :
        /\ active_[k] = s
        /\ pass = "decode" => k < it /\ phase[s] = "DECODE"
        /\ pass = "prefill" => k < it \/ phase[s] = "DECODE"

\* A reported sequence is finished or will not be come to again in this step.
ReportInv ==
    pass # "idle" => \A s \in Reported : phase[s] = "FINISHED" \/ Passed(s)

QueueInv == DequesInv /\ WorkInv /\ ReportInv /\ ResultsFaithful

\* Behind ServedInTurn: while budget is left, whoever the step has gone past
\* without giving him anything is short of blocks.
TurnInv ==
    pass # "idle" /\ budget > 0 =>
        \A s \in Seqs : Passed(s) => s \in Reported \/ ShortOfBlocks(s)

-----------------------------------------------------------------------------
(* Progress *)

\* Every admitted sequence is eventually finished.
EveryRequestFinishes ==
    \A s \in Seqs : s \in Unfinished ~> phase[s] = "FINISHED"

\* "In-flight generations get priority so they're never starved by a stream of
\* new prefill admissions": a sequence that has reached DECODE in active_ gets
\* to its end, whatever arrives meanwhile.
InFlightNeverStarved ==
    \A s \in Seqs :
        phase[s] = "DECODE" /\ cursor[s] > 0 ~> phase[s] = "FINISHED"
=============================================================================
