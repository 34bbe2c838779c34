-------------------------- MODULE SchedulerProofs --------------------------
(***************************************************************************)
(* PagedKVCacheAllocator for every pool, block size and sequence of calls:  *)
(* it never gives a block to two sequences and never loses one.             *)
(* ContinuousBatchingScheduler for every configuration and every stream of  *)
(* requests: IInv (the block accounting) is inductive, QueueInv             *)
(* (the deques and the results) is on top of it, and TurnInv on top of both *)
(* shows who is served before whom.                                         *)
(***************************************************************************)
EXTENDS Scheduler, FiniteSetTheorems, SequenceTheorems, WellFoundedInduction, TLAPS

-----------------------------------------------------------------------------
(* The page table *)

\* Every set of blocks is finite and its size a natural number.
LEMMA BlockSets ==
    ASSUME NEW B \in SUBSET Blocks
    PROVE  IsFiniteSet(B) /\ Cardinality(B) \in Nat
BY BlocksAssumption, FS_Subset, FS_CardinalityType

\* Division with remainder by the block size.
LEMMA DivBlock ==
    ASSUME NEW n \in Nat
    PROVE  /\ n \div BlockSize \in Nat
           /\ n % BlockSize \in 0..(BlockSize - 1)
           /\ n = BlockSize * (n \div BlockSize) + (n % BlockSize)
BY BlockSizeAssumption

\* More tokens never need fewer blocks.
LEMMA NeededMonotone ==
    ASSUME NEW m \in Nat, NEW n \in Nat, m <= n
    PROVE  /\ blocks_needed_for(m) \in Nat
           /\ blocks_needed_for(m) <= blocks_needed_for(n)
<1> DEFINE a == m + BlockSize - 1
           b == n + BlockSize - 1
<1>1. a \in Nat /\ b \in Nat /\ a <= b BY BlockSizeAssumption
<1> HIDE DEF a, b
<1>2. PICK q \in Nat, r \in 0..(BlockSize - 1) :
          a = BlockSize * q + r /\ q = a \div BlockSize
  BY <1>1, DivBlock
<1>3. PICK u \in Nat, v \in 0..(BlockSize - 1) :
          b = BlockSize * u + v /\ u = b \div BlockSize
  BY <1>1, DivBlock
<1>4. q <= u
  <2> SUFFICES ASSUME u < q PROVE FALSE OBVIOUS
  <2>1. PICK d \in Nat : q = u + 1 + d
    BY q = u + 1 + (q - u - 1), q - u - 1 \in Nat
  <2>2. BlockSize * q = BlockSize * u + BlockSize + BlockSize * d
    BY <2>1, BlockSizeAssumption
  <2>3. BlockSize * d \in Nat /\ BlockSize * u \in Nat /\ BlockSize \in Nat
    BY <2>1, BlockSizeAssumption
  <2> QED BY <2>2, <2>3, <1>1, <1>2, <1>3
<1> QED BY <1>2, <1>3, <1>4 DEF blocks_needed_for, a, b

\* A sequence without tokens needs no block.
LEMMA NeededForNothing == blocks_needed_for(0) = 0
<1>1. BlockSize - 1 \in 0..(BlockSize - 1) /\ BlockSize \in Nat
  BY BlockSizeAssumption
<1>2. PICK q \in Nat, r \in 0..(BlockSize - 1) :
          BlockSize - 1 = BlockSize * q + r /\ q = (BlockSize - 1) \div BlockSize
  BY <1>1, DivBlock
<1>3. q = 0
  <2> SUFFICES ASSUME q > 0 PROVE FALSE OBVIOUS
  <2>1. PICK d \in Nat : q = 1 + d BY q = 1 + (q - 1), q - 1 \in Nat
  <2>2. BlockSize * q = BlockSize + BlockSize * d BY <2>1, <1>1
  <2>3. BlockSize * d \in Nat BY <2>1, <1>1
  <2> QED BY <2>2, <2>3, <1>1, <1>2
<1>4. 0 + BlockSize - 1 = BlockSize - 1 BY <1>1
<1> QED BY <1>2, <1>3, <1>4 DEF blocks_needed_for

\* What a successful ensure_capacity changes: only the table of its sequence,
\* which ends up with the blocks it needed or the more it had.
LEMMA GrowTable ==
    ASSUME PTTypeOK, Partition, NEW s \in Seqs, NEW n \in Nat, EnsureCapacity(s, n)
    PROVE  /\ PTTypeOK' /\ Partition'
           /\ \A t \in Seqs \ {s} : tables'[t] = tables[t]
           /\ Cardinality(tables[s]) <= blocks_needed_for(n)
                  => Cardinality(tables'[s]) = blocks_needed_for(n)
<1>1. PICK B \in SUBSET free_blocks :
          /\ Cardinality(B) = ToAllocate(s, n)
          /\ tables' = [tables EXCEPT ![s] = @ \cup B]
          /\ free_blocks' = free_blocks \ B
  BY DEF EnsureCapacity
<1>2. PTTypeOK' BY <1>1 DEF PTTypeOK
<1>3. tables'[s] = tables[s] \cup B /\ \A t \in Seqs \ {s} : tables'[t] = tables[t]
  BY <1>1 DEF PTTypeOK
<1>4. Partition' BY <1>1, <1>3 DEF Partition, PTTypeOK
<1>5. ASSUME Cardinality(tables[s]) <= blocks_needed_for(n)
      PROVE  Cardinality(tables'[s]) = blocks_needed_for(n)
  <2>1. B \in SUBSET Blocks /\ tables[s] \in SUBSET Blocks /\ tables[s] \cap B = {}
    BY <1>1 DEF PTTypeOK, Partition
  <2>2. Cardinality(tables[s] \cup B)
            = Cardinality(tables[s]) + Cardinality(B) - Cardinality(tables[s] \cap B)
    BY <2>1, BlockSets, FS_Union
  <2>3. Cardinality(tables[s] \cap B) = 0 BY <2>1, FS_EmptySet
  <2>4. /\ Cardinality(tables[s]) \in Nat /\ Cardinality(B) \in Nat
        /\ blocks_needed_for(n) \in Nat
    BY <2>1, BlockSets, NeededMonotone
  <2>5. Cardinality(B) = blocks_needed_for(n) - Cardinality(tables[s])
    BY <2>4, <1>1, <1>5 DEF ToAllocate
  <2> QED BY <2>2, <2>3, <2>4, <2>5, <1>3
<1> QED BY <1>2, <1>3, <1>4, <1>5

\* free_sequence returns what one sequence held and touches no other.
LEMMA EmptyTable ==
    ASSUME PTTypeOK, Partition, NEW s \in Seqs, FreeSequence(s)
    PROVE  /\ PTTypeOK' /\ Partition'
           /\ tables'[s] = {}
           /\ \A t \in Seqs \ {s} : tables'[t] = tables[t]
<1>1. tables'[s] = {} /\ \A t \in Seqs \ {s} : tables'[t] = tables[t]
  BY DEF FreeSequence, PTTypeOK
<1>2. PTTypeOK' BY DEF FreeSequence, PTTypeOK
<1>3. free_blocks' = free_blocks \cup tables[s] BY DEF FreeSequence
<1>4. Partition' BY <1>1, <1>3 DEF Partition, PTTypeOK
<1> QED BY <1>1, <1>2, <1>4

\* Initially every block is free.
LEMMA PTInitInv == PTInit => PTTypeOK /\ Partition
BY DEF PTInit, PTTypeOK, Partition

\* Whatever sequence of ensure_capacity and free_sequence calls its users make,
\* the pool and the tables partition the physical blocks.
THEOREM PageTablePartition == PTSpec => [](PTTypeOK /\ Partition)
<1>1. PTTypeOK /\ Partition /\ [PTNext]_ptVars => (PTTypeOK /\ Partition)'
  <2> SUFFICES ASSUME PTTypeOK, Partition, [PTNext]_ptVars
               PROVE  (PTTypeOK /\ Partition)'
    OBVIOUS
  <2>1. ASSUME NEW s \in Seqs, NEW n \in 0..MaxTokens, EnsureCapacity(s, n)
        PROVE  (PTTypeOK /\ Partition)'
    BY <2>1, GrowTable, MaxTokensAssumption
  <2>2. ASSUME NEW s \in Seqs, FreeSequence(s) PROVE (PTTypeOK /\ Partition)'
    BY <2>2, EmptyTable
  <2>3. CASE UNCHANGED ptVars BY <2>3 DEF ptVars, PTTypeOK, Partition
  <2> QED BY <2>1, <2>2, <2>3 DEF PTNext
<1> QED BY <1>1, PTInitInv, PTL DEF PTSpec

-----------------------------------------------------------------------------
(* The scheduler *)

\* The invariant holds before the first request.
LEMMA InitInv == Init => IInv
<1> SUFFICES ASSUME Init PROVE IInv OBVIOUS
<1>1. PTTypeOK /\ Partition BY PTInitInv DEF Init
<1>2. TypeOK BY <1>1, ConfigAssumption DEF Init, TypeOK, Phases, Passes
<1>3. CountersInv BY DEF Init, CountersInv
<1>4. BlocksMatchTokens
  BY FS_EmptySet DEF Init, PTInit, BlocksMatchTokens, Unfinished
<1>5. GenerationBound BY DEF Init, GenerationBound, Unfinished
<1> QED BY <1>1, <1>2, <1>3, <1>4, <1>5 DEF IInv

\* Steps that only move the loops along.
LEMMA LoopInv ==
    ASSUME IInv, UNCHANGED <<seqVars, free_blocks, tables>>, TypeOK'
    PROVE  IInv'
<1>1. UNCHANGED <<phase, prompt, max_new, cursor, generated, free_blocks, tables>>
  BY DEF seqVars
<1> QED BY <1>1 DEF IInv, Partition, CountersInv, BlocksMatchTokens,
               GenerationBound, Unfinished

\* The phase a report carries is a phase.
LEMMA ReportType ==
    ASSUME TypeOK, phase' \in [Seqs -> Phases], NEW s \in Seqs,
           NEW n \in 1..budget, Report(s, n)
    PROVE  /\ budget' \in 0..MaxBatchTokens
           /\ results' \in Seq([seq_id : Seqs, tokens : Nat, phase_after : Phases])
<1>1. [seq_id |-> s, tokens |-> n, phase_after |-> phase'[s]]
          \in [seq_id : Seqs, tokens : Nat, phase_after : Phases]
  BY DEF TypeOK
<1>2. results' \in Seq([seq_id : Seqs, tokens : Nat, phase_after : Phases])
  BY <1>1, AppendProperties DEF Report, TypeOK
<1>3. budget' \in 0..MaxBatchTokens BY ConfigAssumption DEF Report, TypeOK
<1> QED BY <1>2, <1>3

\* A new request starts with no tokens and, as its id is not in use, no blocks.
LEMMA ConstructInv ==
    ASSUME IInv, NEW s \in Seqs, NEW r \in Requests[s], Construct(s, r),
           waiting_' \in Seq(Seqs),
           UNCHANGED <<active_, free_blocks, tables, pass, it, budget, results>>
    PROVE  IInv'
<1> USE DEF Construct
<1>0. r.prompt \in Nat /\ r.max_new \in Nat BY RequestsAssumption
<1>2. TypeOK'
  <2>1. phase' \in [Seqs -> Phases] BY DEF IInv, TypeOK, Phases
  <2>2. /\ prompt' \in [Seqs -> Nat] /\ max_new' \in [Seqs -> Nat]
        /\ cursor' \in [Seqs -> Nat] /\ generated' \in [Seqs -> Nat]
    BY <1>0 DEF IInv, TypeOK
  <2> QED BY <2>1, <2>2 DEF IInv, TypeOK, PTTypeOK
<1>3. Partition' BY DEF IInv, Partition
<1>4. /\ phase'[s] = "PREFILL" /\ cursor'[s] = 0 /\ generated'[s] = 0
      /\ prompt'[s] = r.prompt /\ max_new'[s] = r.max_new
      /\ \A t \in Seqs \ {s} :
            /\ phase'[t] = phase[t] /\ cursor'[t] = cursor[t]
            /\ generated'[t] = generated[t] /\ prompt'[t] = prompt[t]
            /\ max_new'[t] = max_new[t]
  BY DEF IInv, TypeOK
<1>5. CountersInv' BY <1>0, <1>4 DEF IInv, CountersInv
<1>6. BlocksMatchTokens'
  <2>1. Cardinality(tables[s]) = 0 BY DEF IInv, BlocksMatchTokens, Unfinished
  <2>2. s \in Unfinished' /\ \A t \in Seqs \ {s} : t \in Unfinished' <=> t \in Unfinished
    BY <1>4 DEF Unfinished
  <2>3. cursor'[s] + generated'[s] = 0 BY <1>4
  <2> QED BY <2>1, <2>2, <2>3, <1>4, NeededForNothing DEF IInv, BlocksMatchTokens
<1>7. GenerationBound' BY <1>0, <1>4 DEF IInv, GenerationBound, Unfinished
<1> QED BY <1>2, <1>3, <1>5, <1>6, <1>7 DEF IInv

\* A new request reaches the scheduler.
LEMMA AdmitInv ==
    ASSUME IInv, NEW s \in Seqs, NEW r \in Requests[s], Admit(s, r)
    PROVE  IInv'
<1>1. waiting_' \in Seq(Seqs) BY AppendProperties DEF Admit, admit, IInv, TypeOK
<1> QED BY <1>1, ConstructInv DEF Admit

\* do_prefill_chunk that returns a chunk grows the table to the new cursor.
LEMMA ChunkDoneInv ==
    ASSUME IInv, NEW s \in Seqs, budget > 0, ChunkDone(s),
           waiting_' \in Seq(Seqs), active_' \in Seq(Seqs),
           pass' \in Passes, it' \in Nat \ {0}
    PROVE  IInv'
<1> DEFINE n == ChunkOf(s)
           k == cursor[s] + n
<1>0. /\ cursor[s] \in Nat /\ prompt[s] \in Nat /\ cursor[s] < prompt[s]
      /\ budget \in Nat /\ MaxPrefillChunk \in Nat \ {0}
      /\ phase[s] = "PREFILL" /\ generated[s] = 0
  BY ConfigAssumption
     DEF IInv, TypeOK, CountersInv, ChunkDone, prefill_complete
<1>1. n \in 1..budget /\ n <= prompt[s] - cursor[s] BY <1>0 DEF ChunkOf
<1>2. k \in Nat /\ cursor[s] <= k /\ k <= prompt[s] /\ k >= 0 BY <1>0, <1>1
<1>3. /\ EnsureCapacity(s, k)
      /\ cursor' = [cursor EXCEPT ![s] = k]
      /\ IF k >= prompt[s] THEN transition_to(s, "DECODE") ELSE UNCHANGED phase
      /\ Report(s, n)
      /\ UNCHANGED <<prompt, max_new, generated>>
  BY DEF ChunkDone
<1> HIDE DEF n, k
<1>4. phase' = [phase EXCEPT ![s] = IF k >= prompt[s] THEN "DECODE" ELSE "PREFILL"]
  BY <1>0, <1>3 DEF transition_to, IInv, TypeOK
<1>5. /\ phase'[s] = IF k >= prompt[s] THEN "DECODE" ELSE "PREFILL"
      /\ cursor'[s] = k
      /\ \A t \in Seqs \ {s} : phase'[t] = phase[t] /\ cursor'[t] = cursor[t]
  BY <1>3, <1>4 DEF IInv, TypeOK
<1>6. Cardinality(tables[s]) = blocks_needed_for(cursor[s])
  <2>1. cursor[s] + generated[s] = cursor[s] BY <1>0
  <2> QED BY <2>1, <1>0 DEF IInv, BlocksMatchTokens, Unfinished
<1>7. /\ PTTypeOK' /\ Partition'
      /\ \A t \in Seqs \ {s} : tables'[t] = tables[t]
      /\ Cardinality(tables'[s]) = blocks_needed_for(k)
  <2>1. blocks_needed_for(cursor[s]) <= blocks_needed_for(k)
    BY <1>0, <1>2, NeededMonotone
  <2>2. PTTypeOK /\ Partition BY DEF IInv, TypeOK
  <2> QED BY <2>1, <2>2, <1>2, <1>3, <1>6, GrowTable
<1>8. TypeOK'
  <2>1. phase' \in [Seqs -> Phases] BY <1>4 DEF IInv, TypeOK, Phases
  <2>2. cursor' \in [Seqs -> Nat] BY <1>2, <1>3 DEF IInv, TypeOK
  <2>3. /\ budget' \in 0..MaxBatchTokens
        /\ results' \in Seq([seq_id : Seqs, tokens : Nat, phase_after : Phases])
    BY <2>1, <1>1, <1>3, ReportType DEF IInv
  <2> QED BY <2>1, <2>2, <2>3, <1>3, <1>7 DEF IInv, TypeOK
<1>9. CountersInv'
  BY <1>0, <1>2, <1>3, <1>5 DEF IInv, CountersInv
<1>10. BlocksMatchTokens'
  <2>1. s \in Unfinished' /\ \A t \in Seqs \ {s} : t \in Unfinished' <=> t \in Unfinished
    BY <1>5 DEF Unfinished
  <2>2. cursor'[s] + generated'[s] = k BY <1>0, <1>2, <1>3, <1>5
  <2> QED BY <2>1, <2>2, <1>3, <1>5, <1>7 DEF IInv, BlocksMatchTokens
<1>11. GenerationBound'
  <2>1. \A t \in Seqs : /\ t \in Unfinished' <=> t \in Unfinished
                        /\ phase'[t] = "FINISHED" <=> phase[t] = "FINISHED"
    BY <1>0, <1>5 DEF Unfinished
  <2> QED BY <2>1, <1>3 DEF IInv, GenerationBound
<1> QED BY <1>7, <1>8, <1>9, <1>10, <1>11 DEF IInv

\* do_prefill_chunk that returns 0 changes at most the phase.
LEMMA ChunkRefusedInv ==
    ASSUME IInv, NEW s \in Seqs, ChunkRefused(s),
           waiting_' \in Seq(Seqs), active_' \in Seq(Seqs),
           pass' \in Passes, it' \in Nat \ {0}
    PROVE  IInv'
<1>0. UNCHANGED <<prompt, max_new, cursor, generated, free_blocks, tables,
                  budget, results>>
  BY DEF ChunkRefused
<1>1. CASE prefill_complete(s) /\ transition_to(s, "DECODE")
  <2>1. phase[s] \in {"PREFILL", "DECODE"}
    BY <1>1 DEF transition_to, Legal, IInv, TypeOK, Phases
  <2>2. phase'[s] = "DECODE" /\ \A t \in Seqs \ {s} : phase'[t] = phase[t]
    BY <1>1 DEF transition_to, IInv, TypeOK
  <2>3. TypeOK'
    BY <1>0, <1>1 DEF transition_to, IInv, TypeOK, Phases, PTTypeOK
  <2>4. cursor[s] \in Nat /\ prompt[s] \in Nat BY DEF IInv, TypeOK
  <2>5. CountersInv'
    BY <2>2, <2>4, <1>0, <1>1 DEF IInv, CountersInv, prefill_complete
  <2>6. \A t \in Seqs : /\ t \in Unfinished' <=> t \in Unfinished
                        /\ phase'[t] = "FINISHED" <=> phase[t] = "FINISHED"
    BY <2>1, <2>2 DEF Unfinished
  <2>7. BlocksMatchTokens' /\ GenerationBound' /\ Partition'
    BY <2>6, <1>0 DEF IInv, BlocksMatchTokens, GenerationBound, Partition
  <2> QED BY <2>3, <2>5, <2>7 DEF IInv
<1>2. CASE UNCHANGED phase
  <2>1. TypeOK' BY <1>0, <1>2 DEF IInv, TypeOK, PTTypeOK
  <2> QED BY <2>1, <1>0, <1>2, LoopInv DEF seqVars
<1> QED BY <1>1, <1>2 DEF ChunkRefused

\* A decoded token that is not the last one.
LEMMA DecodeTokenInv ==
    ASSUME IInv, NEW s \in Seqs, DecodeToken(s)
    PROVE  IInv'
<1> DEFINE k == total_tokens(s) + 1
<1>0. /\ cursor[s] \in Nat /\ prompt[s] \in Nat /\ generated[s] \in Nat
      /\ max_new[s] \in Nat /\ budget \in Nat /\ budget > 0
      /\ phase[s] = "DECODE" /\ cursor[s] = prompt[s]
      /\ generated[s] + 1 < max_new[s] /\ it \in Nat \ {0}
  <2>1. /\ cursor[s] \in Nat /\ prompt[s] \in Nat /\ generated[s] \in Nat
        /\ max_new[s] \in Nat /\ budget \in Nat /\ it \in Nat \ {0}
    BY ConfigAssumption DEF IInv, TypeOK
  <2>2. budget > 0 /\ phase[s] = "DECODE" /\ ~ LastToken(s)
    BY DEF DecodeToken, GenerateToken, At
  <2>3. cursor[s] = prompt[s] BY <2>2 DEF IInv, CountersInv
  <2>4. generated[s] + 1 < max_new[s] BY <2>1, <2>2 DEF LastToken
  <2> QED BY <2>1, <2>2, <2>3, <2>4
<1>1. /\ EnsureCapacity(s, k) /\ Report(s, 1)
      /\ generated' = [generated EXCEPT ![s] = @ + 1]
      /\ UNCHANGED <<phase, prompt, max_new, cursor, waiting_, active_, pass>>
      /\ it' = it + 1
  BY DEF DecodeToken, GenerateToken, Advance, queueVars
<1>2. k \in Nat /\ k = cursor[s] + generated[s] + 1
  BY <1>0 DEF total_tokens
<1> HIDE DEF k
<1>3. /\ generated'[s] = generated[s] + 1
      /\ \A t \in Seqs \ {s} : generated'[t] = generated[t]
  BY <1>1 DEF IInv, TypeOK
<1>4. Cardinality(tables[s]) = blocks_needed_for(cursor[s] + generated[s])
  BY <1>0 DEF IInv, BlocksMatchTokens, Unfinished
<1>5. /\ PTTypeOK' /\ Partition'
      /\ \A t \in Seqs \ {s} : tables'[t] = tables[t]
      /\ Cardinality(tables'[s]) = blocks_needed_for(k)
  <2>0. cursor[s] + generated[s] \in Nat /\ cursor[s] + generated[s] <= k
    BY <1>0, <1>2
  <2>1. blocks_needed_for(cursor[s] + generated[s]) <= blocks_needed_for(k)
    BY <2>0, <1>2, NeededMonotone
  <2>2. PTTypeOK /\ Partition BY DEF IInv, TypeOK
  <2> QED BY <2>1, <2>2, <1>1, <1>2, <1>4, GrowTable
<1>6. TypeOK'
  <2>1. generated' \in [Seqs -> Nat] BY <1>0, <1>1 DEF IInv, TypeOK
  <2>2. phase' \in [Seqs -> Phases] /\ 1 \in 1..budget
    BY <1>0, <1>1 DEF IInv, TypeOK
  <2>3. /\ budget' \in 0..MaxBatchTokens
        /\ results' \in Seq([seq_id : Seqs, tokens : Nat, phase_after : Phases])
    BY <2>2, <1>1, ReportType DEF IInv
  <2>4. it' \in Nat \ {0} BY <1>0, <1>1
  <2> QED BY <2>1, <2>2, <2>3, <2>4, <1>1, <1>5 DEF IInv, TypeOK
<1>7. CountersInv' BY <1>0, <1>1, <1>3 DEF IInv, CountersInv
<1>8. BlocksMatchTokens'
  <2>1. Unfinished' = Unfinished BY <1>1 DEF Unfinished
  <2>2. cursor'[s] + generated'[s] = k BY <1>0, <1>1, <1>2, <1>3
  <2>3. s \in Unfinished BY <1>0 DEF Unfinished
  <2> QED BY <2>1, <2>2, <2>3, <1>1, <1>3, <1>5 DEF IInv, BlocksMatchTokens
<1>9. GenerationBound'
  BY <1>0, <1>1, <1>3 DEF IInv, GenerationBound, Unfinished
<1> QED BY <1>5, <1>6, <1>7, <1>8, <1>9 DEF IInv

\* The last token gives every block of the sequence back.
LEMMA DecodeFinishInv ==
    ASSUME IInv, NEW s \in Seqs, DecodeFinish(s)
    PROVE  IInv'
<1>0. /\ cursor[s] \in Nat /\ prompt[s] \in Nat /\ generated[s] \in Nat
      /\ max_new[s] \in Nat /\ budget \in Nat /\ budget > 0
      /\ phase[s] = "DECODE" /\ generated[s] + 1 >= max_new[s]
      /\ it \in Nat \ {0} /\ it <= Len(active_) /\ active_ \in Seq(Seqs)
  <2>1. /\ cursor \in [Seqs -> Nat] /\ prompt \in [Seqs -> Nat]
        /\ generated \in [Seqs -> Nat] /\ max_new \in [Seqs -> Nat]
        /\ budget \in 0..MaxBatchTokens /\ it \in Nat \ {0} /\ active_ \in Seq(Seqs)
    BY DEF IInv, TypeOK
  <2>2. /\ phase[s] = "DECODE" /\ generated[s] + 1 >= max_new[s]
        /\ budget > 0 /\ it <= Len(active_)
    BY DEF DecodeFinish, GenerateToken, LastToken, At
  <2>3. budget \in Nat BY <2>1, ConfigAssumption
  <2> QED BY <2>1, <2>2, <2>3
<1>1. /\ FreeSequence(s) /\ Report(s, 1)
      /\ generated' = [generated EXCEPT ![s] = @ + 1]
      /\ phase' = [phase EXCEPT ![s] = "FINISHED"]
      /\ UNCHANGED <<prompt, max_new, cursor, waiting_, pass, it>>
  BY DEF DecodeFinish, GenerateToken, transition_to
<1>2. active_' \in Seq(Seqs)
  <2>1. SubSeq(active_, 1, it - 1) \in Seq(Seqs)
    BY <1>0, SubSeqProperties
  <2>2. SubSeq(active_, it + 1, Len(active_)) \in Seq(Seqs)
    BY <1>0, SubSeqProperties
  <2> QED BY <2>1, <2>2, ConcatProperties DEF DecodeFinish
<1>3. /\ generated'[s] = generated[s] + 1 /\ phase'[s] = "FINISHED"
      /\ \A t \in Seqs \ {s} : generated'[t] = generated[t] /\ phase'[t] = phase[t]
  BY <1>1 DEF IInv, TypeOK
<1>4. /\ PTTypeOK' /\ Partition'
      /\ tables'[s] = {}
      /\ \A t \in Seqs \ {s} : tables'[t] = tables[t]
  BY <1>1, EmptyTable DEF IInv, TypeOK
<1>5. TypeOK'
  <2>0. generated \in [Seqs -> Nat] BY DEF IInv, TypeOK
  <2>a. generated[s] + 1 \in Nat BY <2>0
  <2>1. generated' \in [Seqs -> Nat] BY <2>0, <2>a, <1>1
  <2>2. phase' \in [Seqs -> Phases] /\ 1 \in 1..budget
    BY <1>0, <1>1 DEF IInv, TypeOK, Phases
  <2>3. /\ budget' \in 0..MaxBatchTokens
        /\ results' \in Seq([seq_id : Seqs, tokens : Nat, phase_after : Phases])
    BY <2>2, <1>1, ReportType DEF IInv
  <2> QED BY <2>1, <2>2, <2>3, <1>1, <1>2, <1>4 DEF IInv, TypeOK
<1>6. CountersInv'
  <2>1. cursor[s] <= prompt[s] /\ cursor[s] = prompt[s]
    BY <1>0 DEF IInv, CountersInv
  <2> QED BY <2>1, <1>1, <1>3 DEF IInv, CountersInv
<1>7. BlocksMatchTokens'
  <2>1. s \notin Unfinished' /\ \A t \in Seqs \ {s} : t \in Unfinished' <=> t \in Unfinished
    BY <1>3 DEF Unfinished
  <2>2. Cardinality(tables'[s]) = 0 BY <1>4, FS_EmptySet
  <2> QED BY <2>1, <2>2, <1>1, <1>3, <1>4 DEF IInv, BlocksMatchTokens
<1>8. GenerationBound'
  <2>1. generated[s] < IF max_new[s] = 0 THEN 1 ELSE max_new[s]
    BY <1>0 DEF IInv, GenerationBound, Unfinished
  <2> QED BY <2>1, <1>0, <1>1, <1>3 DEF IInv, GenerationBound, Unfinished
<1> QED BY <1>4, <1>5, <1>6, <1>7, <1>8 DEF IInv

\* Every action preserves the invariant.
LEMMA NextInv == IInv /\ [Next]_vars => IInv'
<1> SUFFICES ASSUME IInv, [Next]_vars PROVE IInv' OBVIOUS
<1>0. /\ it \in Nat \ {0} /\ it + 1 \in Nat \ {0}
      /\ waiting_ \in Seq(Seqs) /\ active_ \in Seq(Seqs) /\ pass \in Passes
  BY DEF IInv, TypeOK
<1>1. CASE StepBegin \/ DecodeEnd \/ PrefillEnd \/ AdmitEnd
  <2>1. UNCHANGED <<seqVars, free_blocks, tables>>
    BY <1>1 DEF StepBegin, DecodeEnd, PrefillEnd, AdmitEnd, LoopEnd
  <2>2. /\ waiting_' = waiting_ /\ active_' = active_
        /\ pass' \in Passes /\ it' \in Nat \ {0}
        /\ budget' \in 0..MaxBatchTokens
        /\ results' \in Seq([seq_id : Seqs, tokens : Nat, phase_after : Phases])
    <3>1. CASE StepBegin
      <4>1. << >> \in Seq([seq_id : Seqs, tokens : Nat, phase_after : Phases])
        BY EmptySeq
      <4> QED BY <4>1, <3>1, <1>0, ConfigAssumption DEF StepBegin, queueVars, Passes
    <3>2. CASE DecodeEnd \/ PrefillEnd \/ AdmitEnd
      <4>1. UNCHANGED <<waiting_, active_, budget, results>>
        BY <3>2 DEF DecodeEnd, PrefillEnd, AdmitEnd, LoopEnd, queueVars
      <4>2. pass' \in Passes /\ it' \in Nat \ {0}
        BY <3>2, <1>0 DEF DecodeEnd, PrefillEnd, AdmitEnd, LoopEnd, Passes
      <4> QED BY <4>1, <4>2 DEF IInv, TypeOK
    <3> QED BY <3>1, <3>2, <1>1
  <2>3. TypeOK' BY <2>1, <2>2 DEF seqVars, IInv, TypeOK, PTTypeOK
  <2> QED BY <2>1, <2>3, LoopInv
<1>2. ASSUME NEW s \in Seqs, DecodeSkip(s) \/ PrefillSkip(s) PROVE IInv'
  <2>1. /\ UNCHANGED <<seqVars, free_blocks, tables, budget, results, queueVars, pass>>
        /\ it' = it + 1
    BY <1>2 DEF DecodeSkip, PrefillSkip, Advance
  <2>2. TypeOK' BY <2>1, <1>0 DEF seqVars, queueVars, IInv, TypeOK, PTTypeOK
  <2> QED BY <2>1, <2>2, LoopInv
<1>3. ASSUME NEW s \in Seqs, DecodeToken(s) \/ DecodeFinish(s) PROVE IInv'
  BY <1>3, DecodeTokenInv, DecodeFinishInv
<1>4. ASSUME NEW s \in Seqs, PrefillRefused(s) PROVE IInv'
  BY <1>0, <1>4, ChunkRefusedInv DEF PrefillRefused, Advance, queueVars
<1>5. ASSUME NEW s \in Seqs, PrefillChunk(s) PROVE IInv'
  <2>1. budget > 0 /\ ChunkDone(s) BY <1>5 DEF PrefillChunk, At
  <2>2. /\ waiting_' \in Seq(Seqs) /\ active_' \in Seq(Seqs)
        /\ pass' \in Passes /\ it' \in Nat \ {0}
    BY <1>0, <1>5 DEF PrefillChunk, Advance, queueVars
  <2> QED BY <2>1, <2>2, ChunkDoneInv
<1>6. ASSUME NEW s \in Seqs, AdmitChunk(s) PROVE IInv'
  <2>1. budget > 0 /\ ChunkDone(s) BY <1>6 DEF AdmitChunk
  <2>2. /\ waiting_' \in Seq(Seqs) /\ active_' \in Seq(Seqs)
        /\ pass' \in Passes /\ it' \in Nat \ {0}
    <3>1. Tail(waiting_) \in Seq(Seqs) BY <1>0, <1>6, HeadTailProperties DEF AdmitChunk
    <3>2. Append(active_, s) \in Seq(Seqs) BY <1>0, AppendProperties
    <3> QED BY <3>1, <3>2, <1>0, <1>6 DEF AdmitChunk
  <2> QED BY <2>1, <2>2, ChunkDoneInv
<1>7. ASSUME NEW s \in Seqs, AdmitRefused(s) PROVE IInv'
  <2>1. /\ ChunkRefused(s) /\ waiting_' \in Seq(Seqs) /\ active_' \in Seq(Seqs)
        /\ pass' \in Passes /\ it' \in Nat \ {0}
    BY <1>0, <1>7 DEF AdmitRefused, queueVars, Passes
  <2> QED BY <2>1, ChunkRefusedInv
<1>8. ASSUME NEW s \in Seqs, NEW r \in Requests[s], Admit(s, r) PROVE IInv'
  BY <1>8, AdmitInv
<1>9. CASE UNCHANGED vars
  <2>1. UNCHANGED <<seqVars, free_blocks, tables, budget, results, queueVars, pass, it>>
    BY <1>9 DEF vars
  <2>2. TypeOK' BY <2>1 DEF seqVars, queueVars, IInv, TypeOK, PTTypeOK
  <2> QED BY <2>1, <2>2, LoopInv
<1> QED BY <1>1, <1>2, <1>3, <1>4, <1>5, <1>6, <1>7, <1>8, <1>9 DEF Next, Step

-----------------------------------------------------------------------------
(* Lists *)

\* Appending a value that is not in a list.
LEMMA AppendRange ==
    ASSUME NEW S, NEW q \in Seq(S), NEW x \in S
    PROVE  /\ Range(Append(q, x)) = Range(q) \cup {x}
           /\ IsInjective(q) /\ x \notin Range(q) => IsInjective(Append(q, x))
<1> DEFINE a == Append(q, x)
<1>1. /\ a \in Seq(S) /\ Len(a) = Len(q) + 1 /\ Len(q) \in Nat
      /\ a[Len(q) + 1] = x /\ \A k \in 1..Len(q) : a[k] = q[k]
  BY AppendProperties, LenProperties
<1>2. DOMAIN a = 1..(Len(q) + 1) /\ DOMAIN q = 1..Len(q)
  BY <1>1, LenProperties
<1> HIDE DEF a
<1>3. Range(a) = Range(q) \cup {x} BY <1>1, <1>2 DEF Range
<1>4. IsInjective(q) /\ x \notin Range(q) => IsInjective(a)
  BY <1>1, <1>2 DEF Range, IsInjective
<1> QED BY <1>3, <1>4 DEF a

\* Removing the front of a list without repetitions.
LEMMA TailRange ==
    ASSUME NEW S, NEW q \in Seq(S), q # << >>, IsInjective(q)
    PROVE  /\ Head(q) \in Range(q) /\ Range(Tail(q)) = Range(q) \ {Head(q)}
           /\ IsInjective(Tail(q))
<1> DEFINE n == Len(q)
           a == Tail(q)
<1>1. /\ a \in Seq(S) /\ Len(a) = n - 1 /\ n \in Nat \ {0}
      /\ \A k \in 1..(n - 1) : a[k] = q[k + 1]
  BY HeadTailProperties, EmptySeq
<1>2. Head(q) = q[1] OBVIOUS
<1>3. DOMAIN a = 1..(n - 1) /\ DOMAIN q = 1..n BY <1>1, LenProperties
<1> HIDE DEF n, a
<1>4. \A k \in 1..n : k = 1 \/ k - 1 \in 1..(n - 1) BY <1>1
<1>5. \A k \in 1..(n - 1) : k + 1 \in 1..n /\ k + 1 # 1 BY <1>1
<1>6. \A k \in 2..n : a[k - 1] = q[k] /\ k - 1 \in 1..(n - 1) BY <1>1
<1>7. Head(q) \in Range(q) BY <1>1, <1>2, <1>3 DEF Range
<1>8. Range(a) = Range(q) \ {Head(q)}
  <2>1. ASSUME NEW y \in Range(a) PROVE y \in Range(q) /\ y # q[1]
    <3>1. PICK k \in 1..(n - 1) : y = a[k] BY <2>1, <1>3 DEF Range
    <3>2. y = q[k + 1] /\ k + 1 \in 1..n /\ k + 1 # 1 /\ 1 \in 1..n BY <3>1, <1>1, <1>5
    <3> QED BY <3>2, <1>3 DEF Range, IsInjective
  <2>2. ASSUME NEW y \in Range(q), y # q[1] PROVE y \in Range(a)
    <3>1. PICK k \in 1..n : y = q[k] BY <2>2, <1>3 DEF Range
    <3>2. k \in 2..n BY <3>1, <2>2, <1>1
    <3> QED BY <3>1, <3>2, <1>6, <1>3 DEF Range
  <2> QED BY <2>1, <2>2, <1>2
<1>9. IsInjective(a)
  <2> SUFFICES ASSUME NEW j \in 1..(n - 1), NEW k \in 1..(n - 1), a[j] = a[k]
               PROVE  j = k
    BY <1>3 DEF IsInjective
  <2>1. q[j + 1] = q[k + 1] /\ j + 1 \in 1..n /\ k + 1 \in 1..n BY <1>1
  <2>2. j + 1 = k + 1 BY <2>1, <1>3 DEF IsInjective
  <2> QED BY <2>2
<1> QED BY <1>7, <1>8, <1>9 DEF a

\* The list a of members of S is q without its i-th element.
Without(S, q, i, a) ==
    /\ a \in Seq(S) /\ Len(a) = Len(q) - 1 /\ i \in 1..Len(q)
    /\ \A k \in 1..(Len(q) - 1) : a[k] = IF k < i THEN q[k] ELSE q[k + 1]

\* Erasing an element in the middle of a list.
LEMMA EraseWithout ==
    ASSUME NEW S, NEW q \in Seq(S), NEW i \in 1..Len(q),
           NEW a, a = SubSeq(q, 1, i - 1) \o SubSeq(q, i + 1, Len(q))
    PROVE  Without(S, q, i, a)
<1> DEFINE n == Len(q)
           u == SubSeq(q, 1, i - 1)
           v == SubSeq(q, i + 1, n)
<1>1. n \in Nat /\ DOMAIN q = 1..n /\ \A k \in 1..n : q[k] \in S
  BY LenProperties, ElementOfSeq
<1>2. /\ u \in Seq(S) /\ Len(u) = i - 1 /\ \A k \in 1..(i - 1) : u[k] = q[k]
  <2>1. \A k \in 1..(i - 1) : q[k] \in S BY <1>1
  <2>2. /\ u \in Seq(S) /\ Len(u) = IF 1 <= i - 1 THEN (i - 1) - 1 + 1 ELSE 0
        /\ \A k \in 1..((i - 1) - 1 + 1) : u[k] = q[1 + k - 1]
    BY <2>1, <1>1, SubSeqProperties
  <2> HIDE DEF u
  <2> QED BY <2>2, <1>1
<1>3. /\ v \in Seq(S) /\ Len(v) = n - i /\ \A k \in 1..(n - i) : v[k] = q[i + k]
  <2>1. \A k \in (i + 1)..n : q[k] \in S BY <1>1
  <2>2. /\ v \in Seq(S) /\ Len(v) = IF i + 1 <= n THEN n - (i + 1) + 1 ELSE 0
        /\ \A k \in 1..(n - (i + 1) + 1) : v[k] = q[(i + 1) + k - 1]
    BY <2>1, <1>1, SubSeqProperties
  <2>3. n - (i + 1) + 1 = n - i /\ \A k \in 1..(n - i) : (i + 1) + k - 1 = i + k
    BY <1>1
  <2> HIDE DEF v, n
  <2>a. i \in 1..n BY DEF n
  <2>c. n \in Int /\ i \in Int /\ i <= n BY <2>a, <1>1
  <2>4. i + 1 <= n \/ n - i = 0 BY <2>c
  <2>b. Len(v) = IF i + 1 <= n THEN n - i ELSE 0 BY <2>2, <2>3
  <2>5. Len(v) = n - i BY <2>b, <2>4, <2>a, <1>1
  <2>6. \A k \in 1..(n - i) : v[k] = q[i + k] BY <2>2, <2>3
  <2> QED BY <2>2, <2>5, <2>6
<1> HIDE DEF u, v
<1>4. /\ a \in Seq(S) /\ Len(a) = n - 1
      /\ \A k \in 1..(n - 1) : a[k] = IF k < i THEN q[k] ELSE q[k + 1]
  <2>0. a = u \o v BY DEF u, v
  <2>a. u \in Seq(S) /\ v \in Seq(S) BY <1>2, <1>3
  <2>b. /\ u \o v \in Seq(S) /\ Len(u \o v) = Len(u) + Len(v)
        /\ \A k \in 1..(Len(u) + Len(v)) :
              (u \o v)[k] = IF k <= Len(u) THEN u[k] ELSE v[k - Len(u)]
    BY <2>a, ConcatProperties
  <2>1. /\ a \in Seq(S) /\ Len(a) = Len(u) + Len(v)
        /\ \A k \in 1..(Len(u) + Len(v)) :
              a[k] = IF k <= Len(u) THEN u[k] ELSE v[k - Len(u)]
    BY <2>0, <2>b, Zenon
  <2>2. Len(u) + Len(v) = n - 1 BY <1>1, <1>2, <1>3
  <2>3. ASSUME NEW k \in 1..(n - 1) PROVE a[k] = IF k < i THEN q[k] ELSE q[k + 1]
    <3>1. CASE k < i
      <4>1. k \in 1..(i - 1) /\ k <= i - 1 BY <3>1, <1>1
      <4> QED BY <4>1, <3>1, <2>1, <2>2, <1>2
    <3>2. CASE ~ (k < i)
      <4>1. k - (i - 1) \in 1..(n - i) /\ i + (k - (i - 1)) = k + 1 BY <3>2, <1>1
      <4>0. ~ (k <= i - 1) BY <3>2
      <4>2. a[k] = v[k - (i - 1)] BY <4>0, <2>1, <2>2, <1>2
      <4> QED BY <4>1, <4>2, <3>2, <1>3
    <3> QED BY <3>1, <3>2
  <2> QED BY <2>1, <2>2, <2>3
<1> QED BY <1>4 DEF n, Without

\* What is left of a list without repetitions.
LEMMA WithoutRange ==
    ASSUME NEW S, NEW q \in Seq(S), IsInjective(q), NEW i, NEW a, Without(S, q, i, a)
    PROVE  Range(a) = Range(q) \ {q[i]} /\ IsInjective(a)
<1> DEFINE n == Len(q)
<1>1. n \in Nat /\ DOMAIN q = 1..n /\ i \in 1..n BY LenProperties DEF Without
<1>4. /\ a \in Seq(S) /\ Len(a) = n - 1
      /\ \A k \in 1..(n - 1) : a[k] = IF k < i THEN q[k] ELSE q[k + 1]
  BY DEF Without
<1>5. DOMAIN a = 1..(n - 1) BY <1>4, LenProperties
<1> HIDE DEF n
<1>6. Range(a) = Range(q) \ {q[i]}
  <2>0. i \in 1..n BY <1>1
  <2>1. ASSUME NEW y \in Range(a) PROVE y \in Range(q) /\ y # q[i]
    <3>1. PICK k \in 1..(n - 1) : y = a[k] BY <2>1, <1>5 DEF Range
    <3>2. PICK j \in 1..n : j # i /\ y = q[j]
      <4>1. CASE k < i BY <4>1, <3>1, <1>1, <1>4
      <4>2. CASE ~ (k < i)
        <5>1. k + 1 \in 1..n /\ k + 1 # i BY <4>2, <2>0, <1>1
        <5> QED BY <5>1, <4>2, <3>1, <1>4
      <4> QED BY <4>1, <4>2
    <3> QED BY <3>2, <2>0, <1>1 DEF Range, IsInjective
  <2>2. ASSUME NEW y \in Range(q), y # q[i] PROVE y \in Range(a)
    <3>1. PICK k \in 1..n : y = q[k] BY <2>2, <1>1 DEF Range
    <3>2. \E j \in 1..(n - 1) : a[j] = y
      <4>1. CASE k < i
        <5>1. k \in 1..(n - 1) BY <4>1, <2>0, <1>1
        <5> QED BY <5>1, <4>1, <3>1, <1>4
      <4>2. CASE k > i
        <5>1. k - 1 \in 1..(n - 1) /\ ~ (k - 1 < i) /\ (k - 1) + 1 = k
          BY <4>2, <2>0, <1>1
        <5> QED BY <5>1, <3>1, <1>4
      <4>3. k # i BY <3>1, <2>2
      <4>4. k < i \/ k > i BY <4>3, <2>0, <1>1
      <4> QED BY <4>1, <4>2, <4>4
    <3> QED BY <3>2, <1>5 DEF Range
  <2> QED BY <2>1, <2>2
<1>7. IsInjective(a)
  <2> SUFFICES ASSUME NEW j \in 1..(n - 1), NEW k \in 1..(n - 1), a[j] = a[k]
               PROVE  j = k
    BY <1>5 DEF IsInjective
  <2>0. i \in 1..n BY <1>1
  <2> DEFINE J == IF j < i THEN j ELSE j + 1
             K == IF k < i THEN k ELSE k + 1
  <2>1. J \in 1..n /\ K \in 1..n BY <2>0, <1>1
  <2>2. a[j] = q[J] /\ a[k] = q[K] BY <1>4
  <2>3. J = K BY <2>1, <2>2, <1>1 DEF IsInjective
  <2> QED BY <2>3, <2>0, <1>1
<1> QED BY <1>6, <1>7

\* Erasing an element in the middle of a list without repetitions.
LEMMA EraseRange ==
    ASSUME NEW S, NEW q \in Seq(S), NEW i \in 1..Len(q), IsInjective(q),
           NEW a, a = SubSeq(q, 1, i - 1) \o SubSeq(q, i + 1, Len(q))
    PROVE  /\ Without(S, q, i, a)
           /\ Range(a) = Range(q) \ {q[i]}
           /\ IsInjective(a)
<1>1. Without(S, q, i, a) BY EraseWithout
<1>2. Range(a) = Range(q) \ {q[i]} /\ IsInjective(a) BY <1>1, WithoutRange
<1> QED BY <1>1, <1>2

\* A list without repetitions has a value once or not at all.
LEMMA OneOccurrence ==
    ASSUME NEW q, IsInjective(q), NEW x
    PROVE  Cardinality(Occurrences(q, x)) = IF x \in Range(q) THEN 1 ELSE 0
<1>1. CASE x \in Range(q)
  <2>1. PICK k \in DOMAIN q : q[k] = x BY <1>1 DEF Range
  <2>2. Occurrences(q, x) = {k} BY <2>1 DEF Occurrences, IsInjective
  <2> QED BY <1>1, <2>2, FS_Singleton
<1>2. CASE x \notin Range(q)
  <2>1. Occurrences(q, x) = {} BY <1>2 DEF Occurrences, Range
  <2> QED BY <1>2, <2>1, FS_EmptySet
<1> QED BY <1>1, <1>2

\* A set with 0 and the successor of every number in it has every number.
LEMMA SetInduction ==
    ASSUME NEW S, 0 \in S, \A n \in Nat : n \in S => n + 1 \in S
    PROVE  \A n \in Nat : n \in S
<1> DEFINE T == Nat \ S
           R == {ss \in Nat \X Nat : ss[1] < ss[2]}
<1>1. SUFFICES ASSUME T # {} PROVE FALSE OBVIOUS
<1>2. IsWellFoundedOn(R, Nat) BY NatLessThanWellFounded DEF OpToRel
<1>3. T \subseteq Nat OBVIOUS
<1> HIDE DEF T, R
<1>4. PICK x \in T : \A y \in T : <<y, x>> \notin R
  BY <1>1, <1>2, <1>3, WFMin
<1>5. \A y \in T : ~ (y < x) BY <1>3, <1>4 DEF R
<1> QED BY <1>5 DEF T

\* The running total of a list of results exists and is its only solution.
LEMMA RunningTotal ==
    ASSUME NEW S, NEW list \in Seq(S), \A x \in S : x.tokens \in Nat
    PROVE  \E f \in [0..Len(list) -> Nat] :
              /\ f = [n \in 0..Len(list) |->
                         IF n = 0 THEN 0 ELSE f[n - 1] + list[n].tokens]
              /\ Total(list) = f[Len(list)]
              /\ \A g : g = [n \in 0..Len(list) |->
                                IF n = 0 THEN 0 ELSE g[n - 1] + list[n].tokens]
                           => g = f
<1> DEFINE Body(f, n) == IF n = 0 THEN 0 ELSE f[n - 1] + list[n].tokens
           m == Len(list)
           Has(n) == \E f \in [0..n -> Nat] : f = [x \in 0..n |-> Body(f, x)]
           A == {n \in Nat : n <= m => Has(n)}
<1>0. m \in Nat /\ \A n \in 1..m : list[n].tokens \in Nat
  BY LenProperties, ElementOfSeq
<1> HIDE DEF m
<1>1. Has(0)
  <2> DEFINE f == [x \in 0..0 |-> 0]
  <2> f \in [0..0 -> Nat] /\ f = [x \in 0..0 |-> Body(f, x)] OBVIOUS
  <2> QED OBVIOUS
<1>2. ASSUME NEW n \in Nat, n + 1 <= m, Has(n) PROVE Has(n + 1)
  <2>1. PICK f \in [0..n -> Nat] : f = [x \in 0..n |-> Body(f, x)] BY <1>2
  <2>a. f[n] \in Nat /\ list[n + 1].tokens \in Nat BY <2>1, <1>0, <1>2
  <2> DEFINE g == [x \in 0..(n + 1) |-> IF x = n + 1 THEN f[n] + list[n + 1].tokens
                                                    ELSE f[x]]
  <2>2. \A x \in 0..(n + 1) : g[x] = Body(g, x)
    <3>1. \A x \in 0..n : f[x] = Body(f, x) BY <2>1
    <3> QED BY <3>1
  <2>3. g = [x \in 0..(n + 1) |-> Body(g, x)] BY <2>2
  <2>4. g \in [0..(n + 1) -> Nat] BY <2>1, <2>a
  <2> HIDE DEF g
  <2> QED BY <2>3, <2>4
<1>3. Has(m)
  <2> HIDE DEF Has
  <2>1. 0 \in A BY <1>1
  <2>2. ASSUME NEW n \in Nat, n \in A PROVE n + 1 \in A
    <3> SUFFICES ASSUME n + 1 <= m PROVE Has(n + 1) OBVIOUS
    <3>1. Has(n) BY <2>2, <1>0
    <3> QED BY <3>1, <1>2
  <2>3. m \in A
    <3> HIDE DEF A
    <3> QED BY <1>0, <2>1, <2>2, SetInduction
  <2> QED BY <2>3, <1>0
<1>4. PICK f \in [0..m -> Nat] : f = [x \in 0..m |-> Body(f, x)] BY <1>3
<1>5. ASSUME NEW g, g = [x \in 0..m |-> Body(g, x)] PROVE g = f
  <2> DEFINE B == {n \in Nat : n <= m => g[n] = f[n]}
  <2>0. \A x \in 0..m : g[x] = Body(g, x) /\ f[x] = Body(f, x) BY <1>4, <1>5
  <2>1. 0 \in B BY <2>0, <1>0
  <2>2. ASSUME NEW n \in Nat, n \in B PROVE n + 1 \in B
    <3> SUFFICES ASSUME n + 1 <= m PROVE g[n + 1] = f[n + 1] OBVIOUS
    <3>1. g[n] = f[n] BY <2>2, <1>0
    <3>2. n + 1 \in 0..m /\ n + 1 # 0 /\ (n + 1) - 1 = n BY <1>0
    <3>3. /\ Body(g, n + 1) = g[n] + list[n + 1].tokens
          /\ Body(f, n + 1) = f[n] + list[n + 1].tokens
      BY <3>2
    <3>4. g[n + 1] = Body(g, n + 1) /\ f[n + 1] = Body(f, n + 1)
      <4> HIDE DEF Body
      <4> QED BY <3>2, <2>0
    <3> QED BY <3>1, <3>3, <3>4
  <2>3. \A n \in Nat : n \in B
    <3> HIDE DEF B
    <3> QED BY <2>1, <2>2, SetInduction
  <2>4. \A x \in 0..m : g[x] = f[x] BY <2>3, <1>0
  <2>5. g = [x \in 0..m |-> g[x]] /\ f = [x \in 0..m |-> f[x]] BY <1>4, <1>5
  <2> QED BY <2>4, <2>5
<1>6. Total(list) = f[m]
  <2>1. Total(list) = (CHOOSE g : g = [n \in 0..m |-> Body(g, n)])[m]
    BY DEF Total, m
  <2>2. \A g : g = [n \in 0..m |-> Body(g, n)] => g = f BY <1>5
  <2>3. (CHOOSE g : g = [n \in 0..m |-> Body(g, n)]) = f BY <2>2, <1>4
  <2> QED BY <2>1, <2>3
<1> QED BY <1>4, <1>5, <1>6 DEF m

\* One more result adds its tokens.
LEMMA TotalAppend ==
    ASSUME NEW S, NEW list \in Seq(S), NEW x \in S, \A y \in S : y.tokens \in Nat
    PROVE  Total(Append(list, x)) = Total(list) + x.tokens
<1> DEFINE a == Append(list, x)
           m == Len(list)
<1>1. /\ a \in Seq(S) /\ Len(a) = m + 1 /\ m \in Nat
      /\ a[m + 1] = x /\ \A k \in 1..m : a[k] = list[k]
  BY AppendProperties, LenProperties
<1> HIDE DEF a
<1>2. PICK f \in [0..m -> Nat] :
        /\ f = [n \in 0..m |-> IF n = 0 THEN 0 ELSE f[n - 1] + list[n].tokens]
        /\ Total(list) = f[m]
        /\ \A g : g = [n \in 0..m |->
                          IF n = 0 THEN 0 ELSE g[n - 1] + list[n].tokens] => g = f
  BY RunningTotal
<1>3. PICK h \in [0..(m + 1) -> Nat] :
        /\ h = [n \in 0..(m + 1) |-> IF n = 0 THEN 0 ELSE h[n - 1] + a[n].tokens]
        /\ Total(a) = h[m + 1]
  BY <1>1, RunningTotal
<1>4. h[m + 1] = h[m] + x.tokens BY <1>1, <1>3
<1> DEFINE g == [n \in 0..m |-> h[n]]
<1>5. g = f
  <2>1. \A n \in 0..m : g[n] = IF n = 0 THEN 0 ELSE g[n - 1] + list[n].tokens
    <3> TAKE n \in 0..m
    <3>0. n \in 0..(m + 1) BY <1>1
    <3>1. h[n] = IF n = 0 THEN 0 ELSE h[n - 1] + a[n].tokens BY <3>0, <1>3
    <3>2. n # 0 => n \in 1..m /\ n - 1 \in 0..m BY <1>1
    <3> QED BY <3>1, <3>2, <1>1
  <2>2. g = [n \in 0..m |-> IF n = 0 THEN 0 ELSE g[n - 1] + list[n].tokens] BY <2>1
  <2> HIDE DEF g
  <2> QED BY <2>2, <1>2
<1>6. h[m] = f[m] BY <1>1, <1>5
<1> QED BY <1>2, <1>3, <1>4, <1>6 DEF a

\* No results, no tokens.
LEMMA TotalEmpty == Total(<< >>) = 0
<1> DEFINE S == [tokens : Nat]
<1>1. << >> \in Seq(S) /\ Len(<< >>) = 0 BY EmptySeq
<1>2. \A x \in S : x.tokens \in Nat OBVIOUS
<1>3. PICK f \in [0..0 -> Nat] :
        /\ f = [n \in 0..0 |-> IF n = 0 THEN 0 ELSE f[n - 1] + << >>[n].tokens]
        /\ Total(<< >>) = f[0]
  <2> HIDE DEF S
  <2> QED BY <1>1, <1>2, RunningTotal
<1>4. f[0] = 0 BY <1>3
<1> QED BY <1>3, <1>4

-----------------------------------------------------------------------------
(* Who is in the deques, and what step() reports *)

\* The deques hold sequence ids.
LEMMA DequeTypes ==
    ASSUME IInv
    PROVE  /\ Range(active_) \subseteq Seqs /\ Range(waiting_) \subseteq Seqs
           /\ DOMAIN active_ = 1..Len(active_) /\ Len(active_) \in Nat
           /\ DOMAIN waiting_ = 1..Len(waiting_) /\ Len(waiting_) \in Nat
           /\ DOMAIN results = 1..Len(results) /\ Len(results) \in Nat
           /\ \A k \in DOMAIN results :
                 results[k].seq_id \in Seqs /\ results[k].tokens \in Nat
           /\ Reported \subseteq Seqs
<1> DEFINE Rec == [seq_id : Seqs, tokens : Nat, phase_after : Phases]
<1>1. active_ \in Seq(Seqs) /\ waiting_ \in Seq(Seqs) /\ results \in Seq(Rec)
  BY DEF IInv, TypeOK
<1>2. \A x \in Rec : x.seq_id \in Seqs /\ x.tokens \in Nat OBVIOUS
<1> HIDE DEF Rec
<1>3. /\ DOMAIN active_ = 1..Len(active_) /\ Len(active_) \in Nat
      /\ DOMAIN waiting_ = 1..Len(waiting_) /\ Len(waiting_) \in Nat
      /\ DOMAIN results = 1..Len(results) /\ Len(results) \in Nat
  BY <1>1, LenProperties
<1>4. Range(active_) \subseteq Seqs /\ Range(waiting_) \subseteq Seqs
  BY <1>1, <1>3, ElementOfSeq DEF Range
<1>5. \A k \in DOMAIN results : results[k] \in Rec BY <1>1, <1>3, ElementOfSeq
<1>6. Reported \subseteq Seqs BY <1>2, <1>5 DEF Reported
<1> QED BY <1>2, <1>3, <1>4, <1>5, <1>6

\* A step that reports a sequence not reported before and changes the phase of
\* no other one.
LEMMA ReportOnce ==
    ASSUME IInv, ResultsFaithful, pass # "idle", NEW s \in Seqs, NEW n \in 1..budget,
           Report(s, n), phase' \in [Seqs -> Phases],
           \A t \in Seqs \ {s} : phase'[t] = phase[t],
           s \notin Reported
    PROVE  ResultsFaithful' /\ Reported' = Reported \cup {s}
<1> DEFINE Rec == [seq_id : Seqs, tokens : Nat, phase_after : Phases]
           x == [seq_id |-> s, tokens |-> n, phase_after |-> phase'[s]]
           m == Len(results)
<1>0. budget \in Nat /\ MaxBatchTokens \in Nat BY ConfigAssumption DEF IInv, TypeOK
<1>1. results \in Seq(Rec) /\ x \in Rec BY <1>0 DEF IInv, TypeOK
<1>2. /\ x.seq_id = s /\ x.tokens = n /\ x.phase_after = phase'[s]
      /\ \A y \in Rec : y.tokens \in Nat
  OBVIOUS
<1>3. budget' = budget - n /\ results' = Append(results, x) BY DEF Report
<1> HIDE DEF Rec, x
<1>4. Total(results') = Total(results) + n BY <1>1, <1>2, <1>3, TotalAppend
<1>5. /\ DOMAIN results' = 1..(m + 1) /\ m \in Nat /\ DOMAIN results = 1..m
      /\ results'[m + 1] = x /\ \A k \in 1..m : results'[k] = results[k]
  <2>1. /\ results' \in Seq(Rec) /\ Len(results') = m + 1 /\ m \in Nat
        /\ results'[m + 1] = x /\ \A k \in 1..m : results'[k] = results[k]
    BY <1>1, <1>3, AppendProperties, LenProperties
  <2> QED BY <2>1, <1>1, LenProperties
<1> HIDE DEF m
<1>6. \A k \in 1..(m + 1) : k \in 1..m \/ k = m + 1 BY <1>5
<1>a. \A k \in 1..m : results[k].seq_id # s BY <1>5 DEF Reported
<1>7. ASSUME NEW j \in 1..(m + 1), NEW k \in 1..(m + 1),
             results'[j].seq_id = results'[k].seq_id
      PROVE  j = k
  BY <1>a, <1>2, <1>5, <1>6, <1>7 DEF ResultsFaithful
<1>8. ASSUME NEW k \in 1..(m + 1)
      PROVE  results'[k].phase_after = phase'[results'[k].seq_id]
  <2>1. CASE k \in 1..m
    <3>1. results[k].seq_id \in Seqs \ {s} BY <2>1, <1>a, <1>5, DequeTypes
    <3> QED BY <3>1, <2>1, <1>5 DEF ResultsFaithful
  <2>2. CASE k = m + 1 BY <2>2, <1>2, <1>5
  <2> QED BY <2>1, <2>2, <1>6
<1>9. Total(results') = MaxBatchTokens - budget'
  <2>1. Total(results) = MaxBatchTokens - budget BY DEF ResultsFaithful
  <2> QED BY <2>1, <1>0, <1>3, <1>4
<1>10. ResultsFaithful' BY <1>5, <1>7, <1>8, <1>9 DEF ResultsFaithful
<1>11. Reported' = Reported \cup {s}
  <2>1. Reported' = {results'[k].seq_id : k \in 1..(m + 1)} BY <1>5 DEF Reported
  <2>2. Reported = {results[k].seq_id : k \in 1..m} BY <1>5 DEF Reported
  <2>3. \A k \in 1..m : k \in 1..(m + 1) /\ results'[k].seq_id = results[k].seq_id
    BY <1>5
  <2>4. m + 1 \in 1..(m + 1) /\ results'[m + 1].seq_id = s BY <1>2, <1>5
  <2> QED BY <2>1, <2>2, <2>3, <2>4, <1>6
<1> QED BY <1>10, <1>11

\* A step that reports nothing and leaves the phases.
LEMMA SameReport ==
    ASSUME ResultsFaithful, pass # "idle", UNCHANGED <<budget, results, phase>>
    PROVE  ResultsFaithful'
BY DEF ResultsFaithful

\* The sequence a pass stands at and works on has not been reported.
LEMMA NotReported ==
    ASSUME IInv, QueueInv, NEW p, NEW s \in Seqs, At(p, s),
           \/ p = "decode" /\ phase[s] = "DECODE"
           \/ p = "prefill" /\ phase[s] = "PREFILL"
    PROVE  /\ pass # "idle" /\ it \in DOMAIN active_ /\ active_[it] = s
           /\ s \in Range(active_) /\ s \notin Range(waiting_)
           /\ s \notin Reported
<1>1. pass = p /\ pass # "idle" BY DEF At
<1>2. it \in DOMAIN active_ /\ active_[it] = s /\ it \in Nat
  BY DequeTypes DEF At, IInv, TypeOK
<1>3. s \in Range(active_) /\ s \notin Range(waiting_)
  BY <1>2 DEF Range, QueueInv, DequesInv
<1>4. ASSUME s \in Reported PROVE FALSE
  <2>1. Passed(s) BY <1>1, <1>4 DEF QueueInv, ReportInv
  <2>2. PICK j \in DOMAIN active_ : active_[j] = s /\ j < it
    BY <2>1, <1>1 DEF Passed
  <2>3. j = it BY <2>2, <1>2 DEF QueueInv, DequesInv, IsInjective
  <2> QED BY <2>2, <2>3, <1>2
<1> QED BY <1>1, <1>2, <1>3, <1>4

\* What do_prefill_chunk does to its sequence when it returns a chunk.
LEMMA ChunkFacts ==
    ASSUME IInv, NEW s \in Seqs, budget > 0, ChunkDone(s)
    PROVE  /\ phase[s] = "PREFILL" /\ UNCHANGED <<prompt, max_new, generated>>
           /\ cursor'[s] > 0 /\ (phase'[s] = "DECODE" <=> cursor'[s] = prompt[s])
           /\ phase'[s] \in {"PREFILL", "DECODE"} /\ phase' \in [Seqs -> Phases]
           /\ \A t \in Seqs \ {s} : phase'[t] = phase[t] /\ cursor'[t] = cursor[t]
           /\ \E n \in 1..budget : Report(s, n)
<1> DEFINE n == ChunkOf(s)
           k == cursor[s] + n
<1>0. /\ cursor[s] \in Nat /\ prompt[s] \in Nat /\ cursor[s] < prompt[s]
      /\ budget \in Nat /\ MaxPrefillChunk \in Nat \ {0} /\ phase[s] = "PREFILL"
  BY ConfigAssumption
     DEF IInv, TypeOK, CountersInv, ChunkDone, prefill_complete
<1>1. n \in 1..budget /\ n <= prompt[s] - cursor[s] BY <1>0 DEF ChunkOf
<1>2. k \in Nat \ {0} /\ k <= prompt[s] BY <1>0, <1>1
<1>3. /\ cursor' = [cursor EXCEPT ![s] = k]
      /\ IF k >= prompt[s] THEN transition_to(s, "DECODE") ELSE UNCHANGED phase
      /\ Report(s, n)
      /\ UNCHANGED <<prompt, max_new, generated>>
  BY DEF ChunkDone
<1> HIDE DEF n, k
<1>4. phase' = [phase EXCEPT ![s] = IF k >= prompt[s] THEN "DECODE" ELSE "PREFILL"]
  BY <1>0, <1>3 DEF transition_to, IInv, TypeOK
<1>5. /\ phase'[s] = IF k >= prompt[s] THEN "DECODE" ELSE "PREFILL"
      /\ cursor'[s] = k
      /\ \A t \in Seqs \ {s} : phase'[t] = phase[t] /\ cursor'[t] = cursor[t]
  BY <1>3, <1>4 DEF IInv, TypeOK
<1>6. phase' \in [Seqs -> Phases] BY <1>4 DEF IInv, TypeOK, Phases
<1> QED BY <1>0, <1>1, <1>2, <1>3, <1>5, <1>6

\* Initially there is nobody and nothing.
LEMMA QueueInit == Init => QueueInv
<1> SUFFICES ASSUME Init PROVE QueueInv OBVIOUS
<1>1. Range(<< >>) = {} /\ IsInjective(<< >>) BY DEF Range, IsInjective
<1>2. Unfinished = {} BY DEF Init, Unfinished
<1>3. DequesInv BY <1>1, <1>2 DEF Init, DequesInv
<1>4. WorkInv BY <1>1 DEF Init, WorkInv
<1>5. ReportInv /\ ResultsFaithful BY DEF Init, ReportInv, ResultsFaithful
<1> QED BY <1>3, <1>4, <1>5 DEF QueueInv

\* A new request joins the end of the waiting queue.
LEMMA AdmitQueue ==
    ASSUME IInv, QueueInv, NEW s \in Seqs, NEW r \in Requests[s], Admit(s, r)
    PROVE  QueueInv'
<1> USE DEF Admit, Construct, admit
<1>1. s \notin Unfinished BY DEF Unfinished
<1>2. s \notin Range(active_) /\ s \notin Range(waiting_)
  BY <1>1 DEF QueueInv, DequesInv
<1>3. Range(waiting_') = Range(waiting_) \cup {s} /\ IsInjective(waiting_')
  <2>1. waiting_ \in Seq(Seqs) BY DEF IInv, TypeOK
  <2> QED BY <2>1, <1>2, AppendRange DEF QueueInv, DequesInv
<1>4. Unfinished' = Unfinished \cup {s} BY DEF IInv, TypeOK, Unfinished
<1>5. DequesInv' BY <1>2, <1>3, <1>4 DEF QueueInv, DequesInv
<1>6. WorkInv'
  <2>1. cursor'[s] = 0 /\ generated'[s] = 0 BY DEF IInv, TypeOK
  <2>2. \A t \in Seqs \ {s} :
           /\ cursor'[t] = cursor[t] /\ generated'[t] = generated[t]
           /\ phase'[t] = phase[t] /\ prompt'[t] = prompt[t]
    BY DEF IInv, TypeOK
  <2> QED BY <2>1, <2>2, <1>2, <1>3, DequeTypes DEF QueueInv, WorkInv
<1>7. ReportInv' /\ ResultsFaithful' BY DEF ReportInv, ResultsFaithful
<1> QED BY <1>5, <1>6, <1>7 DEF QueueInv

\* Steps that only move the loops along.
LEMMA LoopQueue ==
    ASSUME IInv, QueueInv, UNCHANGED <<seqVars, queueVars>>,
           ReportInv', ResultsFaithful'
    PROVE  QueueInv'
<1>1. UNCHANGED <<phase, prompt, max_new, cursor, generated, waiting_, active_>>
  BY DEF seqVars, queueVars
<1> QED BY <1>1 DEF QueueInv, DequesInv, WorkInv, Unfinished

\* A decoded token that is not the last one.
LEMMA DecodeTokenQueue ==
    ASSUME IInv, QueueInv, NEW s \in Seqs, DecodeToken(s)
    PROVE  QueueInv'
<1>1. /\ At("decode", s) /\ phase[s] = "DECODE" /\ pass = "decode" /\ Report(s, 1)
      /\ generated' = [generated EXCEPT ![s] = @ + 1]
      /\ UNCHANGED <<phase, prompt, max_new, cursor, waiting_, active_, pass>>
      /\ it' = it + 1 /\ it \in Nat /\ budget \in Nat /\ budget > 0
  BY ConfigAssumption
     DEF DecodeToken, GenerateToken, At, Advance, queueVars, IInv, TypeOK
<1>2. /\ pass # "idle" /\ it \in DOMAIN active_ /\ active_[it] = s
      /\ s \in Range(active_) /\ s \notin Range(waiting_)
      /\ s \notin Reported
  BY <1>1, NotReported
<1>3. DequesInv' BY <1>1 DEF QueueInv, DequesInv, Unfinished
<1>4. WorkInv'
  <2>1. \A t \in Seqs \ {s} : generated'[t] = generated[t]
    BY <1>1 DEF IInv, TypeOK
  <2> QED BY <2>1, <1>1, <1>2, DequeTypes DEF QueueInv, WorkInv
<1>5. ResultsFaithful' /\ Reported' = Reported \cup {s}
  <2>1. phase' \in [Seqs -> Phases] /\ 1 \in 1..budget BY <1>1 DEF IInv, TypeOK
  <2> QED BY <2>1, <1>1, <1>2, ReportOnce DEF QueueInv
<1>6. ReportInv'
  <2>1. Passed(s)' BY <1>1, <1>2 DEF Passed
  <2>2. \A t \in Seqs : Passed(t) => Passed(t)'
    <3> SUFFICES ASSUME NEW t \in Seqs, Passed(t) PROVE Passed(t)' OBVIOUS
    <3>1. PICK k \in DOMAIN active_ : active_[k] = t /\ k < it /\ phase[t] = "DECODE"
      BY <1>1 DEF Passed
    <3>2. k < it + 1 BY <3>1, <1>1, DequeTypes
    <3> QED BY <3>1, <3>2, <1>1 DEF Passed
  <2>3. \A t \in Reported : t \in Seqs /\ (phase[t] = "FINISHED" \/ Passed(t))
    BY <1>2, DequeTypes DEF QueueInv, ReportInv
  <2>4. \A t \in Reported' : phase'[t] = "FINISHED" \/ Passed(t)'
    BY <2>1, <2>2, <2>3, <1>1, <1>5
  <2> QED BY <2>4 DEF ReportInv
<1> QED BY <1>3, <1>4, <1>5, <1>6 DEF QueueInv

\* The last token: erasing from active_ leaves everyone else in place, and
\* everyone behind the iterator behind it.
LEMMA DecodeFinishQueue ==
    ASSUME IInv, QueueInv, NEW s \in Seqs, DecodeFinish(s)
    PROVE  QueueInv'
<1>1. /\ At("decode", s) /\ phase[s] = "DECODE" /\ pass = "decode" /\ Report(s, 1)
      /\ generated' = [generated EXCEPT ![s] = @ + 1]
      /\ phase' = [phase EXCEPT ![s] = "FINISHED"]
      /\ active_' = SubSeq(active_, 1, it - 1) \o SubSeq(active_, it + 1, Len(active_))
      /\ UNCHANGED <<prompt, max_new, cursor, waiting_, pass, it>>
      /\ it \in Nat /\ budget \in Nat /\ budget > 0
  BY ConfigAssumption
     DEF DecodeFinish, GenerateToken, At, transition_to, IInv, TypeOK
<1>2. /\ pass # "idle" /\ it \in DOMAIN active_ /\ active_[it] = s
      /\ s \in Range(active_) /\ s \notin Range(waiting_)
      /\ s \notin Reported
  BY <1>1, NotReported
<1>3. /\ phase'[s] = "FINISHED"
      /\ \A t \in Seqs \ {s} : generated'[t] = generated[t] /\ phase'[t] = phase[t]
  BY <1>1 DEF IInv, TypeOK
<1>4. /\ active_' \in Seq(Seqs) /\ Len(active_') = Len(active_) - 1
      /\ \A k \in 1..(Len(active_) - 1) :
            active_'[k] = IF k < it THEN active_[k] ELSE active_[k + 1]
      /\ Range(active_') = Range(active_) \ {s}
      /\ IsInjective(active_')
  <2>1. /\ active_ \in Seq(Seqs) /\ it \in 1..Len(active_) /\ IsInjective(active_)
    BY <1>2, DequeTypes DEF IInv, TypeOK, QueueInv, DequesInv
  <2>a. active_' = SubSeq(active_, 1, it - 1) \o SubSeq(active_, it + 1, Len(active_))
    BY <1>1
  <2>2. /\ Without(Seqs, active_, it, active_')
        /\ Range(active_') = Range(active_) \ {active_[it]}
        /\ IsInjective(active_')
    BY <2>1, <2>a, EraseRange
  <2> QED BY <2>2, <1>2 DEF Without
<1>5. Unfinished' = Unfinished \ {s} BY <1>3 DEF Unfinished
<1>6. DequesInv' BY <1>1, <1>2, <1>4, <1>5 DEF QueueInv, DequesInv
<1>7. WorkInv' BY <1>1, <1>2, <1>3, <1>4, DequeTypes DEF QueueInv, WorkInv
<1>8. ResultsFaithful' /\ Reported' = Reported \cup {s}
  <2>1. phase' \in [Seqs -> Phases] /\ 1 \in 1..budget
    BY <1>1 DEF IInv, TypeOK, Phases
  <2> QED BY <2>1, <1>1, <1>2, <1>3, ReportOnce DEF QueueInv
<1>9. ReportInv'
  <2>1. ASSUME NEW t \in Seqs, Passed(t), t # s PROVE Passed(t)'
    <3>1. PICK k \in DOMAIN active_ : active_[k] = t /\ k < it /\ phase[t] = "DECODE"
      BY <2>1, <1>1 DEF Passed
    <3>2. k \in 1..(Len(active_) - 1) /\ Len(active_) \in Nat
      BY <3>1, <1>1, <1>2, DequeTypes
    <3>3. k \in DOMAIN active_' BY <3>2, <1>4, LenProperties
    <3>4. active_'[k] = t BY <3>1, <3>2, <1>4
    <3> QED BY <3>1, <3>3, <3>4, <2>1, <1>1, <1>3 DEF Passed
  <2>2. \A t \in Reported : t \in Seqs \ {s} /\ (phase[t] = "FINISHED" \/ Passed(t))
    BY <1>2, DequeTypes DEF QueueInv, ReportInv
  <2>3. \A t \in Reported' : phase'[t] = "FINISHED" \/ Passed(t)'
    BY <2>1, <2>2, <1>3, <1>8
  <2> QED BY <2>3 DEF ReportInv
<1> QED BY <1>6, <1>7, <1>8, <1>9 DEF QueueInv

\* A prefill pass that gets nothing for a sequence: it has prompt left, so its
\* phase stays.
LEMMA PrefillRefusedQueue ==
    ASSUME IInv, QueueInv, NEW s \in Seqs, PrefillRefused(s)
    PROVE  QueueInv'
<1>1. /\ At("prefill", s) /\ phase[s] = "PREFILL" /\ pass = "prefill"
      /\ ChunkRefused(s) /\ it' = it + 1 /\ it \in Nat
      /\ UNCHANGED <<waiting_, active_, pass>>
  BY DEF PrefillRefused, At, Advance, queueVars, IInv, TypeOK
<1>2. s \in Range(active_) BY <1>1, NotReported
<1>3. ~ prefill_complete(s)
  <2>1. cursor[s] # prompt[s] BY <1>1, <1>2 DEF QueueInv, WorkInv
  <2>2. cursor[s] <= prompt[s] /\ cursor[s] \in Nat /\ prompt[s] \in Nat
    BY DEF IInv, CountersInv, TypeOK
  <2> QED BY <2>1, <2>2 DEF prefill_complete
<1>4. UNCHANGED <<phase, prompt, max_new, cursor, generated, budget, results>>
  BY <1>1, <1>3 DEF ChunkRefused
<1>5. ReportInv'
  <2>1. ASSUME NEW t \in Seqs, Passed(t) PROVE Passed(t)'
    <3>1. PICK k \in DOMAIN active_ : active_[k] = t /\ (k < it \/ phase[t] = "DECODE")
      BY <2>1, <1>1 DEF Passed
    <3>2. k < it => k < it + 1 BY <1>1, DequeTypes
    <3> QED BY <3>1, <3>2, <1>1, <1>4 DEF Passed
  <2>2. \A t \in Reported : t \in Seqs /\ (phase[t] = "FINISHED" \/ Passed(t))
    BY <1>1, DequeTypes DEF QueueInv, ReportInv
  <2>3. Reported' = Reported BY <1>4 DEF Reported
  <2>4. \A t \in Reported' : phase'[t] = "FINISHED" \/ Passed(t)'
    BY <2>1, <2>2, <2>3, <1>4
  <2> QED BY <2>4 DEF ReportInv
<1>6. ResultsFaithful' BY <1>1, <1>4, SameReport DEF QueueInv
<1> QED BY <1>1, <1>4, <1>5, <1>6, LoopQueue DEF seqVars, queueVars

\* A prefill pass that advances a sequence.
LEMMA PrefillChunkQueue ==
    ASSUME IInv, QueueInv, NEW s \in Seqs, PrefillChunk(s)
    PROVE  QueueInv'
<1>1. /\ At("prefill", s) /\ phase[s] = "PREFILL" /\ pass = "prefill"
      /\ ChunkDone(s) /\ it' = it + 1 /\ it \in Nat /\ budget > 0
      /\ UNCHANGED <<waiting_, active_, pass>>
  BY DEF PrefillChunk, At, Advance, queueVars, IInv, TypeOK
<1>2. /\ pass # "idle" /\ it \in DOMAIN active_ /\ active_[it] = s
      /\ s \in Range(active_) /\ s \notin Range(waiting_)
      /\ s \notin Reported
  BY <1>1, NotReported
<1>3. /\ UNCHANGED <<prompt, max_new, generated>>
      /\ cursor'[s] > 0 /\ (phase'[s] = "DECODE" <=> cursor'[s] = prompt[s])
      /\ phase'[s] \in {"PREFILL", "DECODE"} /\ phase' \in [Seqs -> Phases]
      /\ \A t \in Seqs \ {s} : phase'[t] = phase[t] /\ cursor'[t] = cursor[t]
      /\ \E n \in 1..budget : Report(s, n)
  BY <1>1, ChunkFacts
<1>4. Unfinished' = Unfinished BY <1>1, <1>3 DEF Unfinished
<1>5. DequesInv' BY <1>1, <1>4 DEF QueueInv, DequesInv
<1>6. WorkInv'
  <2>1. \A t \in Range(waiting_) : t \in Seqs \ {s} /\ cursor[t] = 0 /\ generated[t] = 0
    BY <1>2, DequeTypes DEF QueueInv, WorkInv
  <2>2. \A t \in Range(active_) \ {s} :
           /\ t \in Seqs \ {s} /\ cursor[t] > 0
           /\ phase[t] = "DECODE" <=> cursor[t] = prompt[t]
    BY DequeTypes DEF QueueInv, WorkInv
  <2>3. \A t \in Range(waiting_) : cursor'[t] = 0 /\ generated'[t] = 0
    BY <2>1, <1>3
  <2>4. \A t \in Range(active_) :
           cursor'[t] > 0 /\ (phase'[t] = "DECODE" <=> cursor'[t] = prompt'[t])
    <3> TAKE t \in Range(active_)
    <3>1. CASE t = s BY <3>1, <1>3
    <3>2. CASE t # s BY <3>2, <2>2, <1>3
    <3> QED BY <3>1, <3>2
  <2> QED BY <2>3, <2>4, <1>1 DEF WorkInv
<1>7. ResultsFaithful' /\ Reported' = Reported \cup {s}
  BY <1>2, <1>3, ReportOnce DEF QueueInv
<1>8. ReportInv'
  <2>1. Passed(s)' BY <1>1, <1>2 DEF Passed
  <2>2. ASSUME NEW t \in Seqs, Passed(t), t # s PROVE Passed(t)'
    <3>1. PICK k \in DOMAIN active_ : active_[k] = t /\ (k < it \/ phase[t] = "DECODE")
      BY <2>2, <1>1 DEF Passed
    <3>2. k < it => k < it + 1 BY <1>1, DequeTypes
    <3> QED BY <3>1, <3>2, <2>2, <1>1, <1>3 DEF Passed
  <2>3. \A t \in Reported : t \in Seqs \ {s} /\ (phase[t] = "FINISHED" \/ Passed(t))
    BY <1>2, DequeTypes DEF QueueInv, ReportInv
  <2>4. \A t \in Reported' : phase'[t] = "FINISHED" \/ Passed(t)'
    BY <2>1, <2>2, <2>3, <1>3, <1>7
  <2> QED BY <2>4 DEF ReportInv
<1> QED BY <1>5, <1>6, <1>7, <1>8 DEF QueueInv

\* The front of the waiting queue moves to the end of active_.
LEMMA AdmitChunkQueue ==
    ASSUME IInv, QueueInv, NEW s \in Seqs, AdmitChunk(s)
    PROVE  QueueInv'
<1>1. /\ pass = "admit" /\ budget > 0 /\ waiting_ # << >> /\ s = Head(waiting_)
      /\ ChunkDone(s) /\ waiting_' = Tail(waiting_) /\ active_' = Append(active_, s)
      /\ UNCHANGED <<pass, it>>
      /\ active_ \in Seq(Seqs) /\ waiting_ \in Seq(Seqs)
  BY DEF AdmitChunk, IInv, TypeOK
<1>2. /\ UNCHANGED <<prompt, max_new, generated>> /\ phase[s] = "PREFILL"
      /\ cursor'[s] > 0 /\ (phase'[s] = "DECODE" <=> cursor'[s] = prompt[s])
      /\ phase'[s] \in {"PREFILL", "DECODE"} /\ phase' \in [Seqs -> Phases]
      /\ \A t \in Seqs \ {s} : phase'[t] = phase[t] /\ cursor'[t] = cursor[t]
      /\ \E n \in 1..budget : Report(s, n)
  BY <1>1, ChunkFacts
<1>3. /\ s \in Range(waiting_) /\ Range(waiting_') = Range(waiting_) \ {s}
      /\ IsInjective(waiting_')
  BY <1>1, TailRange DEF QueueInv, DequesInv
<1>4. s \notin Range(active_) BY <1>3 DEF QueueInv, DequesInv
<1>5. Range(active_') = Range(active_) \cup {s} /\ IsInjective(active_')
  BY <1>1, <1>4, AppendRange DEF QueueInv, DequesInv
<1>6. Unfinished' = Unfinished BY <1>2 DEF Unfinished
<1>7. DequesInv' BY <1>3, <1>5, <1>6 DEF QueueInv, DequesInv
<1>8. WorkInv' BY <1>2, <1>3, <1>4, <1>5, DequeTypes DEF QueueInv, WorkInv
<1>9. \A t \in Reported : t \in Seqs /\ (phase[t] = "FINISHED" \/ t \in Range(active_))
  BY <1>1, DequeTypes DEF QueueInv, ReportInv, Passed, Range
<1>10. s \notin Reported BY <1>2, <1>4, <1>9
<1>11. ResultsFaithful' /\ Reported' = Reported \cup {s}
  BY <1>1, <1>2, <1>10, ReportOnce DEF QueueInv
<1>12. ReportInv'
  <2>1. \A t \in Range(active_') : Passed(t)' BY <1>1 DEF Passed, Range
  <2>2. \A t \in Reported' : phase'[t] = "FINISHED" \/ t \in Range(active_')
    BY <1>2, <1>5, <1>9, <1>10, <1>11
  <2> QED BY <2>1, <2>2 DEF ReportInv
<1> QED BY <1>7, <1>8, <1>11, <1>12 DEF QueueInv

\* The front of the waiting queue gets nothing and stays; the step is over.
LEMMA AdmitRefusedQueue ==
    ASSUME IInv, QueueInv, NEW s \in Seqs, AdmitRefused(s)
    PROVE  QueueInv'
<1>1. /\ waiting_ # << >> /\ s = Head(waiting_) /\ ChunkRefused(s) /\ pass' = "idle"
      /\ UNCHANGED <<waiting_, active_>> /\ waiting_ \in Seq(Seqs)
  BY DEF AdmitRefused, queueVars, IInv, TypeOK
<1>2. s \in Range(waiting_) /\ s \notin Range(active_) /\ s \in Unfinished
  BY <1>1, TailRange DEF QueueInv, DequesInv
<1>3. UNCHANGED <<prompt, max_new, cursor, generated>> BY <1>1 DEF ChunkRefused
<1>4. /\ phase'[s] \in {"PREFILL", "DECODE"}
      /\ \A t \in Seqs \ {s} : phase'[t] = phase[t]
  BY <1>1, <1>2 DEF ChunkRefused, transition_to, IInv, TypeOK, Unfinished
<1>5. Unfinished' = Unfinished BY <1>2, <1>4 DEF Unfinished
<1>6. DequesInv' BY <1>1, <1>5 DEF QueueInv, DequesInv
<1>7. WorkInv' BY <1>1, <1>2, <1>3, <1>4, DequeTypes DEF QueueInv, WorkInv
<1>8. ReportInv' /\ ResultsFaithful' BY <1>1 DEF ReportInv, ResultsFaithful
<1> QED BY <1>6, <1>7, <1>8 DEF QueueInv

\* Every action preserves the invariant of the deques and the results.
LEMMA QueueNext == IInv /\ QueueInv /\ [Next]_vars => QueueInv'
<1> SUFFICES ASSUME IInv, QueueInv, [Next]_vars PROVE QueueInv' OBVIOUS
<1>0. it \in Nat /\ \A k \in DOMAIN active_ : k \in Nat
  <2>1. it \in Nat BY DEF IInv, TypeOK
  <2>2. DOMAIN active_ = 1..Len(active_) /\ Len(active_) \in Nat BY DequeTypes
  <2>3. \A k \in DOMAIN active_ : k \in Nat BY <2>2
  <2> QED BY <2>1, <2>3
<1>1. CASE StepBegin
  <2>1. /\ UNCHANGED <<seqVars, queueVars>> /\ results' = << >>
        /\ budget' = MaxBatchTokens
    BY <1>1 DEF StepBegin
  <2>2. DOMAIN results' = {} BY <2>1
  <2>3. Total(results') = MaxBatchTokens - budget'
    BY <2>1, TotalEmpty, ConfigAssumption
  <2>4. ReportInv' BY <2>2 DEF ReportInv, Reported
  <2>5. ResultsFaithful' BY <2>2, <2>3 DEF ResultsFaithful
  <2> QED BY <2>1, <2>4, <2>5, LoopQueue
<1>2. CASE DecodeEnd \/ PrefillEnd
  <2>1. /\ UNCHANGED <<seqVars, queueVars, budget, results>>
        /\ \/ pass = "decode" /\ pass' = "prefill"
           \/ pass = "prefill" /\ pass' = "admit"
    BY <1>2 DEF DecodeEnd, PrefillEnd, LoopEnd
  <2>2. UNCHANGED <<phase, active_>> BY <2>1 DEF seqVars, queueVars
  <2>3. \A t \in Seqs : Passed(t) => Passed(t)' BY <2>1, <2>2 DEF Passed
  <2>4. Reported' = Reported /\ Reported \subseteq Seqs
    BY <2>1, DequeTypes DEF Reported
  <2>5. ReportInv' BY <2>1, <2>2, <2>3, <2>4 DEF QueueInv, ReportInv
  <2>6. ResultsFaithful' BY <2>1, <2>2, SameReport DEF QueueInv
  <2> QED BY <2>1, <2>5, <2>6, LoopQueue
<1>3. CASE AdmitEnd
  <2>1. UNCHANGED <<seqVars, queueVars>> /\ pass' = "idle" BY <1>3 DEF AdmitEnd
  <2>2. ReportInv' /\ ResultsFaithful' BY <2>1 DEF ReportInv, ResultsFaithful
  <2> QED BY <2>1, <2>2, LoopQueue
<1>4. ASSUME NEW s \in Seqs, DecodeSkip(s) \/ PrefillSkip(s) PROVE QueueInv'
  <2>1. /\ UNCHANGED <<seqVars, queueVars, budget, results, pass>> /\ it' = it + 1
        /\ pass # "idle"
    BY <1>4 DEF DecodeSkip, PrefillSkip, Advance, At
  <2>2. UNCHANGED <<phase, active_>> BY <2>1 DEF seqVars, queueVars
  <2>3. ASSUME NEW t \in Seqs, Passed(t) PROVE Passed(t)'
    <3>1. PICK k \in DOMAIN active_ :
            /\ active_[k] = t
            /\ pass = "decode" => k < it /\ phase[t] = "DECODE"
            /\ pass = "prefill" => k < it \/ phase[t] = "DECODE"
      BY <2>3 DEF Passed
    <3>2. k < it => k < it + 1 BY <1>0
    <3> QED BY <3>1, <3>2, <2>1, <2>2 DEF Passed
  <2>4. Reported' = Reported /\ Reported \subseteq Seqs
    BY <2>1, DequeTypes DEF Reported
  <2>5. ReportInv' BY <2>1, <2>2, <2>3, <2>4 DEF QueueInv, ReportInv
  <2>6. ResultsFaithful' BY <2>1, <2>2, SameReport DEF QueueInv
  <2> QED BY <2>1, <2>5, <2>6, LoopQueue
<1>5. ASSUME NEW s \in Seqs, DecodeToken(s) \/ DecodeFinish(s) PROVE QueueInv'
  BY <1>5, DecodeTokenQueue, DecodeFinishQueue
<1>6. ASSUME NEW s \in Seqs, PrefillRefused(s) \/ PrefillChunk(s) PROVE QueueInv'
  BY <1>6, PrefillRefusedQueue, PrefillChunkQueue
<1>7. ASSUME NEW s \in Seqs, AdmitChunk(s) \/ AdmitRefused(s) PROVE QueueInv'
  BY <1>7, AdmitChunkQueue, AdmitRefusedQueue
<1>8. ASSUME NEW s \in Seqs, NEW r \in Requests[s], Admit(s, r) PROVE QueueInv'
  BY <1>8, AdmitQueue
<1>9. CASE UNCHANGED vars
  <2>1. UNCHANGED <<seqVars, queueVars, budget, results, pass, it>> BY <1>9 DEF vars
  <2>2. UNCHANGED <<phase, active_>> BY <2>1 DEF seqVars, queueVars
  <2>3. \A t \in Seqs : Passed(t) => Passed(t)' BY <2>1, <2>2 DEF Passed
  <2>4. Reported' = Reported /\ Reported \subseteq Seqs
    BY <2>1, DequeTypes DEF Reported
  <2>5. ReportInv' BY <2>1, <2>2, <2>3, <2>4 DEF QueueInv, ReportInv
  <2>6. ResultsFaithful' BY <2>1, <2>2 DEF QueueInv, ResultsFaithful
  <2> QED BY <2>1, <2>5, <2>6, LoopQueue
<1> QED BY <1>1, <1>2, <1>3, <1>4, <1>5, <1>6, <1>7, <1>8, <1>9 DEF Next, Step

-----------------------------------------------------------------------------
(* The order of the deques *)

\* Nobody in the list new has somebody before him who was not before him in the
\* list old.
Ordered(old, new) ==
    \A j \in DOMAIN old, l \in DOMAIN new :
        old[j] = new[l] => \A k \in 1..(l - 1) : \E i \in 1..(j - 1) : old[i] = new[k]

\* A list without repetitions, to which something new may be appended.
LEMMA OrderedAppend ==
    ASSUME NEW S, NEW q \in Seq(S), IsInjective(q), NEW a,
           a = q \/ \E x \in S \ Range(q) : a = Append(q, x)
    PROVE  Ordered(q, a)
<1>1. DOMAIN q = 1..Len(q) /\ Len(q) \in Nat BY LenProperties
<1>2. /\ DOMAIN a \subseteq 1..(Len(q) + 1)
      /\ \A k \in 1..Len(q) : a[k] = q[k]
      /\ \A l \in DOMAIN a : a[l] \in Range(q) => l \in 1..Len(q)
  <2>1. CASE a = q BY <2>1, <1>1
  <2>2. CASE \E x \in S \ Range(q) : a = Append(q, x)
    <3>1. PICK x \in S \ Range(q) : a = Append(q, x) BY <2>2
    <3>2. /\ a \in Seq(S) /\ Len(a) = Len(q) + 1 /\ a[Len(q) + 1] = x
          /\ \A k \in 1..Len(q) : a[k] = q[k]
      BY <3>1, AppendProperties
    <3>3. DOMAIN a = 1..(Len(q) + 1) BY <3>2, LenProperties
    <3> QED BY <3>2, <3>3, <1>1
  <2> QED BY <2>1, <2>2
<1> SUFFICES ASSUME NEW j \in DOMAIN q, NEW l \in DOMAIN a, q[j] = a[l],
                    NEW k \in 1..(l - 1)
             PROVE  \E i \in 1..(j - 1) : q[i] = a[k]
  BY DEF Ordered
<1>3. l \in 1..Len(q) BY <1>1, <1>2 DEF Range
<1>4. j = l BY <1>1, <1>2, <1>3 DEF IsInjective
<1>5. k \in 1..(j - 1) /\ q[k] = a[k] BY <1>1, <1>2, <1>3, <1>4
<1> QED BY <1>5

\* A list without repetitions, from which something is erased.
LEMMA OrderedErase ==
    ASSUME NEW S, NEW q \in Seq(S), IsInjective(q), NEW e, NEW a,
           Without(S, q, e, a)
    PROVE  Ordered(q, a)
<1> USE DEF Without
<1> DEFINE n == Len(q)
           Old(k) == IF k < e THEN k ELSE k + 1
<1>1. DOMAIN q = 1..n /\ n \in Nat /\ DOMAIN a = 1..(n - 1) /\ e \in 1..n
  BY LenProperties
<1>2. \A k \in 1..(n - 1) : a[k] = q[Old(k)] OBVIOUS
<1> HIDE DEF n
<1>3. \A k \in 1..(n - 1) : Old(k) \in 1..n BY <1>1
<1>4. \A k, l \in 1..(n - 1) : k < l => Old(k) < Old(l) BY <1>1
<1> SUFFICES ASSUME NEW j \in 1..n, NEW l \in 1..(n - 1), q[j] = a[l],
                    NEW k \in 1..(l - 1)
             PROVE  \E i \in 1..(j - 1) : q[i] = a[k]
  BY <1>1 DEF Ordered
<1>5. k \in 1..(n - 1) /\ k < l BY <1>1
<1> HIDE DEF Old
<1>6. j = Old(l) BY <1>1, <1>2, <1>3 DEF IsInjective
<1>7. Old(k) \in 1..(j - 1) BY <1>3, <1>4, <1>5, <1>6
<1> QED BY <1>2, <1>5, <1>7

\* The two deques in a row.
LEMMA LineFacts ==
    ASSUME IInv, QueueInv
    PROVE  /\ Line \in Seq(Seqs) /\ Len(Line) = Len(active_) + Len(waiting_)
           /\ \A k \in 1..Len(Line) : Line[k] = IF k <= Len(active_) THEN active_[k]
                                                ELSE waiting_[k - Len(active_)]
           /\ IsInjective(Line) /\ Range(Line) = Unfinished
<1> DEFINE m == Len(active_)
           n == Len(waiting_)
<1>1. active_ \in Seq(Seqs) /\ waiting_ \in Seq(Seqs) BY DEF IInv, TypeOK
<1>2. /\ Line \in Seq(Seqs) /\ Len(Line) = m + n
      /\ \A k \in 1..(m + n) : Line[k] = IF k <= m THEN active_[k] ELSE waiting_[k - m]
  BY <1>1, ConcatProperties DEF Line
<1>3. /\ m \in Nat /\ n \in Nat /\ DOMAIN Line = 1..(m + n)
      /\ DOMAIN active_ = 1..m /\ DOMAIN waiting_ = 1..n
  BY <1>1, <1>2, LenProperties
<1> HIDE DEF m, n
<1>4. \A k \in 1..(m + n) : \/ k \in 1..m /\ Line[k] = active_[k]
                            \/ k > m /\ k - m \in 1..n /\ Line[k] = waiting_[k - m]
  BY <1>2, <1>3
<1>5. /\ \A k \in 1..m : k \in 1..(m + n) /\ Line[k] = active_[k]
      /\ \A k \in 1..n : m + k \in 1..(m + n) /\ Line[m + k] = waiting_[k]
  <2>1. \A k \in 1..n : m + k \in 1..(m + n) /\ ~ (m + k <= m) /\ (m + k) - m = k
    BY <1>3
  <2>2. \A k \in 1..n : Line[m + k] = waiting_[k]
    <3> TAKE k \in 1..n
    <3> QED BY <2>1, <1>2
  <2> QED BY <2>1, <2>2, <1>2, <1>3
<1>6. Range(Line) = Range(active_) \cup Range(waiting_)
  <2>1. Range(Line) = {Line[k] : k \in 1..(m + n)} BY <1>3 DEF Range
  <2>2. Range(active_) = {active_[k] : k \in 1..m} BY <1>3 DEF Range
  <2>3. Range(waiting_) = {waiting_[k] : k \in 1..n} BY <1>3 DEF Range
  <2> QED BY <2>1, <2>2, <2>3, <1>4, <1>5
<1>7. IsInjective(Line)
  <2> SUFFICES ASSUME NEW j \in 1..(m + n), NEW k \in 1..(m + n), Line[j] = Line[k]
               PROVE  j = k
    BY <1>3 DEF IsInjective
  <2>1. \A i \in 1..m, l \in 1..n : active_[i] # waiting_[l]
    BY <1>3 DEF QueueInv, DequesInv, Range
  <2>2. CASE j \in 1..m /\ k \in 1..m
    BY <2>2, <1>5, <1>3 DEF QueueInv, DequesInv, IsInjective
  <2>3. CASE j > m /\ k > m
    <3>1. /\ j - m \in 1..n /\ Line[j] = waiting_[j - m]
          /\ k - m \in 1..n /\ Line[k] = waiting_[k - m]
      BY <2>3, <1>3, <1>4
    <3>2. j - m = k - m BY <3>1, <1>3 DEF QueueInv, DequesInv, IsInjective
    <3> QED BY <3>2, <1>3
  <2> QED BY <2>1, <2>2, <2>3, <1>3, <1>4
<1>8. Range(Line) = Unfinished BY <1>6 DEF QueueInv, DequesInv
<1> QED BY <1>2, <1>7, <1>8 DEF m, n

\* Joining the end of the second list is joining the end of the row.
LEMMA AppendToRow ==
    ASSUME NEW S, NEW p \in Seq(S), NEW q \in Seq(S), NEW x \in S
    PROVE  p \o Append(q, x) = Append(p \o q, x)
OBVIOUS

\* Moving the front of the second list to the end of the first is no change.
LEMMA MoveInRow ==
    ASSUME NEW S, NEW p \in Seq(S), NEW q \in Seq(S), q # << >>
    PROVE  Append(p, Head(q)) \o Tail(q) = p \o q
<1> DEFINE m == Len(p)
           n == Len(q)
           u == Append(p, Head(q))
           v == Tail(q)
<1>0. n \in Nat \ {0} /\ m \in Nat BY EmptySeq, LenProperties
<1>1. /\ u \in Seq(S) /\ Len(u) = m + 1 /\ u[m + 1] = q[1]
      /\ \A k \in 1..m : u[k] = p[k]
  BY HeadTailProperties, AppendProperties
<1>2. v \in Seq(S) /\ Len(v) = n - 1 /\ \A k \in 1..(n - 1) : v[k] = q[k + 1]
  BY HeadTailProperties
<1>3. /\ u \o v \in Seq(S) /\ Len(u \o v) = Len(u) + Len(v)
      /\ \A k \in 1..(Len(u) + Len(v)) :
            (u \o v)[k] = IF k <= Len(u) THEN u[k] ELSE v[k - Len(u)]
  BY <1>1, <1>2, ConcatProperties
<1>4. /\ p \o q \in Seq(S) /\ Len(p \o q) = m + n
      /\ \A k \in 1..(m + n) : (p \o q)[k] = IF k <= m THEN p[k] ELSE q[k - m]
  BY ConcatProperties
<1> HIDE DEF m, n, u, v
<1>5. Len(u) + Len(v) = m + n BY <1>0, <1>1, <1>2
<1>6. ASSUME NEW k \in 1..(m + n) PROVE (u \o v)[k] = (p \o q)[k]
  <2>1. CASE k <= m
    <3>1. k \in 1..m /\ k <= m + 1 BY <2>1, <1>0
    <3> QED BY <3>1, <2>1, <1>1, <1>3, <1>4, <1>5
  <2>2. CASE k = m + 1
    <3>1. ~ (m + 1 <= m) /\ (m + 1) - m = 1 /\ m + 1 <= m + 1 BY <1>0
    <3> QED BY <3>1, <2>2, <1>1, <1>3, <1>4, <1>5
  <2>3. CASE k > m + 1
    <3>1. /\ ~ (k <= m + 1) /\ ~ (k <= m) /\ k - (m + 1) \in 1..(n - 1)
          /\ (k - (m + 1)) + 1 = k - m
      BY <2>3, <1>0
    <3> QED BY <3>1, <1>1, <1>2, <1>3, <1>4, <1>5
  <2>4. k <= m \/ k = m + 1 \/ k > m + 1 BY <1>0
  <2> QED BY <2>1, <2>2, <2>3, <2>4
<1>7. u \o v = p \o q BY <1>3, <1>4, <1>5, <1>6, SeqEqual
<1> QED BY <1>7 DEF u, v

\* Erasing from the first list is erasing from the row.
LEMMA EraseInRow ==
    ASSUME NEW S, NEW p \in Seq(S), NEW q \in Seq(S), NEW e, NEW a,
           Without(S, p, e, a)
    PROVE  Without(S, p \o q, e, a \o q)
<1> USE DEF Without
<1> DEFINE m == Len(p)
           n == Len(q)
<1>0. n \in Nat /\ m \in Nat /\ e \in 1..m BY LenProperties
<1>1. /\ a \o q \in Seq(S) /\ Len(a \o q) = (m - 1) + n
      /\ \A k \in 1..((m - 1) + n) :
            (a \o q)[k] = IF k <= m - 1 THEN a[k] ELSE q[k - (m - 1)]
  <2>1. a \in Seq(S) /\ Len(a) = m - 1 OBVIOUS
  <2>2. /\ a \o q \in Seq(S) /\ Len(a \o q) = Len(a) + n
        /\ \A k \in 1..(Len(a) + n) :
              (a \o q)[k] = IF k <= Len(a) THEN a[k] ELSE q[k - Len(a)]
    BY <2>1, ConcatProperties
  <2> HIDE DEF m, n
  <2> QED BY <2>1, <2>2, Zenon
<1>2. /\ p \o q \in Seq(S) /\ Len(p \o q) = m + n
      /\ \A k \in 1..(m + n) : (p \o q)[k] = IF k <= m THEN p[k] ELSE q[k - m]
  BY ConcatProperties
<1>a. \A k \in 1..(m - 1) : a[k] = IF k < e THEN p[k] ELSE p[k + 1] OBVIOUS
<1> HIDE DEF m, n
<1>3. (m - 1) + n = (m + n) - 1 BY <1>0
<1>4. ASSUME NEW k \in 1..((m + n) - 1)
      PROVE  (a \o q)[k] = IF k < e THEN (p \o q)[k] ELSE (p \o q)[k + 1]
  <2>1. CASE k <= m - 1
    <3>1. k \in 1..(m - 1) /\ k <= m /\ k + 1 <= m /\ k \in 1..(m + n) /\ k + 1 \in 1..(m + n)
      BY <2>1, <1>0
    <3>2. (a \o q)[k] = a[k] BY <2>1, <1>1, <1>3
    <3>3. (p \o q)[k] = p[k] /\ (p \o q)[k + 1] = p[k + 1] BY <3>1, <1>2
    <3> QED BY <3>1, <3>2, <3>3, <1>a
  <2>2. CASE ~ (k <= m - 1)
    <3>1. /\ ~ (k < e) /\ ~ (k + 1 <= m) /\ k + 1 \in 1..(m + n)
          /\ (k + 1) - m = k - (m - 1)
      BY <2>2, <1>0
    <3>2. (a \o q)[k] = q[k - (m - 1)] BY <2>2, <1>1, <1>3
    <3>3. (p \o q)[k + 1] = q[(k + 1) - m] BY <3>1, <1>2
    <3> QED BY <3>1, <3>2, <3>3
  <2> QED BY <2>1, <2>2
<1>5. e \in 1..(m + n) BY <1>0
<1> QED BY <1>1, <1>2, <1>3, <1>4, <1>5

\* Every action keeps the order of the deques.
LEMMA LineOrdered ==
    ASSUME IInv, QueueInv, [Next]_vars
    PROVE  Ordered(Line, Line')
<1>0. /\ active_ \in Seq(Seqs) /\ waiting_ \in Seq(Seqs) /\ Line \in Seq(Seqs)
      /\ IsInjective(Line) /\ Range(Line) = Unfinished
  BY LineFacts DEF IInv, TypeOK
<1>1. CASE UNCHANGED queueVars
  <2>1. Line' = Line BY <1>1 DEF queueVars, Line
  <2> QED BY <2>1, <1>0, OrderedAppend
<1>2. ASSUME NEW s \in Seqs, NEW r \in Requests[s], Admit(s, r)
      PROVE  Ordered(Line, Line')
  <2>1. /\ s \notin Range(Line) /\ active_' = active_
        /\ waiting_' = Append(waiting_, s)
    BY <1>0, <1>2 DEF Admit, Construct, admit, Unfinished
  <2>2. Line' = Append(Line, s) BY <2>1, <1>0, AppendToRow DEF Line
  <2> QED BY <2>1, <2>2, <1>0, OrderedAppend
<1>3. ASSUME NEW s \in Seqs, AdmitChunk(s) PROVE Ordered(Line, Line')
  <2>1. /\ waiting_ # << >> /\ waiting_' = Tail(waiting_)
        /\ active_' = Append(active_, Head(waiting_))
    BY <1>3 DEF AdmitChunk
  <2>2. Line' = Line BY <2>1, <1>0, MoveInRow DEF Line
  <2> QED BY <2>2, <1>0, OrderedAppend
<1>4. ASSUME NEW s \in Seqs, DecodeFinish(s) PROVE Ordered(Line, Line')
  <2>1. /\ active_' = SubSeq(active_, 1, it - 1) \o SubSeq(active_, it + 1, Len(active_))
        /\ it \in 1..Len(active_) /\ waiting_' = waiting_ /\ IsInjective(active_)
    BY <1>4, DequeTypes
       DEF DecodeFinish, GenerateToken, At, IInv, TypeOK, QueueInv, DequesInv
  <2>2. Without(Seqs, active_, it, active_') BY <2>1, <1>0, EraseRange
  <2>3. Without(Seqs, active_ \o waiting_, it, active_' \o waiting_)
    BY <2>2, <1>0, EraseInRow
  <2>4. Without(Seqs, Line, it, Line') BY <2>1, <2>3 DEF Line
  <2> QED BY <2>4, <1>0, OrderedErase
<1> QED
  BY <1>1, <1>2, <1>3, <1>4
     DEF Next, Step, StepBegin, DecodeEnd, PrefillEnd, LoopEnd, AdmitEnd,
         DecodeSkip, DecodeToken, PrefillSkip, PrefillRefused, PrefillChunk,
         AdmitRefused, Advance, queueVars, vars

-----------------------------------------------------------------------------
(* Turns *)

\* What the next token or chunk asks for is a number.
LEMMA TargetType ==
    ASSUME IInv, NEW s \in Seqs, NEW n \in Nat
    PROVE  /\ NextTarget(s) \in Nat
           /\ Cardinality(free_blocks) \in Nat /\ Cardinality(tables[s]) \in Nat
           /\ blocks_needed_for(n) \in Nat /\ ToAllocate(s, n) \in Nat
<1>1. /\ cursor[s] \in Nat /\ prompt[s] \in Nat /\ generated[s] \in Nat
      /\ cursor[s] <= prompt[s] /\ MaxPrefillChunk \in Nat
  BY ConfigAssumption DEF IInv, TypeOK, CountersInv
<1>2. NextTarget(s) \in Nat BY <1>1 DEF NextTarget, total_tokens
<1>3. Cardinality(free_blocks) \in Nat /\ Cardinality(tables[s]) \in Nat
  BY BlockSets DEF IInv, TypeOK, PTTypeOK
<1>4. blocks_needed_for(n) \in Nat BY NeededMonotone
<1>5. ToAllocate(s, n) \in Nat BY <1>3, <1>4 DEF ToAllocate
<1> QED BY <1>2, <1>3, <1>4, <1>5

\* What a finished sequence gave back is a number, and so is their sum.
LEMMA RefundsType ==
    ASSUME IInv, ResultsFaithful, pass # "idle"
    PROVE  /\ Refunds \in Seq([tokens : Nat]) /\ Len(Refunds) = Len(results)
           /\ Returned \in Nat
<1> DEFINE S == [tokens : Nat]
           m == Len(results)
<1>1. m \in Nat /\ DOMAIN results = 1..m BY DequeTypes
<1>2. ASSUME NEW k \in 1..m PROVE Refunds[k] \in S
  <2> DEFINE s == results[k].seq_id
  <2>1. s \in Seqs BY <1>1, DequeTypes
  <2>2. CASE results[k].phase_after = "FINISHED"
    <3>1. phase[s] = "FINISHED" BY <2>2, <1>1 DEF ResultsFaithful
    <3>2. /\ generated[s] \in Nat /\ prompt[s] \in Nat /\ max_new[s] \in Nat
          /\ generated[s] = IF max_new[s] = 0 THEN 1 ELSE max_new[s]
      BY <2>1, <3>1 DEF IInv, TypeOK, GenerationBound
    <3>3. total_tokens(s) - 1 \in Nat BY <3>2 DEF total_tokens
    <3>4. blocks_needed_for(total_tokens(s) - 1) \in Nat BY <3>3, NeededMonotone
    <3> QED BY <3>4, <2>2, <1>1 DEF Refunds
  <2>3. CASE results[k].phase_after # "FINISHED" BY <2>3, <1>1 DEF Refunds
  <2> QED BY <2>2, <2>3
<1>3. DOMAIN Refunds = 1..m /\ Refunds = [k \in 1..m |-> Refunds[k]]
  BY <1>1 DEF Refunds
<1> HIDE DEF m
<1>4. Refunds \in Seq(S) /\ Len(Refunds) = m
  <2>1. Refunds \in [1..m -> S] BY <1>2, <1>3
  <2> HIDE DEF S
  <2> QED BY <2>1, <1>1, <1>3, SeqDef, LenProperties
<1>5. Returned \in Nat
  <2>1. \A x \in S : x.tokens \in Nat OBVIOUS
  <2> HIDE DEF S
  <2>2. PICK f \in [0..Len(Refunds) -> Nat] : Total(Refunds) = f[Len(Refunds)]
    BY <2>1, <1>4, RunningTotal
  <2> QED BY <2>2, <1>1, <1>4 DEF Returned
<1> QED BY <1>4, <1>5 DEF m

\* One more report adds what its sequence gave back.
LEMMA ReturnedReport ==
    ASSUME IInv, ResultsFaithful, pass # "idle", NEW s \in Seqs, NEW n, Report(s, n),
           s \notin Reported, NEW x \in Nat,
           x = IF phase'[s] = "FINISHED"
               THEN blocks_needed_for((prompt'[s] + generated'[s]) - 1) ELSE 0,
           \A t \in Seqs \ {s} : prompt'[t] = prompt[t] /\ generated'[t] = generated[t]
    PROVE  Returned' = Returned + x
<1> DEFINE S == [tokens : Nat]
           m == Len(results)
           r == [seq_id |-> s, tokens |-> n, phase_after |-> phase'[s]]
           e == [tokens |-> x]
<1>1. Refunds \in Seq(S) /\ Len(Refunds) = m /\ m \in Nat /\ DOMAIN results = 1..m
  BY RefundsType, DequeTypes
<1>2. e \in S /\ e.tokens = x /\ \A y \in S : y.tokens \in Nat OBVIOUS
<1>3. r.seq_id = s /\ r.phase_after = phase'[s] OBVIOUS
<1>4. /\ DOMAIN results' = 1..(m + 1) /\ results'[m + 1] = r
      /\ \A k \in 1..m : results'[k] = results[k]
  BY <1>1 DEF Report, IInv, TypeOK
<1> HIDE DEF S, r, e, m
<1>5. ASSUME NEW k \in 1..m PROVE Refunds'[k] = Refunds[k]
  <2>1. results[k].seq_id \in Seqs \ {s} BY <1>1, DequeTypes DEF Reported
  <2>2. k \in 1..(m + 1) BY <1>1
  <2>3. /\ prompt'[results[k].seq_id] = prompt[results[k].seq_id]
        /\ generated'[results[k].seq_id] = generated[results[k].seq_id]
    BY <2>1
  <2> QED BY <2>2, <2>3, <1>1, <1>4 DEF Refunds, total_tokens, blocks_needed_for
<1>6. Refunds'[m + 1] = e
  <2>1. m + 1 \in 1..(m + 1) BY <1>1
  <2>2. total_tokens(s)' - 1 = (prompt'[s] + generated'[s]) - 1 BY DEF total_tokens
  <2> QED BY <2>1, <2>2, <1>3, <1>4 DEF Refunds, e
<1>7. Refunds' = Append(Refunds, e)
  <2>1. DOMAIN Refunds' = 1..(m + 1) BY <1>4 DEF Refunds
  <2>2. /\ Append(Refunds, e) \in Seq(S) /\ Len(Append(Refunds, e)) = m + 1
        /\ Append(Refunds, e)[m + 1] = e
        /\ \A k \in 1..m : Append(Refunds, e)[k] = Refunds[k]
    BY <1>1, <1>2, AppendProperties
  <2>3. DOMAIN Append(Refunds, e) = 1..(m + 1) BY <2>2, LenProperties
  <2>4. \A k \in 1..(m + 1) : k \in 1..m \/ k = m + 1 BY <1>1
  <2>5. \A k \in 1..(m + 1) : Refunds'[k] = Append(Refunds, e)[k]
    BY <2>2, <2>4, <1>5, <1>6
  <2>6. Refunds' = [k \in 1..(m + 1) |-> Refunds'[k]] BY <2>1, <1>4 DEF Refunds
  <2>7. Append(Refunds, e) = [k \in 1..(m + 1) |-> Append(Refunds, e)[k]]
    BY <2>2, <2>3, LenProperties
  <2> QED BY <2>5, <2>6, <2>7
<1> QED BY <1>1, <1>2, <1>7, TotalAppend DEF Returned

\* Who is short of blocks stays so while others work and the free blocks, those
\* got back in this step not counted, become no more.
LEMMA ShortKept ==
    ASSUME IInv, NEW t \in Seqs, ShortOfBlocks(t), Returned \in Nat, Returned' \in Nat,
           Cardinality(free_blocks') \in Nat,
           Cardinality(free_blocks') - Returned' <= Cardinality(free_blocks) - Returned,
           phase'[t] = phase[t], prompt'[t] = prompt[t], cursor'[t] = cursor[t],
           generated'[t] = generated[t], tables'[t] = tables[t]
    PROVE  ShortOfBlocks(t)'
<1>1. NextTarget(t)' = NextTarget(t) BY DEF NextTarget, total_tokens
<1>2. ToAllocate(t, NextTarget(t))' = ToAllocate(t, NextTarget(t))
  BY <1>1 DEF ToAllocate, blocks_needed_for
<1>3. ToAllocate(t, NextTarget(t)) \in Nat /\ Cardinality(free_blocks) \in Nat
  BY TargetType
<1> QED BY <1>2, <1>3 DEF ShortOfBlocks

\* A step that gives tokens to one sequence only takes blocks.
LEMMA ShortWhileGrowing ==
    ASSUME IInv, QueueInv, IInv', pass # "idle", NEW s \in Seqs, s \notin Reported,
           NEW n, Report(s, n), phase'[s] # "FINISHED",
           NEW target \in Nat, EnsureCapacity(s, target),
           \A t \in Seqs \ {s} :
              /\ phase'[t] = phase[t] /\ prompt'[t] = prompt[t]
              /\ cursor'[t] = cursor[t] /\ generated'[t] = generated[t],
           NEW t \in Seqs \ {s}, ShortOfBlocks(t)
    PROVE  ShortOfBlocks(t)'
<1>1. Returned \in Nat BY RefundsType DEF QueueInv
<1>2. Returned' = Returned
  <2>1. Returned' = Returned + 0 BY ReturnedReport DEF QueueInv
  <2> QED BY <2>1, <1>1
<1>3. free_blocks' \subseteq free_blocks /\ tables'[t] = tables[t]
  BY DEF EnsureCapacity, IInv, TypeOK, PTTypeOK
<1>4. /\ Cardinality(free_blocks') \in Nat /\ Cardinality(free_blocks) \in Nat
      /\ Cardinality(free_blocks') <= Cardinality(free_blocks)
  BY <1>3, BlockSets, FS_Subset DEF IInv, TypeOK, PTTypeOK
<1> QED BY <1>1, <1>2, <1>3, <1>4, ShortKept

\* Whoever ensure_capacity refuses is short of blocks.
LEMMA RefusedIsShort ==
    ASSUME IInv, QueueInv, pass # "idle", NEW s \in Seqs, NEW n \in Nat,
           ~ HasCapacity(s, n), n <= NextTarget(s)
    PROVE  ShortOfBlocks(s)
<1> DEFINE a == ToAllocate(s, n)
           b == ToAllocate(s, NextTarget(s))
           c == Cardinality(free_blocks)
<1>1. NextTarget(s) \in Nat /\ c \in Nat BY TargetType
<1>2. Cardinality(tables[s]) \in Nat /\ a \in Nat /\ b \in Nat BY <1>1, TargetType
<1>3. /\ blocks_needed_for(n) \in Nat /\ blocks_needed_for(NextTarget(s)) \in Nat
      /\ blocks_needed_for(n) <= blocks_needed_for(NextTarget(s))
  BY <1>1, NeededMonotone
<1>4. a <= b BY <1>2, <1>3 DEF ToAllocate
<1>5. a > c BY <1>1, <1>2 DEF HasCapacity
<1>6. Returned \in Nat BY RefundsType DEF QueueInv
<1> HIDE DEF a, b, c
<1>7. b > c - Returned BY <1>1, <1>2, <1>4, <1>5, <1>6
<1> QED BY <1>7 DEF b, c, ShortOfBlocks

\* Before the first step nobody has been passed.
LEMMA TurnInit == Init => TurnInv
BY DEF Init, TurnInv

\* Loop steps that serve nobody leave everybody's shortage as it is.
LEMMA ShortSame ==
    ASSUME UNCHANGED <<seqVars, free_blocks, tables, results>>
    PROVE  Reported' = Reported /\ \A t \in Seqs : ShortOfBlocks(t)' = ShortOfBlocks(t)
<1>1. UNCHANGED <<phase, prompt, cursor, generated, free_blocks, tables, results>>
  BY DEF seqVars
<1>2. Reported' = Reported BY <1>1 DEF Reported
<1>3. Refunds' = Refunds BY <1>1 DEF Refunds, total_tokens, blocks_needed_for
<1>4. Returned' = Returned BY <1>3 DEF Returned, Total
<1>5. ASSUME NEW t \in Seqs PROVE ShortOfBlocks(t)' = ShortOfBlocks(t)
  <2>1. NextTarget(t)' = NextTarget(t) BY <1>1 DEF NextTarget, total_tokens
  <2> QED BY <2>1, <1>1, <1>4 DEF ShortOfBlocks, ToAllocate, blocks_needed_for
<1> QED BY <1>2, <1>5

\* The end of a pass with budget left: all of active_ has been gone past.
LEMMA LoopEndTurn ==
    ASSUME IInv, TurnInv, DecodeEnd \/ PrefillEnd
    PROVE  TurnInv'
<1>1. /\ UNCHANGED <<seqVars, free_blocks, tables, results>>
      /\ UNCHANGED <<active_, budget, phase>> /\ it' = 1
      /\ it > Len(active_) \/ budget = 0
      /\ \/ pass = "decode" /\ pass' = "prefill"
         \/ pass = "prefill" /\ pass' = "admit"
  BY DEF DecodeEnd, PrefillEnd, LoopEnd, queueVars, seqVars
<1> SUFFICES ASSUME budget > 0, NEW t \in Seqs, Passed(t)'
             PROVE  (t \in Reported \/ ShortOfBlocks(t))'
  BY <1>1 DEF TurnInv
<1>2. DOMAIN active_ = 1..Len(active_) /\ Len(active_) \in Nat /\ it \in Nat
  BY DequeTypes DEF IInv, TypeOK
<1>3. \A k \in DOMAIN active_ : k < it /\ ~ (k < 1) BY <1>1, <1>2
<1>4. Passed(t) BY <1>1, <1>3 DEF Passed
<1>5. t \in Reported \/ ShortOfBlocks(t) BY <1>1, <1>4 DEF TurnInv
<1> QED BY <1>1, <1>5, ShortSame

\* A pass goes past a sequence without giving it anything.
LEMMA SkipTurn ==
    ASSUME IInv, QueueInv, TurnInv, NEW s \in Seqs,
           DecodeSkip(s) \/ PrefillSkip(s) \/ PrefillRefused(s)
    PROVE  TurnInv'
<1>1. /\ pass \in {"decode", "prefill"} /\ At(pass, s) /\ budget > 0
      /\ UNCHANGED <<active_, pass>> /\ it' = it + 1
      /\ it \in DOMAIN active_ /\ active_[it] = s /\ it \in Nat
  <2>1. /\ pass \in {"decode", "prefill"} /\ At(pass, s)
        /\ UNCHANGED <<active_, pass>> /\ it' = it + 1
    BY DEF DecodeSkip, PrefillSkip, PrefillRefused, At, Advance, queueVars
  <2>2. it \in Nat \ {0} BY DEF IInv, TypeOK
  <2> QED BY <2>1, <2>2, DequeTypes DEF At
<1>2. /\ cursor[s] \in Nat /\ prompt[s] \in Nat /\ generated[s] \in Nat
      /\ cursor[s] <= prompt[s] /\ MaxPrefillChunk \in Nat /\ budget \in Nat
      /\ s \in Unfinished /\ (phase[s] = "DECODE" <=> cursor[s] = prompt[s])
  <2>1. s \in Range(active_) BY <1>1 DEF Range
  <2>2. /\ cursor[s] \in Nat /\ prompt[s] \in Nat /\ generated[s] \in Nat
        /\ cursor[s] <= prompt[s] /\ MaxPrefillChunk \in Nat /\ budget \in Nat
    BY ConfigAssumption DEF IInv, TypeOK, CountersInv
  <2> QED BY <2>1, <2>2 DEF QueueInv, DequesInv, WorkInv
<1>3. UNCHANGED <<seqVars, free_blocks, tables, budget, results>>
  <2>1. CASE DecodeSkip(s) \/ PrefillSkip(s) BY <2>1 DEF DecodeSkip, PrefillSkip
  <2>2. CASE PrefillRefused(s)
    <3>1. ~ prefill_complete(s) BY <2>2, <1>2 DEF PrefillRefused, prefill_complete
    <3> QED BY <2>2, <3>1 DEF PrefillRefused, ChunkRefused, seqVars
  <2> QED BY <2>1, <2>2
<1>4. Passed(s) \/ ShortOfBlocks(s) \/ (pass = "decode" /\ phase[s] # "DECODE")
  <2>1. CASE DecodeSkip(s) /\ phase[s] = "DECODE"
    <3>1. ~ HasCapacity(s, total_tokens(s) + 1) BY <2>1 DEF DecodeSkip
    <3>2. total_tokens(s) + 1 \in Nat /\ total_tokens(s) + 1 <= NextTarget(s)
      BY <2>1, <1>2 DEF total_tokens, NextTarget
    <3> QED BY <3>1, <3>2, <1>1, RefusedIsShort
  <2>2. CASE DecodeSkip(s) /\ phase[s] # "DECODE" BY <2>2 DEF DecodeSkip, At
  <2>3. CASE PrefillSkip(s)
    <3>1. pass = "prefill" /\ phase[s] = "DECODE"
      BY <2>3, <1>2 DEF PrefillSkip, At, Unfinished
    <3> QED BY <3>1, <1>1 DEF Passed
  <2>4. CASE PrefillRefused(s)
    <3>1. /\ ~ HasCapacity(s, cursor[s] + ChunkOf(s)) /\ phase[s] = "PREFILL"
      BY <2>4, <1>2 DEF PrefillRefused, ChunkRefused, prefill_complete
    <3>2. /\ cursor[s] + ChunkOf(s) \in Nat
          /\ cursor[s] + ChunkOf(s) <= NextTarget(s)
      BY <3>1, <1>2 DEF ChunkOf, NextTarget
    <3> QED BY <3>1, <3>2, <1>1, RefusedIsShort
  <2> QED BY <2>1, <2>2, <2>3, <2>4
<1> SUFFICES ASSUME NEW t \in Seqs, Passed(t)'
             PROVE  (t \in Reported \/ ShortOfBlocks(t))'
  BY DEF TurnInv
<1>5. Passed(t) \/ (t = s /\ (pass = "decode" => phase[s] = "DECODE"))
  <2>1. PICK k \in DOMAIN active_ :
          /\ active_[k] = t
          /\ pass = "decode" => k < it + 1 /\ phase[t] = "DECODE"
          /\ pass = "prefill" => k < it + 1 \/ phase[t] = "DECODE"
    BY <1>1, <1>3 DEF Passed, seqVars
  <2>2. k < it + 1 => k < it \/ k = it BY <1>1, DequeTypes
  <2> QED BY <2>1, <2>2, <1>1 DEF Passed
<1>6. t \in Reported \/ ShortOfBlocks(t) BY <1>1, <1>4, <1>5 DEF TurnInv
<1> QED BY <1>3, <1>6, ShortSame

\* One more token, or one more chunk, for a sequence of active_.
LEMMA ServeTurn ==
    ASSUME IInv, QueueInv, TurnInv, IInv', NEW s \in Seqs,
           DecodeToken(s) \/ PrefillChunk(s)
    PROVE  TurnInv'
<1>1. /\ pass \in {"decode", "prefill"} /\ At(pass, s) /\ budget > 0
      /\ UNCHANGED <<active_, pass>> /\ it' = it + 1 /\ it \in Nat
      /\ it \in DOMAIN active_ /\ active_[it] = s /\ s \notin Reported
  <2>1. CASE DecodeToken(s)
    BY <2>1, NotReported
       DEF DecodeToken, GenerateToken, At, Advance, queueVars, IInv, TypeOK
  <2>2. CASE PrefillChunk(s)
    BY <2>2, NotReported DEF PrefillChunk, At, Advance, queueVars, IInv, TypeOK
  <2> QED BY <2>1, <2>2
<1>2. PICK n \in 1..budget, target \in Nat :
        /\ Report(s, n) /\ EnsureCapacity(s, target)
        /\ phase'[s] # "FINISHED" /\ phase' \in [Seqs -> Phases]
        /\ \A t \in Seqs \ {s} :
              /\ phase'[t] = phase[t] /\ prompt'[t] = prompt[t]
              /\ cursor'[t] = cursor[t] /\ generated'[t] = generated[t]
  <2>0. budget \in Nat BY ConfigAssumption DEF IInv, TypeOK
  <2>1. CASE DecodeToken(s)
    <3>1. /\ Report(s, 1) /\ EnsureCapacity(s, total_tokens(s) + 1)
          /\ phase'[s] = "DECODE" /\ UNCHANGED <<phase, prompt, cursor>>
          /\ generated' = [generated EXCEPT ![s] = @ + 1]
      BY <2>1 DEF DecodeToken, GenerateToken
    <3>2. 1 \in 1..budget /\ total_tokens(s) + 1 \in Nat
      <4>1. prompt[s] \in Nat /\ generated[s] \in Nat BY DEF IInv, TypeOK
      <4>2. total_tokens(s) + 1 \in Nat BY <4>1 DEF total_tokens
      <4> QED BY <4>2, <2>0, <1>1
    <3>3. /\ phase' \in [Seqs -> Phases]
          /\ \A t \in Seqs \ {s} :
                /\ phase'[t] = phase[t] /\ prompt'[t] = prompt[t]
                /\ cursor'[t] = cursor[t] /\ generated'[t] = generated[t]
      BY <3>1 DEF IInv, TypeOK
    <3> QED BY <3>1, <3>2, <3>3
  <2>2. CASE PrefillChunk(s)
    <3>1. ChunkDone(s) BY <2>2 DEF PrefillChunk
    <3>2. /\ UNCHANGED <<prompt, generated>> /\ phase' \in [Seqs -> Phases]
          /\ phase'[s] \in {"PREFILL", "DECODE"}
          /\ \A t \in Seqs \ {s} : phase'[t] = phase[t] /\ cursor'[t] = cursor[t]
      BY <3>1, <1>1, ChunkFacts
    <3>3. /\ Report(s, ChunkOf(s)) /\ EnsureCapacity(s, cursor[s] + ChunkOf(s))
          /\ ~ prefill_complete(s)
      BY <3>1 DEF ChunkDone
    <3>4. /\ cursor[s] \in Nat /\ prompt[s] \in Nat /\ cursor[s] < prompt[s]
          /\ MaxPrefillChunk \in Nat \ {0}
      BY <3>3, ConfigAssumption DEF prefill_complete, IInv, TypeOK
    <3>5. ChunkOf(s) \in 1..budget /\ cursor[s] + ChunkOf(s) \in Nat
      BY <3>4, <2>0, <1>1 DEF ChunkOf
    <3> QED BY <3>2, <3>3, <3>5
  <2> QED BY <2>1, <2>2
<1>3. Reported' = Reported \cup {s} BY <1>1, <1>2, ReportOnce DEF QueueInv
<1> SUFFICES ASSUME NEW t \in Seqs, Passed(t)', t # s
             PROVE  (t \in Reported \/ ShortOfBlocks(t))'
  BY <1>3 DEF TurnInv
<1>4. Passed(t)
  <2>1. PICK k \in DOMAIN active_ :
          /\ active_[k] = t
          /\ pass = "decode" => k < it + 1 /\ phase[t] = "DECODE"
          /\ pass = "prefill" => k < it + 1 \/ phase[t] = "DECODE"
    BY <1>1, <1>2 DEF Passed
  <2>2. k < it + 1 => k < it BY <2>1, <1>1, DequeTypes
  <2> QED BY <2>1, <2>2, <1>1 DEF Passed
<1>5. t \in Reported \/ ShortOfBlocks(t) BY <1>1, <1>4 DEF TurnInv
<1>6. ShortOfBlocks(t) => ShortOfBlocks(t)'
  BY <1>1, <1>2, ShortWhileGrowing
<1> QED BY <1>3, <1>5, <1>6

\* The last token: what the sequence gives back does not count.
LEMMA FinishTurn ==
    ASSUME IInv, QueueInv, TurnInv, IInv', QueueInv', NEW s \in Seqs, DecodeFinish(s)
    PROVE  TurnInv'
<1>1. /\ At("decode", s) /\ phase[s] = "DECODE" /\ pass = "decode" /\ Report(s, 1)
      /\ generated' = [generated EXCEPT ![s] = @ + 1]
      /\ phase' = [phase EXCEPT ![s] = "FINISHED"]
      /\ active_' = SubSeq(active_, 1, it - 1) \o SubSeq(active_, it + 1, Len(active_))
      /\ UNCHANGED <<prompt, max_new, cursor, pass, it>> /\ FreeSequence(s)
      /\ it \in Nat /\ budget \in Nat /\ budget > 0
  BY ConfigAssumption
     DEF DecodeFinish, GenerateToken, At, transition_to, IInv, TypeOK
<1>2. /\ pass # "idle" /\ it \in DOMAIN active_ /\ active_[it] = s
      /\ s \in Range(active_) /\ s \notin Reported
  BY <1>1, NotReported
<1>3. /\ phase'[s] = "FINISHED" /\ generated'[s] = generated[s] + 1
      /\ \A t \in Seqs \ {s} : generated'[t] = generated[t] /\ phase'[t] = phase[t]
  BY <1>1 DEF IInv, TypeOK
<1>4. Reported' = Reported \cup {s}
  <2>1. phase' \in [Seqs -> Phases] /\ 1 \in 1..budget
    BY <1>1 DEF IInv, TypeOK, Phases
  <2> QED BY <2>1, <1>1, <1>2, <1>3, ReportOnce DEF QueueInv
<1>5. Without(Seqs, active_, it, active_')
  <2>1. /\ active_ \in Seq(Seqs) /\ it \in 1..Len(active_) /\ IsInjective(active_)
    BY <1>2, DequeTypes DEF IInv, TypeOK, QueueInv, DequesInv
  <2>2. active_' = SubSeq(active_, 1, it - 1) \o SubSeq(active_, it + 1, Len(active_))
    BY <1>1
  <2> QED BY <2>1, <2>2, EraseRange
<1> DEFINE x == Cardinality(tables[s])
<1>6. /\ x \in Nat /\ Returned \in Nat /\ Returned' = Returned + x
  <2>1. cursor[s] = prompt[s] /\ prompt[s] \in Nat /\ generated[s] \in Nat
    BY <1>1 DEF IInv, CountersInv, TypeOK
  <2>2. (prompt'[s] + generated'[s]) - 1 = cursor[s] + generated[s]
    BY <2>1, <1>1, <1>3
  <2>3. x = blocks_needed_for(cursor[s] + generated[s])
    BY <1>1 DEF IInv, BlocksMatchTokens, Unfinished
  <2>4. x \in Nat BY BlockSets DEF IInv, TypeOK, PTTypeOK
  <2>5. Returned \in Nat BY <1>2, RefundsType DEF QueueInv
  <2>6. x = IF phase'[s] = "FINISHED"
            THEN blocks_needed_for((prompt'[s] + generated'[s]) - 1) ELSE 0
    BY <2>2, <2>3, <1>3
  <2> HIDE DEF x
  <2>7. Returned' = Returned + x
    BY <2>4, <2>6, <1>1, <1>2, <1>3, ReturnedReport DEF QueueInv
  <2> QED BY <2>4, <2>5, <2>7
<1>7. /\ Cardinality(free_blocks') = Cardinality(free_blocks) + x
      /\ Cardinality(free_blocks) \in Nat
      /\ \A t \in Seqs \ {s} : tables'[t] = tables[t]
  <2>1. /\ free_blocks \in SUBSET Blocks /\ tables[s] \in SUBSET Blocks
        /\ free_blocks \cap tables[s] = {}
    BY DEF IInv, TypeOK, PTTypeOK, Partition
  <2>2. free_blocks' = free_blocks \cup tables[s] BY <1>1 DEF FreeSequence
  <2>3. /\ Cardinality(free_blocks \cup tables[s])
             = Cardinality(free_blocks) + x - Cardinality(free_blocks \cap tables[s])
        /\ Cardinality(free_blocks \cap tables[s]) = 0
    BY <2>1, BlockSets, FS_Union, FS_EmptySet
  <2>4. Cardinality(free_blocks) \in Nat BY <2>1, BlockSets
  <2>5. \A t \in Seqs \ {s} : tables'[t] = tables[t]
    BY <1>1 DEF FreeSequence, IInv, TypeOK, PTTypeOK
  <2> QED BY <2>2, <2>3, <2>4, <2>5, <1>6
<1> HIDE DEF x
<1> SUFFICES ASSUME NEW t \in Seqs, Passed(t)', t # s
             PROVE  (t \in Reported \/ ShortOfBlocks(t))'
  BY <1>4 DEF TurnInv
<1>8. Passed(t)
  <2>1. PICK k \in DOMAIN active_' : active_'[k] = t /\ k < it /\ phase'[t] = "DECODE"
    BY <1>1 DEF Passed
  <2>2. k \in 1..(Len(active_) - 1) /\ k \in DOMAIN active_
    <3>1. DOMAIN active_' = 1..(Len(active_) - 1) BY <1>5, LenProperties DEF Without
    <3>2. DOMAIN active_ = 1..Len(active_) /\ Len(active_) \in Nat BY DequeTypes
    <3> QED BY <2>1, <3>1, <3>2
  <2>3. active_[k] = t BY <2>1, <2>2, <1>5 DEF Without
  <2> QED BY <2>1, <2>2, <2>3, <1>1, <1>3 DEF Passed
<1>9. t \in Reported \/ ShortOfBlocks(t) BY <1>1, <1>2, <1>8 DEF TurnInv
<1>10. ASSUME ShortOfBlocks(t) PROVE ShortOfBlocks(t)'
  <2>1. /\ Cardinality(free_blocks') - Returned' <= Cardinality(free_blocks) - Returned
        /\ Returned' \in Nat /\ Cardinality(free_blocks') \in Nat
    BY <1>6, <1>7
  <2>2. prompt'[t] = prompt[t] /\ cursor'[t] = cursor[t] BY <1>1
  <2> QED BY <2>1, <2>2, <1>3, <1>6, <1>7, <1>10, ShortKept
<1> QED BY <1>4, <1>9, <1>10

\* The front of the waiting queue gets its first chunk.
LEMMA AdmitTurn ==
    ASSUME IInv, QueueInv, TurnInv, IInv', NEW s \in Seqs, AdmitChunk(s)
    PROVE  TurnInv'
<1>1. /\ pass = "admit" /\ budget > 0 /\ ChunkDone(s) /\ UNCHANGED pass
      /\ waiting_ # << >> /\ s = Head(waiting_) /\ active_' = Append(active_, s)
      /\ active_ \in Seq(Seqs) /\ waiting_ \in Seq(Seqs)
  BY DEF AdmitChunk, IInv, TypeOK
<1>2. s \in Range(waiting_) /\ s \notin Range(active_)
  BY <1>1, TailRange DEF QueueInv, DequesInv
<1>3. Range(active_') = Range(active_) \cup {s}
  BY <1>1, <1>2, AppendRange DEF QueueInv, DequesInv
<1>4. /\ UNCHANGED <<prompt, generated>> /\ phase[s] = "PREFILL"
      /\ phase'[s] \in {"PREFILL", "DECODE"} /\ phase' \in [Seqs -> Phases]
      /\ \A t \in Seqs \ {s} : phase'[t] = phase[t] /\ cursor'[t] = cursor[t]
  BY <1>1, ChunkFacts
<1>5. s \notin Reported
  BY <1>1, <1>2, <1>4 DEF QueueInv, ReportInv, Passed, Range
<1>6. PICK n \in 1..budget, target \in Nat : Report(s, n) /\ EnsureCapacity(s, target)
  <2>1. /\ Report(s, ChunkOf(s)) /\ EnsureCapacity(s, cursor[s] + ChunkOf(s))
        /\ ~ prefill_complete(s)
    BY <1>1 DEF ChunkDone
  <2>2. /\ cursor[s] \in Nat /\ prompt[s] \in Nat /\ cursor[s] < prompt[s]
        /\ MaxPrefillChunk \in Nat \ {0} /\ budget \in Nat
    BY <2>1, ConfigAssumption DEF prefill_complete, IInv, TypeOK
  <2>3. ChunkOf(s) \in 1..budget /\ cursor[s] + ChunkOf(s) \in Nat
    BY <2>2, <1>1 DEF ChunkOf
  <2> QED BY <2>1, <2>3
<1>7. Reported' = Reported \cup {s}
  BY <1>1, <1>4, <1>5, <1>6, ReportOnce DEF QueueInv
<1> SUFFICES ASSUME NEW t \in Seqs, Passed(t)', t # s
             PROVE  (t \in Reported \/ ShortOfBlocks(t))'
  BY <1>7 DEF TurnInv
<1>8. Passed(t)
  <2>1. t \in Range(active_') BY DEF Passed, Range
  <2>2. t \in Range(active_) BY <2>1, <1>3
  <2> QED BY <2>2, <1>1 DEF Passed, Range
<1>9. t \in Reported \/ ShortOfBlocks(t) BY <1>1, <1>8 DEF TurnInv
<1>10. ShortOfBlocks(t) => ShortOfBlocks(t)'
  BY <1>1, <1>4, <1>5, <1>6, ShortWhileGrowing
<1> QED BY <1>7, <1>9, <1>10

\* Every action keeps the invariant of the turns.
LEMMA TurnNext ==
    ASSUME IInv, QueueInv, TurnInv, [Next]_vars
    PROVE  TurnInv'
<1>0. IInv' /\ QueueInv' BY NextInv, QueueNext
<1>1. CASE StepBegin
  <2>1. pass' = "decode" /\ it' = 1 /\ active_' = active_
    BY <1>1 DEF StepBegin, queueVars
  <2>2. \A k \in DOMAIN active_ : ~ (k < 1) BY DequeTypes
  <2> QED BY <2>1, <2>2 DEF TurnInv, Passed
<1>2. CASE pass' = "idle" BY <1>2 DEF TurnInv
<1>3. CASE UNCHANGED vars
  <2>1. /\ UNCHANGED <<seqVars, free_blocks, tables, results>>
        /\ UNCHANGED <<pass, it, budget, active_, phase>>
    BY <1>3 DEF vars, seqVars, queueVars
  <2>2. \A t \in Seqs : Passed(t)' => Passed(t) BY <2>1 DEF Passed
  <2>3. \A t \in Seqs : t \in Reported' <=> t \in Reported BY <2>1, ShortSame
  <2>4. \A t \in Seqs : ShortOfBlocks(t)' = ShortOfBlocks(t) BY <2>1, ShortSame
  <2> QED BY <2>1, <2>2, <2>3, <2>4 DEF TurnInv
<1> QED
  BY <1>0, <1>1, <1>2, <1>3, LoopEndTurn, SkipTurn, ServeTurn, FinishTurn, AdmitTurn
     DEF Next, Step, AdmitEnd, AdmitRefused, Admit

\* The places of the line.
LEMMA PlacesInLine ==
    ASSUME IInv, QueueInv, NEW s \in Seqs, NEW t \in Seqs, NEW j \in DOMAIN Line,
           NEW i \in 1..(j - 1), Line[i] = t, Line[j] = s
    PROVE  /\ \A k \in DOMAIN active_ :
                 active_[k] = s => i < k /\ i \in DOMAIN active_ /\ active_[i] = t
           /\ waiting_ # << >> /\ s = Head(waiting_)
                 => i \in DOMAIN active_ /\ active_[i] = t
<1> DEFINE m == Len(active_)
           n == Len(waiting_)
<1>1. /\ Line \in Seq(Seqs) /\ Len(Line) = m + n /\ IsInjective(Line)
      /\ \A k \in 1..(m + n) : Line[k] = IF k <= m THEN active_[k] ELSE waiting_[k - m]
  BY LineFacts
<1>2. /\ m \in Nat /\ n \in Nat /\ DOMAIN active_ = 1..m /\ DOMAIN Line = 1..(m + n)
  BY <1>1, DequeTypes, LenProperties
<1> HIDE DEF m, n
<1>3. ASSUME NEW k \in 1..m, active_[k] = s PROVE i < k /\ i \in 1..m /\ active_[i] = t
  <2>1. k \in 1..(m + n) /\ k <= m BY <1>2
  <2>2. Line[k] = s BY <2>1, <1>1, <1>3
  <2>3. k = j BY <2>1, <2>2, <1>1, <1>2 DEF IsInjective
  <2>4. i < k /\ i \in 1..m /\ i <= m /\ i \in 1..(m + n) BY <2>3, <2>1, <1>2
  <2> QED BY <2>4, <1>1
<1>4. ASSUME waiting_ # << >>, s = Head(waiting_) PROVE i \in 1..m /\ active_[i] = t
  <2>1. n \in Nat \ {0} /\ s = waiting_[1]
    BY <1>4, <1>2, EmptySeq, LenProperties, HeadTailProperties DEF IInv, TypeOK, n
  <2>2. m + 1 \in 1..(m + n) /\ ~ (m + 1 <= m) /\ (m + 1) - m = 1 BY <2>1, <1>2
  <2>3. Line[m + 1] = s BY <2>1, <2>2, <1>1
  <2>4. m + 1 = j BY <2>2, <2>3, <1>1, <1>2 DEF IsInjective
  <2>5. i \in 1..m /\ i <= m /\ i \in 1..(m + n) BY <2>4, <1>2
  <2> QED BY <2>5, <1>1
<1> QED BY <1>2, <1>3, <1>4

\* When a sequence gets tokens, whoever had his turn before it has had tokens in
\* this step or is short of blocks.
LEMMA ServedAfter ==
    ASSUME IInv, QueueInv, TurnInv, [Next]_vars, NEW s \in Seqs, NEW t \in Seqs,
           Gains(s), TurnBefore(t, s)
    PROVE  t \in Reported \/ ShortOfBlocks(t)
<1>0. cursor[s] \in Nat /\ generated[s] \in Nat BY DEF IInv, TypeOK
<1>1. \/ DecodeToken(s) \/ DecodeFinish(s) \/ PrefillChunk(s) \/ AdmitChunk(s)
  <2>1. ~ UNCHANGED <<cursor, generated>> BY <1>0 DEF Gains
  <2>2. ASSUME NEW u \in Seqs, NEW r \in Requests[u], Admit(u, r) PROVE FALSE
    <3>1. /\ cursor' = [cursor EXCEPT ![u] = 0]
          /\ generated' = [generated EXCEPT ![u] = 0]
      BY <2>2 DEF Admit, Construct
    <3> QED BY <3>1, <1>0 DEF Gains, IInv, TypeOK
  <2>3. ASSUME NEW u \in Seqs, DecodeToken(u) \/ DecodeFinish(u) PROVE u = s
    <3>1. generated' = [generated EXCEPT ![u] = @ + 1] /\ UNCHANGED cursor
      BY <2>3 DEF DecodeToken, DecodeFinish, GenerateToken
    <3> QED BY <3>1, <1>0 DEF Gains, IInv, TypeOK
  <2>4. ASSUME NEW u \in Seqs, PrefillChunk(u) \/ AdmitChunk(u) PROVE u = s
    <3>1. cursor' = [cursor EXCEPT ![u] = @ + ChunkOf(u)] /\ UNCHANGED generated
      BY <2>4 DEF PrefillChunk, AdmitChunk, ChunkDone
    <3> QED BY <3>1, <1>0 DEF Gains, IInv, TypeOK
  <2> QED
    BY <2>1, <2>2, <2>3, <2>4
       DEF Next, Step, StepBegin, DecodeEnd, PrefillEnd, LoopEnd, AdmitEnd,
           DecodeSkip, PrefillSkip, PrefillRefused, AdmitRefused, ChunkRefused,
           seqVars, vars
<1>2. CASE DecodeToken(s) \/ DecodeFinish(s)
  <2>1. At("decode", s) /\ phase[s] = "DECODE" /\ pass = "decode" /\ budget > 0
    BY <1>2 DEF DecodeToken, DecodeFinish, GenerateToken, At
  <2>2. it \in DOMAIN active_ /\ active_[it] = s BY <2>1, NotReported
  <2>3. phase[t] = "DECODE" /\ \E j \in DOMAIN Line :
           \E i \in 1..(j - 1) : Line[i] = t /\ Line[j] = s
    BY <2>1 DEF TurnBefore
  <2>4. PICK i \in DOMAIN active_ : active_[i] = t /\ i < it
    BY <2>2, <2>3, PlacesInLine
  <2>5. Passed(t) BY <2>1, <2>3, <2>4 DEF Passed
  <2> QED BY <2>1, <2>5 DEF TurnInv
<1>3. CASE PrefillChunk(s)
  <2>1. At("prefill", s) /\ phase[s] = "PREFILL" /\ pass = "prefill" /\ budget > 0
    BY <1>3 DEF PrefillChunk, At
  <2>2. it \in DOMAIN active_ /\ active_[it] = s BY <2>1, NotReported
  <2>3. CASE phase[t] = "DECODE" /\ t \in Range(active_)
    BY <2>1, <2>3 DEF TurnInv, Passed, Range
  <2>4. CASE \E j \in DOMAIN Line : \E i \in 1..(j - 1) : Line[i] = t /\ Line[j] = s
    <3>1. PICK i \in DOMAIN active_ : active_[i] = t /\ i < it
      BY <2>2, <2>4, PlacesInLine
    <3>2. Passed(t) BY <2>1, <3>1 DEF Passed
    <3> QED BY <2>1, <3>2 DEF TurnInv
  <2> QED BY <2>3, <2>4 DEF TurnBefore
<1>4. CASE AdmitChunk(s)
  <2>1. pass = "admit" /\ budget > 0 /\ waiting_ # << >> /\ s = Head(waiting_)
    BY <1>4 DEF AdmitChunk
  <2>2. t \in Range(active_)
    <3>1. CASE t \in Range(active_) BY <3>1
    <3>2. CASE \E j \in DOMAIN Line : \E i \in 1..(j - 1) : Line[i] = t /\ Line[j] = s
      <4>1. PICK i \in DOMAIN active_ : active_[i] = t BY <2>1, <3>2, PlacesInLine
      <4> QED BY <4>1 DEF Range
    <3> QED BY <3>1, <3>2 DEF TurnBefore
  <2> QED BY <2>1, <2>2 DEF TurnInv, Passed, Range
<1> QED BY <1>1, <1>2, <1>3, <1>4

-----------------------------------------------------------------------------
(* The tables *)

\* A step grows or empties the table of one sequence and touches no other.
LEMMA TablesKept ==
    ASSUME IInv, [Next]_vars, NEW s \in Seqs, tables'[s] # tables[s]
    PROVE  /\ tables[s] \subseteq tables'[s] \/ tables'[s] = {}
           /\ \A t \in Seqs \ {s} : tables'[t] = tables[t]
<1>1. ASSUME NEW u \in Seqs, NEW n, EnsureCapacity(u, n)
      PROVE  /\ tables[s] \subseteq tables'[s]
             /\ \A t \in Seqs \ {s} : tables'[t] = tables[t]
  BY <1>1 DEF EnsureCapacity, IInv, TypeOK, PTTypeOK
<1>2. ASSUME NEW u \in Seqs, FreeSequence(u)
      PROVE  tables'[s] = {} /\ \A t \in Seqs \ {s} : tables'[t] = tables[t]
  BY <1>2 DEF FreeSequence, IInv, TypeOK, PTTypeOK
<1>3. CASE \E u \in Seqs : DecodeToken(u) BY <1>1, <1>3 DEF DecodeToken
<1>4. CASE \E u \in Seqs : DecodeFinish(u) BY <1>2, <1>4 DEF DecodeFinish
<1>5. CASE \E u \in Seqs : PrefillChunk(u) \/ AdmitChunk(u)
  BY <1>1, <1>5 DEF PrefillChunk, AdmitChunk, ChunkDone
<1> QED
  BY <1>3, <1>4, <1>5
     DEF Next, Step, StepBegin, DecodeEnd, PrefillEnd, LoopEnd, AdmitEnd, Admit,
         DecodeSkip, PrefillSkip, PrefillRefused, AdmitRefused, ChunkRefused, vars

-----------------------------------------------------------------------------
(* The theorems *)

\* IInv holds in every reachable state of the scheduler.
THEOREM InvariantHolds == Spec => []IInv
BY InitInv, NextInv, PTL DEF Spec

\* The variables keep their types; in particular the budget never wraps.
THEOREM TypeCorrect == Spec => []TypeOK
<1>1. IInv => TypeOK BY DEF IInv
<1> QED BY <1>1, InvariantHolds, PTL

\* The scheduler never lets two sequences share a block and never loses one.
THEOREM SchedulerPartition == Spec => []Partition
<1>1. IInv => Partition BY DEF IInv
<1> QED BY <1>1, InvariantHolds, PTL

\* Every sequence holds exactly the blocks its tokens fill.
THEOREM ZeroFragmentation == Spec => []BlocksMatchTokens
<1>1. IInv => BlocksMatchTokens BY DEF IInv
<1> QED BY <1>1, InvariantHolds, PTL

\* No sequence generates more than max_new_tokens (but at least one).
THEOREM BoundedGeneration == Spec => []GenerationBound
<1>1. IInv => GenerationBound BY DEF IInv
<1> QED BY <1>1, InvariantHolds, PTL

\* The invariant of the deques and the results holds in every reachable state.
THEOREM QueueInvariantHolds == Spec => []QueueInv
BY QueueInit, QueueNext, InvariantHolds, PTL DEF Spec

\* No pass drops, duplicates or revives a sequence.
THEOREM QueuesKept == Spec => []QueueDiscipline
<1>1. IInv /\ QueueInv => QueueDiscipline
  <2> SUFFICES ASSUME IInv, QueueInv PROVE QueueDiscipline OBVIOUS
  <2>1. ASSUME NEW s \in Seqs
        PROVE  Cardinality(Occurrences(active_, s)) + Cardinality(Occurrences(waiting_, s))
                 = IF s \in Unfinished THEN 1 ELSE 0
    <3>1. /\ Cardinality(Occurrences(active_, s)) = IF s \in Range(active_) THEN 1 ELSE 0
          /\ Cardinality(Occurrences(waiting_, s)) = IF s \in Range(waiting_) THEN 1 ELSE 0
      BY OneOccurrence DEF QueueInv, DequesInv
    <3>2. s \in Unfinished <=> s \in Range(active_) \/ s \in Range(waiting_)
      BY DEF QueueInv, DequesInv
    <3>3. ~ (s \in Range(active_) /\ s \in Range(waiting_))
      BY DEF QueueInv, DequesInv
    <3> QED BY <3>1, <3>2, <3>3
  <2> QED BY <2>1 DEF QueueDiscipline, QueueInv, WorkInv
<1> QED BY <1>1, InvariantHolds, QueueInvariantHolds, PTL

\* What step() reports is what it did.
THEOREM ReportsFaithful == Spec => []ResultsFaithful
<1>1. QueueInv => ResultsFaithful BY DEF QueueInv
<1> QED BY <1>1, QueueInvariantHolds, PTL

\* While budget is left, whom the step has gone past has been served or is short
\* of blocks.
THEOREM TurnInvariantHolds == Spec => []TurnInv
BY TurnInit, TurnNext, InvariantHolds, QueueInvariantHolds, PTL DEF Spec

\* Turns go by phase and arrival, and only want of blocks makes one miss his.
THEOREM TurnsKept == Spec => ServedInTurn
<1>1. IInv /\ QueueInv /\ TurnInv /\ [Next]_vars
        => [/\ KeepsLine
            /\ \A s, t \in Seqs :
                  Gains(s) /\ TurnBefore(t, s) => t \in Reported \/ ShortOfBlocks(t)]_vars
  <2> SUFFICES ASSUME IInv, QueueInv, TurnInv, [Next]_vars
               PROVE  /\ KeepsLine
                      /\ \A s, t \in Seqs : Gains(s) /\ TurnBefore(t, s)
                            => t \in Reported \/ ShortOfBlocks(t)
    OBVIOUS
  <2>1. KeepsLine BY LineOrdered DEF Ordered, KeepsLine
  <2> QED BY <2>1, ServedAfter
<1> QED
  BY <1>1, InvariantHolds, QueueInvariantHolds, TurnInvariantHolds, PTL
     DEF Spec, ServedInTurn

\* No step takes a block from a sequence but by freeing it as a whole, nor
\* changes the tables of two sequences.
THEOREM NoBlockStolen == Spec => NoSteal
<1>1. IInv /\ [Next]_vars
        => [\A s \in Seqs :
               tables'[s] # tables[s] =>
                   /\ tables[s] \subseteq tables'[s] \/ tables'[s] = {}
                   /\ \A t \in Seqs \ {s} : tables'[t] = tables[t]]_ptVars
  BY TablesKept
<1> QED BY <1>1, InvariantHolds, PTL DEF Spec, NoSteal

=============================================================================
