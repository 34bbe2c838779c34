------------------------------ MODULE PageTable ------------------------------
(***************************************************************************)
(* PagedKVCacheAllocator, src/src/core/page_table.hpp: a pool of physical   *)
(* KV-cache blocks and, per sequence, the blocks it owns.  Every method     *)
(* holds the mutex mu_ throughout, so each call is one step.                *)
(*                                                                         *)
(* Free list and tables are sets: which free block is handed out (the code  *)
(* pops a stack) is left open, as the code says it is not required for      *)
(* correctness.  A sequence without an entry has the empty set.             *)
(***************************************************************************)
EXTENDS Integers, FiniteSets

CONSTANTS Seqs,        \* sequence ids
          Blocks,      \* physical block ids
          BlockSize,   \* block_size_, in tokens
          MaxTokens    \* bound: largest token_count asked for

ASSUME BlocksAssumption == IsFiniteSet(Blocks) /\ Blocks # {}
ASSUME BlockSizeAssumption == BlockSize \in Nat \ {0}
ASSUME MaxTokensAssumption == MaxTokens \in Nat

VARIABLES free_blocks, tables

ptVars == <<free_blocks, tables>>

\* The constructor: every block is free.
PTInit ==
    /\ free_blocks = Blocks
    /\ tables = [s \in Seqs |-> {}]

blocks_needed_for(token_count) == (token_count + BlockSize - 1) \div BlockSize

\* How many blocks ensure_capacity has to allocate.
ToAllocate(s, token_count) ==
    LET needed == blocks_needed_for(token_count)
        owned == Cardinality(tables[s])
    IN  IF needed <= owned THEN 0 ELSE needed - owned

\* ensure_capacity returns true exactly then; otherwise it changes nothing.
HasCapacity(s, token_count) == ToAllocate(s, token_count) <= Cardinality(free_blocks)

\* ensure_capacity returns true.
EnsureCapacity(s, token_count) ==
    \E B \in SUBSET free_blocks :
        /\ Cardinality(B) = ToAllocate(s, token_count)
        /\ tables' = [tables EXCEPT ![s] = @ \cup B]
        /\ free_blocks' = free_blocks \ B

\* Mutants of FreeSequence: only one block is returned; the entry is erased
\* and the blocks are not returned.
FreeSequenceOneBlock(s) ==
    \E b \in tables[s] : /\ free_blocks' = free_blocks \cup {b}
                         /\ tables' = [tables EXCEPT ![s] = @ \ {b}]

FreeSequenceLeaks(s) ==
    tables' = [tables EXCEPT ![s] = {}] /\ UNCHANGED free_blocks

FreeSequence(s) ==
    /\ free_blocks' = free_blocks \cup tables[s]
    /\ tables' = [tables EXCEPT ![s] = {}]

PTNext ==
    \E s \in Seqs :
        \/ \E n \in 0..MaxTokens : EnsureCapacity(s, n)
        \/ FreeSequence(s)

PTSpec == PTInit /\ [][PTNext]_ptVars

-----------------------------------------------------------------------------
\* Type invariant.
PTTypeOK ==
    /\ free_blocks \in SUBSET Blocks
    /\ tables \in [Seqs -> SUBSET Blocks]

\* "No block is held by more than one sequence", no free block is held, and no
\* block is ever lost: whatever the order of ensure_capacity and free_sequence
\* calls, the pool and the tables partition the physical blocks.
Partition ==
    /\ \A b \in Blocks : b \in free_blocks \/ \E s \in Seqs : b \in tables[s]
    /\ \A s \in Seqs : tables[s] \cap free_blocks = {}
    /\ \A s, t \in Seqs : s # t => tables[s] \cap tables[t] = {}

\* A call grows or empties the table of one sequence and touches no other one:
\* the KV data of a sequence stays where it is until it is freed as a whole.
NoSteal ==
    [][\A s \in Seqs :
          tables'[s] # tables[s] =>
              /\ tables[s] \subseteq tables'[s] \/ tables'[s] = {}
              /\ \A t \in Seqs \ {s} : tables'[t] = tables[t]]_ptVars
=============================================================================
