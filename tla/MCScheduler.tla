----------------------------- MODULE MCScheduler -----------------------------
(* Small instances of Scheduler for TLC. *)
EXTENDS Scheduler, TLC

CONSTANTS s1, s2, s3   \* sequence ids

Request(p, m) == [prompt |-> p, max_new |-> m]

\* Empty prompts, prompts of several chunks, no and three new tokens.
MixedRequests == [s \in Seqs |-> {Request(p, m) : p \in {0, 1, 3}, m \in {0, 3}}]

\* One sequence outgrows its first block, the others fit into one.
OneLongRequest ==
    [s \in Seqs |-> IF s = s1 THEN {Request(2, 1)} ELSE {Request(1, 1)}]

Symmetry == Permutations(Seqs) \cup Permutations(Blocks)
=============================================================================
