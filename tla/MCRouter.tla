------------------------------ MODULE MCRouter ------------------------------
(* Small instances of Router for TLC. *)
EXTENDS Router, TLC

CONSTANTS A, B   \* the shards

\* Experts 1 and 3 on shard A, 2 on shard B.
Mapping == (1 :> A) @@ (2 :> B) @@ (3 :> A)

T(p, e, f) == [pos |-> p, primary |-> e, secondary |-> f]

\* The empty batch, one shard, both shards, overflow to the other shard, a
\* second choice no shard serves that is not needed.
InOrder == { << >>,
             <<T(0, 1, 4)>>,
             <<T(0, 2, 1), T(1, 1, 2)>>,
             <<T(0, 1, 3), T(1, 1, 2), T(2, 3, 2)>> }

\* Batches whose vector order is not the order of the positions.
Shuffled == { <<T(1, 1, 2), T(0, 1, 3)>>,
              <<T(2, 2, 1), T(0, 1, 2), T(1, 2, 2)>> }

\* An expert no shard serves.
Unmapped == { <<T(0, 4, 1)>> }

\* A position that occurs twice, one out of range.
Malformed == { <<T(0, 1, 2), T(0, 2, 1)>>, <<T(1, 2, 1)>> }

\* route_batch gets well-formed batches in order, as its tests send them.
SafeBatches == [strict |-> InOrder \cup Unmapped \cup Malformed,
                tolerant |-> InOrder \cup Shuffled]
ShuffledBatches == [strict |-> Shuffled]
OrderedBatches == [strict |-> InOrder, tolerant |-> InOrder]

\* Shard A's messages are larger than its socket's buffer, B's fit.
Buffers == (A :> 0) @@ (B :> 1)
=============================================================================
