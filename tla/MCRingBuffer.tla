---------------------------- MODULE MCRingBuffer ----------------------------
(* Small instances of RingBuffer for TLC. *)
EXTENDS RingBuffer, TLC

Symmetry == Permutations(Producers) \cup Permutations(Consumers)
                \cup Permutations(Values)
=============================================================================
