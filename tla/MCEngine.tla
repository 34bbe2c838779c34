------------------------------ MODULE MCEngine ------------------------------
(* Small instances of Engine for TLC. *)
EXTENDS Engine

Short == [prompt |-> 1, max_new |-> 1]

\* The first request may take two prefill chunks, two decodes and two blocks,
\* the second two chunks; no two of them need two blocks, for which they could
\* wait for each other.
VariedRequests ==
    [s \in Seqs |->
        IF s = 1 THEN {Short, [prompt |-> 3, max_new |-> 2]}
        ELSE IF s = 2 THEN {Short, [prompt |-> 3, max_new |-> 1]}
        ELSE {Short}]

OneRequest == [s \in Seqs |-> {Short}]
=============================================================================
