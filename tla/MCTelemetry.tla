----------------------------- MODULE MCTelemetry -----------------------------
(* A small instance of Telemetry for TLC. *)
EXTENDS Telemetry

\* Every vector of up to four latencies, and long ones in two orders, at the
\* lengths around which p95 and p99 move to another rank.
SomeVectors ==
    UNION {[1..n -> 1..3] : n \in 0..4}
    \cup {[i \in 1..n |-> i] : n \in {19, 20, 21, 40, 99, 100, 101}}
    \cup {[i \in 1..n |-> (7 * i) % n] : n \in {20, 40, 100, 101}}
=============================================================================
