----------------------------- MODULE MCFraming -----------------------------
(* A small instance of Framing for TLC. *)
EXTENDS Framing

Item(fields, payload) == [fields |-> fields, payload |-> payload]

\* An empty message, an empty batch, a token with a float, two results; lengths
\* of one byte and of two.
SmallBatches ==
    { [kind |-> "raw", items |-> << >>],
      [kind |-> "tokens", items |-> << >>],
      [kind |-> "tokens", items |-> <<Item(<<6, 0, 1, 2>>, <<3>>)>>],
      [kind |-> "results", items |-> <<Item(<<9, 1, 3>>, << >>), Item(<<7, 0, 2>>, <<1, 2>>)>>] }
=============================================================================
