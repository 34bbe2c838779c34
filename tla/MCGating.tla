------------------------------ MODULE MCGating ------------------------------
(* A small instance of Gating for TLC. *)
EXTENDS Gating, TLC

Symmetry == Permutations(Ids)

\* Only comparisons of logits matter: one array for each way in which the
\* experts' logits can be ordered, ties included.
WeakOrders ==
    {w \in [Experts -> Experts] : \A x \in Experts :
        w[x] = 0 \/ \E y \in Experts : w[y] = w[x] - 1}
=============================================================================
