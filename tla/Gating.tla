------------------------------- MODULE Gating -------------------------------
(***************************************************************************)
(* Calls of fused_gating, src/src/kernels/fused_gating_metal.py: the cache  *)
(* of transposed weights keyed by id(), and the kernel for one token row,   *)
(* in which SIMD groups compute the logits of different experts until a     *)
(* barrier, after which one thread selects the top k.                       *)
(*                                                                         *)
(* The selection only compares logits, so an array is modelled by what it   *)
(* makes of the row: the logit of every expert.  Arrays are not updated in  *)
(* place.  The softmax over the selected logits is floating point.          *)
(***************************************************************************)
EXTENDS Integers, Sequences

CONSTANTS Ids,          \* addresses that arrays can have
          NoArray,
          NumExperts,   \* E
          SimdGroups,   \* SIMDGROUPS_PER_TG (8 in the code)
          Weights       \* contents of arrays: [experts -> logits]

Experts == 0..(NumExperts - 1)
SGs == 0..(SimdGroups - 1)

ASSUME GatingAssumption ==
    /\ NumExperts \in Nat \ {0} /\ SimdGroups \in Nat \ {0}
    /\ Weights \subseteq [Experts -> Nat]
    /\ NoArray \notin Weights \cup Ids

\* -INFINITY: below every logit.
Infinity == -1

VARIABLES heap,          \* per address: the contents of the array there
          gate_weight,   \* the address of the array the program uses
          weight_cache,  \* per address: the transposed copy
          mode,          \* idle, project, select
          k,             \* argument of the call
          gate_weight_t, \* the weights handed to the kernel
          e,             \* per SIMD group: the expert its loop is at
          logits,        \* threadgroup memory; then thread 0's copy of it
          topk_idx       \* selected so far, at the end the result

memoryVars == <<heap, gate_weight, weight_cache>>
vars == <<memoryVars, mode, k, gate_weight_t, e, logits, topk_idx>>

Init ==
    /\ heap = [i \in Ids |-> NoArray] /\ gate_weight = NoArray
    /\ weight_cache = [i \in Ids |-> NoArray]
    /\ mode = "idle" /\ k = 0 /\ gate_weight_t = NoArray
    /\ e = [g \in SGs |-> g] /\ logits = [x \in Experts |-> 0]
    /\ topk_idx = << >>

-----------------------------------------------------------------------------
(* The program and the memory of the interpreter *)

Cached(i) == weight_cache[i] # NoArray

\* Mutant of KeptAlive: an entry holds the id and the copy only.
KeptAliveNever(i) == FALSE

\* A cache entry refers to its array, so that the address is not given away.
KeptAlive(i) == Cached(i)

\* The program drops its array and makes a new one, at any free address.
NewArray(i, w) ==
    /\ mode = "idle" /\ ~ KeptAlive(i)
    /\ heap' = [j \in Ids |-> IF j = i THEN w
                              ELSE IF KeptAlive(j) THEN heap[j] ELSE NoArray]
    /\ gate_weight' = i /\ topk_idx' = << >>
    /\ UNCHANGED <<weight_cache, mode, k, gate_weight_t, e, logits>>

-----------------------------------------------------------------------------
(* fused_gating *)

\* _get_transposed_weight.  The test that the entry is one of this very array is
\* left out: CacheFresh holds without it, since an entry keeps its array alive.
Transposed(i) == IF Cached(i) THEN weight_cache[i] ELSE heap[i]

\* A call with n <= num_experts and shapes that fit; any other raises before it
\* changes anything.  Threadgroup memory still holds what was there before.
FusedGating(n) ==
    /\ mode = "idle" /\ gate_weight # NoArray
    /\ gate_weight_t' = Transposed(gate_weight)
    /\ weight_cache' = [weight_cache EXCEPT ![gate_weight] = Transposed(gate_weight)]
    /\ mode' = "project" /\ k' = n
    /\ e' = [g \in SGs |-> g] /\ topk_idx' = << >>
    /\ UNCHANGED <<heap, gate_weight, logits>>

\* A SIMD group computes the logit of the expert its loop is at.
Project(g) ==
    /\ mode = "project" /\ e[g] < NumExperts
    /\ logits' = [logits EXCEPT ![e[g]] = gate_weight_t[e[g]]]
    /\ e' = [e EXCEPT ![g] = @ + SimdGroups]
    /\ UNCHANGED <<memoryVars, mode, k, gate_weight_t, topk_idx>>

\* Mutant of Barrier: thread 0 goes on when its own SIMD group is done.
BarrierMissing ==
    /\ mode = "project" /\ e[0] >= NumExperts
    /\ mode' = "select"
    /\ UNCHANGED <<memoryVars, k, gate_weight_t, e, logits, topk_idx>>

\* threadgroup_barrier: every SIMD group has left its loop.
Barrier ==
    /\ mode = "project" /\ \A g \in SGs : e[g] >= NumExperts
    /\ mode' = "select"
    /\ UNCHANGED <<memoryVars, k, gate_weight_t, e, logits, topk_idx>>

\* best_idx once the scan has seen x experts, -1 if none is above -INFINITY.
best_idx[x \in 0..NumExperts] ==
    IF x = 0 THEN -1
    ELSE LET b == best_idx[x - 1]
             best_val == IF b = -1 THEN Infinity ELSE logits[b]
         IN  IF logits[x - 1] > best_val THEN x - 1 ELSE b

BestIdx == best_idx[NumExperts]

\* One of the k rounds; the winner is struck out.
Select ==
    /\ mode = "select" /\ Len(topk_idx) < k
    /\ topk_idx' = Append(topk_idx, BestIdx)
    /\ logits' = [logits EXCEPT ![BestIdx] = Infinity]
    /\ UNCHANGED <<memoryVars, mode, k, gate_weight_t, e>>

Return ==
    /\ mode = "select" /\ Len(topk_idx) = k
    /\ mode' = "idle"
    /\ UNCHANGED <<memoryVars, k, gate_weight_t, e, logits, topk_idx>>

-----------------------------------------------------------------------------
Next ==
    \/ \E i \in Ids, w \in Weights : NewArray(i, w)
    \/ \E n \in 1..NumExperts : FusedGating(n)
    \/ \E g \in SGs : Project(g)
    \/ Barrier \/ Select \/ Return

Spec == Init /\ [][Next]_vars

-----------------------------------------------------------------------------
\* Type invariant; the address in use and the cached ones hold an array.
TypeOK ==
    /\ heap \in [Ids -> Weights \cup {NoArray}]
    /\ weight_cache \in [Ids -> Weights \cup {NoArray}]
    /\ gate_weight \in Ids \cup {NoArray}
    /\ \A i \in Ids : i = gate_weight \/ Cached(i) => heap[i] # NoArray
    /\ mode \in {"idle", "project", "select"} /\ k \in 0..NumExperts
    /\ gate_weight_t \in Weights \cup {NoArray}
    /\ e \in [SGs -> Nat] /\ logits \in [Experts -> Int]
    /\ topk_idx \in Seq(Experts)

-----------------------------------------------------------------------------
(* reference_gating.py: the k first of an argsort by descending logit.  The *)
(* order of equal logits is open.                                           *)

ArgSorts(w) ==
    {o \in [1..NumExperts -> Experts] :
        \A i, j \in 1..NumExperts : i < j => o[i] # o[j] /\ w[o[i]] >= w[o[j]]}

ReferenceGating(w, n) == {SubSeq(o, 1, n) : o \in ArgSorts(w)}

\* "The two are drop-in interchangeable": a call returns experts that the
\* reference could have returned for the array the program passed, whatever
\* was called before, in which order the SIMD groups ran, ties included.
FusedMatchesReference ==
    mode = "idle" /\ topk_idx # << >> =>
        topk_idx \in ReferenceGating(heap[gate_weight], k)

\* "A coincidental id collision could silently serve the wrong transposed
\* weight": no entry of the cache belongs to another array than the one that
\* has its id now.
CacheFresh == \A i \in Ids : Cached(i) => weight_cache[i] = heap[i]

-----------------------------------------------------------------------------
(* The inductive invariant behind the theorems of GatingProofs *)

\* A call works on the weights of the array it was given.
CallInv ==
    mode # "idle" => /\ gate_weight \in Ids /\ gate_weight_t = heap[gate_weight]
                     /\ k > 0

\* The SIMD groups share the experts out by remainder; behind its own position
\* a group has written the logits.
ProjectInv ==
    mode = "project" =>
        /\ topk_idx = << >>
        /\ \A g \in SGs : e[g] % SimdGroups = g
        /\ \A x \in Experts : x < e[x % SimdGroups] => logits[x] = gate_weight_t[x]

Chosen == {topk_idx[i] : i \in 1..Len(topk_idx)}

\* Exactly what is not chosen yet still has its logit.
StruckOut ==
    mode = "select" => \A x \in Experts :
        logits[x] = IF x \in Chosen THEN Infinity ELSE gate_weight_t[x]

\* What is chosen is a beginning of an argsort by w.
Leading(w) ==
    /\ \A i, j \in 1..Len(topk_idx) :
            i < j => topk_idx[i] # topk_idx[j] /\ w[topk_idx[i]] >= w[topk_idx[j]]
    /\ \A i \in 1..Len(topk_idx), x \in Experts \ Chosen : w[topk_idx[i]] >= w[x]

SelectInv ==
    /\ Len(topk_idx) <= k
    /\ topk_idx # << >> =>
          /\ gate_weight \in Ids /\ Leading(heap[gate_weight])
          /\ mode = "idle" => Len(topk_idx) = k

IInv == TypeOK /\ CacheFresh /\ CallInv /\ ProjectInv /\ StruckOut /\ SelectInv
=============================================================================
