---------------------------- MODULE Serialization ----------------------------
(***************************************************************************)
(* src/src/orchestration/serialization.hpp: batches of tokens and results   *)
(* as bytes.  The numbers are scaled: a byte has Base values (256 in the    *)
(* code), a uint32_t, a uint64_t and a float have U32, U64 and F32 bytes    *)
(* (4, 8, 4).  A batch is a sequence of items [fields, payload], the fields *)
(* in the order in which they are put; a float is just a number.            *)
(***************************************************************************)
EXTENDS Integers, Sequences, SequencesExt

CONSTANTS Base, U32, U64, F32

ASSUME WidthAssumption ==
    Base \in Nat \ {0, 1} /\ {U32, U64, F32} \subseteq Nat \ {0}

Byte == 0..(Base - 1)

\* The widths of token_id, batch_position, primary_expert and secondary_expert;
\* of token_id, batch_position and processed_by_shard.
TokenFields == <<U64, U32, U32, U32>>
ResultFields == <<U64, U32, U32>>

FieldsOf(kind) == IF kind = "tokens" THEN TokenFields ELSE ResultFields

-----------------------------------------------------------------------------
(* Encoding *)

\* v shifted right by 0 to w bytes; v fits into w bytes if nothing is left.
Shifts(v, w) ==
    LET shift[k \in 0..w] == IF k = 0 THEN v ELSE shift[k - 1] \div Base
    IN  shift

Fits(v, w) == Shifts(v, w)[w] = 0

\* The w low bytes of v in the host's order.
Put(v, w) == [i \in 1..w |-> Shifts(v, w)[i - 1] % Base]

PutFields(widths, fields) ==
    FlattenSeq([i \in DOMAIN widths |-> Put(fields[i], widths[i])])

put_floats(v) == Put(Len(v), U32) \o FlattenSeq([i \in DOMAIN v |-> Put(v[i], F32)])

EncodeItem(widths, item) == PutFields(widths, item.fields) \o put_floats(item.payload)

\* encode_token_batch, encode_result_batch.
EncodeBatch(kind, batch) ==
    Put(Len(batch), U32)
        \o FlattenSeq([i \in DOMAIN batch |-> EncodeItem(FieldsOf(kind), batch[i])])

-----------------------------------------------------------------------------
(* Decoding.  A Reader is [ok, p, items]: whether no check has failed yet, the  *)
(* bytes consumed, the items decoded.                                          *)

\* Mutant of Need: one byte too few is accepted.
NeedAlmost(bytes, p, n) == Len(bytes) - p >= n - 1

Need(bytes, p, n) == Len(bytes) - p >= n

\* The number with the given bytes, the most significant one first.
Number(bytes) ==
    LET n[k \in 0..Len(bytes)] == IF k = 0 THEN 0 ELSE n[k - 1] * Base + bytes[k]
    IN  n[Len(bytes)]

\* The number in the w bytes after p; past the end of the message the memory
\* is read as zero, which happens only if a check is missing.
Get(bytes, p, w) ==
    Number([i \in 1..w |->
        IF p + w + 1 - i <= Len(bytes) THEN bytes[p + w + 1 - i] ELSE 0])

\* Bytes of the first k fields, and of all fields.
Offsets(widths) ==
    LET offset[k \in 0..Len(widths)] == IF k = 0 THEN 0 ELSE offset[k - 1] + widths[k]
    IN  offset

Size(widths) == Offsets(widths)[Len(widths)]

\* One iteration of the loop: the fields and get_floats.  Every read checks
\* need() first; which of them throws makes no difference.
DecodeItem(widths, bytes, r) ==
    LET fixed == Size(widths) + U32
        n == Get(bytes, r.p + Size(widths), U32)
    IN  IF ~ r.ok \/ ~ Need(bytes, r.p, fixed) \/ ~ Need(bytes, r.p + fixed, n * F32)
        THEN [r EXCEPT !.ok = FALSE]
        ELSE [ok |-> TRUE, p |-> r.p + fixed + n * F32,
              items |-> Append(r.items,
                  [fields |-> [i \in DOMAIN widths |->
                                  Get(bytes, r.p + Offsets(widths)[i - 1], widths[i])],
                   payload |-> [i \in 1..n |->
                                  Get(bytes, r.p + fixed + (i - 1) * F32, F32)]])]

\* decode_token_batch, decode_result_batch: the Reader at the end, or where a
\* check threw.
DecodeBatch(kind, bytes) ==
    LET count == Get(bytes, 0, U32)
        loop[i \in 0..count] ==
            IF i = 0 THEN [ok |-> Need(bytes, 0, U32), p |-> U32, items |-> << >>]
                     ELSE DecodeItem(FieldsOf(kind), bytes, loop[i - 1])
    IN  loop[count]

Decodes(kind, bytes, batch) ==
    DecodeBatch(kind, bytes).ok /\ DecodeBatch(kind, bytes).items = batch

\* A batch of the given kind: every number fits into its bytes.
IsBatch(kind, batch) ==
    /\ kind \in {"tokens", "results"}
    /\ batch \in Seq([fields : Seq(Nat), payload : Seq(Nat)])
    /\ Fits(Len(batch), U32)
    /\ \A i \in DOMAIN batch :
          /\ Len(batch[i].fields) = Len(FieldsOf(kind))
          /\ \A k \in DOMAIN FieldsOf(kind) : Fits(batch[i].fields[k], FieldsOf(kind)[k])
          /\ Fits(Len(batch[i].payload), U32)
          /\ \A k \in DOMAIN batch[i].payload : Fits(batch[i].payload[k], F32)
=============================================================================
