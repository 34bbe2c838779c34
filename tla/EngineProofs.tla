---------------------------- MODULE EngineProofs ----------------------------
(***************************************************************************)
(* The engine process for every number of handler threads, every capacity   *)
(* of the ingress queue and every stream of requests: EngineInv of Engine   *)
(* is inductive, on top of the scheduler's own invariant.                   *)
(***************************************************************************)
EXTENDS Engine, SchedulerProofs

-----------------------------------------------------------------------------
(* The pipeline as a row of lists *)

\* The sequence between the queue and the scheduler.
Hand == IF popped = None THEN << >> ELSE <<popped>>

\* The sequences in the ingress queue.
Items == [k \in DOMAIN queue |-> queue[k].item]

\* Who is in a list is in every row with it.
LEMMA RowRange ==
    ASSUME NEW S, NEW p \in Seq(S), NEW q \in Seq(S)
    PROVE  /\ p \o q \in Seq(S)
           /\ Range(p) \subseteq Range(p \o q) /\ Range(q) \subseteq Range(p \o q)
           /\ \A k \in 1..Len(p) : (p \o q)[k] = p[k]
<1> DEFINE m == Len(p)
           n == Len(q)
<1>1. /\ p \o q \in Seq(S) /\ Len(p \o q) = m + n
      /\ \A k \in 1..(m + n) : (p \o q)[k] = IF k <= m THEN p[k] ELSE q[k - m]
  BY ConcatProperties
<1>2. /\ DOMAIN p = 1..m /\ m \in Nat /\ n \in Nat /\ DOMAIN q = 1..n
      /\ DOMAIN (p \o q) = 1..(m + n)
  BY <1>1, LenProperties
<1> HIDE DEF m, n
<1>3. \A k \in 1..m : k \in 1..(m + n) /\ k <= m BY <1>2
<1>4. \A k \in 1..m : (p \o q)[k] = p[k] BY <1>1, <1>3
<1>5. \A k \in 1..n : m + k \in 1..(m + n) /\ ~ (m + k <= m) /\ (m + k) - m = k BY <1>2
<1>6. ASSUME NEW k \in 1..n PROVE (p \o q)[m + k] = q[k] BY <1>1, <1>5
<1>7. Range(p) \subseteq Range(p \o q) BY <1>2, <1>3, <1>4 DEF Range
<1>8. Range(q) \subseteq Range(p \o q)
  <2> SUFFICES ASSUME NEW k \in 1..n PROVE q[k] \in Range(p \o q)
    BY <1>2 DEF Range
  <2>1. m + k \in DOMAIN (p \o q) BY <1>2, <1>5
  <2>2. (p \o q)[m + k] \in Range(p \o q) BY <2>1 DEF Range
  <2> QED BY <2>2, <1>6
<1> QED BY <1>1, <1>4, <1>7, <1>8 DEF m

\* The bounds of the model are numbers, and no sequence has the id None.
LEMMA Numbers ==
    /\ Cardinality(Seqs) \in Nat /\ Seqs \subseteq Nat \ {0} /\ None \notin Seqs
    /\ \A s \in Nat : s \in Seqs <=> 1 <= s /\ s <= Cardinality(Seqs)
    /\ MaxDrain \in Nat \ {0} /\ QueueCapacity \in Nat
<1>1. IsFiniteSet(Seqs) BY EngineAssumption
<1>2. Cardinality(Seqs) \in Nat BY <1>1, FS_CardinalityType
<1>3. Seqs = 1..Cardinality(Seqs) BY EngineAssumption
<1> DEFINE n == Cardinality(Seqs)
<1> HIDE DEF n
<1>4. n \in Nat /\ Seqs = 1..n BY <1>2, <1>3 DEF n
<1>5. /\ n \in Nat /\ Seqs \subseteq Nat \ {0} /\ None \notin Seqs
      /\ \A s \in Nat : s \in Seqs <=> 1 <= s /\ s <= n
  BY <1>4 DEF None
<1> QED BY <1>5, EngineAssumption DEF n

\* The lists of the row.
LEMMA RowTypes ==
    ASSUME EngineTypeOK
    PROVE  /\ active_ \in Seq(Seqs) /\ waiting_ \in Seq(Seqs)
           /\ Line \in Seq(Seqs) /\ Hand \in Seq(Seqs) /\ Items \in Seq(Seqs)
           /\ Line \o Hand \in Seq(Seqs)
           /\ queue \in Seq(Q!Entry) /\ Len(queue) \in Nat
           /\ DOMAIN queue = 1..Len(queue) /\ Len(Items) = Len(queue)
           /\ \A k \in 1..Len(queue) :
                 queue[k] \in Q!Entry /\ queue[k].item \in Seqs /\ Items[k] = queue[k].item
           /\ Pipeline = (Line \o Hand) \o Items /\ Pipeline \in Seq(Seqs)
           /\ Range(active_) \subseteq Range(Pipeline)
           /\ Range(Line) \subseteq Range(Pipeline)
<1>1. active_ \in Seq(Seqs) /\ waiting_ \in Seq(Seqs) BY DEF EngineTypeOK, TypeOK
<1>2. Hand \in Seq(Seqs)
  <2>1. CASE popped = None
    <3>1. Hand = << >> BY <2>1 DEF Hand
    <3> QED BY <3>1, EmptySeq
  <2>2. CASE popped # None
    <3>1. popped \in Seqs /\ Hand = <<popped>> BY <2>2 DEF Hand, EngineTypeOK
    <3> QED BY <3>1
  <2> QED BY <2>1, <2>2
<1>3. queue \in Seq(Q!Entry) BY DEF EngineTypeOK, Q!TypeOK
<1>4. Len(queue) \in Nat /\ DOMAIN queue = 1..Len(queue) BY <1>3, LenProperties
<1>5. \A k \in 1..Len(queue) : queue[k] \in Q!Entry BY <1>3, ElementOfSeq
<1>6. \A k \in 1..Len(queue) : queue[k].item \in Seqs BY <1>5 DEF Q!Entry
<1>7. Items = [k \in 1..Len(queue) |-> queue[k].item] BY <1>4 DEF Items
<1>8. /\ Items \in Seq(Seqs) /\ Len(Items) = Len(queue)
      /\ \A k \in 1..Len(queue) : Items[k] = queue[k].item
  <2>1. Items \in [1..Len(queue) -> Seqs] BY <1>6, <1>7
  <2>2. Items \in Seq(Seqs) BY <2>1, <1>4
  <2>3. DOMAIN Items = 1..Len(queue) /\ DOMAIN Items = 1..Len(Items) BY <2>1, <2>2, LenProperties
  <2>4. Len(Items) = Len(queue) BY <2>1, <2>2, <1>4
  <2> QED BY <2>2, <2>4, <1>7
<1>9. /\ Line \in Seq(Seqs) /\ Range(active_) \subseteq Range(Line)
  BY <1>1, RowRange DEF Line
<1>10. Line \o Hand \in Seq(Seqs) /\ Range(Line) \subseteq Range(Line \o Hand)
  BY <1>2, <1>9, RowRange
<1>11. /\ (Line \o Hand) \o Items \in Seq(Seqs)
       /\ Range(Line \o Hand) \subseteq Range((Line \o Hand) \o Items)
  BY <1>8, <1>10, RowRange
<1>12. Pipeline = (Line \o Hand) \o Items BY DEF Pipeline, Line, Hand, Items
<1> QED BY <1>1, <1>2, <1>3, <1>4, <1>5, <1>6, <1>8, <1>9, <1>10, <1>11, <1>12

-----------------------------------------------------------------------------
(* What the steps do to the pipeline *)

\* The items of a queue, elementwise.
LEMMA ItemsOf ==
    ASSUME NEW q \in Seq(Q!Entry), NEW a \in Seq(Seqs), Len(a) = Len(q),
           \A k \in 1..Len(q) : a[k] = q[k].item
    PROVE  [k \in DOMAIN q |-> q[k].item] = a
<1>1. DOMAIN q = 1..Len(q) /\ DOMAIN a = 1..Len(q) BY LenProperties
<1>2. a = [k \in 1..Len(q) |-> a[k]] BY LenProperties
<1> QED BY <1>1, <1>2

\* A push claims the last place.
LEMMA ClaimedRow ==
    ASSUME EngineTypeOK, NEW s \in Seqs, Q!Claim(s), UNCHANGED <<active_, waiting_, popped>>
    PROVE  Pipeline' = Append(Pipeline, s) /\ Q!TypeOK'
<1> DEFINE e == [item |-> s, ready |-> FALSE]
           n == Len(queue)
<1>1. queue' = Append(queue, e) /\ e \in Q!Entry /\ e.item = s BY DEF Q!Claim, Q!Entry
<1>2. queue \in Seq(Q!Entry) /\ Items \in Seq(Seqs) /\ Len(Items) = n /\ n \in Nat
  BY RowTypes
<1> HIDE DEF e, n
<1>3. /\ queue' \in Seq(Q!Entry) /\ Len(queue') = n + 1 /\ queue'[n + 1] = e
      /\ \A k \in 1..n : queue'[k] = queue[k]
  BY <1>1, <1>2, AppendProperties DEF n
<1>4. /\ Append(Items, s) \in Seq(Seqs) /\ Len(Append(Items, s)) = n + 1
      /\ Append(Items, s)[n + 1] = s
      /\ \A k \in 1..n : Append(Items, s)[k] = Items[k]
  BY <1>2, AppendProperties
<1>5. \A k \in 1..(n + 1) : Append(Items, s)[k] = queue'[k].item
  <2>1. \A k \in 1..n : Items[k] = queue[k].item BY RowTypes DEF n
  <2>2. \A k \in 1..(n + 1) : k \in 1..n \/ k = n + 1 BY <1>2
  <2> QED BY <2>1, <2>2, <1>1, <1>3, <1>4
<1>6. Items' = Append(Items, s) BY <1>3, <1>4, <1>5, ItemsOf DEF Items
<1>7. Line' = Line /\ Hand' = Hand BY DEF Line, Hand
<1>8. Pipeline' = (Line' \o Hand') \o Items' BY DEF Pipeline, Line, Hand, Items
<1>9. Pipeline' = (Line \o Hand) \o Append(Items, s) BY <1>6, <1>7, <1>8
<1>10. (Line \o Hand) \o Append(Items, s) = Append((Line \o Hand) \o Items, s)
  <2>1. Line \o Hand \in Seq(Seqs) /\ Items \in Seq(Seqs) BY RowTypes
  <2> DEFINE p == Line \o Hand
  <2> HIDE DEF p
  <2>2. p \in Seq(Seqs) BY <2>1 DEF p
  <2>3. p \o Append(Items, s) = Append(p \o Items, s) BY <2>1, <2>2, AppendToRow
  <2> QED BY <2>3 DEF p
<1> QED BY <1>3, <1>9, <1>10, RowTypes DEF Q!TypeOK

\* Publishing is not seen in the pipeline.
LEMMA PublishedRow ==
    ASSUME EngineTypeOK, NEW k \in 1..Len(queue), Q!Publish(k),
           UNCHANGED <<active_, waiting_, popped>>
    PROVE  Pipeline' = Pipeline /\ Q!TypeOK'
<1> DEFINE e == [queue[k] EXCEPT !.ready = TRUE]
<1>1. queue' = [queue EXCEPT ![k] = e] BY DEF Q!Publish
<1>2. queue \in Seq(Q!Entry) /\ queue[k] \in Q!Entry BY RowTypes
<1>3. e \in Q!Entry /\ e.item = queue[k].item BY <1>2 DEF Q!Entry
<1> HIDE DEF e
<1>4. /\ queue' \in Seq(Q!Entry) /\ Len(queue') = Len(queue)
      /\ \A j \in 1..Len(queue) : queue'[j] = IF j = k THEN e ELSE queue[j]
  BY <1>1, <1>2, <1>3, ExceptSeq
<1>5. \A j \in 1..Len(queue') : Items[j] = queue'[j].item BY <1>3, <1>4, RowTypes
<1>6. Items' = Items
  <2>1. Items \in Seq(Seqs) /\ Len(Items) = Len(queue') BY <1>4, RowTypes
  <2>2. [j \in DOMAIN queue' |-> queue'[j].item] = Items BY <2>1, <1>4, <1>5, ItemsOf
  <2> QED BY <2>2 DEF Items
<1>7. Line' = Line /\ Hand' = Hand BY DEF Line, Hand
<1>8. Pipeline' = (Line' \o Hand') \o Items' BY DEF Pipeline, Line, Hand, Items
<1> QED BY <1>4, <1>6, <1>7, <1>8, RowTypes DEF Q!TypeOK

\* try_pop takes the oldest sequence out of the queue, not out of the row.
LEMMA PoppedRow ==
    ASSUME EngineTypeOK, Q!Take, popped = None, popped' = Head(queue).item,
           UNCHANGED <<active_, waiting_>>
    PROVE  Pipeline' = Pipeline /\ Q!TypeOK' /\ popped' \in Seqs
<1>1. queue # << >> /\ queue' = Tail(queue) BY DEF Q!Take
<1>2. /\ queue \in Seq(Q!Entry) /\ Items \in Seq(Seqs) /\ Len(Items) = Len(queue)
      /\ Line \in Seq(Seqs)
      /\ \A k \in 1..Len(queue) : Items[k] = queue[k].item
  BY RowTypes
<1>3. Len(queue) \in Nat \ {0} /\ Items # << >>
  BY <1>1, <1>2, EmptySeq
<1>4. /\ queue' \in Seq(Q!Entry) /\ Len(queue') = Len(queue) - 1
      /\ \A k \in 1..(Len(queue) - 1) : queue'[k] = queue[k + 1]
  BY <1>1, <1>2, <1>3, HeadTailProperties
<1>5. /\ Tail(Items) \in Seq(Seqs) /\ Len(Tail(Items)) = Len(queue) - 1
      /\ \A k \in 1..(Len(queue) - 1) : Tail(Items)[k] = Items[k + 1]
      /\ Head(Items) = Items[1] /\ Head(Items) \in Seqs
  BY <1>2, <1>3, HeadTailProperties
<1>6. \A k \in 1..(Len(queue) - 1) : k + 1 \in 1..Len(queue) BY <1>3
<1>7. Items' = Tail(Items)
  <2>1. \A k \in 1..Len(queue') : Tail(Items)[k] = queue'[k].item
    BY <1>2, <1>4, <1>5, <1>6
  <2> QED BY <2>1, <1>4, <1>5, ItemsOf DEF Items
<1>8. popped' = Head(Items) BY <1>2, <1>3, <1>5
<1>9. Line' = Line /\ Hand = << >> /\ Hand' = <<Head(Items)>>
  BY <1>5, <1>8, Numbers DEF Line, Hand
<1>10. Pipeline = (Line \o << >>) \o Items BY <1>9, RowTypes
<1>11. Pipeline' = (Line \o <<Head(Items)>>) \o Tail(Items)
  BY <1>7, <1>9 DEF Pipeline, Line, Hand, Items
<1>12. Line \o << >> = Line BY <1>2, ConcatEmptySeq
<1>13. Line \o <<Head(Items)>> = Append(Line, Head(Items)) BY <1>2, <1>5
<1>14. Append(Line, Head(Items)) \o Tail(Items) = Line \o Items
  BY <1>2, <1>3, MoveInRow
<1> QED BY <1>4, <1>5, <1>8, <1>10, <1>11, <1>12, <1>13, <1>14 DEF Q!TypeOK

\* The sequence taken out of the queue joins the waiting ones.
LEMMA AdmittedRow ==
    ASSUME EngineTypeOK, popped # None, popped' = None, admit(popped),
           UNCHANGED <<active_, queue>>
    PROVE  Pipeline' = Pipeline /\ waiting_' \in Seq(Seqs)
<1>1. popped \in Seqs /\ waiting_' = Append(waiting_, popped)
  BY DEF EngineTypeOK, admit
<1>2. /\ active_ \in Seq(Seqs) /\ waiting_ \in Seq(Seqs) /\ Line \in Seq(Seqs)
      /\ Pipeline = (Line \o Hand) \o Items
  BY RowTypes
<1>3. Line' = Append(Line, popped) BY <1>1, <1>2, AppendToRow DEF Line
<1>4. Hand = <<popped>> /\ Hand' = << >> /\ Items' = Items BY DEF Hand, Items
<1>5. Pipeline' = (Line' \o << >>) \o Items BY <1>4 DEF Pipeline, Line, Hand, Items
<1>6. Append(Line, popped) \in Seq(Seqs) BY <1>1, <1>2, AppendProperties
<1>7. Append(Line, popped) \o << >> = Append(Line, popped) BY <1>6, ConcatEmptySeq
<1>8. Line \o <<popped>> = Append(Line, popped) BY <1>1, <1>2
<1>9. waiting_' \in Seq(Seqs) BY <1>1, <1>2, AppendProperties
<1> QED BY <1>2, <1>3, <1>4, <1>5, <1>7, <1>8, <1>9

-----------------------------------------------------------------------------
(* What an iteration of step() does *)

\* step() works on one sequence of its deques, and what it reports of it is the
\* phase it leaves it in; a sequence that finishes leaves the row.
Worked(s) ==
    /\ s \in Seqs /\ s \in Range(Line)
    /\ \A t \in Seqs \ {s} : /\ phase'[t] = phase[t] /\ cursor'[t] = cursor[t]
                             /\ generated'[t] = generated[t]
    /\ phase'[s] \in {"PREFILL", "DECODE", "FINISHED"}
    /\ Rank[phase[s]] <= Rank[phase'[s]]
    /\ \/ results' = results
       \/ \E n \in Nat : results' = Append(results, [seq_id |-> s, tokens |-> n,
                                                     phase_after |-> phase'[s]])
    /\ IF phase'[s] = "FINISHED"
       THEN \E e \in 1..Len(Line) : Line[e] = s /\ Without(Seqs, Line, e, Line')
       ELSE Line' = Line

\* The steps of a phase.
LEMMA RankFacts ==
    /\ Rank["unknown"] = 0 /\ Rank["none"] = 0 /\ Rank["PREFILL"] = 1
    /\ Rank["DECODE"] = 2 /\ Rank["FINISHED"] = 3
BY DEF Rank

\* The sequence a pass over active_ stands at.
LEMMA AtActive ==
    ASSUME IInv, NEW p, NEW s \in Seqs, At(p, s)
    PROVE  /\ it \in 1..Len(active_) /\ active_[it] = s /\ s \in Range(Line)
           /\ it \in 1..Len(Line) /\ Line[it] = s
<1>1. /\ active_ \in Seq(Seqs) /\ waiting_ \in Seq(Seqs)
      /\ DOMAIN active_ = 1..Len(active_) /\ Len(active_) \in Nat
  BY DequeTypes DEF IInv, TypeOK
<1>2. it \in 1..Len(active_) /\ active_[it] = s BY <1>1 DEF At, IInv, TypeOK
<1>3. s \in Range(active_) BY <1>1, <1>2 DEF Range
<1>4. s \in Range(Line) /\ Line[it] = s BY <1>1, <1>2, <1>3, RowRange DEF Line
<1>5. Len(Line) = Len(active_) + Len(waiting_) /\ Len(waiting_) \in Nat
  BY <1>1, ConcatProperties, LenProperties DEF Line
<1>6. it \in 1..Len(Line) BY <1>1, <1>2, <1>5
<1> QED BY <1>2, <1>4, <1>6

\* A chunk was prefilled.
LEMMA ChunkWorked ==
    ASSUME IInv, NEW s \in Seqs, budget > 0, s \in Range(Line), ChunkDone(s), Line' = Line
    PROVE  Worked(s)
<1>1. /\ phase[s] = "PREFILL" /\ UNCHANGED generated
      /\ phase'[s] \in {"PREFILL", "DECODE"}
      /\ \A t \in Seqs \ {s} : phase'[t] = phase[t] /\ cursor'[t] = cursor[t]
      /\ \E n \in 1..budget : Report(s, n)
  BY ChunkFacts
<1>2. \E n \in Nat : results' = Append(results, [seq_id |-> s, tokens |-> n,
                                                 phase_after |-> phase'[s]])
  <2>1. PICK n \in 1..budget : Report(s, n) BY <1>1
  <2>2. n \in Nat BY DEF IInv, TypeOK
  <2> QED BY <2>1, <2>2 DEF Report
<1>3. Rank[phase[s]] <= Rank[phase'[s]] BY <1>1, RankFacts
<1> QED BY <1>1, <1>2, <1>3 DEF Worked

\* do_prefill_chunk had nothing to do or no blocks.
LEMMA RefusedWorked ==
    ASSUME IInv, NEW s \in Seqs, s \in Unfinished, s \in Range(Line), ChunkRefused(s),
           Line' = Line
    PROVE  Worked(s)
<1>1. phase[s] \in {"PREFILL", "DECODE"} /\ phase \in [Seqs -> Phases]
  BY DEF Unfinished, IInv, TypeOK
<1>2. UNCHANGED <<cursor, generated, results>> BY DEF ChunkRefused
<1>3. phase' = phase \/ phase' = [phase EXCEPT ![s] = "DECODE"]
  BY DEF ChunkRefused, transition_to
<1>4. /\ phase'[s] \in {phase[s], "DECODE"}
      /\ \A t \in Seqs \ {s} : phase'[t] = phase[t]
  BY <1>1, <1>3
<1>5. Rank[phase[s]] <= Rank[phase'[s]] BY <1>1, <1>4, RankFacts
<1> QED BY <1>1, <1>2, <1>4, <1>5 DEF Worked

\* A token was decoded.
LEMMA DecodeWorked ==
    ASSUME IInv, NEW s \in Seqs, DecodeToken(s) \/ DecodeFinish(s)
    PROVE  Worked(s)
<1>0. /\ At("decode", s) /\ phase[s] = "DECODE" /\ Report(s, 1)
      /\ generated' = [generated EXCEPT ![s] = generated[s] + 1] /\ UNCHANGED cursor
  BY DEF DecodeToken, DecodeFinish, GenerateToken
<1>1. /\ phase \in [Seqs -> Phases] /\ generated \in [Seqs -> Nat]
      /\ active_ \in Seq(Seqs) /\ waiting_ \in Seq(Seqs)
  BY DEF IInv, TypeOK
<1>2. /\ it \in 1..Len(active_) /\ s \in Range(Line) /\ it \in 1..Len(Line)
      /\ Line[it] = s
  BY <1>0, AtActive
<1>3. \A t \in Seqs \ {s} : cursor'[t] = cursor[t] /\ generated'[t] = generated[t]
  BY <1>0, <1>1
<1>4. \E n \in Nat : results' = Append(results, [seq_id |-> s, tokens |-> n,
                                                 phase_after |-> phase'[s]])
  BY <1>0 DEF Report
<1>5. CASE DecodeToken(s)
  <2>1. phase' = phase /\ Line' = Line
    BY <1>5 DEF DecodeToken, Advance, queueVars, Line
  <2> QED BY <2>1, <1>0, <1>2, <1>3, <1>4, RankFacts DEF Worked
<1>6. CASE DecodeFinish(s)
  <2>1. /\ phase' = [phase EXCEPT ![s] = "FINISHED"] /\ waiting_' = waiting_
        /\ active_' = SubSeq(active_, 1, it - 1) \o SubSeq(active_, it + 1, Len(active_))
    BY <1>6 DEF DecodeFinish, transition_to
  <2>2. phase'[s] = "FINISHED" /\ \A t \in Seqs \ {s} : phase'[t] = phase[t]
    BY <2>1, <1>1
  <2>3. Without(Seqs, active_, it, active_') BY <2>1, <1>1, <1>2, EraseWithout
  <2>4. Without(Seqs, active_ \o waiting_, it, active_' \o waiting_)
    BY <2>3, <1>1, EraseInRow
  <2>5. Without(Seqs, Line, it, Line') BY <2>1, <2>4 DEF Line
  <2> QED BY <2>2, <2>5, <1>0, <1>2, <1>3, <1>4, RankFacts DEF Worked
<1> QED BY <1>5, <1>6 DEF DecodeToken, DecodeFinish

\* Every iteration of step().
LEMMA StepEffect ==
    ASSUME IInv, Range(Line) \subseteq Unfinished, Step, pass # "idle"
    PROVE  \/ UNCHANGED <<phase, cursor, generated, results, active_, waiting_>>
           \/ \E s \in Seqs : Worked(s)
<1>1. CASE StepBegin \/ DecodeEnd \/ PrefillEnd \/ AdmitEnd
  BY <1>1 DEF StepBegin, DecodeEnd, PrefillEnd, LoopEnd, AdmitEnd, seqVars, queueVars
<1>2. ASSUME NEW s \in Seqs, DecodeSkip(s) \/ PrefillSkip(s)
      PROVE  UNCHANGED <<phase, cursor, generated, results, active_, waiting_>>
  BY <1>2 DEF DecodeSkip, PrefillSkip, Advance, seqVars, queueVars
<1>3. ASSUME NEW s \in Seqs, DecodeToken(s) \/ DecodeFinish(s) PROVE Worked(s)
  BY <1>3, DecodeWorked
<1>4. ASSUME NEW s \in Seqs, PrefillRefused(s) \/ PrefillChunk(s) PROVE Worked(s)
  <2>1. At("prefill", s) /\ Line' = Line /\ (ChunkRefused(s) \/ ChunkDone(s))
    BY <1>4 DEF PrefillRefused, PrefillChunk, Advance, queueVars, Line
  <2>2. budget > 0 /\ s \in Range(Line) BY <2>1, AtActive DEF At
  <2> QED BY <2>1, <2>2, ChunkWorked, RefusedWorked
<1>5. ASSUME NEW s \in Seqs, AdmitChunk(s) \/ AdmitRefused(s) PROVE Worked(s)
  <2>0. active_ \in Seq(Seqs) /\ waiting_ \in Seq(Seqs) BY DEF IInv, TypeOK
  <2>1. /\ budget > 0 /\ waiting_ # << >> /\ s = Head(waiting_)
        /\ ChunkRefused(s) \/ ChunkDone(s)
    BY <1>5 DEF AdmitChunk, AdmitRefused
  <2>2. Line' = Line
    <3>1. CASE AdmitChunk(s)
      <4>1. waiting_' = Tail(waiting_) /\ active_' = Append(active_, Head(waiting_))
        BY <3>1 DEF AdmitChunk
      <4> QED BY <4>1, <2>0, <2>1, MoveInRow DEF Line
    <3>2. CASE AdmitRefused(s) BY <3>2 DEF AdmitRefused, queueVars, Line
    <3> QED BY <1>5, <3>1, <3>2
  <2>3. s \in Range(waiting_)
    <3>1. 1 \in DOMAIN waiting_ /\ Head(waiting_) = waiting_[1]
      BY <2>0, <2>1, EmptySeq, LenProperties
    <3> QED BY <3>1, <2>1 DEF Range
  <2>4. s \in Range(Line) BY <2>0, <2>3, RowRange DEF Line
  <2> QED BY <2>1, <2>2, <2>4, ChunkWorked, RefusedWorked
<1> QED BY <1>1, <1>2, <1>3, <1>4, <1>5 DEF Step

-----------------------------------------------------------------------------
(* The engine loop outside of step() *)

\* Phases, as /status and the scheduler see them.
LEMMA PhaseRanks ==
    ASSUME EngineInv, NEW s \in Seqs
    PROVE  /\ phase[s] \in {"none", "PREFILL", "DECODE", "FINISHED"}
           /\ status[s] \in {"unknown", "PREFILL", "DECODE", "FINISHED"}
           /\ phase[s] = "none" => status[s] = "unknown"
           /\ phase[s] # "none" => Rank["PREFILL"] <= Rank[phase[s]]
<1>1. /\ phase[s] \in {"none", "PREFILL", "DECODE", "FINISHED"}
      /\ status[s] \in {"unknown", "PREFILL", "DECODE", "FINISHED"}
  BY DEF EngineInv, EngineTypeOK, TypeOK, Phases
<1>2. Rank[status[s]] <= Rank[phase[s]] BY DEF EngineInv, StatusNeverAhead
<1>3. phase[s] = "none" => status[s] = "unknown" BY <1>1, <1>2, RankFacts
<1>4. phase[s] # "none" => Rank["PREFILL"] <= Rank[phase[s]] BY <1>1, RankFacts
<1> QED BY <1>1, <1>3, <1>4

\* Steps that change no sequence, no answer and no status.
LEMMA QuietInv ==
    ASSUME EngineInv, UNCHANGED <<seqVars, free_blocks, tables, ingressVars, status>>,
           Pipeline' = Pipeline, EngineTypeOK', DrainInv',
           results' = results \/ results' = << >>
    PROVE  EngineInv'
<1>0. UNCHANGED <<phase, cursor, generated, next_seq_id, handler, hseq, accepted,
                  rejected, status>>
  BY DEF seqVars, ingressVars
<1>1. IInv' BY LoopInv DEF EngineInv, EngineTypeOK
<1>2. Pushing' = Pushing /\ Unfinished' = Unfinished BY <1>0 DEF Pushing, Unfinished
<1>3. HandlersInv' BY <1>0, <1>2 DEF EngineInv, HandlersInv
<1>4. IdsInv' BY <1>0 DEF EngineInv, IdsInv
<1>5. PipelineInv' BY <1>2 DEF EngineInv, PipelineInv
<1>6. ReportedInv' BY <1>0, <1>2 DEF EngineInv, ReportedInv
<1>7. StatusNeverAhead' BY <1>0 DEF EngineInv, StatusNeverAhead
<1> QED BY <1>0, <1>1, <1>3, <1>4, <1>5, <1>6, <1>7 DEF EngineInv

\* The loop takes a sequence out of the ingress queue.
LEMMA DrainPopInv ==
    ASSUME EngineInv, DrainPop
    PROVE  EngineInv'
<1>0. /\ loop = "drain" /\ popped = None /\ drained < MaxDrain /\ Q!Take
      /\ popped' = Head(queue).item
      /\ UNCHANGED <<vars, ingressVars, loop, drained, g_shutdown, status>>
  BY DEF DrainPop
<1>1. UNCHANGED <<seqVars, free_blocks, tables, results, active_, waiting_>>
  BY <1>0 DEF vars, queueVars
<1>2. Pipeline' = Pipeline /\ Q!TypeOK' /\ popped' \in Seqs
  BY <1>0, <1>1, PoppedRow DEF EngineInv
<1>3. EngineTypeOK'
  <2>1. TypeOK'
    BY <1>0 DEF EngineInv, EngineTypeOK, TypeOK, PTTypeOK, vars, seqVars, queueVars
  <2> QED BY <2>1, <1>0, <1>2 DEF EngineInv, EngineTypeOK, ingressVars
<1>4. DrainInv' BY <1>0 DEF DrainInv
<1> QED BY <1>0, <1>1, <1>2, <1>3, <1>4, QuietInv

\* ... and gives it to the scheduler.
LEMMA DrainAdmitInv ==
    ASSUME EngineInv, DrainAdmit
    PROVE  EngineInv'
<1>0. /\ loop = "drain" /\ popped # None /\ admit(popped)
      /\ popped' = None /\ drained' = drained + 1
      /\ UNCHANGED <<seqVars, active_, free_blocks, tables, pass, it, budget, results,
                     ingressVars, loop, g_shutdown, queue, status>>
  BY DEF DrainAdmit
<1>1. Pipeline' = Pipeline /\ waiting_' \in Seq(Seqs)
  BY <1>0, AdmittedRow DEF EngineInv
<1>2. EngineTypeOK'
  <2>1. TypeOK' BY <1>0, <1>1 DEF EngineInv, EngineTypeOK, TypeOK, PTTypeOK, seqVars
  <2>2. drained' \in 0..MaxDrain
    <3>1. drained \in 0..MaxDrain /\ drained < MaxDrain /\ MaxDrain \in Nat
      BY <1>0, Numbers DEF EngineInv, EngineTypeOK, DrainInv
    <3> QED BY <3>1, <1>0
  <2>3. Q!TypeOK' BY <1>0 DEF EngineInv, EngineTypeOK, Q!TypeOK
  <2> QED BY <2>1, <2>2, <2>3, <1>0 DEF EngineInv, EngineTypeOK, ingressVars
<1>3. DrainInv' BY <1>0 DEF DrainInv
<1> QED BY <1>0, <1>1, <1>2, <1>3, QuietInv

\* step() starts, the loop starts over, or a signal arrives.
LEMMA LoopMovesInv ==
    ASSUME EngineInv, DrainEnd \/ LoopAgain \/ Signal
    PROVE  EngineInv'
<1>0. /\ UNCHANGED <<seqVars, queueVars, free_blocks, tables, ingressVars, popped,
                     queue, status>>
      /\ results' = results \/ results' = << >>
      /\ loop' \in {"drain", "step", "upsert", "exit"} /\ g_shutdown' \in BOOLEAN
      /\ drained' \in {0, drained} /\ TypeOK' /\ DrainInv'
  <2>0. /\ TypeOK /\ loop \in {"drain", "step", "upsert", "exit"} /\ DrainInv
        /\ g_shutdown \in BOOLEAN
    BY DEF EngineInv, EngineTypeOK
  <2>1. CASE DrainEnd
    <3>1. /\ popped = None /\ loop' = "step" /\ pass' = "decode" /\ it' = 1
          /\ budget' = MaxBatchTokens /\ results' = << >>
          /\ UNCHANGED <<seqVars, queueVars, free_blocks, tables,
                         ingressVars, drained, popped, g_shutdown, queue, status>>
      BY <2>1 DEF DrainEnd, StepBegin
    <3>2. TypeOK'
      <4>1. << >> \in Seq([seq_id : Seqs, tokens : Nat, phase_after : Phases])
        BY EmptySeq
      <4> QED BY <4>1, <3>1, <2>0, ConfigAssumption
              DEF TypeOK, PTTypeOK, Passes, seqVars, queueVars
    <3> QED BY <3>1, <3>2, <2>0 DEF DrainInv
  <2>2. CASE LoopAgain
    <3>1. /\ loop = "upsert" /\ loop' \in {"exit", "drain"} /\ drained' = 0
          /\ UNCHANGED <<vars, ingressVars, popped, g_shutdown, queue, status>>
      BY <2>2 DEF LoopAgain
    <3>2. UNCHANGED <<seqVars, queueVars, free_blocks, tables, results>> BY <3>1 DEF vars
    <3>3. TypeOK' BY <3>1, <2>0 DEF TypeOK, PTTypeOK, vars, seqVars, queueVars
    <3> QED BY <3>1, <3>2, <3>3, <2>0 DEF DrainInv
  <2>3. CASE Signal
    <3>1. /\ g_shutdown' = TRUE
          /\ UNCHANGED <<vars, ingressVars, loop, drained, popped, queue, status>>
      BY <2>3 DEF Signal
    <3>2. UNCHANGED <<seqVars, queueVars, free_blocks, tables, results>> BY <3>1 DEF vars
    <3>3. TypeOK' BY <3>1, <2>0 DEF TypeOK, PTTypeOK, vars, seqVars, queueVars
    <3> QED BY <3>1, <3>2, <3>3, <2>0 DEF DrainInv
  <2> QED BY <2>1, <2>2, <2>3
<1>1. Pipeline' = Pipeline BY <1>0 DEF Pipeline, queueVars
<1>2. EngineTypeOK'
  <2>1. drained' \in 0..MaxDrain BY <1>0, Numbers DEF EngineInv, EngineTypeOK
  <2>2. Q!TypeOK' BY <1>0 DEF EngineInv, EngineTypeOK, Q!TypeOK
  <2> QED BY <2>1, <2>2, <1>0 DEF EngineInv, EngineTypeOK, ingressVars
<1> QED BY <1>0, <1>1, <1>2, QuietInv

\* A result goes to the status table: nothing that did not happen.
LEMMA UpsertResultInv ==
    ASSUME EngineInv, UpsertResult
    PROVE  EngineInv'
<1> DEFINE Rec == [seq_id : Seqs, tokens : Nat, phase_after : Phases]
<1>0. /\ loop = "upsert" /\ results # << >> /\ results \in Seq(Rec)
      /\ status' = [status EXCEPT ![Head(results).seq_id] = Head(results).phase_after]
      /\ results' = Tail(results)
      /\ UNCHANGED <<seqVars, queueVars, free_blocks, tables, pass, it, budget,
                     ingressVars, engineVars, queue>>
  BY DEF UpsertResult, upsert, EngineInv, EngineTypeOK, TypeOK
<1>1. PICK s, ph : s = Head(results).seq_id /\ ph = Head(results).phase_after OBVIOUS
<1>2. /\ Head(results) \in Rec /\ Head(results) = results[1] /\ 1 \in DOMAIN results
      /\ results' \in Seq(Rec)
      /\ \A k \in DOMAIN results' : k + 1 \in DOMAIN results /\ results'[k] = results[k + 1]
  <2> HIDE DEF Rec
  <2>1. Len(results) \in Nat \ {0} /\ DOMAIN results = 1..Len(results)
    BY <1>0, EmptySeq, LenProperties
  <2>2. /\ Head(results) \in Rec /\ Tail(results) \in Seq(Rec)
        /\ Len(Tail(results)) = Len(results) - 1
        /\ \A k \in 1..Len(Tail(results)) : Tail(results)[k] = results[k + 1]
    BY <1>0, HeadTailProperties
  <2>3. DOMAIN results' = 1..(Len(results) - 1) BY <2>2, <1>0, LenProperties
  <2>4. Head(results) = results[1] BY <1>0
  <2>5. \A k \in 1..(Len(results) - 1) : k + 1 \in 1..Len(results) BY <2>1
  <2> QED BY <2>1, <2>2, <2>3, <2>4, <2>5, <1>0
<1>3. s \in Seqs /\ ph \in Phases BY <1>1, <1>2
<1>4. s \notin Pushing /\ ph # "none" /\ Rank[ph] <= Rank[phase[s]]
  BY <1>1, <1>2 DEF EngineInv, ReportedInv
<1>5. ph \in {"PREFILL", "DECODE", "FINISHED"} BY <1>3, <1>4 DEF Phases
<1>6. status \in [Seqs -> {"unknown", "PREFILL", "DECODE", "FINISHED"}]
  BY DEF EngineInv, EngineTypeOK
<1>7. /\ status'[s] = ph /\ \A t \in Seqs \ {s} : status'[t] = status[t]
      /\ status' \in [Seqs -> {"unknown", "PREFILL", "DECODE", "FINISHED"}]
  BY <1>0, <1>1, <1>3, <1>5, <1>6
<1>a. UNCHANGED <<phase, cursor, generated, next_seq_id, handler, hseq, accepted,
                  rejected, active_, waiting_, popped, loop, drained, queue>>
  BY <1>0 DEF seqVars, queueVars, ingressVars, engineVars
<1>8. EngineTypeOK' /\ TypeOK'
  <2>1. TypeOK'
    BY <1>0, <1>2 DEF EngineInv, EngineTypeOK, TypeOK, PTTypeOK, seqVars, queueVars
  <2>2. Q!TypeOK' BY <1>0 DEF EngineInv, EngineTypeOK, Q!TypeOK
  <2> QED BY <2>1, <2>2, <1>0, <1>7 DEF EngineInv, EngineTypeOK, ingressVars, engineVars
<1>9. IInv' BY <1>0, <1>8, LoopInv DEF EngineInv
<1>10. Pushing' = Pushing /\ Unfinished' = Unfinished /\ Pipeline' = Pipeline
  BY <1>a DEF Pushing, Unfinished, Pipeline
<1>11. HandlersInv'
  <2>1. Pushing \subseteq Seqs
    BY DEF EngineInv, EngineTypeOK, HandlersInv, Pushing
  <2>2. \A t \in Pushing : status'[t] = status[t] BY <2>1, <1>4, <1>7
  <2> QED BY <2>2, <1>a, <1>10 DEF EngineInv, HandlersInv
<1>12. IdsInv' /\ PipelineInv' BY <1>a, <1>10 DEF EngineInv, IdsInv, PipelineInv
<1>13. ReportedInv' BY <1>2, <1>a, <1>10 DEF EngineInv, ReportedInv
<1>14. DrainInv' BY <1>a DEF EngineInv, DrainInv
<1>15. StatusNeverAhead' BY <1>4, <1>7, <1>a DEF EngineInv, StatusNeverAhead
<1>16. \A t \in accepted : status'[t] # "unknown"
  BY <1>5, <1>7 DEF EngineInv, EngineTypeOK
<1> QED BY <1>8, <1>9, <1>11, <1>12, <1>13, <1>14, <1>15, <1>16, <1>a DEF EngineInv

-----------------------------------------------------------------------------
(* step() *)

\* Erasing a sequence from the scheduler's lists, or doing nothing to them.
LEMMA StepRow ==
    ASSUME EngineTypeOK, UNCHANGED <<popped, queue>>
    PROVE  /\ Line' = Line => Pipeline' = Pipeline
           /\ \A e \in 1..Len(Line) : Without(Seqs, Line, e, Line') =>
                 /\ Without(Seqs, Pipeline, e, Pipeline')
                 /\ e \in 1..Len(Pipeline) /\ Pipeline[e] = Line[e]
<1>0. /\ Line \in Seq(Seqs) /\ Hand \in Seq(Seqs) /\ Items \in Seq(Seqs)
      /\ Line \o Hand \in Seq(Seqs) /\ Pipeline = (Line \o Hand) \o Items
  BY RowTypes
<1>1. Hand' = Hand /\ Items' = Items BY DEF Hand, Items
<1>2. Pipeline' = (Line' \o Hand') \o Items' BY DEF Pipeline, Line, Hand, Items
<1>3. Line' = Line => Pipeline' = Pipeline BY <1>0, <1>1, <1>2
<1>4. ASSUME NEW e \in 1..Len(Line), Without(Seqs, Line, e, Line')
      PROVE  /\ Without(Seqs, Pipeline, e, Pipeline')
             /\ e \in 1..Len(Pipeline) /\ Pipeline[e] = Line[e]
  <2>1. Without(Seqs, Line \o Hand, e, Line' \o Hand) BY <1>0, <1>4, EraseInRow
  <2>2. Without(Seqs, (Line \o Hand) \o Items, e, (Line' \o Hand) \o Items)
    <3> DEFINE p == Line \o Hand
               a == Line' \o Hand
    <3>1. p \in Seq(Seqs) /\ Without(Seqs, p, e, a) BY <2>1, <1>0
    <3> HIDE DEF p, a
    <3>2. Without(Seqs, p \o Items, e, a \o Items) BY <3>1, <1>0, EraseInRow
    <3> QED BY <3>2 DEF p, a
  <2>3. Without(Seqs, Pipeline, e, Pipeline') BY <2>2, <1>0, <1>1, <1>2
  <2>4. e \in 1..Len(Line \o Hand) BY <2>1 DEF Without
  <2>5. (Line \o Hand)[e] = Line[e] BY <1>0, RowRange
  <2>6. Pipeline[e] = (Line \o Hand)[e]
    <3> DEFINE p == Line \o Hand
    <3>1. p \in Seq(Seqs) /\ e \in 1..Len(p) BY <1>0, <2>4
    <3> HIDE DEF p
    <3>2. (p \o Items)[e] = p[e] BY <3>1, <1>0, RowRange
    <3> QED BY <3>2, <1>0 DEF p
  <2> QED BY <2>3, <2>5, <2>6 DEF Without
<1> QED BY <1>3, <1>4

\* The handlers' sequences are not the scheduler's.
LEMMA PushingFacts ==
    ASSUME EngineInv
    PROVE  /\ Pushing \subseteq Seqs /\ Range(Line) \subseteq Unfinished
           /\ Range(Line) \cap Pushing = {}
<1>1. Pushing \subseteq Seqs BY DEF EngineInv, EngineTypeOK, HandlersInv, Pushing
<1>2. Range(Line) \subseteq Range(Pipeline) BY RowTypes DEF EngineInv
<1> QED BY <1>1, <1>2 DEF EngineInv, PipelineInv

\* An iteration of step() within the engine.
LEMMA EngineStepInv ==
    ASSUME EngineInv, EngineStep
    PROVE  EngineInv'
<1>0. /\ loop = "step" /\ pass # "idle" /\ Step /\ loop' \in {"upsert", "step"}
      /\ UNCHANGED <<next_seq_id, handler, hseq, accepted, rejected, drained, popped,
                     g_shutdown, queue, status>>
  BY DEF EngineStep, ingressVars
<1>1. IInv /\ EngineTypeOK BY DEF EngineInv
<1>2. IInv' BY <1>0, <1>1, NextInv DEF Next
<1>3. EngineTypeOK'
  <2>1. TypeOK' BY <1>2 DEF IInv
  <2>2. Q!TypeOK' BY <1>0, <1>1 DEF EngineTypeOK, Q!TypeOK
  <2> QED BY <2>1, <2>2, <1>0, <1>1 DEF EngineTypeOK
<1>4. DrainInv' BY <1>0 DEF EngineInv, DrainInv
<1>5. Pushing' = Pushing BY <1>0 DEF Pushing
<1>6. CASE UNCHANGED <<phase, cursor, generated, results, active_, waiting_>>
  <2>1. Pipeline' = Pipeline /\ Unfinished' = Unfinished
    BY <1>0, <1>6 DEF Pipeline, Unfinished
  <2>2. HandlersInv' BY <1>0, <1>5, <1>6 DEF EngineInv, HandlersInv
  <2>3. IdsInv' /\ PipelineInv' BY <2>1, <1>0, <1>5, <1>6 DEF EngineInv, IdsInv, PipelineInv
  <2>4. ReportedInv' BY <1>5, <1>6 DEF EngineInv, ReportedInv
  <2>5. StatusNeverAhead' BY <1>0, <1>6 DEF EngineInv, StatusNeverAhead
  <2> QED BY <2>2, <2>3, <2>4, <2>5, <1>0, <1>2, <1>3, <1>4 DEF EngineInv
<1>7. ASSUME NEW s \in Seqs, Worked(s) PROVE EngineInv'
  <2>0. /\ s \in Range(Line)
        /\ \A t \in Seqs \ {s} : /\ phase'[t] = phase[t] /\ cursor'[t] = cursor[t]
                                 /\ generated'[t] = generated[t]
        /\ phase'[s] \in {"PREFILL", "DECODE", "FINISHED"}
        /\ Rank[phase[s]] <= Rank[phase'[s]]
    BY <1>7 DEF Worked
  <2>1. s \notin Pushing /\ s \in Unfinished /\ Pushing \subseteq Seqs
    BY <2>0, PushingFacts
  <2>2. phase[s] # "none" /\ phase'[s] # "none" BY <2>0, <2>1 DEF Unfinished
  <2>3. HandlersInv'
    <3>1. \A t \in Pushing : /\ phase'[t] = phase[t] /\ cursor'[t] = cursor[t]
                             /\ generated'[t] = generated[t]
      BY <2>0, <2>1
    <3> QED BY <3>1, <1>0, <1>5 DEF EngineInv, HandlersInv
  <2>4. IdsInv'
    <3>1. \A t \in Seqs : phase'[t] = "none" <=> phase[t] = "none" BY <2>0, <2>2
    <3> QED BY <3>1, <1>0 DEF EngineInv, IdsInv
  <2>5. \A t \in Seqs : Rank[phase[t]] <= Rank[phase'[t]]
    <3>1. \A t \in Seqs : Rank[phase[t]] \in Int
      BY PhaseRanks, RankFacts
    <3> QED BY <3>1, <2>0
  <2>r. /\ \A t \in Seqs : /\ Rank[phase[t]] \in Int /\ Rank[phase'[t]] \in Int
                           /\ Rank[status[t]] \in Int
    <3>1. \A t \in Seqs : phase'[t] \in Phases BY <1>2 DEF IInv, TypeOK
    <3> QED BY <3>1, PhaseRanks, RankFacts DEF Phases
  <2>6. StatusNeverAhead' BY <2>5, <2>r, <1>0 DEF EngineInv, StatusNeverAhead
  <2>7. ReportedInv'
    <3> DEFINE Rec == [seq_id : Seqs, tokens : Nat, phase_after : Phases]
    <3>1. results \in Seq(Rec) BY <1>1 DEF IInv, TypeOK
    <3>2. ASSUME NEW k \in DOMAIN results
          PROVE  /\ results[k].seq_id \notin Pushing /\ results[k].phase_after # "none"
                 /\ Rank[results[k].phase_after] <= Rank[phase'[results[k].seq_id]]
      <4>1. results[k] \in Rec BY <3>1, ElementOfSeq, LenProperties
      <4>2. results[k].seq_id \in Seqs /\ results[k].phase_after \in Phases BY <4>1
      <4>3. Rank[results[k].phase_after] \in Int BY <4>2, RankFacts DEF Phases
      <4>4. /\ results[k].seq_id \notin Pushing /\ results[k].phase_after # "none"
            /\ Rank[results[k].phase_after] <= Rank[phase[results[k].seq_id]]
        BY <3>2 DEF EngineInv, ReportedInv
      <4> QED BY <4>2, <4>3, <4>4, <2>5, <2>r
    <3>3. CASE results' = results BY <3>2, <3>3, <1>5 DEF ReportedInv
    <3>4. CASE \E n \in Nat : results' = Append(results,
                  [seq_id |-> s, tokens |-> n, phase_after |-> phase'[s]])
      <4>1. PICK x \in Rec : x.seq_id = s /\ x.phase_after = phase'[s]
                             /\ results' = Append(results, x)
        <5>1. PICK n \in Nat : results' = Append(results,
                  [seq_id |-> s, tokens |-> n, phase_after |-> phase'[s]])
          BY <3>4
        <5>2. [seq_id |-> s, tokens |-> n, phase_after |-> phase'[s]] \in Rec
          BY <2>0 DEF Phases
        <5> QED BY <5>1, <5>2
      <4> HIDE DEF Rec
      <4>2. /\ results' \in Seq(Rec) /\ Len(results') = Len(results) + 1
            /\ results'[Len(results) + 1] = x /\ Len(results) \in Nat
            /\ \A k \in 1..Len(results) : results'[k] = results[k]
        BY <3>1, <4>1, AppendProperties, LenProperties
      <4>3. DOMAIN results = 1..Len(results) /\ DOMAIN results' = 1..(Len(results) + 1)
        BY <4>2, <3>1, LenProperties
      <4>4. \A k \in DOMAIN results' : \/ k \in DOMAIN results /\ results'[k] = results[k]
                                       \/ results'[k] = x
        BY <4>2, <4>3
      <4>5. Rank[x.phase_after] <= Rank[phase'[x.seq_id]] BY <4>1, <2>r
      <4> QED BY <4>1, <4>4, <4>5, <3>2, <2>1, <2>2, <1>5 DEF ReportedInv
    <3> QED BY <3>3, <3>4, <1>7 DEF Worked
  <2>8. PipelineInv'
    <3>1. IsInjective(Pipeline) /\ Pipeline \in Seq(Seqs) BY <1>1, RowTypes DEF EngineInv, PipelineInv
    <3>2. CASE phase'[s] = "FINISHED"
      <4>1. PICK e \in 1..Len(Line) : Line[e] = s /\ Without(Seqs, Line, e, Line')
        BY <3>2, <1>7 DEF Worked
      <4>2. /\ Without(Seqs, Pipeline, e, Pipeline') /\ Pipeline[e] = s
        BY <4>1, <1>0, <1>1, StepRow
      <4>3. Range(Pipeline') = Range(Pipeline) \ {s} /\ IsInjective(Pipeline')
        BY <4>2, <3>1, WithoutRange
      <4>4. Unfinished' = Unfinished \ {s} BY <3>2, <2>0 DEF Unfinished
      <4> QED BY <4>3, <4>4, <2>1, <1>5 DEF EngineInv, PipelineInv
    <3>3. CASE phase'[s] # "FINISHED"
      <4>1. Line' = Line BY <3>3, <1>7 DEF Worked
      <4>2. Pipeline' = Pipeline BY <4>1, <1>0, <1>1, StepRow
      <4>3. Unfinished' = Unfinished BY <3>3, <2>0, <2>1 DEF Unfinished
      <4> QED BY <4>2, <4>3, <1>5 DEF EngineInv, PipelineInv
    <3> QED BY <3>2, <3>3
  <2> QED BY <2>3, <2>4, <2>6, <2>7, <2>8, <1>0, <1>2, <1>3, <1>4 DEF EngineInv
<1> QED BY <1>0, <1>1, <1>6, <1>7, PushingFacts, StepEffect

-----------------------------------------------------------------------------
(* POST /generate *)

\* The sequence of a handler within a request.
LEMMA HandlerFacts ==
    ASSUME EngineInv, NEW h \in Handlers, handler[h] # "idle"
    PROVE  /\ hseq[h] \in Seqs /\ hseq[h] # None /\ hseq[h] < next_seq_id
           /\ hseq[h] \notin accepted /\ hseq[h] \notin rejected
           /\ phase[hseq[h]] # "none"
           /\ hseq[h] \in Pushing <=> handler[h] = "push"
           /\ \A g \in Handlers \ {h} : hseq[g] # hseq[h]
<1>1. hseq[h] # None /\ hseq[h] \in Seqs
  BY DEF EngineInv, EngineTypeOK, HandlersInv
<1>2. /\ hseq[h] < next_seq_id /\ hseq[h] \notin accepted /\ hseq[h] \notin rejected
      /\ \A g \in Handlers \ {h} : hseq[g] # hseq[h]
  BY <1>1 DEF EngineInv, HandlersInv
<1>3. phase[hseq[h]] # "none"
  <2>1. hseq[h] \in Nat /\ next_seq_id \in Nat
    <3> DEFINE n == Cardinality(Seqs)
    <3>1. next_seq_id \in 1..(n + 1) BY DEF EngineInv, EngineTypeOK
    <3>2. n \in Nat /\ hseq[h] \in Nat BY <1>1, Numbers
    <3> HIDE DEF n
    <3> QED BY <3>1, <3>2
  <2>2. ~ (hseq[h] >= next_seq_id) BY <2>1, <1>2
  <2> QED BY <2>2, <1>1, <1>2 DEF EngineInv, IdsInv
<1>4. hseq[h] \in Pushing <=> handler[h] = "push" BY <1>2 DEF Pushing
<1> QED BY <1>1, <1>2, <1>3, <1>4

\* A handler that moves on is not pushing any more.
LEMMA NotPushing ==
    ASSUME EngineInv, NEW h \in Handlers, handler[h] # "idle", NEW x, x # "push",
           handler' = [handler EXCEPT ![h] = x],
           \A g \in Handlers \ {h} : hseq'[g] = hseq[g]
    PROVE  Pushing' = Pushing \ {hseq[h]}
<1>1. /\ handler'[h] = x /\ \A g \in Handlers \ {h} : handler'[g] = handler[g]
  BY DEF EngineInv, EngineTypeOK
<1>2. \A g \in Handlers \ {h} : hseq[g] # hseq[h] BY HandlerFacts
<1> QED BY <1>1, <1>2 DEF Pushing

\* The push wins its place: from here on the sequence is in the pipeline.
LEMMA PushClaimedInv ==
    ASSUME EngineInv, NEW h \in Handlers, PushClaimed(h)
    PROVE  EngineInv'
<1>a. PICK s \in Seqs : s = hseq[h]
  BY HandlerFacts DEF PushClaimed
<1>0. /\ handler[h] = "push" /\ Q!Claim(s)
      /\ handler' = [handler EXCEPT ![h] = "publish"]
      /\ UNCHANGED <<vars, engineVars, next_seq_id, hseq, status, accepted, rejected>>
  BY <1>a DEF PushClaimed
<1>1. UNCHANGED <<phase, cursor, generated, seqVars, free_blocks, tables, results,
                  active_, waiting_, popped, loop, drained, g_shutdown>>
  BY <1>0 DEF vars, seqVars, queueVars, engineVars
<1>2. Pipeline' = Append(Pipeline, s) /\ Q!TypeOK'
  BY <1>0, <1>1, ClaimedRow DEF EngineInv
<1>3. EngineTypeOK' /\ TypeOK'
  <2>1. TypeOK'
    BY <1>0 DEF EngineInv, EngineTypeOK, TypeOK, PTTypeOK, vars, seqVars, queueVars
  <2>2. handler' \in [Handlers -> {"idle", "push", "publish", "upsert"}]
    BY <1>0 DEF EngineInv, EngineTypeOK
  <2> QED BY <2>1, <2>2, <1>0, <1>1, <1>2 DEF EngineInv, EngineTypeOK
<1>4. IInv' BY <1>1, <1>3, LoopInv DEF EngineInv
<1>5. Pushing' = Pushing \ {s} /\ s \in Pushing /\ Unfinished' = Unfinished
  BY <1>0, <1>1, <1>a, NotPushing, HandlerFacts DEF Unfinished
<1>6. HandlersInv'
  <2>1. \A g \in Handlers : handler'[g] = "idle" <=> handler[g] = "idle"
    BY <1>0 DEF EngineInv, EngineTypeOK
  <2> QED BY <2>1, <1>0, <1>1, <1>5 DEF EngineInv, HandlersInv
<1>7. IdsInv' BY <1>0, <1>1 DEF EngineInv, IdsInv
<1>8. PipelineInv'
  <2>1. Pipeline \in Seq(Seqs) BY RowTypes DEF EngineInv
  <2>2. IsInjective(Pipeline) /\ s \notin Range(Pipeline)
    BY <1>5 DEF EngineInv, PipelineInv
  <2>3. IsInjective(Pipeline') /\ Range(Pipeline') = Range(Pipeline) \cup {s}
    BY <2>1, <2>2, <1>2, AppendRange
  <2> QED BY <2>3, <1>5 DEF EngineInv, PipelineInv
<1>9. ReportedInv' BY <1>1, <1>5 DEF EngineInv, ReportedInv
<1>10. DrainInv' /\ StatusNeverAhead'
  BY <1>0, <1>1 DEF EngineInv, DrainInv, StatusNeverAhead
<1> QED BY <1>0, <1>3, <1>4, <1>6, <1>7, <1>8, <1>9, <1>10 DEF EngineInv

\* The item becomes visible.
LEMMA PushPublishedInv ==
    ASSUME EngineInv, NEW h \in Handlers, PushPublished(h)
    PROVE  EngineInv'
<1>0. /\ handler[h] = "publish" /\ handler' = [handler EXCEPT ![h] = "upsert"]
      /\ UNCHANGED <<vars, engineVars, next_seq_id, hseq, status, accepted, rejected>>
  BY DEF PushPublished
<1>a. PICK k \in 1..Len(queue) : Q!Publish(k) BY DEF PushPublished
<1>1. UNCHANGED <<phase, cursor, generated, seqVars, free_blocks, tables, results,
                  active_, waiting_, popped, loop, drained, g_shutdown>>
  BY <1>0 DEF vars, seqVars, queueVars, engineVars
<1>2. Pipeline' = Pipeline /\ Q!TypeOK'
  BY <1>a, <1>1, PublishedRow DEF EngineInv
<1>3. EngineTypeOK' /\ TypeOK'
  <2>1. TypeOK'
    BY <1>0 DEF EngineInv, EngineTypeOK, TypeOK, PTTypeOK, vars, seqVars, queueVars
  <2>2. handler' \in [Handlers -> {"idle", "push", "publish", "upsert"}]
    BY <1>0 DEF EngineInv, EngineTypeOK
  <2> QED BY <2>1, <2>2, <1>0, <1>1, <1>2 DEF EngineInv, EngineTypeOK
<1>4. IInv' BY <1>1, <1>3, LoopInv DEF EngineInv
<1>5. Pushing' = Pushing /\ Unfinished' = Unfinished
  <2>1. Pushing' = Pushing \ {hseq[h]}
    <3>1. \A g \in Handlers \ {h} : hseq'[g] = hseq[g] BY <1>0
    <3>2. handler[h] # "idle" /\ "upsert" # "push" BY <1>0
    <3> QED BY <3>1, <3>2, <1>0, NotPushing
  <2>2. hseq[h] \notin Pushing BY <1>0, HandlerFacts
  <2> QED BY <2>1, <2>2, <1>1 DEF Unfinished
<1>6. HandlersInv'
  <2>1. \A g \in Handlers : handler'[g] = "idle" <=> handler[g] = "idle"
    BY <1>0 DEF EngineInv, EngineTypeOK
  <2> QED BY <2>1, <1>0, <1>1, <1>5 DEF EngineInv, HandlersInv
<1>7. IdsInv' BY <1>0, <1>1 DEF EngineInv, IdsInv
<1>8. PipelineInv' BY <1>2, <1>5 DEF EngineInv, PipelineInv
<1>9. ReportedInv' BY <1>1, <1>5 DEF EngineInv, ReportedInv
<1>10. DrainInv' /\ StatusNeverAhead'
  BY <1>0, <1>1 DEF EngineInv, DrainInv, StatusNeverAhead
<1> QED BY <1>0, <1>3, <1>4, <1>6, <1>7, <1>8, <1>9, <1>10 DEF EngineInv

\* The client gets its 200, and the id is known to /status.
LEMMA AnswerInv ==
    ASSUME EngineInv, NEW h \in Handlers, Answer(h)
    PROVE  EngineInv'
<1>a. PICK s \in Seqs : s = hseq[h] BY HandlerFacts DEF Answer
<1>0. /\ handler[h] = "upsert" /\ status' = [status EXCEPT ![s] = "PREFILL"]
      /\ accepted' = accepted \cup {s} /\ handler' = [handler EXCEPT ![h] = "idle"]
      /\ hseq' = [hseq EXCEPT ![h] = None]
      /\ UNCHANGED <<vars, engineVars, queue, next_seq_id, rejected>>
  BY <1>a DEF Answer, upsert
<1>1. UNCHANGED <<phase, cursor, generated, seqVars, free_blocks, tables, results,
                  active_, waiting_, popped, loop, drained, g_shutdown>>
  BY <1>0 DEF vars, seqVars, queueVars, engineVars
<1>2. /\ handler \in [Handlers -> {"idle", "push", "publish", "upsert"}]
      /\ hseq \in [Handlers -> Seqs \cup {None}]
      /\ status \in [Seqs -> {"unknown", "PREFILL", "DECODE", "FINISHED"}]
  BY DEF EngineInv, EngineTypeOK
<1>b. /\ handler'[h] = "idle" /\ hseq'[h] = None
      /\ \A g \in Handlers \ {h} : handler'[g] = handler[g] /\ hseq'[g] = hseq[g]
      /\ status'[s] = "PREFILL" /\ \A t \in Seqs \ {s} : status'[t] = status[t]
  BY <1>0, <1>2
<1>3. EngineTypeOK' /\ TypeOK'
  <2>1. TypeOK'
    BY <1>0 DEF EngineInv, EngineTypeOK, TypeOK, PTTypeOK, vars, seqVars, queueVars
  <2>2. /\ handler' \in [Handlers -> {"idle", "push", "publish", "upsert"}]
        /\ hseq' \in [Handlers -> Seqs \cup {None}]
        /\ status' \in [Seqs -> {"unknown", "PREFILL", "DECODE", "FINISHED"}]
    BY <1>0, <1>2
  <2>3. Q!TypeOK' BY <1>0 DEF EngineInv, EngineTypeOK, Q!TypeOK
  <2> QED BY <2>1, <2>2, <2>3, <1>0, <1>1 DEF EngineInv, EngineTypeOK
<1>4. IInv' BY <1>1, <1>3, LoopInv DEF EngineInv
<1>c. /\ s \notin Pushing /\ phase[s] # "none" /\ s \notin rejected /\ s < next_seq_id
      /\ \A g \in Handlers \ {h} : hseq[g] # s
  BY <1>0, <1>a, HandlerFacts
<1>5. Pushing' = Pushing /\ Unfinished' = Unfinished /\ Pipeline' = Pipeline
  <2>1. Pushing' = Pushing \ {hseq[h]}
    <3>1. handler[h] # "idle" /\ "idle" # "push" BY <1>0
    <3> QED BY <3>1, <1>0, <1>b, NotPushing
  <2> QED BY <2>1, <1>a, <1>c, <1>0, <1>1 DEF Unfinished, Pipeline
<1>6. HandlersInv'
  <2>1. \A t \in Pushing : status'[t] = status[t] BY <1>b, <1>c, PushingFacts
  <2> QED BY <2>1, <1>0, <1>1, <1>b, <1>c, <1>5 DEF EngineInv, HandlersInv
<1>7. IdsInv' BY <1>0, <1>1, <1>c DEF EngineInv, IdsInv
<1>8. PipelineInv' BY <1>5 DEF EngineInv, PipelineInv
<1>9. ReportedInv' BY <1>1, <1>5 DEF EngineInv, ReportedInv
<1>10. DrainInv' BY <1>0, <1>1 DEF EngineInv, DrainInv
<1>11. StatusNeverAhead'
  <2>1. Rank["PREFILL"] <= Rank[phase[s]] BY <1>c, PhaseRanks
  <2> QED BY <2>1, <1>1, <1>b DEF EngineInv, StatusNeverAhead
<1>12. /\ (accepted \cap rejected = {})'
       /\ \A t \in accepted' : status'[t] # "unknown"
  <2>1. accepted \subseteq Seqs BY DEF EngineInv, EngineTypeOK
  <2> QED BY <2>1, <1>0, <1>b, <1>c DEF EngineInv
<1> QED BY <1>3, <1>4, <1>6, <1>7, <1>8, <1>9, <1>10, <1>11, <1>12 DEF EngineInv

\* A sequence that was never started is dropped and leaves nothing behind.
LEMMA DroppedInv ==
    ASSUME IInv, NEW s \in Seqs, phase[s] = "PREFILL", cursor[s] = 0, generated[s] = 0,
           phase' = [phase EXCEPT ![s] = "none"],
           prompt' = [prompt EXCEPT ![s] = 0], max_new' = [max_new EXCEPT ![s] = 0],
           UNCHANGED <<cursor, generated, queueVars, free_blocks, tables, pass, it,
                       budget, results>>
    PROVE  IInv'
<1>1. /\ phase'[s] = "none" /\ prompt'[s] = 0 /\ max_new'[s] = 0
      /\ \A t \in Seqs \ {s} : phase'[t] = phase[t] /\ prompt'[t] = prompt[t]
                               /\ max_new'[t] = max_new[t]
  BY DEF IInv, TypeOK
<1>2. TypeOK'
  <2>1. /\ phase' \in [Seqs -> Phases] /\ prompt' \in [Seqs -> Nat]
        /\ max_new' \in [Seqs -> Nat]
    BY DEF IInv, TypeOK, Phases
  <2> QED BY <2>1 DEF IInv, TypeOK, PTTypeOK, queueVars
<1>3. Partition' BY DEF IInv, Partition
<1>4. CountersInv' BY <1>1 DEF IInv, CountersInv
<1>5. BlocksMatchTokens'
  <2>1. Cardinality(tables[s]) = 0
    <3>1. cursor[s] + generated[s] = 0 OBVIOUS
    <3> QED BY <3>1, NeededForNothing DEF IInv, BlocksMatchTokens, Unfinished
  <2>2. s \notin Unfinished' /\ \A t \in Seqs \ {s} : t \in Unfinished' <=> t \in Unfinished
    BY <1>1 DEF Unfinished
  <2> QED BY <2>1, <2>2, <1>1 DEF IInv, BlocksMatchTokens
<1>6. GenerationBound' BY <1>1 DEF IInv, GenerationBound, Unfinished
<1> QED BY <1>2, <1>3, <1>4, <1>5, <1>6 DEF IInv

\* The queue is full: the client gets its 503, and the id is gone for good.
LEMMA PushRejectedInv ==
    ASSUME EngineInv, NEW h \in Handlers, PushRejected(h)
    PROVE  EngineInv'
<1>a. PICK s \in Seqs : s = hseq[h] BY HandlerFacts DEF PushRejected
<1>0. /\ handler[h] = "push" /\ rejected' = rejected \cup {s}
      /\ phase' = [phase EXCEPT ![s] = "none"]
      /\ prompt' = [prompt EXCEPT ![s] = 0] /\ max_new' = [max_new EXCEPT ![s] = 0]
      /\ handler' = [handler EXCEPT ![h] = "idle"]
      /\ hseq' = [hseq EXCEPT ![h] = None]
      /\ UNCHANGED <<cursor, generated, queueVars, free_blocks, tables, pass, it, budget,
                     results, engineVars, queue, next_seq_id, status, accepted>>
  BY <1>a DEF PushRejected
<1>1. /\ handler \in [Handlers -> {"idle", "push", "publish", "upsert"}]
      /\ hseq \in [Handlers -> Seqs \cup {None}] /\ phase \in [Seqs -> Phases]
  BY DEF EngineInv, EngineTypeOK, TypeOK
<1>2. /\ handler'[h] = "idle" /\ hseq'[h] = None
      /\ \A g \in Handlers \ {h} : handler'[g] = handler[g] /\ hseq'[g] = hseq[g]
      /\ phase'[s] = "none" /\ \A t \in Seqs \ {s} : phase'[t] = phase[t]
  BY <1>0, <1>1
<1>3. /\ s \in Pushing /\ s \notin accepted /\ s < next_seq_id
      /\ \A g \in Handlers \ {h} : hseq[g] # s
  BY <1>0, <1>a, HandlerFacts
<1>4. phase[s] = "PREFILL" /\ cursor[s] = 0 /\ generated[s] = 0 /\ status[s] = "unknown"
  BY <1>3 DEF EngineInv, HandlersInv
<1>5. IInv' BY <1>0, <1>4, DroppedInv DEF EngineInv
<1>6. EngineTypeOK'
  <2>1. TypeOK' BY <1>5 DEF IInv
  <2>2. /\ handler' \in [Handlers -> {"idle", "push", "publish", "upsert"}]
        /\ hseq' \in [Handlers -> Seqs \cup {None}] /\ rejected' \subseteq Seqs
    BY <1>0, <1>1 DEF EngineInv, EngineTypeOK
  <2>3. Q!TypeOK' BY <1>0 DEF EngineInv, EngineTypeOK, Q!TypeOK
  <2> QED BY <2>1, <2>2, <2>3, <1>0 DEF EngineInv, EngineTypeOK, engineVars
<1>7. Pushing' = Pushing \ {s}
  <2>1. handler[h] # "idle" /\ "idle" # "push" BY <1>0
  <2> QED BY <2>1, <1>a, <1>0, <1>2, NotPushing
<1>8. HandlersInv'
  <2>1. \A t \in Pushing' : t \in Pushing /\ phase'[t] = phase[t] BY <1>2, <1>7, PushingFacts
  <2> QED BY <2>1, <1>0, <1>2, <1>3 DEF EngineInv, HandlersInv
<1>9. IdsInv' BY <1>0, <1>2, <1>3 DEF EngineInv, IdsInv
<1>10. PipelineInv'
  <2>1. Pipeline' = Pipeline BY <1>0 DEF Pipeline, queueVars, engineVars
  <2>2. Unfinished' = Unfinished \ {s} BY <1>2 DEF Unfinished
  <2> QED BY <2>1, <2>2, <1>3, <1>7 DEF EngineInv, PipelineInv
<1>11. ReportedInv'
  <2>1. \A k \in DOMAIN results : results[k].seq_id \in Seqs /\ results[k].seq_id # s
    BY <1>3, DequeTypes DEF EngineInv, ReportedInv
  <2> QED BY <2>1, <1>0, <1>2, <1>7 DEF EngineInv, ReportedInv
<1>12. DrainInv' BY <1>0 DEF EngineInv, DrainInv, engineVars
<1>13. StatusNeverAhead'
  <2>1. Rank[status[s]] <= Rank[phase'[s]] BY <1>2, <1>4, RankFacts
  <2> QED BY <2>1, <1>0, <1>2 DEF EngineInv, StatusNeverAhead
<1> QED BY <1>0, <1>3, <1>5, <1>6, <1>8, <1>9, <1>10, <1>11, <1>12, <1>13 DEF EngineInv

\* A request gets a fresh id.
LEMMA GenerateInv ==
    ASSUME EngineInv, NEW h \in Handlers, NEW s \in Seqs, NEW r \in Requests[s],
           s = next_seq_id, Generate(h, r)
    PROVE  EngineInv'
<1>0. /\ handler[h] = "idle" /\ Construct(s, r) /\ next_seq_id' = s + 1
      /\ hseq' = [hseq EXCEPT ![h] = s] /\ handler' = [handler EXCEPT ![h] = "push"]
      /\ UNCHANGED <<queueVars, free_blocks, tables, pass, it, budget, results,
                     engineVars, queue, status, accepted, rejected>>
  BY DEF Generate
<1>1. /\ handler \in [Handlers -> {"idle", "push", "publish", "upsert"}]
      /\ hseq \in [Handlers -> Seqs \cup {None}] /\ phase \in [Seqs -> Phases]
      /\ cursor \in [Seqs -> Nat] /\ generated \in [Seqs -> Nat]
  BY DEF EngineInv, EngineTypeOK, TypeOK
<1>2. /\ handler'[h] = "push" /\ hseq'[h] = s /\ s # None /\ s \in Nat
      /\ \A g \in Handlers \ {h} : handler'[g] = handler[g] /\ hseq'[g] = hseq[g]
      /\ phase'[s] = "PREFILL" /\ cursor'[s] = 0 /\ generated'[s] = 0
      /\ \A t \in Seqs \ {s} : /\ phase'[t] = phase[t] /\ cursor'[t] = cursor[t]
                               /\ generated'[t] = generated[t]
  BY <1>0, <1>1, Numbers DEF Construct
<1>3. phase[s] = "none" /\ status[s] = "unknown"
  <2>1. s >= next_seq_id BY <1>2
  <2> QED BY <2>1, PhaseRanks DEF EngineInv, IdsInv
<1>4. IInv'
  <2>1. waiting_' \in Seq(Seqs) BY <1>0 DEF queueVars, EngineInv, EngineTypeOK, TypeOK
  <2> QED BY <2>1, <1>0, ConstructInv DEF EngineInv, queueVars
<1>5. EngineTypeOK'
  <2>1. TypeOK' BY <1>4 DEF IInv
  <2>2. /\ handler' \in [Handlers -> {"idle", "push", "publish", "upsert"}]
        /\ hseq' \in [Handlers -> Seqs \cup {None}]
    BY <1>0, <1>1
  <2>3. Q!TypeOK' BY <1>0 DEF EngineInv, EngineTypeOK, Q!TypeOK
  <2>4. next_seq_id' \in 1..(Cardinality(Seqs) + 1)
    <3> DEFINE n == Cardinality(Seqs)
    <3>1. n \in Nat /\ 1 <= s /\ s <= n BY <1>2, Numbers
    <3> HIDE DEF n
    <3>2. next_seq_id' \in 1..(n + 1) BY <3>1, <1>0, <1>2
    <3> QED BY <3>2 DEF n
  <2> QED BY <2>1, <2>2, <2>3, <2>4, <1>0 DEF EngineInv, EngineTypeOK, engineVars
<1>6. \A g \in Handlers : hseq[g] # s
  BY <1>2 DEF EngineInv, HandlersInv
<1>7. Pushing' = Pushing \cup {s} /\ s \notin Pushing
  BY <1>0, <1>2, <1>6 DEF Pushing
<1>8. Pushing \subseteq Seqs BY PushingFacts
<1>9. \A t \in Nat : t < s + 1 <=> t < s \/ t = s BY <1>2
<1>10. accepted \subseteq Nat /\ rejected \subseteq Nat
  BY Numbers DEF EngineInv, EngineTypeOK
<1>11. s \notin accepted \cup rejected BY <1>2 DEF EngineInv, IdsInv
<1>12. HandlersInv'
  <2>1. \A t \in Pushing' : /\ phase'[t] = "PREFILL" /\ cursor'[t] = 0
                            /\ generated'[t] = 0 /\ status[t] = "unknown"
    <3>1. \A t \in Pushing : /\ phase[t] = "PREFILL" /\ cursor[t] = 0
                             /\ generated[t] = 0 /\ status[t] = "unknown"
      BY DEF EngineInv, HandlersInv
    <3>2. Pushing \subseteq Seqs \ {s} BY <1>7, <1>8
    <3>3. ASSUME NEW t \in Pushing
          PROVE  /\ phase'[t] = "PREFILL" /\ cursor'[t] = 0
                 /\ generated'[t] = 0 /\ status[t] = "unknown"
      BY <3>1, <3>2, <1>2
    <3> QED BY <3>3, <1>2, <1>3, <1>7
  <2>2. \A g \in Handlers : handler'[g] = "idle" <=> hseq'[g] = None
    BY <1>2 DEF EngineInv, HandlersInv
  <2>3. \A f, g \in Handlers : hseq'[f] # None /\ hseq'[f] = hseq'[g] => f = g
    BY <1>2, <1>6 DEF EngineInv, HandlersInv
  <2>4. \A g \in Handlers : hseq'[g] # None =>
           hseq'[g] < next_seq_id' /\ hseq'[g] \notin accepted \cup rejected
    <3>1. \A g \in Handlers : hseq[g] # None => hseq[g] \in Nat BY <1>1, Numbers
    <3> QED BY <3>1, <1>0, <1>2, <1>9, <1>11 DEF EngineInv, HandlersInv
  <2> QED BY <2>1, <2>2, <2>3, <2>4, <1>0 DEF HandlersInv
<1>13. IdsInv'
  <2>1. \A t \in accepted \cup rejected : t < s + 1
    BY <1>9, <1>10 DEF EngineInv, IdsInv
  <2>2. ASSUME NEW t \in Seqs
        PROVE  phase'[t] = "none" <=> t >= s + 1 \/ t \in rejected
    <3>1. t \in Nat BY Numbers
    <3>2. CASE t = s BY <3>2, <1>2, <1>11
    <3>3. CASE t # s
      <4>1. t >= s + 1 <=> t >= s BY <3>1, <3>3, <1>2
      <4> QED BY <4>1, <3>3, <1>2 DEF EngineInv, IdsInv
    <3> QED BY <3>2, <3>3
  <2> QED BY <2>1, <2>2, <1>0 DEF IdsInv
<1>14. PipelineInv'
  <2>1. Pipeline' = Pipeline BY <1>0 DEF Pipeline, queueVars, engineVars
  <2>2. Unfinished' = Unfinished \cup {s} /\ s \notin Unfinished
    BY <1>2, <1>3 DEF Unfinished
  <2> QED BY <2>1, <2>2, <1>7 DEF EngineInv, PipelineInv
<1>15. ReportedInv'
  <2>1. ASSUME NEW k \in DOMAIN results
        PROVE  results[k].seq_id \in Seqs /\ results[k].seq_id # s
    <3>0. /\ results \in Seq([seq_id : Seqs, tokens : Nat, phase_after : Phases])
          /\ results[k].phase_after # "none"
          /\ Rank[results[k].phase_after] <= Rank[phase[results[k].seq_id]]
      BY DEF EngineInv, EngineTypeOK, TypeOK, ReportedInv
    <3>1. results[k] \in [seq_id : Seqs, tokens : Nat, phase_after : Phases]
      BY <3>0, ElementOfSeq, LenProperties
    <3>2. results[k].seq_id \in Seqs /\ results[k].phase_after \in Phases BY <3>1
    <3>3. Rank[results[k].phase_after] \in {1, 2, 3} BY <3>0, <3>2, RankFacts DEF Phases
    <3> QED BY <3>0, <3>2, <3>3, <1>3, RankFacts
  <2> QED BY <2>1, <1>0, <1>2, <1>7 DEF EngineInv, ReportedInv
<1>16. DrainInv' BY <1>0 DEF EngineInv, DrainInv, engineVars
<1>17. StatusNeverAhead'
  <2>1. Rank[status[s]] <= Rank[phase'[s]] BY <1>2, <1>3, RankFacts
  <2> QED BY <2>1, <1>0, <1>2 DEF EngineInv, StatusNeverAhead
<1> QED BY <1>0, <1>4, <1>5, <1>12, <1>13, <1>14, <1>15, <1>16, <1>17 DEF EngineInv


-----------------------------------------------------------------------------
(* All steps *)

\* The engine starts with nothing to do.
LEMMA EngineInitInv == EngineInit => EngineInv
<1> SUFFICES ASSUME EngineInit PROVE EngineInv
  OBVIOUS
<1>0. /\ Init /\ queue = << >> /\ next_seq_id = 1
      /\ handler = [h \in Handlers |-> "idle"] /\ hseq = [h \in Handlers |-> None]
      /\ loop = "drain" /\ drained = 0 /\ popped = None
      /\ status = [s \in Seqs |-> "unknown"] /\ accepted = {} /\ rejected = {}
      /\ g_shutdown = FALSE
  BY DEF EngineInit, Q!Init
<1>1. IInv BY <1>0, InitInv
<1>2. /\ phase = [s \in Seqs |-> "none"] /\ active_ = << >> /\ waiting_ = << >>
      /\ results = << >>
  BY <1>0 DEF Init
<1>3. EngineTypeOK
  <2>1. TypeOK BY <1>1 DEF IInv
  <2>2. Q!TypeOK
    <3>1. queue \in Seq(Q!Entry) BY <1>0, EmptySeq
    <3> QED BY <3>1 DEF Q!TypeOK
  <2>3. 1 \in 1..(Cardinality(Seqs) + 1)
    <3> DEFINE n == Cardinality(Seqs)
    <3>1. n \in Nat BY Numbers
    <3> HIDE DEF n
    <3>2. 1 \in 1..(n + 1) BY <3>1
    <3> QED BY <3>2 DEF n
  <2>4. 0 \in 0..MaxDrain BY Numbers
  <2> QED BY <2>1, <2>2, <2>3, <2>4, <1>0 DEF EngineTypeOK
<1>4. Pushing = {} /\ Unfinished = {} BY <1>0, <1>2 DEF Pushing, Unfinished
<1>5. \A s \in Seqs : s >= 1 BY Numbers
<1>6. HandlersInv BY <1>0, <1>4 DEF HandlersInv
<1>7. IdsInv BY <1>0, <1>2, <1>5 DEF IdsInv
<1>8. PipelineInv
  <2>1. Items = << >>
    <3>1. Items \in Seq(Seqs) /\ Len(Items) = 0 BY <1>0, <1>3, RowTypes
    <3> QED BY <3>1, EmptySeq
  <2>2. Line = << >> /\ Hand = << >> BY <1>0, <1>2 DEF Line, Hand
  <2>3. Pipeline = << >> BY <2>1, <2>2, <1>3, RowTypes
  <2>4. DOMAIN Pipeline = {} BY <2>3
  <2> QED BY <2>4, <1>4 DEF PipelineInv, Range, IsInjective
<1>9. ReportedInv
  <2>1. DOMAIN results = {} BY <1>2
  <2> QED BY <2>1 DEF ReportedInv
<1>10. DrainInv BY <1>0 DEF DrainInv
<1>11. StatusNeverAhead BY <1>0, <1>2, RankFacts DEF StatusNeverAhead
<1> QED BY <1>0, <1>1, <1>3, <1>6, <1>7, <1>8, <1>9, <1>10, <1>11 DEF EngineInv

\* No step of the loop or of a handler, and no signal, breaks the invariant.
LEMMA EngineNextInv == EngineInv /\ [EngineNext]_allVars => EngineInv'
<1> SUFFICES ASSUME EngineInv, [EngineNext]_allVars PROVE EngineInv'
  OBVIOUS
<1>1. CASE EngineLoop
  BY <1>1, DrainPopInv, DrainAdmitInv, LoopMovesInv, EngineStepInv, UpsertResultInv
     DEF EngineLoop
<1>2. ASSUME NEW h \in Handlers, HandlerStep(h) PROVE EngineInv'
  BY <1>2, PushClaimedInv, PushRejectedInv, PushPublishedInv, AnswerInv DEF HandlerStep
<1>3. ASSUME NEW h \in Handlers, NEW s \in Seqs, NEW r \in Requests[s],
             s = next_seq_id, Generate(h, r)
      PROVE  EngineInv'
  BY <1>3, GenerateInv
<1>4. CASE Signal BY <1>4, LoopMovesInv
<1>5. CASE UNCHANGED allVars
  <2>1. UNCHANGED <<seqVars, queueVars, free_blocks, tables, pass, it, budget, results,
                    ingressVars, loop, drained, popped, g_shutdown, queue, status>>
    BY <1>5 DEF allVars, vars, engineVars
  <2>2. Pipeline' = Pipeline BY <2>1 DEF Pipeline, queueVars
  <2>3. EngineTypeOK'
    BY <2>1 DEF EngineInv, EngineTypeOK, TypeOK, PTTypeOK, Q!TypeOK, seqVars, queueVars,
                ingressVars
  <2>4. DrainInv' BY <2>1 DEF EngineInv, DrainInv
  <2> QED BY <2>1, <2>2, <2>3, <2>4, QuietInv
<1> QED BY <1>1, <1>2, <1>3, <1>4, <1>5 DEF EngineNext

\* The invariant holds in every reachable state.
THEOREM EngineInvariantHolds == EngineSpec => []EngineInv
BY EngineInitInv, EngineNextInv, PTL DEF EngineSpec

\* The variables keep their types: ids stay within those handed out, drained
\* within MaxDrain.
THEOREM EngineTypeCorrect == EngineSpec => []EngineTypeOK
<1>1. EngineInv => EngineTypeOK BY DEF EngineInv
<1> QED BY <1>1, EngineInvariantHolds, PTL

\* /status never runs ahead of the scheduler, whichever of the handler's and the
\* loop's writes of the table comes first.
THEOREM StatusHonest == EngineSpec => []StatusNeverAhead
<1>1. EngineInv => StatusNeverAhead BY DEF EngineInv
<1> QED BY <1>1, EngineInvariantHolds, PTL

\* Every request is in exactly one place.
THEOREM RequestsInOnePlace == EngineSpec => []OnePlace
<1>1. EngineInv => OnePlace
  <2> SUFFICES ASSUME EngineInv, NEW s \in Seqs
               PROVE  Cardinality(Occurrences(Pipeline, s))
                        + Cardinality({h \in Handlers : handler[h] = "push" /\ hseq[h] = s})
                      = IF s < next_seq_id /\ s \notin rejected /\ phase[s] # "FINISHED"
                        THEN 1 ELSE 0
    BY DEF OnePlace
  <2> DEFINE H == {h \in Handlers : handler[h] = "push" /\ hseq[h] = s}
  <2>1. Cardinality(Occurrences(Pipeline, s)) = IF s \in Range(Pipeline) THEN 1 ELSE 0
    BY OneOccurrence DEF EngineInv, PipelineInv
  <2>2. Cardinality(H) = IF s \in Pushing THEN 1 ELSE 0
    <3>1. CASE s \in Pushing
      <4>1. PICK h \in Handlers : handler[h] = "push" /\ hseq[h] = s
        BY <3>1 DEF Pushing
      <4>2. \A g \in H : g = h
        BY <4>1, Numbers DEF EngineInv, HandlersInv
      <4>3. H = {h} BY <4>1, <4>2
      <4> QED BY <4>3, <3>1, FS_Singleton
    <3>2. CASE s \notin Pushing
      <4>1. H = {} BY <3>2 DEF Pushing
      <4> QED BY <4>1, <3>2, FS_EmptySet
    <3> QED BY <3>1, <3>2
  <2>3. s \in Unfinished <=> s < next_seq_id /\ s \notin rejected /\ phase[s] # "FINISHED"
    <3>1. s \in Nat /\ next_seq_id \in Nat
      <4>1. next_seq_id \in 1..(Cardinality(Seqs) + 1) BY DEF EngineInv, EngineTypeOK
      <4> QED BY <4>1, Numbers
    <3>2. s >= next_seq_id <=> ~ (s < next_seq_id) BY <3>1
    <3>3. phase[s] = "none" <=> s >= next_seq_id \/ s \in rejected
      BY DEF EngineInv, IdsInv
    <3>4. phase[s] \in {"none", "PREFILL", "DECODE", "FINISHED"} BY PhaseRanks
    <3> QED BY <3>2, <3>3, <3>4 DEF Unfinished
  <2>4. /\ s \in Unfinished <=> s \in Range(Pipeline) \/ s \in Pushing
        /\ ~ (s \in Range(Pipeline) /\ s \in Pushing)
    BY DEF EngineInv, PipelineInv
  <2> HIDE DEF H
  <2>5. Cardinality(Occurrences(Pipeline, s)) + Cardinality(H)
          = IF s \in Unfinished THEN 1 ELSE 0
    BY <2>1, <2>2, <2>4
  <2> QED BY <2>3, <2>5 DEF H
<1> QED BY <1>1, EngineInvariantHolds, PTL

\* A 200 is kept, and a 503 leaves nothing behind.
THEOREM AnswersReliable == EngineSpec => []AnswersKept
<1>1. EngineInv => AnswersKept
  <2> SUFFICES ASSUME EngineInv PROVE AnswersKept
    OBVIOUS
  <2>1. accepted \subseteq Seqs /\ rejected \subseteq Seqs
    BY DEF EngineInv, EngineTypeOK
  <2>2. accepted \cap rejected = {} /\ \A s \in accepted : status[s] # "unknown"
    BY DEF EngineInv
  <2>3. ASSUME NEW s \in accepted PROVE phase[s] # "none"
    <3>1. s \in Seqs BY <2>1
    <3> QED BY <3>1, <2>2, PhaseRanks
  <2>4. ASSUME NEW s \in rejected
        PROVE  status[s] = "unknown" /\ phase[s] = "none" /\ tables[s] = {}
    <3>1. s \in Seqs /\ phase[s] = "none" BY <2>1 DEF EngineInv, IdsInv
    <3>2. status[s] = "unknown" BY <3>1, PhaseRanks
    <3>3. Cardinality(tables[s]) = 0
      BY <3>1 DEF EngineInv, IInv, BlocksMatchTokens, Unfinished
    <3>4. IsFiniteSet(tables[s])
      <4>1. tables[s] \subseteq Blocks BY <3>1 DEF EngineInv, IInv, TypeOK, PTTypeOK
      <4> QED BY <4>1, BlocksAssumption, FS_Subset
    <3>5. tables[s] = {} BY <3>3, <3>4, FS_EmptySet
    <3> QED BY <3>1, <3>2, <3>5
  <2> QED BY <2>2, <2>3, <2>4 DEF AnswersKept
<1> QED BY <1>1, EngineInvariantHolds, PTL


-----------------------------------------------------------------------------
(* The order of arrival *)

\* A step appends to the pipeline, erases from it or leaves it alone.
LEMMA PipelineOrdered ==
    ASSUME EngineInv, [EngineNext]_allVars
    PROVE  Ordered(Pipeline, Pipeline')
<1>0. EngineTypeOK /\ IsInjective(Pipeline) /\ Pipeline \in Seq(Seqs)
  BY RowTypes DEF EngineInv, PipelineInv
<1>same. ASSUME Pipeline' = Pipeline PROVE Ordered(Pipeline, Pipeline')
  BY <1>same, <1>0, OrderedAppend
<1>1. CASE DrainPop
  <2>1. Q!Take /\ popped = None /\ popped' = Head(queue).item /\ UNCHANGED <<active_, waiting_>>
    BY <1>1 DEF DrainPop, vars, queueVars
  <2> QED BY <2>1, <1>0, <1>same, PoppedRow
<1>2. CASE DrainAdmit
  BY <1>2, <1>0, <1>same, AdmittedRow DEF DrainAdmit
<1>3. CASE DrainEnd \/ UpsertResult \/ LoopAgain \/ Signal \/ UNCHANGED allVars
  <2>1. UNCHANGED <<queueVars, popped, queue>>
    BY <1>3 DEF DrainEnd, StepBegin, UpsertResult, LoopAgain, Signal, vars, engineVars, allVars
  <2>2. Pipeline' = Pipeline BY <2>1 DEF Pipeline, queueVars
  <2> QED BY <2>2, <1>same
<1>4. CASE EngineStep
  <2>0. /\ pass # "idle" /\ Step /\ UNCHANGED <<popped, queue>> BY <1>4 DEF EngineStep
  <2>1. IInv /\ Range(Line) \subseteq Unfinished BY PushingFacts DEF EngineInv
  <2>2. CASE UNCHANGED <<phase, cursor, generated, results, active_, waiting_>>
    <3>1. Line' = Line BY <2>2 DEF Line
    <3> QED BY <3>1, <2>0, <1>0, <1>same, StepRow
  <2>3. ASSUME NEW s \in Seqs, Worked(s) PROVE Ordered(Pipeline, Pipeline')
    <3>1. Line' = Line \/ \E e \in 1..Len(Line) : Without(Seqs, Line, e, Line')
      BY <2>3 DEF Worked
    <3>2. CASE Line' = Line BY <3>2, <2>0, <1>0, <1>same, StepRow
    <3>3. CASE \E e \in 1..Len(Line) : Without(Seqs, Line, e, Line')
      <4>1. PICK e \in 1..Len(Line) : Without(Seqs, Line, e, Line') BY <3>3
      <4>2. Without(Seqs, Pipeline, e, Pipeline') BY <4>1, <2>0, <1>0, StepRow
      <4> QED BY <4>2, <1>0, OrderedErase
    <3> QED BY <3>1, <3>2, <3>3
  <2> QED BY <2>0, <2>1, <2>2, <2>3, StepEffect
<1>5. ASSUME NEW h \in Handlers, PushClaimed(h) PROVE Ordered(Pipeline, Pipeline')
  <2>0. /\ handler[h] = "push" /\ Q!Claim(hseq[h])
        /\ UNCHANGED <<active_, waiting_, popped>>
    BY <1>5 DEF PushClaimed, vars, queueVars, engineVars
  <2>1. hseq[h] \in Seqs /\ hseq[h] \in Pushing BY <2>0, HandlerFacts
  <2>2. hseq[h] \in Seqs \ Range(Pipeline) BY <2>1 DEF EngineInv, PipelineInv
  <2>3. Pipeline' = Append(Pipeline, hseq[h]) BY <2>0, <2>1, <1>0, ClaimedRow
  <2> QED BY <2>2, <2>3, <1>0, OrderedAppend
<1>6. ASSUME NEW h \in Handlers, PushPublished(h) PROVE Ordered(Pipeline, Pipeline')
  <2>1. PICK k \in 1..Len(queue) : Q!Publish(k) BY <1>6 DEF PushPublished
  <2>2. UNCHANGED <<active_, waiting_, popped>>
    BY <1>6 DEF PushPublished, vars, queueVars, engineVars
  <2> QED BY <2>1, <2>2, <1>0, <1>same, PublishedRow
<1>7. ASSUME NEW h \in Handlers, PushRejected(h) \/ Answer(h)
      PROVE  Ordered(Pipeline, Pipeline')
  <2>1. UNCHANGED <<queueVars, popped, queue>>
    BY <1>7 DEF PushRejected, Answer, vars, engineVars
  <2>2. Pipeline' = Pipeline BY <2>1 DEF Pipeline, queueVars
  <2> QED BY <2>2, <1>same
<1>8. ASSUME NEW h \in Handlers, NEW s \in Seqs, NEW r \in Requests[s], Generate(h, r)
      PROVE  Ordered(Pipeline, Pipeline')
  <2>1. UNCHANGED <<queueVars, popped, queue>> BY <1>8 DEF Generate, engineVars
  <2>2. Pipeline' = Pipeline BY <2>1 DEF Pipeline, queueVars
  <2> QED BY <2>2, <1>same
<1> QED
  BY <1>1, <1>2, <1>3, <1>4, <1>5, <1>6, <1>7, <1>8
     DEF EngineNext, EngineLoop, HandlerStep

\* In an ordered list without repetitions two who stay do not change places.
LEMMA NoSwap ==
    ASSUME NEW S, NEW q \in Seq(S), NEW a \in Seq(S), IsInjective(q), Ordered(q, a),
           NEW i \in DOMAIN q, NEW j \in DOMAIN q, NEW k \in DOMAIN a, NEW l \in DOMAIN a,
           i < j, q[i] = a[k], q[j] = a[l]
    PROVE  k < l
<1>0. /\ DOMAIN q = 1..Len(q) /\ Len(q) \in Nat /\ DOMAIN a = 1..Len(a) /\ Len(a) \in Nat
  BY LenProperties
<1>1. k # l BY <1>0 DEF IsInjective
<1>2. CASE l < k
  <2>1. l \in 1..(k - 1) BY <1>0, <1>2
  <2>2. PICK m \in 1..(i - 1) : q[m] = a[l] BY <2>1 DEF Ordered
  <2>3. m \in DOMAIN q /\ m # j BY <1>0
  <2> QED BY <2>2, <2>3 DEF IsInjective
<1> QED BY <1>0, <1>1, <1>2

\* From the ticket to the end of decoding no request gets a place before an
\* earlier one.
THEOREM FirstInFirstServed == EngineSpec => ArrivalOrder
<1>1. EngineInv => Pipeline \in Seq(Seqs) BY RowTypes DEF EngineInv
<1>2. EngineInv /\ (Pipeline \in Seq(Seqs))' /\ [EngineNext]_allVars
        => [\A i, j \in DOMAIN Pipeline, k, l \in DOMAIN Pipeline' :
               i < j /\ Pipeline[i] = Pipeline'[k] /\ Pipeline[j] = Pipeline'[l]
                   => k < l]_allVars
  <2> SUFFICES ASSUME EngineInv, Pipeline' \in Seq(Seqs), [EngineNext]_allVars,
                      NEW i \in DOMAIN Pipeline, NEW j \in DOMAIN Pipeline,
                      NEW k \in DOMAIN Pipeline', NEW l \in DOMAIN Pipeline',
                      i < j, Pipeline[i] = Pipeline'[k], Pipeline[j] = Pipeline'[l]
               PROVE  k < l
    OBVIOUS
  <2>1. Pipeline \in Seq(Seqs) /\ IsInjective(Pipeline) /\ Ordered(Pipeline, Pipeline')
    BY PipelineOrdered, RowTypes DEF EngineInv, PipelineInv
  <2> QED BY <2>1, NoSwap
<1> QED BY <1>1, <1>2, EngineInvariantHolds, PTL DEF EngineSpec, ArrivalOrder
=============================================================================
