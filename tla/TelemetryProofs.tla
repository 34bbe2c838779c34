-------------------------- MODULE TelemetryProofs --------------------------
(***************************************************************************)
(* No sample vanishes and a snapshot is complete, for any number of         *)
(* recorders, any ring and any number of samples: IInv of Telemetry is      *)
(* inductive.  And compute_stats is right for every vector of samples.      *)
(***************************************************************************)
EXTENDS Telemetry, FunctionTheorems, FiniteSetTheorems, TLAPS

-----------------------------------------------------------------------------
(* Counting *)

\* Recorders are finite in number, so those with a sample in hand can be counted.
LEMMA InHandFinite ==
    IsFiniteSet(InHand) /\ Cardinality(InHand) \in Nat
<1>1. InHand \in SUBSET Recorders BY DEF InHand
<1>2. IsFiniteSet(InHand) BY <1>1, FS_Subset, TelemetryAssumption
<1> QED BY <1>2, FS_CardinalityType

\* A recorder gets a sample to push.
LEMMA InHandEnter ==
    ASSUME TypeOK, NEW t \in Recorders, rec[t] \notin {"push", "drop"},
           rec' = [rec EXCEPT ![t] = "push"]
    PROVE  Cardinality(InHand') = Cardinality(InHand) + 1
<1>1. t \notin InHand BY DEF InHand
<1>2. InHand' = InHand \cup {t} BY DEF InHand, TypeOK
<1> QED BY <1>1, <1>2, InHandFinite, FS_AddElement

\* It has pushed or dropped it.
LEMMA InHandLeave ==
    ASSUME TypeOK, NEW t \in Recorders, rec[t] \in {"push", "drop"},
           NEW x \in {"idle", "publish"}, rec' = [rec EXCEPT ![t] = x]
    PROVE  Cardinality(InHand') = Cardinality(InHand) - 1
<1>1. t \in InHand BY DEF InHand
<1>2. InHand' = InHand \ {t} BY DEF InHand, TypeOK
<1> QED BY <1>1, <1>2, InHandFinite, FS_RemoveElement

\* The samples that can be popped are some of those in the ring.
LEMMA ReadyBound ==
    ASSUME Q!TypeOK
    PROVE  /\ Len(queue) \in Nat /\ DOMAIN queue = 1..Len(queue)
           /\ IsFiniteSet(ReadyPrefix)
           /\ Cardinality(ReadyPrefix) \in Nat
           /\ Cardinality(ReadyPrefix) <= Len(queue)
<1>1. Len(queue) \in Nat /\ DOMAIN queue = 1..Len(queue) BY DEF Q!TypeOK
<1>2. /\ IsFiniteSet(1..Len(queue))
      /\ Cardinality(1..Len(queue)) = Len(queue)
  <2>1. 1 \in Int /\ Len(queue) \in Int BY <1>1
  <2>2. /\ IsFiniteSet(1..Len(queue))
        /\ Cardinality(1..Len(queue)) = IF 1 > Len(queue) THEN 0 ELSE Len(queue) - 1 + 1
    BY <2>1, FS_Interval
  <2> QED BY <1>1, <2>2
<1>3. ReadyPrefix \in SUBSET (1..Len(queue)) BY <1>1 DEF ReadyPrefix
<1>4. /\ IsFiniteSet(ReadyPrefix)
      /\ Cardinality(ReadyPrefix) <= Cardinality(1..Len(queue))
  BY <1>2, <1>3, FS_Subset
<1> QED BY <1>1, <1>2, <1>4, FS_CardinalityType

\* Claiming a cell leaves what can be popped.
LEMMA ClaimReady ==
    ASSUME Q!TypeOK, NEW v \in Recorders \X Kinds, Q!Claim(v)
    PROVE  /\ Q!TypeOK' /\ Len(queue') = Len(queue) + 1
           /\ Cardinality(ReadyPrefix') = Cardinality(ReadyPrefix)
<1>1. [item |-> v, ready |-> FALSE] \in Q!Entry BY DEF Q!Entry
<1>2. /\ queue' \in Seq(Q!Entry) /\ Len(queue') = Len(queue) + 1
      /\ Len(queue) \in Nat
      /\ DOMAIN queue' = 1..(Len(queue) + 1) /\ DOMAIN queue = 1..Len(queue)
      /\ \A i \in 1..Len(queue) : queue'[i] = queue[i]
      /\ ~ queue'[Len(queue) + 1].ready
  BY <1>1 DEF Q!TypeOK, Q!Claim
<1>3. ReadyPrefix' = ReadyPrefix
  <2>1. \A i \in DOMAIN queue' : i \in DOMAIN queue \/ i = Len(queue) + 1
    BY <1>2
  <2>2. Len(queue) + 1 \notin ReadyPrefix' BY <1>2 DEF ReadyPrefix
  <2>3. \A i \in DOMAIN queue : i \in DOMAIN queue' /\ \A j \in 1..i : queue'[j] = queue[j]
    BY <1>2
  <2> QED BY <2>1, <2>2, <2>3 DEF ReadyPrefix
<1> QED BY <1>2, <1>3 DEF Q!TypeOK

\* Publishing a sample can only let more be popped.
LEMMA PublishReady ==
    ASSUME Q!TypeOK, NEW i \in 1..Len(queue), Q!Publish(i)
    PROVE  /\ Q!TypeOK' /\ Len(queue') = Len(queue)
           /\ Cardinality(ReadyPrefix') >= Cardinality(ReadyPrefix)
<1>1. /\ queue' = [queue EXCEPT ![i] = [queue[i] EXCEPT !.ready = TRUE]]
      /\ queue[i] \in Q!Entry /\ Len(queue) \in Nat /\ DOMAIN queue = 1..Len(queue)
  BY DEF Q!TypeOK, Q!Publish
<1>2. [queue[i] EXCEPT !.ready = TRUE] \in Q!Entry
  BY <1>1 DEF Q!Entry
<1>3. /\ queue' \in Seq(Q!Entry) /\ Len(queue') = Len(queue)
      /\ DOMAIN queue' = 1..Len(queue)
  BY <1>1, <1>2 DEF Q!TypeOK
<1>4. \A j \in 1..Len(queue) : queue[j].ready => queue'[j].ready
  BY <1>1 DEF Q!TypeOK, Q!Entry
<1>5. ReadyPrefix \subseteq ReadyPrefix'
  <2>1. \A m \in 1..Len(queue) : \A j \in 1..m : j \in 1..Len(queue) BY <1>1
  <2> QED BY <2>1, <1>1, <1>3, <1>4 DEF ReadyPrefix
<1>6. Q!TypeOK' BY <1>3 DEF Q!TypeOK
<1>7. IsFiniteSet(ReadyPrefix')
  <2>1. ReadyPrefix' \in SUBSET (1..Len(queue)) BY <1>3 DEF ReadyPrefix
  <2> QED BY <2>1, <1>1, FS_Interval, FS_Subset
<1> QED BY <1>3, <1>5, <1>6, <1>7, FS_Subset, ReadyBound

\* A pop takes one of the samples that can be popped, the rest move up.
LEMMA TakeReady ==
    ASSUME Q!TypeOK, Q!Take
    PROVE  /\ Q!TypeOK' /\ Len(queue') = Len(queue) - 1
           /\ Head(queue).item \in Recorders \X Kinds
           /\ Cardinality(ReadyPrefix') = Cardinality(ReadyPrefix) - 1
<1>1. /\ Len(queue) \in Nat /\ Len(queue) > 0 /\ DOMAIN queue = 1..Len(queue)
      /\ queue' \in Seq(Q!Entry) /\ Len(queue') = Len(queue) - 1
      /\ DOMAIN queue' = 1..(Len(queue) - 1)
      /\ \A i \in 1..(Len(queue) - 1) : queue'[i] = queue[i + 1]
      /\ Head(queue) = queue[1] /\ queue[1] \in Q!Entry
      /\ Head(queue).ready
  BY DEF Q!TypeOK, Q!Take
<1>2. Head(queue).item \in Recorders \X Kinds BY <1>1 DEF Q!Entry
<1> DEFINE n == Len(queue)
           P == ReadyPrefix \ {1}
           f == [i \in ReadyPrefix' |-> i + 1]
<1>3. 1 \in ReadyPrefix BY <1>1 DEF ReadyPrefix
<1>4. ASSUME NEW i \in 1..(n - 1)
      PROVE  i \in ReadyPrefix' <=> i + 1 \in ReadyPrefix
  <2>1. i \in Nat /\ i + 1 \in 1..n BY <1>1
  <2>2. i \in ReadyPrefix' <=> \A j \in 1..i : queue[j + 1].ready
    <3>1. i \in ReadyPrefix' <=> \A j \in 1..i : queue'[j].ready
      BY <1>1 DEF ReadyPrefix
    <3>2. \A j \in 1..i : queue'[j] = queue[j + 1] BY <1>1, <2>1
    <3> QED BY <3>1, <3>2
  <2>3. i + 1 \in ReadyPrefix <=> \A j \in 1..(i + 1) : queue[j].ready
    BY <1>1, <2>1 DEF ReadyPrefix
  <2>4. (\A j \in 1..i : queue[j + 1].ready) => \A j \in 1..(i + 1) : queue[j].ready
    <3> SUFFICES ASSUME \A j \in 1..i : queue[j + 1].ready, NEW j \in 1..(i + 1)
                 PROVE  queue[j].ready
      OBVIOUS
    <3>1. CASE j = 1 BY <1>1, <3>1
    <3>2. CASE j # 1
      <4>1. j - 1 \in 1..i /\ (j - 1) + 1 = j BY <2>1, <3>2
      <4> QED BY <4>1
    <3> QED BY <3>1, <3>2
  <2>5. (\A j \in 1..(i + 1) : queue[j].ready) => \A j \in 1..i : queue[j + 1].ready
    BY <2>1
  <2> QED BY <2>2, <2>3, <2>4, <2>5
<1>5. ReadyPrefix' \subseteq 1..(n - 1) /\ ReadyPrefix \subseteq 1..n
  BY <1>1 DEF ReadyPrefix
<1>6. f \in [ReadyPrefix' -> P] BY <1>1, <1>4, <1>5
<1>7. \A i, j \in ReadyPrefix' : f[i] = f[j] => i = j BY <1>1, <1>5
<1>8. \A x \in P : \E i \in ReadyPrefix' : f[i] = x
  <2> SUFFICES ASSUME NEW x \in P PROVE \E i \in ReadyPrefix' : f[i] = x OBVIOUS
  <2>1. x - 1 \in 1..(n - 1) /\ (x - 1) + 1 = x BY <1>1, <1>5
  <2>2. x - 1 \in ReadyPrefix' BY <1>4, <2>1
  <2> QED BY <2>1, <2>2
<1> HIDE DEF f, P
<1>9. ExistsBijection(ReadyPrefix', P)
  BY <1>6, <1>7, <1>8, Fun_IsBij, Fun_ExistsBij
<1>10. IsFiniteSet(ReadyPrefix')
  <2>1. IsFiniteSet(1..(n - 1))
    <3>1. 1 \in Int /\ n - 1 \in Int BY <1>1
    <3> QED BY <3>1, FS_Interval
  <2> QED BY <2>1, <1>5, FS_Subset
<1>11. Cardinality(P) = Cardinality(ReadyPrefix') BY <1>9, <1>10, FS_Bijection
<1>12. Cardinality(P) = Cardinality(ReadyPrefix) - 1
  BY <1>3, ReadyBound, FS_RemoveElement DEF P
<1> QED BY <1>1, <1>2, <1>11, <1>12 DEF Q!TypeOK

-----------------------------------------------------------------------------
(* The invariant *)

\* The counters are natural numbers, and what is settled was issued.
LEMMA Counts ==
    ASSUME TypeOK, Accounting
    PROVE  /\ dropped_ \in Nat /\ discarded \in Nat /\ Collected \in Nat
           /\ CellsTaken \in Nat /\ Cardinality(InHand) \in Nat
           /\ vectors["ttft"] \in Nat /\ vectors["inter_token"] \in Nat
           /\ Settled \in 0..MaxSamples
<1>1. MaxSamples \in Nat BY TelemetryAssumption
<1>2. /\ dropped_ \in Nat /\ discarded \in Nat /\ issued \in Nat /\ issued <= MaxSamples
      /\ vectors["ttft"] \in Nat /\ vectors["inter_token"] \in Nat
  BY <1>1 DEF TypeOK, Kinds
<1>3. /\ Len(queue) \in Nat /\ Cardinality(ReadyPrefix) \in Nat
      /\ Cardinality(ReadyPrefix) <= Len(queue)
  BY ReadyBound DEF TypeOK
<1>4. Cardinality(InHand) \in Nat BY InHandFinite
<1>5. Collected \in Nat BY <1>2 DEF Collected
<1>6. CellsTaken \in Nat BY <1>3 DEF CellsTaken
<1>7. Settled \in Nat /\ Settled <= issued
  <2> DEFINE d == IF drainer = NoSample THEN 0 ELSE 1
  <2>1. d \in Nat OBVIOUS
  <2>2. /\ Settled = dropped_ + Collected + d + Cardinality(ReadyPrefix)
        /\ issued = dropped_ + Collected + discarded + (Len(queue) + d) + Cardinality(InHand)
    BY DEF Settled, Accounting, CellsTaken
  <2> HIDE DEF d
  <2> QED BY <1>2, <1>3, <1>4, <1>5, <2>1, <2>2
<1> QED BY <1>1, <1>2, <1>4, <1>5, <1>6, <1>7

\* No part is more than the whole.
LEMMA PartsOfSum ==
    ASSUME NEW a \in Nat, NEW b \in Nat, NEW c \in Nat, NEW d \in Nat, NEW e \in Nat,
           NEW f \in Nat, NEW sum \in Nat, sum = a + (b + c) + d + e + f
    PROVE  a <= sum /\ b <= sum /\ c <= sum /\ d <= sum
OBVIOUS

\* Nothing that is recorded is taken for NoSample.
LEMMA SamplesAreSome == \A x \in Recorders \X Kinds : x # NoSample
BY DEF NoSample

\* From the counts after a step to the invariant: what remains when an action
\* keeps the types of everything but the counters.
LEMMA BoundedCounts ==
    ASSUME Accounting', dropped_' \in Nat, discarded' \in Nat,
           issued' \in 0..MaxSamples, vectors' \in [Kinds -> Nat], Q!TypeOK'
    PROVE  /\ dropped_' \in 0..MaxSamples /\ discarded' \in 0..MaxSamples
           /\ vectors' \in [Kinds -> 0..MaxSamples]
<1>1. MaxSamples \in Nat BY TelemetryAssumption
<1>2. Len(queue') \in Nat BY DEF Q!TypeOK
<1>3. Cardinality(InHand') \in Nat
  <2>1. InHand' \in SUBSET Recorders BY DEF InHand
  <2> QED BY <2>1, FS_Subset, FS_CardinalityType, TelemetryAssumption
<1>4. vectors'["ttft"] \in Nat /\ vectors'["inter_token"] \in Nat BY DEF Kinds
<1>5. /\ dropped_' <= issued' /\ discarded' <= issued'
      /\ vectors'["ttft"] <= issued' /\ vectors'["inter_token"] <= issued'
  <2> DEFINE d == IF drainer' = NoSample THEN 0 ELSE 1
  <2>1. d \in Nat OBVIOUS
  <2>2. issued' = dropped_' + (vectors'["ttft"] + vectors'["inter_token"])
                    + discarded' + (Len(queue') + d) + Cardinality(InHand')
    BY DEF Accounting, Collected, CellsTaken
  <2>3. issued' \in Nat BY <1>1
  <2> HIDE DEF d
  <2>4. Len(queue') + d \in Nat BY <1>2, <2>1
  <2> QED BY <1>3, <1>4, <2>2, <2>3, <2>4, PartsOfSum
<1>6. \A x \in Kinds : vectors'[x] \in 0..MaxSamples
  BY <1>1, <1>4, <1>5 DEF Kinds
<1> QED BY <1>1, <1>5, <1>6

\* The invariant holds before the first sample.
LEMMA InitInv == Init => IInv
<1> SUFFICES ASSUME Init PROVE IInv OBVIOUS
<1> USE DEF Init, Q!Init
<1>0. MaxSamples \in Nat BY TelemetryAssumption
<1>1. Q!TypeOK /\ Len(queue) = 0 BY DEF Q!TypeOK
<1>2. TypeOK
  <2>1. 0 \in 0..MaxSamples BY <1>0
  <2>2. vectors \in [Kinds -> 0..MaxSamples] BY <2>1
  <2>3. kind \in [Recorders -> Kinds] BY DEF Kinds
  <2> QED BY <1>1, <2>1, <2>2, <2>3 DEF TypeOK
<1>3. Accounting
  <2>1. InHand = {} BY DEF InHand
  <2>2. Collected = 0 /\ CellsTaken = 0 BY <1>1 DEF Collected, CellsTaken, Kinds
  <2> QED BY <2>1, <2>2, FS_EmptySet DEF Accounting
<1>4. FlusherInv /\ SnapshotInv /\ CompleteSnapshot
  BY DEF FlusherInv, SnapshotInv, CompleteSnapshot
<1> QED BY <1>2, <1>3, <1>4 DEF IInv

\* Steps of the threads that touch no sample.
LEMMA ControlInv ==
    ASSUME IInv, UNCHANGED <<dropped_, rec, kind, issued, discarded, queue, drainer, vectors>>,
           enabled_' \in BOOLEAN, running_' \in BOOLEAN,
           mutex_' \in {"free", "flusher", "owner"},
           flusher' \in {"none", "test", "lock", "drain", "returned"},
           owner' \in {"idle", "join", "lock", "drain", "drained", "reset"},
           mutex_' = "flusher" <=> flusher' = "drain",
           mutex_' = "owner" <=> owner' = "drain",
           FlusherInv',
           must_see' \in {must_see, 0, Settled},
           owner' = "drained" => dropped_ + Collected >= must_see',
           owner' \in {"join", "lock", "drain"} => must_see' <= Settled
    PROVE  IInv'
<1>1. Settled \in 0..MaxSamples BY Counts DEF IInv
<1>2. must_see' \in 0..MaxSamples
  BY <1>1, TelemetryAssumption DEF IInv, TypeOK
<1>3. TypeOK' BY <1>2 DEF IInv, TypeOK, Q!TypeOK
<1>4. /\ Settled' = Settled /\ Collected' = Collected /\ CellsTaken' = CellsTaken
      /\ InHand' = InHand
  BY DEF Settled, Collected, CellsTaken, InHand, ReadyPrefix
<1>5. Accounting' BY <1>4 DEF IInv, Accounting
<1>6. SnapshotInv' BY <1>4 DEF SnapshotInv
<1>7. CompleteSnapshot' BY <1>4 DEF CompleteSnapshot
<1> QED BY <1>3, <1>5, <1>6, <1>7 DEF IInv

\* Steps that move samples: outside a reset, what is settled stays settled.
LEMMA SampleInv ==
    ASSUME IInv, UNCHANGED <<enabled_, running_, mutex_, flusher, owner, must_see>>,
           rec' \in [Recorders -> {"idle", "push", "publish", "drop"}],
           kind' \in [Recorders -> Kinds],
           drainer' = NoSample \/ drainer' \in Recorders \X Kinds,
           dropped_' \in Nat, discarded' \in Nat, issued' \in 0..MaxSamples,
           vectors' \in [Kinds -> Nat], Q!TypeOK', Accounting',
           owner # "reset" => /\ Settled' \in Nat /\ Settled' >= Settled
                              /\ Collected' \in Nat
                              /\ dropped_' + Collected' >= dropped_ + Collected
    PROVE  IInv'
<1>1. /\ dropped_' \in 0..MaxSamples /\ discarded' \in 0..MaxSamples
      /\ vectors' \in [Kinds -> 0..MaxSamples]
  BY BoundedCounts
<1>2. TypeOK' BY <1>1 DEF IInv, TypeOK
<1>3. FlusherInv' BY DEF IInv, FlusherInv
<1>4. /\ Settled \in Nat /\ dropped_ \in Nat /\ Collected \in Nat /\ must_see \in Nat
  <2>1. Settled \in 0..MaxSamples /\ dropped_ \in Nat /\ Collected \in Nat
    BY Counts DEF IInv
  <2> QED BY <2>1, TelemetryAssumption DEF IInv, TypeOK
<1>5. SnapshotInv' BY <1>4 DEF IInv, SnapshotInv
<1>6. CompleteSnapshot' BY <1>4 DEF IInv, CompleteSnapshot
<1> QED BY <1>2, <1>3, <1>5, <1>6 DEF IInv

\* record() takes a sample in hand.
LEMMA RecordInv ==
    ASSUME IInv, NEW t \in Recorders, NEW k \in Kinds, Record(t, k)
    PROVE  IInv'
<1> USE DEF Record, flusherVars
<1>1. TypeOK /\ Accounting BY DEF IInv
<1>2. /\ rec' \in [Recorders -> {"idle", "push", "publish", "drop"}]
      /\ kind' \in [Recorders -> Kinds]
  BY <1>1 DEF TypeOK
<1>3. Cardinality(InHand') = Cardinality(InHand) + 1 BY <1>1, InHandEnter
<1>4. Collected' = Collected /\ CellsTaken' = CellsTaken /\ Settled' = Settled
  BY DEF Collected, CellsTaken, Settled, ReadyPrefix
<1>5. /\ dropped_ \in Nat /\ discarded \in Nat /\ Collected \in Nat
      /\ CellsTaken \in Nat /\ Cardinality(InHand) \in Nat /\ Settled \in 0..MaxSamples
  BY <1>1, Counts
<1>6. Accounting' BY <1>1, <1>3, <1>4, <1>5 DEF Accounting
<1>7. issued' \in 0..MaxSamples BY <1>1, TelemetryAssumption DEF TypeOK
<1>8. vectors' \in [Kinds -> Nat] /\ Q!TypeOK'
  BY <1>1, TelemetryAssumption DEF TypeOK, Q!TypeOK
<1>9. drainer' = NoSample \/ drainer' \in Recorders \X Kinds BY <1>1 DEF TypeOK
<1> QED BY <1>2, <1>4, <1>5, <1>6, <1>7, <1>8, <1>9, SampleInv, TelemetryAssumption

\* The sample goes from the recorder's hand to a cell.
LEMMA PushClaimedInv ==
    ASSUME IInv, NEW t \in Recorders, PushClaimed(t)
    PROVE  IInv'
<1> USE DEF PushClaimed, flusherVars
<1>1. TypeOK /\ Accounting BY DEF IInv
<1>2. rec' \in [Recorders -> {"idle", "push", "publish", "drop"}]
  BY <1>1 DEF TypeOK
<1>3. Cardinality(InHand') = Cardinality(InHand) - 1 BY <1>1, InHandLeave
<1>4. /\ Q!TypeOK' /\ Len(queue') = Len(queue) + 1 /\ Len(queue) \in Nat
      /\ Cardinality(ReadyPrefix') = Cardinality(ReadyPrefix)
  <2>1. <<t, kind[t]>> \in Recorders \X Kinds BY <1>1 DEF TypeOK
  <2>2. Q!TypeOK BY <1>1 DEF TypeOK
  <2> QED BY <2>1, <2>2, ClaimReady, ReadyBound
<1>5. Collected' = Collected /\ CellsTaken' = CellsTaken + 1 /\ Settled' = Settled
  BY <1>4 DEF Collected, CellsTaken, Settled
<1>6. /\ dropped_ \in Nat /\ discarded \in Nat /\ Collected \in Nat
      /\ CellsTaken \in Nat /\ Cardinality(InHand) \in Nat /\ Settled \in 0..MaxSamples
  BY <1>1, Counts
<1>7. Accounting' BY <1>1, <1>3, <1>5, <1>6 DEF Accounting
<1>8. vectors' \in [Kinds -> Nat] BY <1>1, TelemetryAssumption DEF TypeOK
<1>9. /\ drainer' = NoSample \/ drainer' \in Recorders \X Kinds
      /\ kind' \in [Recorders -> Kinds] /\ issued' \in 0..MaxSamples
  BY <1>1 DEF TypeOK
<1> QED BY <1>2, <1>4, <1>5, <1>6, <1>7, <1>8, <1>9, SampleInv, TelemetryAssumption

\* It is ready.
LEMMA PushPublishedInv ==
    ASSUME IInv, NEW t \in Recorders, PushPublished(t)
    PROVE  IInv'
<1> USE DEF PushPublished, flusherVars
<1>1. TypeOK /\ Accounting BY DEF IInv
<1>2. rec' \in [Recorders -> {"idle", "push", "publish", "drop"}]
  BY <1>1 DEF TypeOK
<1>3. InHand' = InHand BY <1>1 DEF InHand, TypeOK
<1>4. /\ Q!TypeOK' /\ Len(queue') = Len(queue)
      /\ Cardinality(ReadyPrefix') >= Cardinality(ReadyPrefix)
      /\ Cardinality(ReadyPrefix') \in Nat /\ Cardinality(ReadyPrefix) \in Nat
  <2>1. Q!TypeOK BY <1>1 DEF TypeOK
  <2>2. PICK i \in 1..Len(queue) : Q!Publish(i) OBVIOUS
  <2>3. /\ Q!TypeOK' /\ Len(queue') = Len(queue)
        /\ Cardinality(ReadyPrefix') >= Cardinality(ReadyPrefix)
    BY <2>1, <2>2, PublishReady
  <2>4. Cardinality(ReadyPrefix') \in Nat
    <3>1. ReadyPrefix' \in SUBSET (1..Len(queue')) /\ Len(queue') \in Int
      BY <2>3 DEF ReadyPrefix, Q!TypeOK
    <3>2. IsFiniteSet(1..Len(queue')) BY <3>1, FS_Interval
    <3> QED BY <3>1, <3>2, FS_Subset, FS_CardinalityType
  <2> QED BY <2>1, <2>3, <2>4, ReadyBound
<1>5. Collected' = Collected /\ CellsTaken' = CellsTaken
  BY <1>4 DEF Collected, CellsTaken
<1>6. /\ dropped_ \in Nat /\ discarded \in Nat /\ Collected \in Nat
      /\ CellsTaken \in Nat /\ Cardinality(InHand) \in Nat /\ Settled \in 0..MaxSamples
  BY <1>1, Counts
<1>7. Settled' >= Settled /\ Settled' \in Nat
  <2> DEFINE d == IF drainer = NoSample THEN 0 ELSE 1
  <2>1. d \in Nat OBVIOUS
  <2>2. /\ Settled = dropped_ + Collected + d + Cardinality(ReadyPrefix)
        /\ Settled' = dropped_ + Collected + d + Cardinality(ReadyPrefix')
    BY <1>5 DEF Settled
  <2> HIDE DEF d
  <2> QED BY <1>4, <1>6, <2>1, <2>2
<1>8. Accounting' BY <1>1, <1>3, <1>5 DEF Accounting
<1>9. vectors' \in [Kinds -> Nat] BY <1>1, TelemetryAssumption DEF TypeOK
<1>10. /\ drainer' = NoSample \/ drainer' \in Recorders \X Kinds
       /\ kind' \in [Recorders -> Kinds] /\ issued' \in 0..MaxSamples
  BY <1>1 DEF TypeOK
<1> QED BY <1>2, <1>4, <1>5, <1>6, <1>7, <1>8, <1>9, <1>10, SampleInv

\* The ring is full: the sample stays in hand.
LEMMA PushFullInv ==
    ASSUME IInv, NEW t \in Recorders, PushFull(t)
    PROVE  IInv'
<1> USE DEF PushFull, flusherVars
<1>1. TypeOK /\ Accounting BY DEF IInv
<1>2. rec' \in [Recorders -> {"idle", "push", "publish", "drop"}]
  BY <1>1 DEF TypeOK
<1>3. InHand' = InHand BY <1>1 DEF InHand, TypeOK
<1>4. Collected' = Collected /\ CellsTaken' = CellsTaken /\ Settled' = Settled
  BY DEF Collected, CellsTaken, Settled, ReadyPrefix
<1>5. dropped_ \in Nat /\ discarded \in Nat /\ Collected \in Nat /\ Settled \in 0..MaxSamples
  BY <1>1, Counts
<1>6. Accounting' BY <1>1, <1>3, <1>4 DEF Accounting
<1>7. vectors' \in [Kinds -> Nat] /\ Q!TypeOK'
  BY <1>1, TelemetryAssumption DEF TypeOK, Q!TypeOK
<1>8. /\ drainer' = NoSample \/ drainer' \in Recorders \X Kinds
      /\ kind' \in [Recorders -> Kinds] /\ issued' \in 0..MaxSamples
  BY <1>1 DEF TypeOK
<1> QED BY <1>2, <1>4, <1>5, <1>6, <1>7, <1>8, SampleInv, TelemetryAssumption

\* It is dropped and counted.
LEMMA CountDropInv ==
    ASSUME IInv, NEW t \in Recorders, CountDrop(t)
    PROVE  IInv'
<1> USE DEF CountDrop, flusherVars
<1>1. TypeOK /\ Accounting BY DEF IInv
<1>2. rec' \in [Recorders -> {"idle", "push", "publish", "drop"}]
  BY <1>1 DEF TypeOK
<1>3. Cardinality(InHand') = Cardinality(InHand) - 1 BY <1>1, InHandLeave
<1>4. /\ Collected' = Collected /\ CellsTaken' = CellsTaken
      /\ Cardinality(ReadyPrefix') = Cardinality(ReadyPrefix)
  BY DEF Collected, CellsTaken, ReadyPrefix
<1>5. /\ dropped_ \in Nat /\ discarded \in Nat /\ Collected \in Nat
      /\ CellsTaken \in Nat /\ Cardinality(InHand) \in Nat /\ Settled \in 0..MaxSamples
      /\ Cardinality(ReadyPrefix) \in Nat
  BY <1>1, Counts, ReadyBound DEF TypeOK
<1>6. Settled' = Settled + 1
  <2> DEFINE d == IF drainer = NoSample THEN 0 ELSE 1
  <2>1. d \in Nat OBVIOUS
  <2>2. /\ Settled = dropped_ + Collected + d + Cardinality(ReadyPrefix)
        /\ Settled' = (dropped_ + 1) + Collected + d + Cardinality(ReadyPrefix)
    BY <1>4 DEF Settled
  <2> HIDE DEF d
  <2> QED BY <1>5, <2>1, <2>2
<1>7. Accounting' BY <1>1, <1>3, <1>4, <1>5 DEF Accounting
<1>8. vectors' \in [Kinds -> Nat] /\ Q!TypeOK'
  BY <1>1, TelemetryAssumption DEF TypeOK, Q!TypeOK
<1>9. /\ drainer' = NoSample \/ drainer' \in Recorders \X Kinds
      /\ kind' \in [Recorders -> Kinds] /\ issued' \in 0..MaxSamples
  BY <1>1 DEF TypeOK
<1>10. Settled \in Nat BY <1>5, TelemetryAssumption
<1> QED BY <1>2, <1>4, <1>5, <1>6, <1>7, <1>8, <1>9, <1>10, SampleInv

\* try_pop moves the oldest sample from the ring to the drainer; its cell is
\* still taken.
LEMMA DrainPopInv == ASSUME IInv, DrainPop PROVE IInv'
<1> USE DEF DrainPop, recorderVars
<1>1. TypeOK /\ Accounting /\ Q!TypeOK BY DEF IInv, TypeOK
<1>2. /\ Q!TypeOK' /\ Len(queue') = Len(queue) - 1
      /\ drainer' \in Recorders \X Kinds
      /\ Cardinality(ReadyPrefix') = Cardinality(ReadyPrefix) - 1
      /\ Len(queue) \in Nat /\ Cardinality(ReadyPrefix) \in Nat
  BY <1>1, TakeReady, ReadyBound
<1>3. drainer' # NoSample BY <1>2, SamplesAreSome
<1>4. /\ dropped_ \in Nat /\ discarded \in Nat /\ Collected \in Nat
      /\ CellsTaken \in Nat /\ Settled \in 0..MaxSamples
  BY <1>1, Counts
<1>5. /\ Collected' = Collected /\ CellsTaken' = CellsTaken /\ InHand' = InHand
      /\ Settled' = Settled
  <2>1. CellsTaken = Len(queue) /\ CellsTaken' = Len(queue) - 1 + 1
    BY <1>2, <1>3 DEF CellsTaken
  <2>2. Collected' = Collected /\ InHand' = InHand BY DEF Collected, InHand
  <2>3. /\ Settled = dropped_ + Collected + Cardinality(ReadyPrefix)
        /\ Settled' = dropped_ + Collected + 1 + (Cardinality(ReadyPrefix) - 1)
    BY <1>2, <1>3, <1>4, <2>2 DEF Settled
  <2> QED BY <1>2, <1>4, <2>1, <2>2, <2>3
<1>6. Accounting' BY <1>1, <1>5 DEF Accounting
<1>7. vectors' \in [Kinds -> Nat] BY <1>1, TelemetryAssumption DEF TypeOK
<1>8. /\ rec' \in [Recorders -> {"idle", "push", "publish", "drop"}]
      /\ kind' \in [Recorders -> Kinds] /\ issued' \in 0..MaxSamples
  BY <1>1 DEF TypeOK
<1> QED BY <1>2, <1>4, <1>5, <1>6, <1>7, <1>8, SampleInv, TelemetryAssumption

\* The drainer's sample goes to its vector.
LEMMA DrainStoreInv == ASSUME IInv, DrainStore PROVE IInv'
<1> USE DEF DrainStore, recorderVars
<1>1. TypeOK /\ Accounting /\ Q!TypeOK BY DEF IInv, TypeOK
<1>2. drainer[2] \in Kinds /\ vectors \in [Kinds -> Nat]
  BY <1>1, TelemetryAssumption DEF TypeOK
<1>3. vectors' \in [Kinds -> Nat] BY <1>2
<1>4. /\ dropped_ \in Nat /\ discarded \in Nat /\ Collected \in Nat
      /\ CellsTaken \in Nat /\ Settled \in 0..MaxSamples
      /\ Len(queue) \in Nat /\ Cardinality(ReadyPrefix) \in Nat
      /\ Cardinality(InHand) \in Nat
  BY <1>1, Counts, ReadyBound
<1>5. Collected' = Collected + 1
  <2>1. CASE drainer[2] = "ttft" BY <1>2, <2>1 DEF Collected, Kinds
  <2>2. CASE drainer[2] = "inter_token" BY <1>2, <2>2 DEF Collected, Kinds
  <2> QED BY <1>2, <2>1, <2>2 DEF Kinds
<1>6. CellsTaken = Len(queue) + 1 /\ CellsTaken' = Len(queue) /\ InHand' = InHand
  BY <1>4 DEF CellsTaken, InHand
<1>7. Settled' = Settled
  <2>1. /\ Settled = dropped_ + Collected + 1 + Cardinality(ReadyPrefix)
        /\ Settled' = dropped_ + (Collected + 1) + Cardinality(ReadyPrefix)
    BY <1>4, <1>5 DEF Settled, ReadyPrefix
  <2> QED BY <1>4, <2>1
<1>8. Accounting' BY <1>1, <1>4, <1>5, <1>6 DEF Accounting
<1>9. /\ rec' \in [Recorders -> {"idle", "push", "publish", "drop"}]
      /\ kind' \in [Recorders -> Kinds] /\ issued' \in 0..MaxSamples
      /\ Q!TypeOK'
  BY <1>1 DEF TypeOK, Q!TypeOK
<1> QED BY <1>3, <1>4, <1>5, <1>7, <1>8, <1>9, SampleInv, TelemetryAssumption

\* A reset moves the drops to what was discarded.
LEMMA ResetInv == ASSUME IInv, Reset PROVE IInv'
<1> USE DEF Reset
<1>1. TypeOK /\ Accounting /\ Q!TypeOK BY DEF IInv, TypeOK
<1>2. /\ dropped_ \in Nat /\ discarded \in Nat /\ Collected \in Nat
      /\ CellsTaken \in Nat /\ Cardinality(InHand) \in Nat
  BY <1>1, Counts
<1>3. Collected' = Collected /\ CellsTaken' = CellsTaken /\ InHand' = InHand
  BY DEF Collected, CellsTaken, InHand
<1>4. Accounting' BY <1>1, <1>2, <1>3 DEF Accounting
<1>5. Q!TypeOK' /\ issued' \in 0..MaxSamples /\ vectors' \in [Kinds -> Nat]
  BY <1>1, TelemetryAssumption DEF TypeOK, Q!TypeOK
<1>6. /\ dropped_' \in 0..MaxSamples /\ discarded' \in 0..MaxSamples
      /\ vectors' \in [Kinds -> 0..MaxSamples]
  BY <1>2, <1>4, <1>5, BoundedCounts
<1>7. TypeOK' BY <1>1, <1>5, <1>6 DEF TypeOK
<1>8. FlusherInv' /\ SnapshotInv' /\ CompleteSnapshot'
  BY DEF IInv, FlusherInv, SnapshotInv, CompleteSnapshot
<1> QED BY <1>4, <1>7, <1>8 DEF IInv

\* It discards what it pops.
LEMMA ResetDiscardInv == ASSUME IInv, ResetDiscard PROVE IInv'
<1> USE DEF ResetDiscard
<1>1. TypeOK /\ Accounting /\ Q!TypeOK BY DEF IInv, TypeOK
<1>2. /\ dropped_ \in Nat /\ discarded \in Nat /\ Collected \in Nat
      /\ Len(queue) \in Nat /\ Cardinality(InHand) \in Nat
  BY <1>1, Counts, ReadyBound
<1>3. /\ Collected' = Collected /\ InHand' = InHand
      /\ CellsTaken = Len(queue) + 1 /\ CellsTaken' = Len(queue)
  BY <1>2 DEF Collected, CellsTaken, InHand
<1>4. Accounting' BY <1>1, <1>2, <1>3 DEF Accounting
<1>5. /\ Q!TypeOK' /\ issued' \in 0..MaxSamples /\ vectors' \in [Kinds -> Nat]
      /\ rec' \in [Recorders -> {"idle", "push", "publish", "drop"}]
      /\ kind' \in [Recorders -> Kinds]
  BY <1>1, TelemetryAssumption DEF TypeOK, Q!TypeOK
<1> QED BY <1>2, <1>4, <1>5, SampleInv

\* The flusher's thread: its loop and its lock.
LEMMA FlusherStepInv == ASSUME IInv, FlusherStep PROVE IInv'
<1>1. CASE FlusherTest
  BY <1>1, ControlInv DEF FlusherTest, recorderVars, IInv, TypeOK, FlusherInv,
                          SnapshotInv, CompleteSnapshot
<1>2. CASE FlusherLock
  BY <1>2, ControlInv DEF FlusherLock, recorderVars, IInv, TypeOK, FlusherInv,
                          SnapshotInv, CompleteSnapshot
<1>3. CASE FlusherDrained
  BY <1>3, ControlInv DEF FlusherDrained, recorderVars, IInv, TypeOK, FlusherInv,
                          SnapshotInv, CompleteSnapshot
<1> QED BY <1>1, <1>2, <1>3 DEF FlusherStep

\* Nothing left to pop means that all that is settled is collected or dropped.
LEMMA AllCollected ==
    ASSUME TypeOK, Accounting, NothingToPop
    PROVE  Settled = dropped_ + Collected
<1>1. Len(queue) \in Nat /\ DOMAIN queue = 1..Len(queue) BY ReadyBound DEF TypeOK
<1>2. ReadyPrefix = {}
  <2> SUFFICES ASSUME NEW i \in ReadyPrefix PROVE FALSE OBVIOUS
  <2>1. i \in 1..Len(queue) /\ 1 \in 1..i BY <1>1 DEF ReadyPrefix
  <2>2. queue[1].ready BY <2>1 DEF ReadyPrefix
  <2>3. queue # << >> /\ Head(queue) = queue[1]
    BY <1>1, <2>1 DEF TypeOK, Q!TypeOK
  <2> QED BY <2>2, <2>3 DEF NothingToPop
<1>3. dropped_ \in Nat /\ Collected \in Nat BY Counts
<1> QED BY <1>2, <1>3, FS_EmptySet DEF Settled, NothingToPop

\* The owner inside and between its calls.
LEMMA OwnerInv ==
    ASSUME IInv, Start \/ Stop \/ Drain \/ OwnerStep \/ Snapshot PROVE IInv'
<1> USE DEF recorderVars, FlusherInv, SnapshotInv, CompleteSnapshot
<1>0. /\ Settled \in Nat /\ dropped_ \in Nat /\ Collected \in Nat
      /\ must_see \in Nat
  <2>1. Settled \in 0..MaxSamples /\ dropped_ \in Nat /\ Collected \in Nat
    BY Counts DEF IInv
  <2> QED BY <2>1, TelemetryAssumption DEF IInv, TypeOK
<1>1. CASE Start BY <1>0, <1>1, ControlInv DEF Start, IInv, TypeOK
<1>2. CASE Stop
  <2>1. FlusherInv' BY <1>2 DEF Stop, IInv
  <2>2. /\ must_see' = Settled /\ owner' = "join" /\ running_' = FALSE
        /\ UNCHANGED <<enabled_, mutex_, flusher>>
        /\ UNCHANGED <<dropped_, rec, kind, issued, discarded, queue, drainer, vectors>>
    BY <1>2 DEF Stop
  <2>3. mutex_' = "owner" <=> owner' = "drain" BY <1>2 DEF Stop, IInv, TypeOK
  <2>4. /\ running_' \in BOOLEAN /\ enabled_' \in BOOLEAN
        /\ mutex_' \in {"free", "flusher", "owner"}
        /\ flusher' \in {"none", "test", "lock", "drain", "returned"}
        /\ mutex_' = "flusher" <=> flusher' = "drain"
    BY <2>2 DEF IInv, TypeOK
  <2>5. must_see' \in {must_see, 0, Settled} /\ must_see' <= Settled BY <1>0, <2>2
  <2>6. owner' # "drained" BY <2>2
  <2> HIDE DEF FlusherInv
  <2> QED BY <2>1, <2>2, <2>3, <2>4, <2>5, <2>6, ControlInv
<1>3. CASE Drain BY <1>0, <1>3, ControlInv DEF Drain, IInv, TypeOK
<1>4. CASE Joined
  <2>1. FlusherInv' BY <1>4 DEF Joined, IInv
  <2>2. /\ must_see' = must_see /\ owner' = "lock" /\ flusher' = "none"
        /\ UNCHANGED <<enabled_, mutex_, running_>>
        /\ UNCHANGED <<dropped_, rec, kind, issued, discarded, queue, drainer, vectors>>
    BY <1>4 DEF Joined
  <2>3. /\ mutex_' = "owner" <=> owner' = "drain"
        /\ mutex_' = "flusher" <=> flusher' = "drain"
    BY <1>4 DEF Joined, IInv, TypeOK
  <2>4. must_see <= Settled BY <1>4 DEF Joined, IInv
  <2> HIDE DEF FlusherInv
  <2> QED BY <1>0, <2>1, <2>2, <2>3, <2>4, ControlInv DEF IInv, TypeOK
<1>5. CASE OwnerLock BY <1>0, <1>5, ControlInv DEF OwnerLock, IInv, TypeOK
<1>6. CASE OwnerDrained
  <2>1. Settled = dropped_ + Collected BY <1>6, AllCollected DEF OwnerDrained, IInv
  <2> QED BY <1>0, <1>6, <2>1, ControlInv DEF OwnerDrained, IInv, TypeOK
<1>7. CASE ResetDone BY <1>0, <1>7, ControlInv DEF ResetDone, IInv, TypeOK
<1>8. CASE Snapshot BY <1>0, <1>8, ControlInv DEF Snapshot, IInv, TypeOK
<1> QED BY <1>1, <1>2, <1>3, <1>4, <1>5, <1>6, <1>7, <1>8 DEF OwnerStep

\* Every step keeps the invariant.
LEMMA NextInv == IInv /\ [Next]_vars => IInv'
<1> SUFFICES ASSUME IInv, [Next]_vars PROVE IInv' OBVIOUS
<1>1. CASE \E b \in BOOLEAN : SetEnabled(b)
  BY <1>1, ControlInv DEF SetEnabled, flusherVars, IInv, TypeOK, FlusherInv,
                          SnapshotInv, CompleteSnapshot
<1>2. CASE \E t \in Recorders : RecorderStep(t) \/ \E k \in Kinds : Record(t, k)
  BY <1>2, PushClaimedInv, PushPublishedInv, PushFullInv, CountDropInv, RecordInv
     DEF RecorderStep
<1>3. CASE DrainStep BY <1>3, DrainPopInv, DrainStoreInv, ResetDiscardInv DEF DrainStep
<1>4. CASE FlusherStep BY <1>4, FlusherStepInv
<1>5. CASE Start \/ Stop \/ Drain \/ OwnerStep \/ Snapshot BY <1>5, OwnerInv
<1>6. CASE Reset BY <1>6, ResetInv
<1>7. CASE UNCHANGED vars
  BY <1>7, ControlInv DEF vars, recorderVars, flusherVars, IInv, TypeOK, FlusherInv,
                          SnapshotInv, CompleteSnapshot
<1> QED BY <1>1, <1>2, <1>3, <1>4, <1>5, <1>6, <1>7 DEF Next

\* The inductive invariant holds throughout.
THEOREM InvariantHolds == Spec => []IInv
BY InitInv, NextInv, PTL DEF Spec

\* Everything keeps its type, and the mutex is held by exactly the thread that
\* is inside drain_once.
THEOREM TypeCorrect == Spec => []TypeOK
<1>1. IInv => TypeOK BY DEF IInv
<1> QED BY <1>1, InvariantHolds, PTL

\* "Every sample must be accounted for: either collected or dropped; none may
\* vanish", with any number of recorders and any ring.
THEOREM NothingVanishes == Spec => []Accounting
<1>1. IInv => Accounting BY DEF IInv
<1> QED BY <1>1, InvariantHolds, PTL

\* "Final drain so a snapshot right after stop() is complete".
THEOREM SnapshotsComplete == Spec => []CompleteSnapshot
<1>1. IInv => CompleteSnapshot BY DEF IInv
<1> QED BY <1>1, InvariantHolds, PTL


-----------------------------------------------------------------------------
(* compute_stats *)

\* Every place from 1 to Len(v) is that of an entry: std::sort has a result.
LEMMA PlaceTaken ==
    ASSUME NEW v \in Seq(Nat), NEW r \in 1..Len(v)
    PROVE  \E j \in 1..Len(v) : Place(v, j) = r
<1> DEFINE n == Len(v)
           Upto(j) == {i \in 1..n : v[i] < v[j] \/ (v[i] = v[j] /\ i <= j)}
           f == [j \in 1..n |-> Place(v, j)]
<1>0. n \in Nat /\ DOMAIN v = 1..n /\ \A i \in 1..n : v[i] \in Nat
  OBVIOUS
<1>1. \A j \in 1..n : Place(v, j) = Cardinality(Upto(j)) BY <1>0 DEF Place
<1>2. IsFiniteSet(1..n) /\ Cardinality(1..n) = n
  <2> HIDE DEF n
  <2>1. 1 \in Int /\ n \in Int BY <1>0
  <2>2. /\ IsFiniteSet(1..n) /\ Cardinality(1..n) = IF 1 > n THEN 0 ELSE n - 1 + 1
    BY <2>1, FS_Interval
  <2> QED BY <2>2, <1>0
<1>3. ASSUME NEW j \in 1..n
      PROVE  IsFiniteSet(Upto(j)) /\ Cardinality(Upto(j)) \in 1..n
  <2>1. Upto(j) \in SUBSET (1..n) /\ j \in Upto(j) BY <1>0
  <2> HIDE DEF Upto, n
  <2>2. IsFiniteSet(Upto(j)) /\ Cardinality(Upto(j)) <= n BY <2>1, <1>2, FS_Subset
  <2>3. Cardinality(Upto(j)) \in Nat /\ Cardinality(Upto(j)) # 0
    BY <2>1, <2>2, FS_CardinalityType, FS_EmptySet
  <2> QED BY <2>2, <2>3, <1>0
<1>4. ASSUME NEW j \in 1..n, NEW k \in 1..n, j # k, j \in Upto(k)
      PROVE  Cardinality(Upto(j)) < Cardinality(Upto(k))
  <2>1. Upto(j) \in SUBSET Upto(k) BY <1>0, <1>4
  <2>2. k \in Upto(k) /\ k \notin Upto(j) BY <1>0, <1>4
  <2> HIDE DEF Upto
  <2>3. /\ Cardinality(Upto(j)) <= Cardinality(Upto(k))
        /\ Cardinality(Upto(j)) # Cardinality(Upto(k))
    BY <2>1, <2>2, <1>3, FS_Subset
  <2> QED BY <2>3, <1>0, <1>3
<1>5. \A j, k \in 1..n : j \in Upto(k) \/ k \in Upto(j) BY <1>0
<1> HIDE DEF Upto, n
<1>6. f \in Injection(1..n, 1..n)
  <2>1. f \in [1..n -> 1..n] BY <1>1, <1>3
  <2>2. ASSUME NEW j \in 1..n, NEW k \in 1..n, f[j] = f[k] PROVE j = k
    <3>1. Cardinality(Upto(j)) = Cardinality(Upto(k)) BY <2>2, <1>1
    <3>2. Cardinality(Upto(j)) \in 1..n /\ Cardinality(Upto(k)) \in 1..n BY <1>3
    <3>3. /\ ~ (Cardinality(Upto(j)) < Cardinality(Upto(k)))
          /\ ~ (Cardinality(Upto(k)) < Cardinality(Upto(j)))
      BY <3>1, <3>2, <1>0
    <3>4. j # k => j \notin Upto(k) /\ k \notin Upto(j) BY <3>3, <1>4
    <3> QED BY <3>4, <1>5
  <2> HIDE DEF f
  <2> QED BY <2>1, <2>2 DEF Injection, IsInjective
<1>7. f \in Surjection(1..n, 1..n) BY <1>2, <1>6, FS_Injection
<1>8. r \in 1..n BY DEF n
<1>9. PICK j \in 1..n : f[j] = r BY <1>7, <1>8 DEF Surjection
<1> QED BY <1>9 DEF n

\* The entry at place r is a percentile if r is the nearest rank.
LEMMA PercentileAt ==
    ASSUME NEW v \in Seq(Nat), NEW r \in 1..Len(v), NEW percent \in Nat,
           100 * (r - 1) < percent * Len(v), percent * Len(v) <= 100 * r
    PROVE  IsPercentile(Sorted(v)[r], percent, v)
<1> DEFINE n == Len(v)
<1>0. n \in Nat /\ DOMAIN v = 1..n /\ \A i \in 1..n : v[i] \in Nat
  OBVIOUS
<1>1. PICK j \in 1..n : Place(v, j) = r /\ Sorted(v)[r] = v[j]
  BY <1>0, PlaceTaken DEF Sorted
<1> DEFINE Upto == {i \in 1..n : v[i] < v[j] \/ (v[i] = v[j] /\ i <= j)}
           NotAbove == {i \in 1..n : v[i] <= v[j]}
           Under == {i \in NotAbove : v[i] < v[j]}
<1>2. IsFiniteSet(1..n) BY <1>0, FS_Interval
<1>3. Cardinality(Upto) = r BY <1>0, <1>1 DEF Place
<1>4. /\ Upto \in SUBSET (1..n) /\ Upto \in SUBSET NotAbove /\ j \in Upto
      /\ NotAbove \in SUBSET (1..n) /\ Under \in SUBSET (Upto \ {j}) /\ Under # NotAbove
  <2>1. v[j] \in Nat /\ \A i \in 1..n : v[i] \in Nat BY <1>0
  <2> HIDE DEF n
  <2>2. /\ Upto \in SUBSET (1..n) /\ NotAbove \in SUBSET (1..n) /\ Upto \in SUBSET NotAbove
    <3>1. \A i \in Upto : v[i] <= v[j] BY <2>1
    <3> QED BY <3>1
  <2>3. j \in Upto /\ j \in NotAbove /\ j \notin Under BY <1>0, <2>1
  <2>4. Under \in SUBSET (Upto \ {j}) BY <2>1
  <2> QED BY <2>2, <2>3, <2>4
<1>5. IsPercentile(v[j], percent, v) <=>
         /\ Under # NotAbove
         /\ 100 * Cardinality(NotAbove) >= percent * n
         /\ 100 * Cardinality(Under) < percent * n
  BY <1>0 DEF IsPercentile
<1> HIDE DEF Upto, NotAbove, Under, n
<1>6. IsFiniteSet(NotAbove) /\ IsFiniteSet(Upto) BY <1>2, <1>4, FS_Subset
<1>7. Cardinality(Upto) <= Cardinality(NotAbove) BY <1>4, <1>6, FS_Subset
<1>8. IsFiniteSet(Upto \ {j}) /\ Cardinality(Upto \ {j}) = r - 1
  BY <1>3, <1>4, <1>6, FS_RemoveElement
<1>9. IsFiniteSet(Under) /\ Cardinality(Under) <= r - 1
  <2>1. /\ IsFiniteSet(Under) /\ Cardinality(Under) <= Cardinality(Upto \ {j})
    BY <1>4, <1>8, FS_Subset
  <2> QED BY <2>1, <1>8
<1>10. Cardinality(NotAbove) \in Nat /\ Cardinality(Under) \in Nat
  BY <1>6, <1>9, FS_CardinalityType
<1>11. r \in Nat /\ percent * n \in Nat
  BY <1>0 DEF n
<1>12. 100 * (r - 1) < percent * n /\ percent * n <= 100 * r BY DEF n
<1>13. 100 * Cardinality(NotAbove) >= percent * n BY <1>3, <1>7, <1>10, <1>11, <1>12
<1>14. 100 * Cardinality(Under) < percent * n BY <1>9, <1>10, <1>11, <1>12
<1> QED BY <1>1, <1>4, <1>5, <1>13, <1>14

\* The rank that compute_stats takes is within the vector and the nearest one.
LEMMA RankIsNearest ==
    ASSUME NEW v \in Seq(Nat), v # << >>, NEW percent \in {50, 95, 99}
    PROVE  IsPercentile(Sorted(v)[Rank(percent, Len(v))], percent, v)
<1> DEFINE n == Len(v)
           r == Rank(percent, n)
<1>1. n \in Nat \ {0} OBVIOUS
<1> HIDE DEF n
<1>2. r \in 1..n /\ 100 * (r - 1) < percent * n /\ percent * n <= 100 * r
  <2>1. CASE percent = 50 BY <2>1, <1>1 DEF Rank
  <2>2. CASE percent = 95 BY <2>2, <1>1 DEF Rank
  <2>3. CASE percent = 99 BY <2>3, <1>1 DEF Rank
  <2> QED BY <2>1, <2>2, <2>3
<1> HIDE DEF r
<1>3. IsPercentile(Sorted(v)[r], percent, v) BY <1>2, PercentileAt DEF n
<1> QED BY <1>3 DEF r, n

\* compute_stats returns nearest-rank percentiles, of every vector of samples.
THEOREM PercentilesRight == Spec => []NearestRank
<1>1. NearestRank
  <2> SUFFICES ASSUME NEW v \in Vectors \ {<< >>}
               PROVE  /\ IsPercentile(compute_stats(v).p50, 50, v)
                      /\ IsPercentile(compute_stats(v).p95, 95, v)
                      /\ IsPercentile(compute_stats(v).p99, 99, v)
                      /\ IsPercentile(compute_stats(v).max, 100, v)
    BY DEF NearestRank, StatsRight
  <2>1. v \in Seq(Nat) /\ v # << >> BY TelemetryAssumption
  <2>2. Len(v) \in Nat \ {0} BY <2>1
  <2>3. \A percent \in {50, 95, 99} :
           IsPercentile(Sorted(v)[Rank(percent, Len(v))], percent, v)
    BY <2>1, RankIsNearest
  <2>4. IsPercentile(Sorted(v)[Len(v)], 100, v)
    <3>1. /\ Len(v) \in 1..Len(v) /\ 100 * (Len(v) - 1) < 100 * Len(v)
          /\ 100 * Len(v) <= 100 * Len(v)
      BY <2>2
    <3> QED BY <3>1, <2>1, PercentileAt
  <2> QED BY <2>3, <2>4 DEF compute_stats
<1> QED BY <1>1, PTL
=============================================================================
