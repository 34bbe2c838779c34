-------------------------- MODULE RingBufferProofs --------------------------
(***************************************************************************)
(* LockFreeRingBuffer is correct for every number of threads, every         *)
(* capacity of at least two and every sequence of calls, with arbitrarily   *)
(* stale atomic loads: IInv of RingBuffer is inductive.                     *)
(***************************************************************************)
EXTENDS RingBuffer, SequenceTheorems, TLAPS

-----------------------------------------------------------------------------
(* Arithmetic of the cell index pos & kMask *)

\* Division with remainder.
LEMMA DivMod ==
    ASSUME NEW t \in Nat
    PROVE  /\ t \div Capacity \in Nat
           /\ t % Capacity \in Cells
           /\ t = Capacity * (t \div Capacity) + (t % Capacity)
BY CapacityAssumption DEF Cells

\* Whole laps are at least one capacity apart.
LEMMA LapMono ==
    ASSUME NEW a \in Nat, NEW b \in Nat, a < b
    PROVE  Capacity * b >= Capacity * a + Capacity
<1>1. PICK d \in Nat : b = a + 1 + d
  BY b = a + 1 + (b - a - 1), b - a - 1 \in Nat
<1>2. Capacity * b = Capacity * a + Capacity + Capacity * d
  BY <1>1, CapacityAssumption
<1>3. Capacity * d \in Nat /\ Capacity * a \in Nat
  BY <1>1, CapacityAssumption
<1> QED BY <1>2, <1>3, CapacityAssumption

\* The remainder is unique.
LEMMA ModUnique ==
    ASSUME NEW q \in Nat, NEW r \in Cells
    PROVE  (Capacity * q + r) % Capacity = r
<1> DEFINE t == Capacity * q + r
<1>0. Capacity * q \in Nat /\ t \in Nat /\ r \in Nat /\ r < Capacity
  BY CapacityAssumption DEF Cells
<1>1. /\ t \div Capacity \in Nat /\ t % Capacity \in Cells
      /\ t = Capacity * (t \div Capacity) + (t % Capacity)
  BY <1>0, DivMod
<1>2. Capacity * (t \div Capacity) \in Nat /\ t % Capacity \in Nat
          /\ t % Capacity < Capacity
  BY <1>1, CapacityAssumption DEF Cells
<1> HIDE DEF t
<1>t. t = Capacity * q + r BY DEF t
<1>3. ASSUME t \div Capacity < q PROVE FALSE
  <2>1. Capacity * q >= Capacity * (t \div Capacity) + Capacity
    BY <1>1, <1>3, LapMono
  <2> QED BY <2>1, <1>0, <1>1, <1>2, <1>t, CapacityAssumption
<1>4. ASSUME t \div Capacity > q PROVE FALSE
  <2>1. Capacity * (t \div Capacity) >= Capacity * q + Capacity
    BY <1>1, <1>4, LapMono
  <2> QED BY <2>1, <1>0, <1>1, <1>2, <1>t, CapacityAssumption
<1>5. t \div Capacity = q BY <1>1, <1>3, <1>4
<1> QED BY <1>5, <1>0, <1>1, <1>2, <1>t

\* Every ticket has a cell.
LEMMA CellType == ASSUME NEW t \in Nat PROVE CellOf(t) \in Cells
BY DivMod DEF CellOf

\* In the first lap the ticket is the cell index.
LEMMA CellSmall == ASSUME NEW i \in Cells PROVE CellOf(i) = i
<1>1. i \in Nat /\ i < Capacity BY CapacityAssumption DEF Cells
<1> QED BY <1>1, CapacityAssumption DEF CellOf

\* Consecutive tickets use different cells; this needs Capacity >= 2.
LEMMA CellNext == ASSUME NEW t \in Nat PROVE CellOf(t) # CellOf(t + 1)
<1>1. PICK q \in Nat, r \in Cells : t = Capacity * q + r /\ r = t % Capacity
  BY DivMod
<1>2. Capacity * q \in Nat /\ r \in Nat BY <1>1, CapacityAssumption DEF Cells
<1>3. CASE r < Capacity - 1
  <2>1. r + 1 \in Cells BY <1>2, <1>3, CapacityAssumption DEF Cells
  <2>2. (Capacity * q + (r + 1)) % Capacity = r + 1 BY <2>1, ModUnique
  <2> QED BY <2>2, <1>1, <1>2 DEF CellOf
<1>4. CASE r = Capacity - 1
  <2>1. q + 1 \in Nat /\ 0 \in Cells BY CapacityAssumption DEF Cells
  <2>2. (Capacity * (q + 1) + 0) % Capacity = 0 BY <2>1, ModUnique
  <2>3. Capacity * (q + 1) = Capacity * q + Capacity BY CapacityAssumption
  <2> QED BY <2>2, <2>3, <1>1, <1>2, <1>4, CapacityAssumption DEF CellOf
<1> QED BY <1>1, <1>3, <1>4, CapacityAssumption DEF Cells

\* One capacity further on is the same cell.
LEMMA CellLap == ASSUME NEW t \in Nat PROVE CellOf(t + Capacity) = CellOf(t)
<1>1. PICK q \in Nat, r \in Cells : t = Capacity * q + r /\ r = t % Capacity
  BY DivMod
<1>2. Capacity * q \in Nat /\ r \in Nat BY <1>1, CapacityAssumption DEF Cells
<1>3. q + 1 \in Nat OBVIOUS
<1>4. (Capacity * (q + 1) + r) % Capacity = r BY <1>3, ModUnique
<1>5. Capacity * (q + 1) = Capacity * q + Capacity BY CapacityAssumption
<1> QED BY <1>1, <1>2, <1>4, <1>5, CapacityAssumption DEF CellOf

\* Two tickets of one cell are at least one capacity apart.
LEMMA CellApart ==
    ASSUME NEW a \in Nat, NEW b \in Nat, CellOf(a) = CellOf(b), a < b
    PROVE  a + Capacity <= b
<1>1. PICK q \in Nat, r \in Cells : a = Capacity * q + r /\ r = a % Capacity
  BY DivMod
<1>2. PICK u \in Nat, v \in Cells : b = Capacity * u + v /\ v = b % Capacity
  BY DivMod
<1>3. r = v /\ r \in Nat BY <1>1, <1>2, CapacityAssumption DEF CellOf, Cells
<1>4. Capacity * q \in Nat /\ Capacity * u \in Nat BY CapacityAssumption
<1>5. q < u
  <2>1. CASE u < q
    <3>1. Capacity * q >= Capacity * u + Capacity BY <2>1, LapMono
    <3> QED BY <3>1, <1>1, <1>2, <1>3, <1>4, CapacityAssumption
  <2>2. CASE u = q BY <2>2, <1>1, <1>2, <1>3, <1>4
  <2> QED BY <2>1, <2>2
<1>6. Capacity * u >= Capacity * q + Capacity BY <1>5, LapMono
<1> QED BY <1>6, <1>1, <1>2, <1>3, <1>4, CapacityAssumption

-----------------------------------------------------------------------------
(* Consequences of the invariant *)

\* A cell that holds an item holds no free ticket, and a ticket that is not
\* claimed yet is never overtaken in its cell, however stale the load.
LEMMA UnclaimedBound ==
    ASSUME IInv, NEW t \in Nat
    PROVE  /\ t >= enqueue_pos_ => sequence[CellOf(t)] <= t
           /\ t = dequeue_pos_ => sequence[CellOf(t)] <= t + 1
<1>0. PICK i \in Cells, s \in Nat : i = CellOf(t) /\ s = sequence[i]
  BY CellType DEF IInv, TypeOK
<1>1. SUFFICES /\ t >= enqueue_pos_ => s <= t
               /\ t = dequeue_pos_ => s <= t + 1
  BY <1>0
<1>2. /\ enqueue_pos_ \in Nat /\ dequeue_pos_ \in Nat
      /\ dequeue_pos_ <= enqueue_pos_ /\ enqueue_pos_ <= dequeue_pos_ + Capacity
  BY DEF IInv, TypeOK, PosInv
<1>3. CASE CellOf(s) = i /\ s < dequeue_pos_ + Capacity
  <2>1. t < s => t + Capacity <= s BY <1>0, <1>3, CellApart
  <2> QED BY <2>1, <1>2, <1>3, CapacityAssumption
<1>4. CASE s \in 1..enqueue_pos_ /\ CellOf(s - 1) = i
  <2>1. s - 1 \in Nat BY <1>4
  <2>2. t < s - 1 => t + Capacity <= s - 1 BY <2>1, <1>0, <1>4, CellApart
  <2> QED BY <2>1, <2>2, <1>2, <1>4, CapacityAssumption
<1> QED BY <1>0, <1>3, <1>4 DEF IInv, CellInv

\* The cells of two holders differ.
LEMMA HoldersApart == IInv => NoDataRace
<1> SUFFICES ASSUME IInv, NEW t \in Threads, NEW u \in Threads,
                    t # u, Holds(t), Holds(u), CellOf(pos[t]) = CellOf(pos[u])
             PROVE  FALSE
  BY DEF NoDataRace
<1>1. pos[t] \in Nat /\ pos[u] \in Nat BY DEF IInv, TypeOK
<1>2. CASE t \in Producers /\ u \in Producers BY <1>2 DEF IInv, OwnInv
<1>3. CASE t \in Consumers /\ u \in Consumers
  BY <1>1, <1>3 DEF IInv, OwnInv
<1>4. CASE t \in Producers /\ u \in Consumers
  <2>1. pos[t] = pos[u] + 1 BY <1>4 DEF IInv, OwnInv
  <2> QED BY <2>1, <1>1, CellNext
<1>5. CASE t \in Consumers /\ u \in Producers
  <2>1. pos[u] = pos[t] + 1 BY <1>5 DEF IInv, OwnInv
  <2> QED BY <2>1, <1>1, CellNext
<1> QED BY <1>2, <1>3, <1>4, <1>5 DEF Threads

-----------------------------------------------------------------------------
(* The invariant holds initially *)

\* The empty ring, as the constructor leaves it.
LEMMA InitInv == Init => IInv
<1> SUFFICES ASSUME Init PROVE IInv OBVIOUS
<1>0. Cells \subseteq Nat /\ \A i \in Cells : i < Capacity /\ CellOf(i) = i
  BY CellSmall, CapacityAssumption DEF Cells
<1>1. TypeOK BY <1>0 DEF Init, TypeOK
<1>2. PosInv BY CapacityAssumption DEF Init, PosInv, Holds, Threads
<1>3. OwnInv BY DEF Init, OwnInv, Holds, Threads
<1>4. CasInv BY DEF Init, CasInv, Threads
<1>5. CellInv BY <1>0, CapacityAssumption DEF Init, CellInv
<1>6. ItemInv BY DEF Init, ItemInv, Holds, Threads
<1>7. FifoDelivery BY DEF Init, FifoDelivery, Threads
<1>8. NoLostItem BY DEF Init, NoLostItem
<1>9. NoLeakedCell
  BY <1>0, CapacityAssumption DEF Init, NoLeakedCell, Cells
<1> QED BY <1>1, <1>2, <1>3, <1>4, <1>5, <1>6, <1>7, <1>8, <1>9 DEF IInv

-----------------------------------------------------------------------------
(* Steps before the compare-exchange change nothing that is shared *)

\* Steps of try_push that only read: calls, checks, reloads and lost races.
LEMMA PushLocal ==
    ASSUME IInv, NEW p \in Producers, ~ Holds(p),
           NEW k \in {"idle", "check", "reload", "cas"},
           NEW l \in 0..enqueue_pos_,
           NEW v \in Values \cup {MovedFrom}, k # "idle" => v \in Values,
           k = "cas" /\ enqueue_pos_ = l => sequence[CellOf(l)] = l,
           pc' = [pc EXCEPT ![p] = k],
           pos' = [pos EXCEPT ![p] = l],
           item' = [item EXCEPT ![p] = v],
           UNCHANGED <<enqueue_pos_, dequeue_pos_, sequence, data, pushed>>
    PROVE  IInv'
<1>0. p \in Threads /\ p \notin Consumers /\ l \in Nat
  BY ThreadsAssumption DEF Threads
<1>1. \A t \in Threads \ {p} :
          pc'[t] = pc[t] /\ pos'[t] = pos[t] /\ item'[t] = item[t]
                 /\ (Holds(t)' <=> Holds(t))
  BY <1>0 DEF IInv, TypeOK, Holds
<1>2. pc'[p] = k /\ pos'[p] = l /\ item'[p] = v /\ ~ Holds(p)'
  BY <1>0 DEF IInv, TypeOK, Holds
<1>3. Producers \subseteq Threads /\ Consumers \subseteq Threads \ {p}
  BY <1>0 DEF Threads
<1>4. TypeOK' BY <1>0 DEF IInv, TypeOK
<1>5. PosInv'
  <2>1. enqueue_pos_ \in Nat /\ l <= enqueue_pos_ BY DEF IInv, TypeOK
  <2> QED BY <2>1, <1>1, <1>2, <1>3 DEF IInv, PosInv
<1>6. OwnInv' BY <1>1, <1>2, <1>3 DEF IInv, OwnInv
<1>7. CasInv' BY <1>1, <1>2, <1>3 DEF IInv, CasInv
<1>8. CellInv' BY <1>1, <1>3 DEF IInv, CellInv
<1>9. ItemInv' BY <1>1, <1>2, <1>3 DEF IInv, ItemInv
<1>10. FifoDelivery' BY <1>1, <1>3 DEF IInv, FifoDelivery
<1>11. NoLostItem'
  <2>1. \A q \in Producers, t \in Nat :
            Holds(q) /\ pos[q] = t => Holds(q)' /\ pos'[q] = t
    BY <1>1, <1>2, <1>3
  <2> QED BY <2>1 DEF IInv, NoLostItem, TypeOK
<1>12. NoLeakedCell' BY <1>1, <1>3 DEF IInv, NoLeakedCell
<1> QED BY <1>4, <1>5, <1>6, <1>7, <1>8, <1>9, <1>10, <1>11, <1>12 DEF IInv

\* The same for try_pop.
LEMMA PopLocal ==
    ASSUME IInv, NEW c \in Consumers, ~ Holds(c),
           NEW k \in {"idle", "check", "reload", "cas"},
           NEW l \in 0..dequeue_pos_,
           k = "cas" /\ dequeue_pos_ = l => sequence[CellOf(l)] = l + 1,
           pc' = [pc EXCEPT ![c] = k],
           pos' = [pos EXCEPT ![c] = l],
           UNCHANGED <<enqueue_pos_, dequeue_pos_, sequence, data, item, pushed>>
    PROVE  IInv'
<1>0. c \in Threads /\ c \notin Producers /\ l \in Nat
  BY ThreadsAssumption DEF Threads
<1>1. \A t \in Threads \ {c} :
          pc'[t] = pc[t] /\ pos'[t] = pos[t] /\ (Holds(t)' <=> Holds(t))
  BY <1>0 DEF IInv, TypeOK, Holds
<1>2. pc'[c] = k /\ pos'[c] = l /\ ~ Holds(c)'
  BY <1>0 DEF IInv, TypeOK, Holds
<1>3. Consumers \subseteq Threads /\ Producers \subseteq Threads \ {c}
  BY <1>0 DEF Threads
<1>4. TypeOK' BY <1>0 DEF IInv, TypeOK
<1>5. PosInv'
  <2>1. dequeue_pos_ \in Nat /\ l <= dequeue_pos_ BY DEF IInv, TypeOK
  <2> QED BY <2>1, <1>1, <1>2, <1>3 DEF IInv, PosInv
<1>6. OwnInv' BY <1>1, <1>2, <1>3 DEF IInv, OwnInv
<1>7. CasInv' BY <1>1, <1>2, <1>3 DEF IInv, CasInv
<1>8. CellInv'
  <2>1. \A d \in Consumers : pc[d] = "store" => pc'[d] = "store" /\ pos'[d] = pos[d]
    BY <1>1, <1>3 DEF Holds
  <2> QED BY <2>1 DEF IInv, CellInv
<1>9. ItemInv' BY <1>1, <1>3 DEF IInv, ItemInv
<1>10. FifoDelivery' BY <1>1, <1>2, <1>3 DEF IInv, FifoDelivery
<1>11. NoLostItem' BY <1>1, <1>3 DEF IInv, NoLostItem
<1>12. NoLeakedCell'
  <2>1. \A d \in Consumers : Holds(d) => Holds(d)' /\ pos'[d] = pos[d]
    BY <1>1, <1>3
  <2> QED BY <2>1 DEF IInv, NoLeakedCell
<1> QED BY <1>4, <1>5, <1>6, <1>7, <1>8, <1>9, <1>10, <1>11, <1>12 DEF IInv

-----------------------------------------------------------------------------
(* The steps of a push that change shared state *)

\* A producer wins ticket enqueue_pos_ (lines 63-66).
LEMMA PushClaimInv ==
    ASSUME IInv, NEW p \in Producers, PushClaim(p) PROVE IInv'
<1> USE DEF PushClaim
<1>0. /\ p \in Threads /\ p \notin Consumers
      /\ enqueue_pos_ \in Nat /\ dequeue_pos_ \in Nat
      /\ pos[p] = enqueue_pos_ /\ enqueue_pos_' = enqueue_pos_ + 1
      /\ dequeue_pos_ <= enqueue_pos_ /\ enqueue_pos_ <= dequeue_pos_ + Capacity
  BY ThreadsAssumption DEF Threads, IInv, TypeOK, PosInv
<1>1. \A t \in Threads \ {p} : pc'[t] = pc[t] /\ (Holds(t)' <=> Holds(t))
  BY <1>0 DEF IInv, TypeOK, Holds
<1>2. pc'[p] = "data" /\ Holds(p)' /\ ~ Holds(p) /\ item[p] \in Values
  BY <1>0 DEF IInv, TypeOK, PosInv, Holds
<1>3. Producers \subseteq Threads /\ Consumers \subseteq Threads \ {p}
  BY <1>0 DEF Threads
<1>4. /\ sequence[CellOf(enqueue_pos_)] = enqueue_pos_
      /\ CellOf(enqueue_pos_) \in Cells
  BY <1>0, CellType DEF IInv, CasInv
<1>5. enqueue_pos_ < dequeue_pos_ + Capacity
  <2>1. CASE CellOf(sequence[CellOf(enqueue_pos_)]) = CellOf(enqueue_pos_)
             /\ sequence[CellOf(enqueue_pos_)] < dequeue_pos_ + Capacity
    BY <2>1, <1>4
  <2>2. CASE sequence[CellOf(enqueue_pos_)] \in 1..enqueue_pos_
             /\ CellOf(sequence[CellOf(enqueue_pos_)] - 1) = CellOf(enqueue_pos_)
    <3>1. enqueue_pos_ - 1 \in Nat /\ CellOf(enqueue_pos_ - 1) = CellOf(enqueue_pos_)
      BY <2>2, <1>4, <1>0
    <3>2. CellOf(enqueue_pos_ - 1) # CellOf(enqueue_pos_ - 1 + 1) BY <3>1, CellNext
    <3> QED BY <3>1, <3>2, <1>0
  <2> QED BY <2>1, <2>2, <1>4 DEF IInv, CellInv
<1>6. /\ \A k \in 1..enqueue_pos_ : pushed'[k] = pushed[k]
      /\ pushed'[enqueue_pos_ + 1] = item[p]
      /\ pushed' \in Seq(Values) /\ Len(pushed') = enqueue_pos_ + 1
  BY <1>0, <1>2 DEF IInv, TypeOK
<1>7. TypeOK' BY <1>0, <1>6 DEF IInv, TypeOK
<1>8. PosInv'
  <2>1. \A q \in Producers : pos[q] \in Nat BY <1>3 DEF IInv, TypeOK
  <2> QED BY <2>1, <1>0, <1>1, <1>2, <1>3, <1>5, CapacityAssumption
          DEF IInv, PosInv
<1>9. OwnInv'
  <2>1. \A q \in Producers \ {p} : Holds(q) => pos[q] < enqueue_pos_ /\ pos[q] \in Nat
    BY <1>3 DEF IInv, PosInv, TypeOK
  <2> QED BY <2>1, <1>0, <1>1, <1>2, <1>3, <1>4 DEF IInv, OwnInv
<1>10. CasInv'
  <2>1. \A q \in Producers : pos[q] <= enqueue_pos_ /\ pos[q] \in Nat
    BY <1>3 DEF IInv, PosInv, TypeOK
  <2> QED BY <2>1, <1>0, <1>1, <1>2, <1>3 DEF IInv, CasInv
<1>11. CellInv'
  <2>1. \A d \in Consumers : pc'[d] = pc[d] BY <1>1, <1>3
  <2>2. \A i \in Cells : sequence[i] \in Nat BY DEF IInv, TypeOK
  <2> QED BY <2>1, <2>2, <1>0, <1>6 DEF IInv, CellInv
<1>12. ItemInv'
  <2>1. \A q \in Producers \ {p} : Holds(q) => pos[q] + 1 \in 1..enqueue_pos_
    BY <1>0, <1>3 DEF IInv, PosInv, TypeOK
  <2> QED BY <2>1, <1>0, <1>1, <1>2, <1>3, <1>6 DEF IInv, ItemInv
<1>13. FifoDelivery'
  <2>1. \A c \in Consumers : pc[c] = "store" => pos[c] + 1 \in 1..enqueue_pos_
    BY <1>0, <1>3 DEF IInv, PosInv, TypeOK, Holds
  <2> QED BY <2>1, <1>1, <1>3, <1>6 DEF IInv, FifoDelivery
<1>14. NoLostItem'
  <2>0. enqueue_pos_' - 1 = enqueue_pos_ BY <1>0
  <2> SUFFICES ASSUME NEW t \in dequeue_pos_..enqueue_pos_
               PROVE  \/ /\ sequence[CellOf(t)] = t + 1
                         /\ data[CellOf(t)] = pushed'[t + 1]
                      \/ \E q \in Producers : Holds(q)' /\ pos[q] = t
    BY <2>0 DEF NoLostItem
  <2>1. CASE t = enqueue_pos_ BY <2>1, <1>0, <1>2
  <2>2. CASE t \in dequeue_pos_..(enqueue_pos_ - 1)
    <3>1. t + 1 \in 1..enqueue_pos_ BY <2>2, <1>0
    <3>2. \A q \in Producers : Holds(q) => Holds(q)' BY <1>1, <1>2, <1>3
    <3> QED BY <3>1, <3>2, <2>2, <1>6 DEF IInv, NoLostItem
  <2>3. t = enqueue_pos_ \/ t \in dequeue_pos_..(enqueue_pos_ - 1) BY <1>0
  <2> QED BY <2>1, <2>2, <2>3
<1>15. NoLeakedCell'
  <2>1. \A c \in Consumers : Holds(c) => Holds(c)' BY <1>1, <1>3
  <2>2. (enqueue_pos_ + 1)..(dequeue_pos_ + Capacity - 1)
            \subseteq enqueue_pos_..(dequeue_pos_ + Capacity - 1)
    BY <1>0, CapacityAssumption
  <2>3. /\ dequeue_pos_' <= enqueue_pos_'
        /\ enqueue_pos_' <= dequeue_pos_' + Capacity
    BY <1>0, <1>5, CapacityAssumption
  <2> QED BY <2>1, <2>2, <2>3, <1>0 DEF IInv, NoLeakedCell
<1> QED BY <1>7, <1>8, <1>9, <1>10, <1>11, <1>12, <1>13, <1>14, <1>15 DEF IInv

\* A producer writes its claimed cell (line 73).
LEMMA PushWriteInv ==
    ASSUME IInv, NEW p \in Producers, PushWrite(p) PROVE IInv'
<1> USE DEF PushWrite
<1>0. /\ p \in Threads /\ p \notin Consumers /\ pos[p] \in Nat /\ Holds(p)
      /\ CellOf(pos[p]) \in Cells /\ sequence[CellOf(pos[p])] = pos[p]
      /\ item[p] \in Values
  BY ThreadsAssumption, CellType DEF Threads, IInv, TypeOK, OwnInv, PosInv, Holds
<1>1. \A t \in Threads \ {p} : pc'[t] = pc[t]
  BY <1>0 DEF IInv, TypeOK
<1>2. pc'[p] = "store" /\ \A t \in Threads : Holds(t)' <=> Holds(t)
  BY <1>0, <1>1 DEF IInv, TypeOK, Holds
<1>3. Producers \subseteq Threads /\ Consumers \subseteq Threads \ {p}
  BY <1>0 DEF Threads
<1>4. /\ data'[CellOf(pos[p])] = item[p]
      /\ \A i \in Cells \ {CellOf(pos[p])} : data'[i] = data[i]
  BY <1>0 DEF IInv, TypeOK
<1>5. \A t \in Nat : sequence[CellOf(t)] = t + 1 => CellOf(t) # CellOf(pos[p])
  BY <1>0, CellNext
<1>6. TypeOK' BY <1>0 DEF IInv, TypeOK
<1>7. PosInv' BY <1>0, <1>1, <1>2, <1>3 DEF IInv, PosInv
<1>8. OwnInv' BY <1>2, <1>3 DEF IInv, OwnInv
<1>9. CasInv' BY <1>1, <1>2, <1>3 DEF IInv, CasInv
<1>10. CellInv'
  <2>1. \A d \in Consumers : pc'[d] = pc[d] BY <1>1, <1>3
  <2>2. ASSUME NEW i \in Cells, sequence[i] \in 1..enqueue_pos_,
               CellOf(sequence[i] - 1) = i
        PROVE  i # CellOf(pos[p])
    <3>1. sequence[i] - 1 \in Nat BY <2>2 DEF IInv, TypeOK
    <3>2. CellOf(sequence[i] - 1) # CellOf(sequence[i] - 1 + 1) BY <3>1, CellNext
    <3>3. sequence[i] - 1 + 1 = sequence[i] BY <2>2 DEF IInv, TypeOK
    <3> QED BY <3>2, <3>3, <2>2, <1>0
  <2> QED BY <2>1, <2>2, <1>4 DEF IInv, CellInv
<1>11. ItemInv'
  <2>1. \A q \in Producers \ {p} : Holds(q) =>
            CellOf(pos[q]) # CellOf(pos[p]) /\ CellOf(pos[q]) \in Cells
    <3>1. NoDataRace BY HoldersApart
    <3>2. \A q \in Producers : pos[q] \in Nat BY <1>3 DEF IInv, TypeOK
    <3> QED BY <3>1, <3>2, <1>0, <1>3, CellType DEF NoDataRace
  <2> QED BY <2>1, <1>0, <1>1, <1>2, <1>3, <1>4 DEF IInv, ItemInv, Holds
<1>12. FifoDelivery' BY <1>1, <1>3 DEF IInv, FifoDelivery
<1>13. NoLostItem'
  <2> SUFFICES ASSUME NEW t \in dequeue_pos_..(enqueue_pos_ - 1)
               PROVE  \/ /\ sequence[CellOf(t)] = t + 1
                         /\ data'[CellOf(t)] = pushed[t + 1]
                      \/ \E q \in Producers : Holds(q)' /\ pos[q] = t
    BY DEF NoLostItem
  <2>1. t \in Nat /\ CellOf(t) \in Cells BY CellType DEF IInv, TypeOK
  <2> QED BY <2>1, <1>2, <1>3, <1>4, <1>5 DEF IInv, NoLostItem
<1>14. NoLeakedCell' BY <1>2, <1>3 DEF IInv, NoLeakedCell
<1> QED BY <1>6, <1>7, <1>8, <1>9, <1>10, <1>11, <1>12, <1>13, <1>14 DEF IInv

\* A producer publishes its cell (line 74).
LEMMA PushPublishInv ==
    ASSUME IInv, NEW p \in Producers, PushPublish(p) PROVE IInv'
<1> USE DEF PushPublish
<1> DEFINE h == CellOf(pos[p])
<1>0. /\ p \in Threads /\ p \notin Consumers /\ pos[p] \in Nat /\ Holds(p)
      /\ h \in Cells /\ sequence[h] = pos[p] /\ pos[p] < enqueue_pos_
      /\ enqueue_pos_ \in Nat /\ dequeue_pos_ \in Nat
  BY ThreadsAssumption, CellType DEF Threads, IInv, TypeOK, OwnInv, PosInv, Holds
<1>1. \A t \in Threads \ {p} : pc'[t] = pc[t] /\ (Holds(t)' <=> Holds(t))
  BY <1>0 DEF IInv, TypeOK, Holds
<1>2. pc'[p] = "idle" /\ ~ Holds(p)'
  BY <1>0 DEF IInv, TypeOK, Holds
<1>3. Producers \subseteq Threads /\ Consumers \subseteq Threads \ {p}
  BY <1>0 DEF Threads
<1>4. /\ sequence'[h] = pos[p] + 1
      /\ \A i \in Cells \ {h} : sequence'[i] = sequence[i]
  BY <1>0 DEF IInv, TypeOK
<1>5. \A t \in Threads \ {p} :
          Holds(t) => CellOf(pos[t]) # h /\ CellOf(pos[t]) \in Cells
  <2>1. NoDataRace BY HoldersApart
  <2>2. \A t \in Threads : pos[t] \in Nat BY DEF IInv, TypeOK
  <2> QED BY <2>1, <2>2, <1>0, CellType DEF NoDataRace
<1> HIDE DEF h
<1>6. TypeOK' BY <1>0 DEF IInv, TypeOK, h
<1>7. PosInv' BY <1>1, <1>2, <1>3 DEF IInv, PosInv
<1>8. OwnInv'
  <2>1. \A q \in Producers : Holds(q)' => q # p /\ Holds(q) BY <1>1, <1>2, <1>3
  <2>2. \A c \in Consumers : Holds(c)' => c # p /\ Holds(c) BY <1>1, <1>3
  <2> QED BY <2>1, <2>2, <1>3, <1>4, <1>5 DEF IInv, OwnInv
<1>9. CasInv'
  <2>1. ASSUME NEW q \in Producers, pc'[q] = "cas", enqueue_pos_ = pos[q]
        PROVE  sequence'[CellOf(pos[q])] = pos[q]
    <3>1. sequence[CellOf(pos[q])] = pos[q] /\ CellOf(pos[q]) \in Cells
      BY <2>1, <1>0, <1>1, <1>2, <1>3, CellType DEF IInv, CasInv
    <3>2. CellOf(pos[q]) # h BY <3>1, <2>1, <1>0
    <3> QED BY <3>1, <3>2, <1>4
  <2>2. ASSUME NEW c \in Consumers, pc'[c] = "cas", dequeue_pos_ = pos[c]
        PROVE  sequence'[CellOf(pos[c])] = pos[c] + 1
    <3>1. sequence[CellOf(pos[c])] = pos[c] + 1 /\ CellOf(pos[c]) \in Cells
      BY <2>2, <1>0, <1>1, <1>3, CellType DEF IInv, CasInv
    <3>2. CellOf(pos[c]) # CellOf(pos[c] + 1) BY <2>2, <1>0, CellNext
    <3>3. CellOf(pos[c]) # h BY <3>1, <3>2, <1>0 DEF h
    <3> QED BY <3>1, <3>3, <1>4
  <2> QED BY <2>1, <2>2 DEF CasInv
<1>10. CellInv'
  <2>1. \A d \in Consumers : pc'[d] = pc[d] BY <1>1, <1>3
  <2>2. /\ sequence'[h] \in 1..enqueue_pos_
        /\ CellOf(sequence'[h] - 1) = h
        /\ data[h] = pushed[sequence'[h]]
    <3>1. sequence'[h] - 1 = pos[p] /\ sequence'[h] \in 1..enqueue_pos_
      BY <1>0, <1>4
    <3>2. data[h] = item[p] /\ pushed[pos[p] + 1] = item[p]
      BY <1>0 DEF IInv, ItemInv, h
    <3> QED BY <3>1, <3>2, <1>4 DEF h
  <2> QED BY <2>1, <2>2, <1>4 DEF IInv, CellInv
<1>11. ItemInv' BY <1>1, <1>2, <1>3 DEF IInv, ItemInv
<1>12. FifoDelivery' BY <1>1, <1>3 DEF IInv, FifoDelivery
<1>13. NoLostItem'
  <2> SUFFICES ASSUME NEW t \in dequeue_pos_..(enqueue_pos_ - 1)
               PROVE  \/ /\ sequence'[CellOf(t)] = t + 1
                         /\ data[CellOf(t)] = pushed[t + 1]
                      \/ \E q \in Producers : Holds(q)' /\ pos[q] = t
    BY DEF NoLostItem
  <2>0. t \in Nat /\ CellOf(t) \in Cells BY CellType, <1>0
  <2>1. CASE sequence[CellOf(t)] = t + 1 /\ data[CellOf(t)] = pushed[t + 1]
    <3>1. CellOf(t) # CellOf(t + 1) BY <2>0, CellNext
    <3>2. CellOf(t) # h BY <3>1, <2>1, <1>0 DEF h
    <3> QED BY <3>2, <2>0, <2>1, <1>4
  <2>2. CASE pos[p] = t
    <3>1. data[h] = item[p] /\ pushed[pos[p] + 1] = item[p]
      BY <1>0 DEF IInv, ItemInv, h
    <3> QED BY <3>1, <2>2, <1>4 DEF h
  <2>3. CASE \E q \in Producers \ {p} : Holds(q) /\ pos[q] = t
    BY <2>3, <1>1, <1>3
  <2> QED BY <2>1, <2>2, <2>3 DEF IInv, NoLostItem
<1>14. NoLeakedCell'
  <2> SUFFICES ASSUME NEW t \in enqueue_pos_..(dequeue_pos_ + Capacity - 1)
               PROVE  \/ sequence'[CellOf(t)] = t
                      \/ \E c \in Consumers : Holds(c)' /\ pos[c] + Capacity = t
    BY DEF IInv, NoLeakedCell
  <2>0. t \in Nat /\ CellOf(t) \in Cells BY CellType, <1>0
  <2>1. CASE sequence[CellOf(t)] = t
    <3>1. t # pos[p] BY <1>0
    <3>2. CellOf(t) # h BY <3>1, <2>1, <1>0
    <3> QED BY <3>2, <2>0, <2>1, <1>4
  <2>2. CASE \E c \in Consumers : Holds(c) /\ pos[c] + Capacity = t
    BY <2>2, <1>1, <1>3
  <2> QED BY <2>1, <2>2 DEF IInv, NoLeakedCell
<1> QED BY <1>6, <1>7, <1>8, <1>9, <1>10, <1>11, <1>12, <1>13, <1>14 DEF IInv

-----------------------------------------------------------------------------
(* The steps of a pop that change shared state *)

\* A consumer wins ticket dequeue_pos_ (lines 88-91).
LEMMA PopClaimInv ==
    ASSUME IInv, NEW c \in Consumers, PopClaim(c) PROVE IInv'
<1> USE DEF PopClaim
<1>0. /\ c \in Threads /\ c \notin Producers
      /\ enqueue_pos_ \in Nat /\ dequeue_pos_ \in Nat
      /\ pos[c] = dequeue_pos_ /\ dequeue_pos_' = dequeue_pos_ + 1
      /\ dequeue_pos_ <= enqueue_pos_ /\ enqueue_pos_ <= dequeue_pos_ + Capacity
  BY ThreadsAssumption DEF Threads, IInv, TypeOK, PosInv
<1>1. \A t \in Threads \ {c} : pc'[t] = pc[t] /\ (Holds(t)' <=> Holds(t))
  BY <1>0 DEF IInv, TypeOK, Holds
<1>2. pc'[c] = "data" /\ Holds(c)' /\ ~ Holds(c)
  BY <1>0 DEF IInv, TypeOK, Holds
<1>3. Consumers \subseteq Threads /\ Producers \subseteq Threads \ {c}
  BY <1>0 DEF Threads
<1>4. /\ sequence[CellOf(dequeue_pos_)] = dequeue_pos_ + 1
      /\ CellOf(dequeue_pos_) \in Cells
  BY <1>0, CellType DEF IInv, CasInv
<1>5. dequeue_pos_ < enqueue_pos_
  <2>1. CellOf(dequeue_pos_) # CellOf(dequeue_pos_ + 1) BY <1>0, CellNext
  <2>2. sequence[CellOf(dequeue_pos_)] \in 1..enqueue_pos_
    BY <2>1, <1>4 DEF IInv, CellInv
  <2> QED BY <2>2, <1>0, <1>4
<1>6. TypeOK' BY <1>0 DEF IInv, TypeOK
<1>7. PosInv'
  <2>1. \A d \in Consumers : pos[d] \in Nat BY <1>3 DEF IInv, TypeOK
  <2>2. Capacity \in Nat BY CapacityAssumption
  <2>3. \A p \in Producers : (Holds(p)' <=> Holds(p)) /\ pc'[p] = pc[p]
    BY <1>1, <1>3
  <2>4. /\ dequeue_pos_' <= enqueue_pos_'
        /\ enqueue_pos_' <= dequeue_pos_' + Capacity
    BY <2>2, <1>0, <1>5
  <2>5. \A d \in Consumers : pos[d] <= dequeue_pos_'
                             /\ (Holds(d)' => pos[d] < dequeue_pos_')
    BY <2>1, <1>0, <1>1, <1>2, <1>3 DEF IInv, PosInv
  <2> QED BY <2>3, <2>4, <2>5 DEF IInv, PosInv
<1>8. OwnInv'
  <2>1. \A d \in Consumers \ {c} : Holds(d) => pos[d] < dequeue_pos_ /\ pos[d] \in Nat
    BY <1>3 DEF IInv, PosInv, TypeOK
  <2> QED BY <2>1, <1>0, <1>1, <1>2, <1>3, <1>4 DEF IInv, OwnInv
<1>9. CasInv'
  <2>1. \A d \in Consumers : pos[d] <= dequeue_pos_ /\ pos[d] \in Nat
    BY <1>3 DEF IInv, PosInv, TypeOK
  <2> QED BY <2>1, <1>0, <1>1, <1>2, <1>3 DEF IInv, CasInv
<1>10. CellInv'
  <2>1. \A d \in Consumers : pc[d] = "store" => pc'[d] = "store" BY <1>1, <1>2, <1>3 DEF Holds
  <2>2. \A i \in Cells : sequence[i] \in Nat BY DEF IInv, TypeOK
  <2>3. \A k \in Nat : k < dequeue_pos_ + Capacity => k < dequeue_pos_' + Capacity
    BY <1>0, CapacityAssumption
  <2> QED BY <2>1, <2>2, <2>3 DEF IInv, CellInv
<1>11. ItemInv' BY <1>1, <1>3 DEF IInv, ItemInv
<1>12. FifoDelivery' BY <1>1, <1>2, <1>3 DEF IInv, FifoDelivery
<1>13. NoLostItem'
  <2>1. (dequeue_pos_ + 1)..(enqueue_pos_ - 1)
            \subseteq dequeue_pos_..(enqueue_pos_ - 1)
    BY <1>0
  <2>2. \A q \in Producers : Holds(q)' <=> Holds(q) BY <1>1, <1>3
  <2> QED BY <2>1, <2>2, <1>0 DEF IInv, NoLostItem
<1>14. NoLeakedCell'
  <2>0. dequeue_pos_' + Capacity - 1 = dequeue_pos_ + Capacity
    BY <1>0, CapacityAssumption
  <2>1. /\ dequeue_pos_' <= enqueue_pos_'
        /\ enqueue_pos_' <= dequeue_pos_' + Capacity
    BY <1>0, <1>5, CapacityAssumption
  <2> SUFFICES ASSUME NEW t \in enqueue_pos_..(dequeue_pos_ + Capacity)
               PROVE  \/ sequence[CellOf(t)] = t
                      \/ \E d \in Consumers : Holds(d)' /\ pos[d] + Capacity = t
    BY <2>0, <2>1 DEF NoLeakedCell
  <2>2. CASE t = dequeue_pos_ + Capacity BY <2>2, <1>0, <1>2
  <2>3. CASE t \in enqueue_pos_..(dequeue_pos_ + Capacity - 1)
    <3>1. \A d \in Consumers : Holds(d) => Holds(d)' BY <1>1, <1>2, <1>3
    <3> QED BY <3>1, <2>3 DEF IInv, NoLeakedCell
  <2>4. \/ t = dequeue_pos_ + Capacity
        \/ t \in enqueue_pos_..(dequeue_pos_ + Capacity - 1)
    BY <1>0, CapacityAssumption
  <2> QED BY <2>2, <2>3, <2>4
<1> QED BY <1>6, <1>7, <1>8, <1>9, <1>10, <1>11, <1>12, <1>13, <1>14 DEF IInv

\* A consumer moves the item out of its claimed cell (line 98).
LEMMA PopReadInv ==
    ASSUME IInv, NEW c \in Consumers, PopRead(c) PROVE IInv'
<1> USE DEF PopRead
<1> DEFINE h == CellOf(pos[c])
<1>0. /\ c \in Threads /\ c \notin Producers /\ pos[c] \in Nat /\ Holds(c)
      /\ h \in Cells /\ sequence[h] = pos[c] + 1 /\ pos[c] < dequeue_pos_
      /\ enqueue_pos_ \in Nat /\ dequeue_pos_ \in Nat
  BY ThreadsAssumption, CellType DEF Threads, IInv, TypeOK, OwnInv, PosInv, Holds
<1>1. \A t \in Threads \ {c} : pc'[t] = pc[t] /\ item'[t] = item[t]
  BY <1>0 DEF IInv, TypeOK
<1>2. pc'[c] = "store" /\ item'[c] = data[h] /\ \A t \in Threads : Holds(t)' <=> Holds(t)
  BY <1>0, <1>1 DEF IInv, TypeOK, Holds
<1>3. Consumers \subseteq Threads /\ Producers \subseteq Threads \ {c}
  BY <1>0 DEF Threads
<1>4. \A i \in Cells \ {h} : data'[i] = data[i]
  BY <1>0 DEF IInv, TypeOK
<1>5. \A t \in Threads \ {c} :
          Holds(t) => CellOf(pos[t]) # h /\ CellOf(pos[t]) \in Cells
  <2>1. NoDataRace BY HoldersApart
  <2>2. \A t \in Threads : pos[t] \in Nat BY DEF IInv, TypeOK
  <2> QED BY <2>1, <2>2, <1>0, CellType DEF NoDataRace
<1>6. data[h] = pushed[pos[c] + 1]
  <2>1. CellOf(pos[c]) # CellOf(pos[c] + 1) BY <1>0, CellNext
  <2>2. \/ data[h] = pushed[sequence[h]]
        \/ \E d \in Consumers : pc[d] = "store" /\ pos[d] + 1 = sequence[h]
    BY <2>1, <1>0 DEF IInv, CellInv
  <2>3. ASSUME NEW d \in Consumers, pc[d] = "store", pos[d] + 1 = sequence[h]
        PROVE  FALSE
    <3>1. pos[d] = pos[c] /\ Holds(d) /\ d # c
      BY <2>3, <1>0, <1>3 DEF IInv, TypeOK, Holds
    <3> QED BY <3>1, <1>0 DEF IInv, OwnInv
  <2> QED BY <2>2, <2>3, <1>0
<1> HIDE DEF h
<1>7. TypeOK'
  <2>1. data[h] \in Values \cup {MovedFrom} BY <1>0 DEF IInv, TypeOK
  <2>2. data' \in [Cells -> Values \cup {MovedFrom}] BY <1>0 DEF IInv, TypeOK
  <2>3. item' \in [Threads -> Values \cup {MovedFrom}]
    BY <2>1, <1>0 DEF IInv, TypeOK, h
  <2> QED BY <2>2, <2>3, <1>0 DEF IInv, TypeOK
<1>8. PosInv' BY <1>1, <1>2, <1>3 DEF IInv, PosInv
<1>9. OwnInv' BY <1>2, <1>3 DEF IInv, OwnInv
<1>10. CasInv' BY <1>1, <1>2, <1>3 DEF IInv, CasInv
<1>11. CellInv'
  <2>1. \A d \in Consumers : pc[d] = "store" => pc'[d] = "store" BY <1>1, <1>2, <1>3
  <2>2. pc'[c] = "store" /\ pos[c] + 1 = sequence[h] BY <1>0, <1>2
  <2> QED BY <2>1, <2>2, <1>4 DEF IInv, CellInv
<1>12. ItemInv'
  <2>1. \A q \in Producers : pc[q] = "store" => data'[CellOf(pos[q])] = data[CellOf(pos[q])]
    BY <1>3, <1>4, <1>5 DEF Holds
  <2> QED BY <2>1, <1>1, <1>2, <1>3 DEF IInv, ItemInv
<1>13. FifoDelivery' BY <1>1, <1>2, <1>3, <1>6 DEF IInv, FifoDelivery
<1>14. NoLostItem'
  <2> SUFFICES ASSUME NEW t \in dequeue_pos_..(enqueue_pos_ - 1)
               PROVE  \/ /\ sequence[CellOf(t)] = t + 1
                         /\ data'[CellOf(t)] = pushed[t + 1]
                      \/ \E q \in Producers : Holds(q)' /\ pos[q] = t
    BY DEF NoLostItem
  <2>0. t \in Nat /\ t >= dequeue_pos_ /\ CellOf(t) \in Cells BY CellType, <1>0
  <2>1. CASE sequence[CellOf(t)] = t + 1 /\ data[CellOf(t)] = pushed[t + 1]
    <3>1. CellOf(t) # h BY <2>0, <2>1, <1>0
    <3> QED BY <3>1, <2>0, <2>1, <1>4
  <2>2. CASE \E q \in Producers : Holds(q) /\ pos[q] = t BY <2>2, <1>2, <1>3
  <2> QED BY <2>1, <2>2 DEF IInv, NoLostItem
<1>15. NoLeakedCell' BY <1>2, <1>3 DEF IInv, NoLeakedCell
<1> QED BY <1>7, <1>8, <1>9, <1>10, <1>11, <1>12, <1>13, <1>14, <1>15 DEF IInv

\* A consumer frees its cell for the next lap (line 99).
LEMMA PopReleaseInv ==
    ASSUME IInv, NEW c \in Consumers, PopRelease(c) PROVE IInv'
<1> USE DEF PopRelease
<1> DEFINE h == CellOf(pos[c])
<1>0. /\ c \in Threads /\ c \notin Producers /\ pos[c] \in Nat /\ Holds(c)
      /\ h \in Cells /\ sequence[h] = pos[c] + 1 /\ pos[c] < dequeue_pos_
      /\ enqueue_pos_ \in Nat /\ dequeue_pos_ \in Nat
      /\ dequeue_pos_ <= enqueue_pos_ /\ Capacity \in Nat
  BY ThreadsAssumption, CapacityAssumption, CellType
     DEF Threads, IInv, TypeOK, OwnInv, PosInv, Holds
<1>1. \A t \in Threads \ {c} : pc'[t] = pc[t] /\ (Holds(t)' <=> Holds(t))
  BY <1>0 DEF IInv, TypeOK, Holds
<1>2. pc'[c] = "idle" /\ ~ Holds(c)'
  BY <1>0 DEF IInv, TypeOK, Holds
<1>3. Consumers \subseteq Threads /\ Producers \subseteq Threads \ {c}
  BY <1>0 DEF Threads
<1>4. /\ sequence'[h] = pos[c] + Capacity
      /\ \A i \in Cells \ {h} : sequence'[i] = sequence[i]
  BY <1>0 DEF IInv, TypeOK
<1>5. \A t \in Threads \ {c} :
          Holds(t) => CellOf(pos[t]) # h /\ CellOf(pos[t]) \in Cells
  <2>1. NoDataRace BY HoldersApart
  <2>2. \A t \in Threads : pos[t] \in Nat BY DEF IInv, TypeOK
  <2> QED BY <2>1, <2>2, <1>0, CellType DEF NoDataRace
<1>6. CellOf(pos[c] + 1) # h /\ CellOf(pos[c] + Capacity) = h
  BY <1>0, CellNext, CellLap
<1> HIDE DEF h
<1>7. TypeOK' BY <1>0 DEF IInv, TypeOK, h
<1>8. PosInv' BY <1>1, <1>2, <1>3 DEF IInv, PosInv
<1>9. OwnInv'
  <2>1. \A d \in Consumers : Holds(d)' => d # c /\ Holds(d) BY <1>1, <1>2, <1>3
  <2>2. \A q \in Producers : Holds(q)' => q # c /\ Holds(q) BY <1>1, <1>3
  <2> QED BY <2>1, <2>2, <1>3, <1>4, <1>5 DEF IInv, OwnInv
<1>10. CasInv'
  <2>1. ASSUME NEW q \in Producers, pc'[q] = "cas", enqueue_pos_ = pos[q]
        PROVE  sequence'[CellOf(pos[q])] = pos[q]
    <3>1. sequence[CellOf(pos[q])] = pos[q] /\ CellOf(pos[q]) \in Cells
      BY <2>1, <1>0, <1>1, <1>3, CellType DEF IInv, CasInv
    <3>2. CellOf(pos[q]) # h BY <3>1, <1>0, <1>6
    <3> QED BY <3>1, <3>2, <1>4
  <2>2. ASSUME NEW d \in Consumers, pc'[d] = "cas", dequeue_pos_ = pos[d]
        PROVE  sequence'[CellOf(pos[d])] = pos[d] + 1
    <3>1. sequence[CellOf(pos[d])] = pos[d] + 1 /\ CellOf(pos[d]) \in Cells
      BY <2>2, <1>0, <1>1, <1>2, <1>3, CellType DEF IInv, CasInv
    <3>2. CellOf(pos[d]) # h BY <3>1, <2>2, <1>0
    <3> QED BY <3>1, <3>2, <1>4
  <2> QED BY <2>1, <2>2 DEF CasInv
<1>11. CellInv'
  <2>1. CellOf(sequence'[h]) = h /\ sequence'[h] < dequeue_pos_ + Capacity
    BY <1>0, <1>4, <1>6
  <2>2. ASSUME NEW i \in Cells \ {h}, NEW d \in Consumers,
               pc[d] = "store", pos[d] + 1 = sequence[i], CellOf(sequence[i] - 1) = i
        PROVE  pc'[d] = "store"
    <3>1. d # c
      <4>1. pos[d] \in Nat /\ pos[d] + 1 - 1 = pos[d] BY <1>3 DEF IInv, TypeOK
      <4> QED BY <4>1, <2>2 DEF h
    <3> QED BY <3>1, <2>2, <1>1, <1>3
  <2> QED BY <2>1, <2>2, <1>4 DEF IInv, CellInv
<1>12. ItemInv' BY <1>1, <1>3 DEF IInv, ItemInv
<1>13. FifoDelivery' BY <1>1, <1>2, <1>3 DEF IInv, FifoDelivery
<1>14. NoLostItem'
  <2> SUFFICES ASSUME NEW t \in dequeue_pos_..(enqueue_pos_ - 1)
               PROVE  \/ /\ sequence'[CellOf(t)] = t + 1
                         /\ data[CellOf(t)] = pushed[t + 1]
                      \/ \E q \in Producers : Holds(q)' /\ pos[q] = t
    BY DEF NoLostItem
  <2>0. t \in Nat /\ t >= dequeue_pos_ /\ CellOf(t) \in Cells BY CellType, <1>0
  <2>1. CASE sequence[CellOf(t)] = t + 1 /\ data[CellOf(t)] = pushed[t + 1]
    <3>1. CellOf(t) # h BY <2>0, <2>1, <1>0
    <3> QED BY <3>1, <2>0, <2>1, <1>4
  <2>2. CASE \E q \in Producers : Holds(q) /\ pos[q] = t BY <2>2, <1>1, <1>3
  <2> QED BY <2>1, <2>2 DEF IInv, NoLostItem
<1>15. NoLeakedCell'
  <2> SUFFICES ASSUME NEW t \in enqueue_pos_..(dequeue_pos_ + Capacity - 1)
               PROVE  \/ sequence'[CellOf(t)] = t
                      \/ \E d \in Consumers : Holds(d)' /\ pos[d] + Capacity = t
    BY DEF IInv, NoLeakedCell
  <2>0. t \in Nat /\ CellOf(t) \in Cells BY CellType, <1>0
  <2>1. CASE sequence[CellOf(t)] = t
    <3>1. CellOf(t) # h BY <2>1, <1>0, <1>6
    <3> QED BY <3>1, <2>0, <2>1, <1>4
  <2>2. CASE pos[c] + Capacity = t BY <2>2, <1>4, <1>6
  <2>3. CASE \E d \in Consumers \ {c} : Holds(d) /\ pos[d] + Capacity = t
    BY <2>3, <1>1, <1>3
  <2> QED BY <2>1, <2>2, <2>3 DEF IInv, NoLeakedCell
<1> QED BY <1>7, <1>8, <1>9, <1>10, <1>11, <1>12, <1>13, <1>14, <1>15 DEF IInv

-----------------------------------------------------------------------------
(* The invariant is inductive *)

\* All the reading steps together, in the form NextInv needs.
LEMMA LocalInv ==
    ASSUME IInv
    PROVE  /\ \A p \in Producers, v \in Values : PushCall(p, v) => IInv'
           /\ \A p \in Producers :
                 PushCheck(p) \/ PushReload(p) \/ PushLose(p) => IInv'
           /\ \A c \in Consumers :
                 PopCall(c) \/ PopCheck(c) \/ PopReload(c) \/ PopLose(c) => IInv'
<1>0. /\ enqueue_pos_ \in Nat /\ dequeue_pos_ \in Nat
      /\ Producers \subseteq Threads /\ Consumers \subseteq Threads
      /\ CursorLoads(enqueue_pos_) \subseteq 0..enqueue_pos_
      /\ CursorLoads(dequeue_pos_) \subseteq 0..dequeue_pos_
  BY DEF IInv, TypeOK, Threads, CursorLoads
<1>a. \A t \in Threads : /\ pos = [pos EXCEPT ![t] = pos[t]]
                         /\ item = [item EXCEPT ![t] = item[t]]
                         /\ item[t] \in Values \cup {MovedFrom}
                         /\ pos[t] \in Nat
  BY DEF IInv, TypeOK
<1>b. \A i \in Cells : \A s \in SequenceLoads(i) : s <= sequence[i] /\ s \in Nat
  BY CapacityAssumption DEF SequenceLoads, IInv, TypeOK, Cells
<1>1. ASSUME NEW p \in Producers, NEW v \in Values, PushCall(p, v) PROVE IInv'
  <2>1. PICK l \in 0..enqueue_pos_ : pos' = [pos EXCEPT ![p] = l]
    BY <1>0, <1>1 DEF PushCall
  <2>2. ~ Holds(p) BY <1>1 DEF PushCall, Holds
  <2> QED BY <2>1, <2>2, <1>1, PushLocal DEF PushCall
<1>2. ASSUME NEW p \in Producers, PushCheck(p) PROVE IInv'
  <2>1. PICK s \in SequenceLoads(CellOf(pos[p])) :
          pc' = [pc EXCEPT ![p] = IF s = pos[p] THEN "cas"
                                  ELSE IF s < pos[p] THEN "idle" ELSE "reload"]
    BY <1>2 DEF PushCheck
  <2>2. PICK k \in {"idle", "reload", "cas"} :
          pc' = [pc EXCEPT ![p] = k] /\ (k = "cas" => s = pos[p])
    BY <2>1
  <2>3. ASSUME k = "cas", enqueue_pos_ = pos[p]
        PROVE  sequence[CellOf(pos[p])] = pos[p]
    <3>1. pos[p] <= sequence[CellOf(pos[p])]
      BY <2>2, <2>3, <1>0, <1>a, <1>b, CellType
    <3>2. sequence[CellOf(pos[p])] <= pos[p]
      BY <2>3, <1>0, UnclaimedBound
    <3>3. sequence[CellOf(pos[p])] \in Nat /\ pos[p] \in Nat
      BY <1>0, <1>a, CellType DEF IInv, TypeOK
    <3> QED BY <3>1, <3>2, <3>3
  <2>4. ~ Holds(p) /\ item[p] \in Values /\ pos[p] \in 0..enqueue_pos_
    BY <1>0, <1>2, <1>a DEF PushCheck, Holds, IInv, PosInv
  <2>5. pos' = [pos EXCEPT ![p] = pos[p]] /\ item' = [item EXCEPT ![p] = item[p]]
    BY <1>0, <1>2, <1>a DEF PushCheck
  <2>6. UNCHANGED <<enqueue_pos_, dequeue_pos_, sequence, data, pushed>>
    BY <1>2 DEF PushCheck
  <2>7. k \in {"idle", "check", "reload", "cas"} /\ pc' = [pc EXCEPT ![p] = k]
    BY <2>2
  <2>8. item[p] \in Values \cup {MovedFrom} BY <2>4
  <2> QED BY <2>3, <2>4, <2>5, <2>6, <2>7, <2>8, PushLocal
<1>3. ASSUME NEW p \in Producers, PushReload(p) \/ PushLose(p) PROVE IInv'
  <2>1. PICK l \in 0..enqueue_pos_ : pos' = [pos EXCEPT ![p] = l]
    BY <1>0, <1>3 DEF PushReload, PushLose
  <2>2. ~ Holds(p) /\ item[p] \in Values
    BY <1>3 DEF PushReload, PushLose, Holds, IInv, PosInv
  <2>3. item' = [item EXCEPT ![p] = item[p]] /\ pc' = [pc EXCEPT ![p] = "check"]
    BY <1>0, <1>3, <1>a DEF PushReload, PushLose
  <2> QED BY <2>1, <2>2, <2>3, <1>3, PushLocal DEF PushReload, PushLose
<1>4. ASSUME NEW c \in Consumers, PopCall(c) \/ PopReload(c) \/ PopLose(c) PROVE IInv'
  <2>1. PICK l \in 0..dequeue_pos_ : pos' = [pos EXCEPT ![c] = l]
    BY <1>0, <1>4 DEF PopCall, PopReload, PopLose
  <2>2. ~ Holds(c) /\ pc' = [pc EXCEPT ![c] = "check"]
    BY <1>4 DEF PopCall, PopReload, PopLose, Holds
  <2> QED BY <2>1, <2>2, <1>4, PopLocal DEF PopCall, PopReload, PopLose
<1>5. ASSUME NEW c \in Consumers, PopCheck(c) PROVE IInv'
  <2>1. PICK s \in SequenceLoads(CellOf(pos[c])) :
          pc' = [pc EXCEPT ![c] = IF s = pos[c] + 1 THEN "cas"
                                  ELSE IF s < pos[c] + 1 THEN "idle" ELSE "reload"]
    BY <1>5 DEF PopCheck
  <2>2. PICK k \in {"idle", "reload", "cas"} :
          pc' = [pc EXCEPT ![c] = k] /\ (k = "cas" => s = pos[c] + 1)
    BY <2>1
  <2>3. ASSUME k = "cas", dequeue_pos_ = pos[c]
        PROVE  sequence[CellOf(pos[c])] = pos[c] + 1
    <3>1. pos[c] + 1 <= sequence[CellOf(pos[c])]
      BY <2>2, <2>3, <1>0, <1>a, <1>b, CellType
    <3>2. sequence[CellOf(pos[c])] <= pos[c] + 1
      BY <2>3, <1>0, UnclaimedBound
    <3>3. sequence[CellOf(pos[c])] \in Nat /\ pos[c] \in Nat
      BY <1>0, <1>a, CellType DEF IInv, TypeOK
    <3> QED BY <3>1, <3>2, <3>3
  <2>4. ~ Holds(c) /\ pos[c] \in 0..dequeue_pos_
    BY <1>0, <1>5, <1>a DEF PopCheck, Holds, IInv, PosInv
  <2>5. pos' = [pos EXCEPT ![c] = pos[c]]
    BY <1>0, <1>5, <1>a DEF PopCheck
  <2>6. UNCHANGED <<enqueue_pos_, dequeue_pos_, sequence, data, item, pushed>>
    BY <1>5 DEF PopCheck
  <2>7. k \in {"idle", "check", "reload", "cas"} /\ pc' = [pc EXCEPT ![c] = k]
    BY <2>2
  <2> QED BY <2>3, <2>4, <2>5, <2>6, <2>7, PopLocal
<1> QED BY <1>1, <1>2, <1>3, <1>4, <1>5

\* Every step of every thread preserves the invariant.
LEMMA NextInv == IInv /\ [Next]_vars => IInv'
<1> SUFFICES ASSUME IInv, [Next]_vars PROVE IInv' OBVIOUS
<1>1. CASE \E p \in Producers : (\E v \in Values : PushCall(p, v)) \/ PushStep(p)
  BY <1>1, LocalInv, PushClaimInv, PushWriteInv, PushPublishInv DEF PushStep
<1>2. CASE \E c \in Consumers : PopCall(c) \/ PopStep(c)
  BY <1>2, LocalInv, PopClaimInv, PopReadInv, PopReleaseInv DEF PopStep
<1>3. CASE UNCHANGED vars
  BY <1>3 DEF vars, IInv, TypeOK, PosInv, OwnInv, CasInv, CellInv, ItemInv,
              FifoDelivery, NoLostItem, NoLeakedCell, Holds
<1> QED BY <1>1, <1>2, <1>3 DEF Next

-----------------------------------------------------------------------------
(* The theorems *)

\* IInv holds in every reachable state of the ring buffer.
THEOREM InvariantHolds == Spec => []IInv
BY InitInv, NextInv, PTL DEF Spec

\* The variables of the ring keep their types.
THEOREM TypeCorrect == Spec => []TypeOK
<1>1. IInv => TypeOK BY DEF IInv
<1> QED BY <1>1, InvariantHolds, PTL

\* try_push and try_pop never access the data of one cell at the same time.
THEOREM DataRaceFreedom == Spec => []NoDataRace
BY HoldersApart, InvariantHolds, PTL

\* Items come out in the order of their tickets, each the one that was pushed.
THEOREM Fifo == Spec => []FifoDelivery
<1>1. IInv => FifoDelivery BY DEF IInv
<1> QED BY <1>1, InvariantHolds, PTL

\* No pushed item is lost before a consumer takes it.
THEOREM NothingLost == Spec => []NoLostItem
<1>1. IInv => NoLostItem BY DEF IInv
<1> QED BY <1>1, InvariantHolds, PTL

\* Every cell comes back for the next lap; at most Capacity items are inside.
THEOREM NothingLeaked == Spec => []NoLeakedCell
<1>1. IInv => NoLeakedCell BY DEF IInv
<1> QED BY <1>1, InvariantHolds, PTL

-----------------------------------------------------------------------------
(* The refinement: the outstanding tickets are a TicketQueue *)

\* Every cell has a ticket in every lap.
LEMMA TicketInLap ==
    ASSUME NEW a \in Nat, NEW d \in Nat
    PROVE  \E t \in d..(d + Capacity - 1) : CellOf(t) = CellOf(a)
<1>1. PICK q \in Nat, r \in Cells : a = Capacity * q + r /\ r = a % Capacity
  BY DivMod
<1>2. PICK u \in Nat, v \in Cells : d = Capacity * u + v /\ v = d % Capacity
  BY DivMod
<1>3. /\ r \in Nat /\ r < Capacity /\ v \in Nat /\ v < Capacity
      /\ Capacity * u \in Nat
  BY CapacityAssumption DEF Cells
<1>4. CASE r >= v
  <2>1. CellOf(Capacity * u + r) = r BY ModUnique DEF CellOf
  <2>2. Capacity * u + r \in d..(d + Capacity - 1)
    BY <1>2, <1>3, <1>4, CapacityAssumption
  <2> QED BY <2>1, <2>2, <1>1 DEF CellOf
<1>5. CASE r < v
  <2>1. u + 1 \in Nat OBVIOUS
  <2>2. CellOf(Capacity * (u + 1) + r) = r BY <2>1, ModUnique DEF CellOf
  <2>3. Capacity * (u + 1) = Capacity * u + Capacity BY CapacityAssumption
  <2>4. Capacity * (u + 1) + r \in d..(d + Capacity - 1)
    BY <2>3, <1>2, <1>3, <1>5, CapacityAssumption
  <2> QED BY <2>2, <2>4, <1>1 DEF CellOf
<1> QED BY <1>3, <1>4, <1>5

\* The sequence number of an outstanding ticket's cell is the ticket's, or one
\* more once it is published.
LEMMA OutstandingCell ==
    ASSUME IInv, NEW t \in dequeue_pos_..(enqueue_pos_ - 1)
    PROVE  t \in Nat /\ sequence[CellOf(t)] \in {t, t + 1}
<1>1. t \in Nat BY DEF IInv, TypeOK
<1> QED BY <1>1 DEF IInv, NoLostItem, OwnInv

\* The items of the refinement are the outstanding ones.
LEMMA OutstandingType ==
    ASSUME IInv
    PROVE  /\ enqueue_pos_ - dequeue_pos_ \in Nat
           /\ Outstanding \in Seq(Abstract!Entry)
           /\ Len(Outstanding) = enqueue_pos_ - dequeue_pos_
           /\ DOMAIN Outstanding = 1..(enqueue_pos_ - dequeue_pos_)
<1>1. /\ enqueue_pos_ \in Nat /\ dequeue_pos_ \in Nat /\ dequeue_pos_ <= enqueue_pos_
      /\ pushed \in Seq(Values) /\ Len(pushed) = enqueue_pos_
  BY DEF IInv, TypeOK, PosInv
<1>2. enqueue_pos_ - dequeue_pos_ \in Nat BY <1>1
<1>3. \A k \in 1..(enqueue_pos_ - dequeue_pos_) : pushed[dequeue_pos_ + k] \in Values
  BY <1>1
<1>4. Outstanding \in [1..(enqueue_pos_ - dequeue_pos_) -> Abstract!Entry]
  BY <1>3 DEF Outstanding, Abstract!Entry
<1> QED BY <1>2, <1>4

\* A holding producer's ticket has not been taken.
LEMMA HeldOutstanding ==
    ASSUME IInv, NEW p \in Producers, Holds(p)
    PROVE  pos[p] \in dequeue_pos_..(enqueue_pos_ - 1)
<1>1. /\ pos[p] \in Nat /\ dequeue_pos_ \in Nat /\ enqueue_pos_ \in Nat
      /\ pos[p] < enqueue_pos_ /\ enqueue_pos_ <= dequeue_pos_ + Capacity
      /\ sequence[CellOf(pos[p])] = pos[p]
  BY DEF IInv, TypeOK, PosInv, OwnInv, Threads
<1>2. dequeue_pos_ <= pos[p]
  <2> SUFFICES ASSUME pos[p] < dequeue_pos_ PROVE FALSE BY <1>1
  <2>1. PICK t \in dequeue_pos_..(dequeue_pos_ + Capacity - 1) :
           CellOf(t) = CellOf(pos[p])
    BY <1>1, TicketInLap
  <2>2. t \in Nat /\ pos[p] < t BY <1>1, <2>1, CapacityAssumption
  <2>3. CASE t < enqueue_pos_
    <3>1. t \in dequeue_pos_..(enqueue_pos_ - 1) BY <1>1, <2>1, <2>2, <2>3
    <3>2. sequence[CellOf(t)] \in {t, t + 1} BY <3>1, OutstandingCell
    <3> QED BY <3>2, <2>1, <2>2, <1>1
  <2>4. CASE t >= enqueue_pos_
    <3>1. t \in enqueue_pos_..(dequeue_pos_ + Capacity - 1)
      BY <1>1, <2>1, <2>2, <2>4, CapacityAssumption
    <3>2. PICK c \in Consumers : Holds(c) /\ pos[c] + Capacity = t
      BY <3>1, <2>1, <2>2, <1>1 DEF IInv, NoLeakedCell
    <3>3. pos[c] \in Nat /\ sequence[CellOf(pos[c])] = pos[c] + 1
      BY <3>2 DEF IInv, TypeOK, OwnInv, Threads
    <3>4. CellOf(pos[c]) = CellOf(pos[p]) BY <3>2, <3>3, <2>1, CellLap
    <3>5. pos[p] = pos[c] + 1 BY <3>3, <3>4, <1>1
    <3> QED BY <3>3, <3>4, <3>5, CellNext
  <2> QED BY <2>2, <2>3, <2>4, <1>1
<1> QED BY <1>1, <1>2

\* Winning the producers' compare-exchange is Claim.
LEMMA PushClaimRefines ==
    ASSUME IInv, NEW p \in Producers, PushClaim(p)
    PROVE  item[p] \in Values /\ Abstract!Claim(item[p])
<1> USE DEF PushClaim
<1> DEFINE d == dequeue_pos_
           n == enqueue_pos_ - dequeue_pos_
           new == [item |-> item[p], ready |-> FALSE]
<1>1. /\ enqueue_pos_ \in Nat /\ d \in Nat /\ d <= enqueue_pos_
      /\ enqueue_pos_ <= d + Capacity
      /\ item[p] \in Values /\ pushed \in Seq(Values) /\ Len(pushed) = enqueue_pos_
      /\ sequence[CellOf(enqueue_pos_)] = enqueue_pos_
      /\ n \in Nat /\ enqueue_pos_ = d + n
  BY DEF IInv, TypeOK, PosInv, CasInv, Threads
<1>2. n < Capacity
  <2> SUFFICES ASSUME enqueue_pos_ = d + Capacity PROVE FALSE
    <3>1. Capacity \in Nat BY CapacityAssumption
    <3>2. n <= Capacity /\ (n = Capacity => enqueue_pos_ = d + Capacity)
      BY <1>1, <3>1
    <3> HIDE DEF n, d
    <3> QED BY <1>1, <3>1, <3>2
  <2>1. d \in dequeue_pos_..(enqueue_pos_ - 1) BY <1>1, CapacityAssumption
  <2>2. sequence[CellOf(d)] \in {d, d + 1} BY <2>1, OutstandingCell
  <2>3. CellOf(enqueue_pos_) = CellOf(d) BY <1>1, CellLap
  <2> QED BY <1>1, <2>2, <2>3, CapacityAssumption
<1>3. /\ \A k \in 1..enqueue_pos_ : pushed'[k] = pushed[k]
      /\ pushed'[enqueue_pos_ + 1] = item[p]
  BY <1>1, AppendProperties
<1>4. enqueue_pos_' - dequeue_pos_' = n + 1 BY <1>1
<1>5. \A k \in 1..n : d + k \in 1..enqueue_pos_ BY <1>1
<1>6. Outstanding' =
        [k \in 1..(n + 1) |->
            [item |-> pushed'[d + k], ready |-> sequence[CellOf(d + k - 1)] = d + k]]
  BY <1>4 DEF Outstanding
<1>7. \A k \in 1..n : Outstanding'[k] = Outstanding[k]
  <2>1. \A k \in 1..n : k \in 1..(n + 1) BY <1>1
  <2> QED BY <2>1, <1>3, <1>5, <1>6 DEF Outstanding
<1>8. Outstanding'[n + 1] = new
  <2>1. n + 1 \in 1..(n + 1) /\ d + (n + 1) = enqueue_pos_ + 1
           /\ d + (n + 1) - 1 = enqueue_pos_
    BY <1>1
  <2>2. Outstanding'[n + 1] =
          [item |-> pushed'[enqueue_pos_ + 1],
           ready |-> sequence[CellOf(enqueue_pos_)] = enqueue_pos_ + 1]
    BY <2>1, <1>6
  <2>3. (sequence[CellOf(enqueue_pos_)] = enqueue_pos_ + 1) = FALSE BY <1>1
  <2> QED BY <2>2, <2>3, <1>3
<1>9. /\ Outstanding \in Seq(Abstract!Entry) /\ Len(Outstanding) = n
      /\ DOMAIN Outstanding = 1..n
  BY OutstandingType
<1> HIDE DEF n, d, new
<1>10. /\ Append(Outstanding, new) \in Seq(Abstract!Entry)
       /\ DOMAIN Append(Outstanding, new) = 1..(n + 1)
       /\ \A k \in 1..n : Append(Outstanding, new)[k] = Outstanding[k]
       /\ Append(Outstanding, new)[n + 1] = new
  <2>1. new \in Abstract!Entry BY <1>1 DEF new, Abstract!Entry
  <2> QED BY <2>1, <1>9, AppendProperties, LenProperties
<1>11. \A k \in 1..(n + 1) : k \in 1..n \/ k = n + 1 BY <1>1
<1>12. Outstanding' = Append(Outstanding, new)
  <2>1. \A k \in 1..(n + 1) : Outstanding'[k] = Append(Outstanding, new)[k]
    BY <1>7, <1>8, <1>10, <1>11
  <2>2. Append(Outstanding, new) \in [1..(n + 1) -> Abstract!Entry]
    BY <1>10, LenProperties
  <2>3. Outstanding' = [k \in 1..(n + 1) |-> Outstanding'[k]] BY <1>6, Zenon
  <2> QED BY <2>1, <2>2, <2>3
<1> QED BY <1>1, <1>2, <1>9, <1>12 DEF Abstract!Claim, new

\* Making a claimed entry ready changes nothing else of it.
LEMMA ReadyFlip ==
    ASSUME NEW v
    PROVE  /\ [[item |-> v, ready |-> FALSE] EXCEPT !.ready = TRUE]
                 = [item |-> v, ready |-> TRUE]
           /\ [item |-> v, ready |-> FALSE].ready = FALSE
<1>1. \A b, c : [[item |-> v, ready |-> b] EXCEPT !.ready = c] = [item |-> v, ready |-> c]
  BY SMT
<1>2. [item |-> v, ready |-> FALSE].ready = FALSE BY Zenon
<1> QED BY <1>1, <1>2, Zenon

\* The producer's release store is Publish.
LEMMA PushPublishRefines ==
    ASSUME IInv, NEW p \in Producers, PushPublish(p)
    PROVE  \E k \in 1..Capacity : Abstract!Publish(k)
<1> USE DEF PushPublish
<1> DEFINE d == dequeue_pos_
           n == enqueue_pos_ - dequeue_pos_
           t == pos[p]
           m == t - d + 1
<1>1. /\ enqueue_pos_ \in Nat /\ d \in Nat /\ n \in Nat /\ n <= Capacity
      /\ sequence \in [Cells -> Nat] /\ sequence[CellOf(t)] = t
      /\ t \in d..(enqueue_pos_ - 1)
  BY HeldOutstanding, CapacityAssumption DEF IInv, TypeOK, PosInv, OwnInv, Holds, Threads
<1>2. m \in 1..n /\ m \in 1..Capacity /\ t \in Nat /\ t = d + m - 1
  BY <1>1, CapacityAssumption
<1>3. /\ Outstanding \in Seq(Abstract!Entry) /\ Len(Outstanding) = n
      /\ DOMAIN Outstanding = 1..n
  BY OutstandingType
<1>4. /\ Outstanding = [k \in 1..n |->
            [item |-> pushed[d + k], ready |-> sequence[CellOf(d + k - 1)] = d + k]]
      /\ Outstanding' = [k \in 1..n |->
            [item |-> pushed[d + k], ready |-> sequence'[CellOf(d + k - 1)] = d + k]]
  BY DEF Outstanding
<1>5. Outstanding[m] = [item |-> pushed[d + m], ready |-> FALSE]
  <2>1. Outstanding[m] = [item |-> pushed[d + m],
                          ready |-> sequence[CellOf(d + m - 1)] = d + m]
    BY <1>2, <1>4
  <2>2. (sequence[CellOf(d + m - 1)] = d + m) = FALSE BY <1>1, <1>2
  <2> QED BY <2>1, <2>2
<1>6. Outstanding'[m] = [item |-> pushed[d + m], ready |-> TRUE]
  <2>1. sequence'[CellOf(t)] = t + 1 BY <1>1, <1>2, CellType
  <2>2. Outstanding'[m] = [item |-> pushed[d + m],
                           ready |-> sequence'[CellOf(d + m - 1)] = d + m]
    BY <1>2, <1>4
  <2>3. (sequence'[CellOf(d + m - 1)] = d + m) = TRUE BY <1>1, <1>2, <2>1
  <2> QED BY <2>2, <2>3
<1>7. \A k \in 1..n : k # m => Outstanding'[k] = Outstanding[k]
  <2> SUFFICES ASSUME NEW k \in 1..n, k # m
               PROVE  sequence'[CellOf(d + k - 1)] = sequence[CellOf(d + k - 1)]
    BY <1>4
  <2> DEFINE u == d + k - 1
  <2>1. u \in Nat /\ u # t /\ u < t + Capacity /\ t < u + Capacity
    BY <1>1, <1>2, CapacityAssumption
  <2> HIDE DEF u
  <2>2. CellOf(u) # CellOf(t) BY <2>1, <1>2, CellApart, CapacityAssumption
  <2>3. CellOf(u) \in Cells BY <2>1, CellType
  <2> QED BY <2>2, <2>3, <1>1 DEF u
<1> HIDE DEF d, n, t, m
<1>8. Outstanding' = [Outstanding EXCEPT ![m] = [item |-> pushed[d + m], ready |-> TRUE]]
  <2> DEFINE new == [item |-> pushed[d + m], ready |-> TRUE]
             S == [Outstanding EXCEPT ![m] = new]
  <2> HIDE DEF new
  <2>1. \A k \in 1..n : S[k] = IF k = m THEN new ELSE Outstanding[k] BY <1>3
  <2>2. \A k \in 1..n : Outstanding'[k] = IF k = m THEN new ELSE Outstanding[k]
    BY <1>6, <1>7 DEF new
  <2>3. S = [k \in 1..n |-> S[k]] BY <1>3
  <2>4. Outstanding' = [k \in 1..n |-> Outstanding'[k]] BY <1>4
  <2> HIDE DEF S
  <2>5. Outstanding' = S BY <2>1, <2>2, <2>3, <2>4
  <2> QED BY <2>5 DEF S, new
<1>9. [Outstanding[m] EXCEPT !.ready = TRUE] = [item |-> pushed[d + m], ready |-> TRUE]
  BY <1>5, ReadyFlip
<1>10. [Outstanding EXCEPT ![m].ready = TRUE]
         = [Outstanding EXCEPT ![m] = [item |-> pushed[d + m], ready |-> TRUE]]
  BY <1>9, Zenon
<1>11. ~ Outstanding[m].ready
  <2>1. Outstanding[m].ready = FALSE BY <1>5, ReadyFlip, Zenon
  <2> QED BY <2>1
<1>12. m \in 1..Len(Outstanding) BY <1>2, <1>3
<1>13. Outstanding' = [Outstanding EXCEPT ![m].ready = TRUE] BY <1>8, <1>10, Zenon
<1>14. Abstract!Publish(m)
  BY <1>11, <1>12, <1>13, Zenon DEF Abstract!Publish
<1> QED BY <1>2, <1>14

\* Winning the consumers' compare-exchange is Take.
LEMMA PopClaimRefines ==
    ASSUME IInv, NEW c \in Consumers, PopClaim(c)
    PROVE  Abstract!Take
<1> USE DEF PopClaim
<1> DEFINE d == dequeue_pos_
           n == enqueue_pos_ - dequeue_pos_
<1>1. /\ enqueue_pos_ \in Nat /\ d \in Nat /\ n \in Nat /\ d <= enqueue_pos_
      /\ sequence[CellOf(d)] = d + 1
  BY DEF IInv, TypeOK, PosInv, CasInv, Threads
<1>2. n > 0
  <2> SUFFICES ASSUME d >= enqueue_pos_ PROVE FALSE BY <1>1
  <2>1. sequence[CellOf(d)] <= d BY <1>1, UnclaimedBound
  <2> QED BY <1>1, <2>1
<1>3. /\ Outstanding \in Seq(Abstract!Entry) /\ Len(Outstanding) = n
      /\ DOMAIN Outstanding = 1..n
  BY OutstandingType
<1>4. enqueue_pos_' - dequeue_pos_' = n - 1 /\ dequeue_pos_' = d + 1 BY <1>1
<1>5. /\ Outstanding = [k \in 1..n |->
            [item |-> pushed[d + k], ready |-> sequence[CellOf(d + k - 1)] = d + k]]
      /\ Outstanding' = [k \in 1..(n - 1) |->
            [item |-> pushed[(d + 1) + k],
             ready |-> sequence[CellOf((d + 1) + k - 1)] = (d + 1) + k]]
  BY <1>4 DEF Outstanding
<1>6. Outstanding[1].ready
  <2>1. 1 \in 1..n /\ d + 1 - 1 = d BY <1>1, <1>2
  <2> QED BY <2>1, <1>1, <1>5
<1>7. \A k \in 1..(n - 1) : Outstanding'[k] = Outstanding[k + 1]
  <2>1. \A k \in 1..(n - 1) : /\ k + 1 \in 1..n /\ d + (k + 1) = (d + 1) + k
                               /\ d + (k + 1) - 1 = (d + 1) + k - 1
    BY <1>1
  <2> QED BY <2>1, <1>5
<1> HIDE DEF d, n
<1>8. Outstanding # << >> /\ Head(Outstanding) = Outstanding[1] BY <1>1, <1>2, <1>3
<1>9. /\ Tail(Outstanding) \in Seq(Abstract!Entry)
      /\ DOMAIN Tail(Outstanding) = 1..(n - 1)
      /\ \A k \in 1..(n - 1) : Tail(Outstanding)[k] = Outstanding[k + 1]
  BY <1>3, <1>8, HeadTailProperties, LenProperties
<1>10. Outstanding' = Tail(Outstanding)
  <2>1. \A k \in 1..(n - 1) : Outstanding'[k] = Tail(Outstanding)[k] BY <1>7, <1>9
  <2>2. Tail(Outstanding) \in [1..(n - 1) -> Abstract!Entry]
    BY <1>9, LenProperties
  <2>3. Outstanding' = [k \in 1..(n - 1) |-> Outstanding'[k]] BY <1>5, Zenon
  <2> QED BY <2>1, <2>2, <2>3
<1> QED BY <1>6, <1>8, <1>10 DEF Abstract!Take

\* The consumer's release store concerns a ticket that is not outstanding.
LEMMA PopReleaseRefines ==
    ASSUME IInv, NEW c \in Consumers, PopRelease(c)
    PROVE  Outstanding' = Outstanding
<1> USE DEF PopRelease
<1>1. /\ enqueue_pos_ \in Nat /\ dequeue_pos_ \in Nat /\ pos[c] \in Nat
      /\ pos[c] < dequeue_pos_ /\ sequence[CellOf(pos[c])] = pos[c] + 1
      /\ sequence \in [Cells -> Nat]
  BY DEF IInv, TypeOK, PosInv, OwnInv, Holds, Threads
<1>2. ASSUME NEW k \in 1..(enqueue_pos_ - dequeue_pos_)
      PROVE  sequence'[CellOf(dequeue_pos_ + k - 1)] = sequence[CellOf(dequeue_pos_ + k - 1)]
  <2> DEFINE t == dequeue_pos_ + k - 1
  <2>1. t \in dequeue_pos_..(enqueue_pos_ - 1) BY <1>1
  <2>2. t \in Nat /\ sequence[CellOf(t)] \in {t, t + 1} BY <2>1, OutstandingCell
  <2>3. t >= dequeue_pos_ BY <1>1
  <2> HIDE DEF t
  <2>4. CellOf(t) # CellOf(pos[c])
    <3> SUFFICES ASSUME CellOf(t) = CellOf(pos[c]) PROVE FALSE OBVIOUS
    <3>1. t = pos[c] + 1 BY <1>1, <2>2, <2>3
    <3> QED BY <3>1, <1>1, CellNext
  <2>5. CellOf(t) \in Cells BY <2>2, CellType
  <2> QED BY <2>4, <2>5, <1>1 DEF t
<1> QED BY <1>2 DEF Outstanding

\* Each step of the ring is a step of the queue or leaves it as it is.
LEMMA NextRefines == IInv /\ [Next]_vars => [Abstract!Next]_Outstanding
<1> SUFFICES ASSUME IInv, [Next]_vars PROVE Abstract!Next \/ Outstanding' = Outstanding
  OBVIOUS
<1>1. ASSUME UNCHANGED <<enqueue_pos_, dequeue_pos_, sequence, pushed>>
      PROVE  Outstanding' = Outstanding
  BY <1>1 DEF Outstanding
<1>2. ASSUME NEW p \in Producers, PushClaim(p) PROVE Abstract!Next
  BY <1>2, PushClaimRefines DEF Abstract!Next
<1>3. ASSUME NEW p \in Producers, PushPublish(p) PROVE Abstract!Next
  BY <1>3, PushPublishRefines DEF Abstract!Next
<1>4. ASSUME NEW c \in Consumers, PopClaim(c) PROVE Abstract!Next
  BY <1>4, PopClaimRefines DEF Abstract!Next
<1>5. CASE \E p \in Producers : (\E v \in Values : PushCall(p, v)) \/ PushStep(p)
  BY <1>1, <1>2, <1>3, <1>5
     DEF PushStep, PushCall, PushCheck, PushReload, PushLose, PushWrite
<1>6. CASE \E c \in Consumers : PopCall(c) \/ PopStep(c)
  BY <1>1, <1>4, <1>6, PopReleaseRefines
     DEF PopStep, PopCall, PopCheck, PopReload, PopLose, PopRead
<1>7. CASE UNCHANGED vars BY <1>1, <1>7 DEF vars
<1> QED BY <1>5, <1>6, <1>7 DEF Next

\* try_push and try_pop implement the bounded FIFO that Engine and Telemetry use
\* in their place: every interleaving of their loads, compare-exchanges and
\* stores is a sequence of claims, publications and takes.
THEOREM ImplementsTicketQueue == Spec => RefinesTicketQueue
<1>1. Init => Abstract!Init
  <2> SUFFICES ASSUME Init PROVE Outstanding = << >> BY DEF Abstract!Init
  <2>1. DOMAIN Outstanding = {} BY DEF Outstanding, Init
  <2> QED BY <2>1, InitInv, OutstandingType DEF Init
<1> QED BY <1>1, InvariantHolds, NextRefines, PTL DEF Spec, RefinesTicketQueue, Abstract!Spec
=============================================================================
