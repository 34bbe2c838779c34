---------------------------- MODULE GatingProofs ----------------------------
(***************************************************************************)
(* fused_gating for every number of experts and SIMD groups, every weights  *)
(* and every sequence of calls: IInv of Gating is inductive, the scan finds *)
(* a maximum, and k rounds of it are a beginning of an argsort.             *)
(***************************************************************************)
EXTENDS Gating, FunctionTheorems, FiniteSetTheorems, WellFoundedInduction, TLAPS

-----------------------------------------------------------------------------
(* Induction.  The library's induction theorems take the induction          *)
(* hypothesis as an operator; here it is a set of numbers.                  *)

\* A set with 0 and the successor of every number in it has every number.
LEMMA SetInduction ==
    ASSUME NEW S, 0 \in S, \A n \in Nat : n \in S => n + 1 \in S
    PROVE  \A n \in Nat : n \in S
<1> DEFINE T == Nat \ S
           R == {ss \in Nat \X Nat : ss[1] < ss[2]}
<1>1. SUFFICES ASSUME T # {} PROVE FALSE OBVIOUS
<1>2. IsWellFoundedOn(R, Nat) BY NatLessThanWellFounded DEF OpToRel
<1>3. T \subseteq Nat OBVIOUS
<1> HIDE DEF T, R
<1>4. PICK x \in T : \A y \in T : <<y, x>> \notin R
  BY <1>1, <1>2, <1>3, WFMin
<1>5. \A y \in T : ~ (y < x) BY <1>3, <1>4 DEF R
<1> QED BY <1>5 DEF T

-----------------------------------------------------------------------------
(* The scan *)

\* The recursion of best_idx has a solution, so the loop's equation holds.
LEMMA BestIdxEquation ==
    \A x \in 0..NumExperts :
        best_idx[x] = IF x = 0 THEN -1
                      ELSE LET b == best_idx[x - 1]
                               best_val == IF b = -1 THEN Infinity ELSE logits[b]
                           IN  IF logits[x - 1] > best_val THEN x - 1 ELSE b
<1> DEFINE Round(b, x) == IF logits[x - 1] > (IF b = -1 THEN Infinity ELSE logits[b])
                          THEN x - 1 ELSE b
           Body(f, x) == IF x = 0 THEN -1 ELSE Round(f[x - 1], x)
           S == {n \in Nat : \E f : f = [x \in 0..n |-> Body(f, x)]}
<1> HIDE DEF Round
<1>1. 0 \in S
  <2> DEFINE f == [x \in 0..0 |-> -1]
  <2> f = [x \in 0..0 |-> Body(f, x)] OBVIOUS
  <2> QED OBVIOUS
<1>2. ASSUME NEW n \in Nat, n \in S PROVE n + 1 \in S
  <2>1. PICK f : f = [x \in 0..n |-> Body(f, x)] BY <1>2
  <2> DEFINE g == [x \in 0..(n + 1) |-> IF x = n + 1 THEN Round(f[n], n + 1)
                                                    ELSE f[x]]
  <2>2. \A x \in 0..(n + 1) : g[x] = Body(g, x)
    <3>1. \A x \in 0..n : f[x] = Body(f, x) BY <2>1
    <3> QED BY <3>1
  <2>3. g = [x \in 0..(n + 1) |-> Body(g, x)] BY <2>2
  <2>4. n + 1 \in Nat OBVIOUS
  <2> HIDE DEF g
  <2> QED BY <2>3, <2>4
<1>3. NumExperts \in S
  <2> HIDE DEF S
  <2> QED BY <1>1, <1>2, SetInduction, GatingAssumption
<1>4. \E f : f = [x \in 0..NumExperts |-> Body(f, x)] BY <1>3
<1>5. best_idx = CHOOSE f : f = [x \in 0..NumExperts |-> Body(f, x)]
  BY DEF best_idx, Round
<1>6. best_idx = [x \in 0..NumExperts |-> Body(best_idx, x)] BY <1>4, <1>5
<1>7. \A x \in 0..NumExperts : best_idx[x] = Body(best_idx, x) BY <1>6
<1> QED BY <1>7 DEF Round

\* The scan finds an expert that has not been struck out, if there is one, and
\* no logit is above this one's.
LEMMA BestIdxIsLargest ==
    ASSUME logits \in [Experts -> Int],
           NEW z \in Experts, logits[z] > Infinity
    PROVE  /\ BestIdx \in Experts /\ logits[BestIdx] > Infinity
           /\ \A x \in Experts : logits[x] <= logits[BestIdx]
<1> USE DEF Experts, Infinity
<1> DEFINE Best(b, n) ==
              \/ b = -1 /\ \A x \in 0..(n - 1) : logits[x] <= Infinity
              \/ /\ b \in 0..(n - 1) /\ logits[b] > Infinity
                 /\ \A x \in 0..(n - 1) : logits[x] <= logits[b]
           S == {n \in Nat : n <= NumExperts => Best(best_idx[n], n)}
<1>1. 0 \in S
  <2>1. best_idx[0] = -1 BY BestIdxEquation, GatingAssumption
  <2> QED BY <2>1
<1>2. ASSUME NEW n \in Nat, n \in S PROVE n + 1 \in S
  <2> SUFFICES ASSUME n + 1 <= NumExperts PROVE Best(best_idx[n + 1], n + 1)
    OBVIOUS
  <2>1. Best(best_idx[n], n) BY <1>2, GatingAssumption
  <2> DEFINE b == best_idx[n]
  <2>2. best_idx[n + 1] = IF logits[n] > (IF b = -1 THEN Infinity ELSE logits[b])
                          THEN n ELSE b
    BY BestIdxEquation, GatingAssumption
  <2>3. logits[n] \in Int BY GatingAssumption
  <2>4. \A x \in 0..n : x = n \/ x \in 0..(n - 1) OBVIOUS
  <2> HIDE DEF b
  <2>5. CASE b = -1
    <3>1. \A x \in 0..(n - 1) : logits[x] <= Infinity BY <2>1, <2>5 DEF b
    <3>2. \A x \in 0..(n - 1) : logits[x] \in Int BY GatingAssumption
    <3>3. CASE logits[n] > Infinity
      <4>1. best_idx[n + 1] = n BY <2>2, <2>5, <3>3
      <4> QED BY <4>1, <3>1, <3>2, <3>3, <2>3, <2>4
    <3>4. CASE ~ (logits[n] > Infinity)
      <4>1. best_idx[n + 1] = -1 BY <2>2, <2>5, <3>4
      <4> QED BY <4>1, <3>1, <3>4, <2>3, <2>4
    <3> QED BY <3>3, <3>4
  <2>6. CASE b # -1
    <3>1. b \in 0..(n - 1) /\ logits[b] \in Int /\ logits[b] > Infinity
      BY <2>1, <2>6, GatingAssumption DEF b
    <3>2. \A x \in 0..(n - 1) : logits[x] <= logits[b] BY <2>1, <2>6 DEF b
    <3>3. \A x \in 0..(n - 1) : logits[x] \in Int BY GatingAssumption
    <3>4. CASE logits[n] > logits[b]
      <4>1. best_idx[n + 1] = n BY <2>2, <2>6, <3>4
      <4>2. \A x \in 0..(n - 1) : logits[x] <= logits[n]
        BY <3>1, <3>2, <3>3, <3>4, <2>3
      <4>3. logits[n] > Infinity BY <3>1, <3>4, <2>3
      <4>4. \A x \in 0..n : logits[x] <= logits[n] BY <4>2, <2>3, <2>4
      <4> QED BY <4>1, <4>3, <4>4
    <3>5. CASE ~ (logits[n] > logits[b])
      <4>1. best_idx[n + 1] = b BY <2>2, <2>6, <3>5
      <4> QED BY <4>1, <3>1, <3>2, <3>5, <2>3, <2>4
    <3> QED BY <3>4, <3>5
  <2> QED BY <2>5, <2>6
<1>3. NumExperts \in S
  <2> HIDE DEF S
  <2> QED BY <1>1, <1>2, SetInduction, GatingAssumption
<1>4. Best(BestIdx, NumExperts) BY <1>3, GatingAssumption DEF BestIdx
<1>5. BestIdx # -1 BY <1>4, GatingAssumption
<1> QED BY <1>4, <1>5

-----------------------------------------------------------------------------
(* Argsorts *)

\* Fewer choices than experts leave an expert out.
LEMMA OneIsLeft ==
    ASSUME NEW n \in Nat, n < NumExperts, NEW o \in [1..n -> Experts]
    PROVE  \E x \in Experts : \A i \in 1..n : o[i] # x
<1>1. SUFFICES ASSUME \A x \in Experts : \E i \in 1..n : o[i] = x PROVE FALSE
  OBVIOUS
<1>2. o \in Surjection(1..n, Experts) BY <1>1, Fun_IsSurj
<1>3. Cardinality(Experts) <= Cardinality(1..n)
  BY <1>2, FS_Interval, FS_Surjection
<1>4. Cardinality(1..n) = n BY FS_Interval
<1>5. Cardinality(Experts) = NumExperts
  BY FS_Interval, GatingAssumption DEF Experts
<1> QED BY <1>3, <1>4, <1>5, GatingAssumption

\* A set of experts has one with the largest logit.
LEMMA LargestLogit ==
    ASSUME NEW w \in [Experts -> Nat], NEW T \in SUBSET Experts, T # {}
    PROVE  \E x \in T : \A y \in T : w[x] >= w[y]
<1> DEFINE Has(n) == \A U \in SUBSET T : U # {} /\ (\A x \in U : x < n)
                        => \E x \in U : \A y \in U : w[x] >= w[y]
           S == {n \in Nat : Has(n)}
<1>0. T \subseteq Nat /\ \A x \in T : w[x] \in Nat
  BY GatingAssumption DEF Experts
<1>1. 0 \in S
  <2>1. \A x \in T : ~ (x < 0) BY <1>0
  <2> QED BY <2>1
<1>2. ASSUME NEW n \in Nat, n \in S PROVE n + 1 \in S
  <2> SUFFICES ASSUME NEW U \in SUBSET T, U # {}, \A x \in U : x < n + 1
               PROVE  \E x \in U : \A y \in U : w[x] >= w[y]
    OBVIOUS
  <2>1. CASE n \notin U BY <2>1, <1>2, <1>0
  <2>2. CASE U = {n} BY <2>2, <1>0
  <2>3. CASE n \in U /\ U # {n}
    <3>1. PICK x \in U \ {n} : \A y \in U \ {n} : w[x] >= w[y]
      <4>1. \A y \in U \ {n} : y < n BY <1>0
      <4> QED BY <4>1, <2>3, <1>2
    <3>2. CASE w[x] >= w[n] BY <3>1, <3>2
    <3>3. CASE ~ (w[x] >= w[n])
      <4>1. \A y \in U : w[n] >= w[y] BY <3>1, <3>3, <2>3, <1>0
      <4> QED BY <4>1, <2>3
    <3> QED BY <3>2, <3>3
  <2> QED BY <2>1, <2>2, <2>3
<1>3. NumExperts \in S
  <2> HIDE DEF S
  <2> QED BY <1>1, <1>2, SetInduction, GatingAssumption
<1>4. \A x \in T : x < NumExperts BY GatingAssumption DEF Experts
<1> QED BY <1>3, <1>4

\* Choices that are a beginning of an argsort can be completed to one.
LEMMA Completion ==
    ASSUME NEW w \in [Experts -> Nat], NEW m \in 0..NumExperts,
           NEW p \in [1..m -> Experts],
           \A i, j \in 1..m : i < j => p[i] # p[j] /\ w[p[i]] >= w[p[j]],
           \A i \in 1..m, x \in Experts :
               (\A j \in 1..m : p[j] # x) => w[p[i]] >= w[x]
    PROVE  \E o \in ArgSorts(w) : \A i \in 1..m : o[i] = p[i]
<1> DEFINE Left(o, n) == {x \in Experts : \A i \in 1..n : o[i] # x}
           Begins(o, n) ==
              /\ \A i, j \in 1..n : i < j => o[i] # o[j] /\ w[o[i]] >= w[o[j]]
              /\ \A i \in 1..n : \A x \in Left(o, n) : w[o[i]] >= w[x]
              /\ \A i \in 1..m : o[i] = p[i]
           S == {d \in Nat : m + d <= NumExperts =>
                    \E o \in [1..(m + d) -> Experts] : Begins(o, m + d)}
<1>0. NumExperts \in Nat /\ m \in Nat /\ \A x \in Experts : w[x] \in Nat
  BY GatingAssumption
<1>1. 0 \in S
  <2>1. Begins(p, m) OBVIOUS
  <2> QED BY <2>1, <1>0
<1>2. ASSUME NEW d \in Nat, d \in S PROVE d + 1 \in S
  <2> SUFFICES ASSUME m + (d + 1) <= NumExperts
               PROVE  \E o \in [1..(m + (d + 1)) -> Experts] : Begins(o, m + (d + 1))
    OBVIOUS
  <2>1. PICK o \in [1..(m + d) -> Experts] : Begins(o, m + d)
    <3>1. m + d <= NumExperts BY <1>0
    <3> HIDE DEF Begins
    <3> QED BY <3>1, <1>2
  <2> DEFINE n == m + d
  <2>2. n \in Nat /\ n < NumExperts /\ m <= n /\ m + (d + 1) = n + 1 BY <1>0
  <2> HIDE DEF n
  <2>3. o \in [1..n -> Experts] /\ Begins(o, n) BY <2>1 DEF n
  <2>4. PICK x \in Left(o, n) : \A y \in Left(o, n) : w[x] >= w[y]
    <3>1. Left(o, n) # {}
      <4> HIDE DEF Begins
      <4>1. \E x \in Experts : \A i \in 1..n : o[i] # x BY <2>2, <2>3, OneIsLeft
      <4> QED BY <4>1
    <3> HIDE DEF Left
    <3>2. Left(o, n) \in SUBSET Experts BY DEF Left
    <3> QED BY <3>1, <3>2, LargestLogit
  <2> DEFINE q == [i \in 1..(n + 1) |-> IF i = n + 1 THEN x ELSE o[i]]
  <2>5. /\ q \in [1..(n + 1) -> Experts] /\ q[n + 1] = x
        /\ \A i \in 1..n : q[i] = o[i]
    BY <2>2, <2>3, <2>4
  <2>6. \A i \in 1..(n + 1) : i \in 1..n \/ i = n + 1 BY <2>2
  <2> HIDE DEF q
  <2>7. \A i, j \in 1..(n + 1) : i < j => q[i] # q[j] /\ w[q[i]] >= w[q[j]]
    <3> SUFFICES ASSUME NEW i \in 1..(n + 1), NEW j \in 1..(n + 1), i < j
                 PROVE  q[i] # q[j] /\ w[q[i]] >= w[q[j]]
      OBVIOUS
    <3>1. i \in 1..n /\ q[i] = o[i] BY <2>2, <2>5
    <3>2. CASE j \in 1..n BY <3>1, <3>2, <2>3, <2>5
    <3>3. CASE j = n + 1 BY <3>1, <3>3, <2>3, <2>4, <2>5
    <3> QED BY <3>2, <3>3, <2>6
  <2>8. \A i \in 1..(n + 1) : \A y \in Left(q, n + 1) : w[q[i]] >= w[y]
    <3> SUFFICES ASSUME NEW i \in 1..(n + 1), NEW y \in Left(q, n + 1)
                 PROVE  w[q[i]] >= w[y]
      OBVIOUS
    <3>1. y \in Left(o, n) BY <2>2, <2>5
    <3>2. CASE i \in 1..n BY <3>1, <3>2, <2>3, <2>5
    <3>3. CASE i = n + 1 BY <3>1, <3>3, <2>4, <2>5
    <3> QED BY <3>2, <3>3, <2>6
  <2>9. \A i \in 1..m : q[i] = p[i] BY <2>2, <2>3, <2>5, <1>0
  <2>10. Begins(q, n + 1) BY <2>7, <2>8, <2>9
  <2> HIDE DEF Begins
  <2> QED BY <2>2, <2>5, <2>10
<1>3. NumExperts - m \in S
  <2> HIDE DEF S
  <2> QED BY <1>0, <1>1, <1>2, SetInduction
<1>4. m + (NumExperts - m) = NumExperts BY <1>0
<1>5. PICK o \in [1..NumExperts -> Experts] : Begins(o, NumExperts)
  <2> DEFINE d == NumExperts - m
  <2> HIDE DEF Begins
  <2>1. m + d <= NumExperts BY <1>0, <1>4
  <2> HIDE DEF d
  <2>2. \E o \in [1..(m + d) -> Experts] : Begins(o, m + d)
    BY <1>3, <2>1 DEF d
  <2> QED BY <2>2, <1>4 DEF d
<1> QED BY <1>5 DEF ArgSorts

-----------------------------------------------------------------------------
(* Sharing the experts out *)

\* Which experts belong to which SIMD group: numbers of the same remainder are
\* at least SimdGroups apart.
LEMMA Stride ==
    ASSUME NEW a \in Nat, NEW x \in Nat, a % SimdGroups = x % SimdGroups,
           a <= x, x < a + SimdGroups
    PROVE  x = a
<1>1. SimdGroups \in Nat /\ SimdGroups > 0 BY GatingAssumption
<1> DEFINE qa == a \div SimdGroups
           qx == x \div SimdGroups
           r == a % SimdGroups
<1>2. /\ qa \in Nat /\ qx \in Nat /\ r \in Nat /\ r < SimdGroups
      /\ a = SimdGroups * qa + r /\ x = SimdGroups * qx + r
  BY <1>1
<1> HIDE DEF qa, qx, r
<1>3. qx < qa + 1
  <2> SUFFICES ASSUME ~ (qx < qa + 1) PROVE FALSE OBVIOUS
  <2>1. PICK d \in Nat : qx = qa + 1 + d
    BY <1>2, qx = qa + 1 + (qx - qa - 1), qx - qa - 1 \in Nat
  <2>2. SimdGroups * qx = SimdGroups * qa + SimdGroups + SimdGroups * d
    BY <1>1, <1>2, <2>1
  <2>3. SimdGroups * d \in Nat /\ SimdGroups * qa \in Nat BY <1>1, <1>2, <2>1
  <2> QED BY <1>1, <1>2, <2>2, <2>3
<1>4. qa < qx + 1
  <2> SUFFICES ASSUME ~ (qa < qx + 1) PROVE FALSE OBVIOUS
  <2>1. PICK d \in Nat : qa = qx + 1 + d
    BY <1>2, qa = qx + 1 + (qa - qx - 1), qa - qx - 1 \in Nat
  <2>2. SimdGroups * qa = SimdGroups * qx + SimdGroups + SimdGroups * d
    BY <1>1, <1>2, <2>1
  <2>3. SimdGroups * d \in Nat /\ SimdGroups * qx \in Nat BY <1>1, <1>2, <2>1
  <2> QED BY <1>1, <1>2, <2>2, <2>3
<1>5. qa = qx BY <1>2, <1>3, <1>4
<1> QED BY <1>2, <1>5

\* A step of the stride stays in the class.
LEMMA StrideStep ==
    ASSUME NEW a \in Nat
    PROVE  (a + SimdGroups) % SimdGroups = a % SimdGroups
<1>1. SimdGroups \in Nat /\ SimdGroups > 0 BY GatingAssumption
<1> DEFINE r == (a + SimdGroups) % SimdGroups
           q == (a + SimdGroups) \div SimdGroups
<1>2. /\ q \in Nat /\ r \in Nat /\ r < SimdGroups
      /\ a + SimdGroups = SimdGroups * q + r
  BY <1>1
<1> HIDE DEF r, q
<1>3. q > 0 BY <1>1, <1>2
<1>4. PICK p \in Nat : q = p + 1 BY <1>2, <1>3, q = (q - 1) + 1, q - 1 \in Nat
<1>5. SimdGroups * q = SimdGroups * p + SimdGroups BY <1>1, <1>4
<1>6. a = SimdGroups * p + r BY <1>1, <1>2, <1>4, <1>5
<1>7. a % SimdGroups = r BY <1>1, <1>2, <1>4, <1>6
<1> QED BY <1>7 DEF r

-----------------------------------------------------------------------------
(* The invariant *)

\* The invariant holds before the first call.
LEMMA InitInv == Init => IInv
<1> SUFFICES ASSUME Init PROVE IInv OBVIOUS
<1>1. TypeOK
  <2>1. e \in [SGs -> Nat] BY GatingAssumption DEF Init, SGs
  <2>2. topk_idx \in Seq(Experts) /\ k \in 0..NumExperts
    BY GatingAssumption DEF Init
  <2> QED BY <2>1, <2>2, GatingAssumption DEF Init, TypeOK, Cached
<1>2. CacheFresh BY DEF Init, CacheFresh, Cached
<1>3. CallInv /\ ProjectInv /\ StruckOut
  BY DEF Init, CallInv, ProjectInv, StruckOut
<1>4. SelectInv BY DEF Init, SelectInv
<1> QED BY <1>1, <1>2, <1>3, <1>4 DEF IInv

\* An address with a cache entry is not given to another array.
LEMMA NewArrayInv ==
    ASSUME IInv, NEW i \in Ids, NEW w \in Weights, NewArray(i, w)
    PROVE  IInv'
<1> USE DEF NewArray, KeptAlive, Cached
<1>1. TypeOK' BY GatingAssumption DEF IInv, TypeOK
<1>2. CacheFresh' BY DEF IInv, TypeOK, CacheFresh
<1>3. CallInv' /\ ProjectInv' /\ StruckOut'
  BY DEF CallInv, ProjectInv, StruckOut
<1>4. SelectInv' BY DEF IInv, TypeOK, SelectInv
<1> QED BY <1>1, <1>2, <1>3, <1>4 DEF IInv

\* A call gets the weights of its array, from the cache or not.
LEMMA FusedGatingInv ==
    ASSUME IInv, NEW n \in 1..NumExperts, FusedGating(n)
    PROVE  IInv'
<1> USE DEF FusedGating, Transposed, Cached
<1>0. gate_weight \in Ids /\ heap[gate_weight] \in Weights
  BY DEF IInv, TypeOK
<1>1. Transposed(gate_weight) = heap[gate_weight]
  BY <1>0 DEF IInv, CacheFresh
<1>2. TypeOK'
  <2>1. e' \in [SGs -> Nat] BY GatingAssumption DEF SGs
  <2>2. topk_idx' \in Seq(Experts) /\ k' \in 0..NumExperts OBVIOUS
  <2>3. /\ weight_cache' \in [Ids -> Weights \cup {NoArray}]
        /\ gate_weight_t' \in Weights \cup {NoArray}
    BY <1>0, <1>1 DEF IInv, TypeOK
  <2>4. \A i \in Ids : i = gate_weight' \/ weight_cache'[i] # NoArray
                          => heap'[i] # NoArray
    BY <1>0, <1>1, GatingAssumption DEF IInv, TypeOK
  <2> QED BY <2>1, <2>2, <2>3, <2>4 DEF IInv, TypeOK
<1>3. CacheFresh' BY <1>0, <1>1 DEF IInv, TypeOK, CacheFresh
<1>4. CallInv' BY <1>0, <1>1 DEF CallInv
<1>5. ProjectInv'
  <2>1. SimdGroups \in Nat /\ SimdGroups > 0 BY GatingAssumption
  <2>2. \A g \in SGs : e'[g] = g /\ g \in Nat /\ g < SimdGroups
    BY <2>1 DEF SGs
  <2>3. \A g \in SGs : g % SimdGroups = g BY <2>1, <2>2
  <2>4. \A x \in Experts : x \in Nat BY GatingAssumption DEF Experts
  <2>5. \A x \in Experts : x % SimdGroups \in SGs /\ x % SimdGroups <= x
    BY <2>1, <2>4 DEF SGs
  <2> QED BY <2>2, <2>3, <2>4, <2>5 DEF ProjectInv
<1>6. StruckOut' BY DEF StruckOut
<1>7. SelectInv' BY DEF SelectInv
<1> QED BY <1>2, <1>3, <1>4, <1>5, <1>6, <1>7 DEF IInv

\* A SIMD group writes the one logit its loop is at and goes on to the next.
LEMMA ProjectStepInv ==
    ASSUME IInv, NEW g \in SGs, Project(g)
    PROVE  IInv'
<1> USE DEF Project, memoryVars
<1>0. /\ SimdGroups \in Nat /\ SimdGroups > 0
      /\ e[g] \in Experts /\ e[g] \in Nat /\ e[g] % SimdGroups = g
      /\ gate_weight_t \in [Experts -> Nat]
  <2>1. e[g] \in Nat BY DEF IInv, TypeOK
  <2>2. e[g] \in Experts BY <2>1, GatingAssumption DEF Experts
  <2>3. gate_weight_t \in Weights BY DEF IInv, TypeOK, CallInv
  <2> QED BY <2>1, <2>2, <2>3, GatingAssumption DEF IInv, ProjectInv
<1>1. TypeOK'
  <2>1. e' \in [SGs -> Nat] BY <1>0 DEF IInv, TypeOK
  <2>2. logits' \in [Experts -> Int]
    <3>1. gate_weight_t[e[g]] \in Int BY <1>0
    <3> QED BY <3>1 DEF IInv, TypeOK
  <2> QED BY <2>1, <2>2 DEF IInv, TypeOK, Cached
<1>2. CacheFresh' BY DEF IInv, CacheFresh, Cached
<1>3. CallInv' BY DEF IInv, CallInv
<1>4. ProjectInv'
  <2>1. \A h \in SGs : e'[h] = IF h = g THEN e[g] + SimdGroups ELSE e[h]
    BY DEF IInv, TypeOK
  <2>2. \A x \in Experts : logits'[x] = IF x = e[g] THEN gate_weight_t[x]
                                                  ELSE logits[x]
    BY DEF IInv, TypeOK
  <2>3. \A h \in SGs : e'[h] % SimdGroups = h
    BY <1>0, <2>1, StrideStep DEF IInv, ProjectInv
  <2>4. ASSUME NEW x \in Experts, x < e'[x % SimdGroups]
        PROVE  logits'[x] = gate_weight_t[x]
    <3>1. x \in Nat BY GatingAssumption DEF Experts
    <3>2. x % SimdGroups \in SGs BY <1>0, <3>1 DEF SGs
    <3>3. CASE x < e[x % SimdGroups]
      BY <3>3, <2>2 DEF IInv, ProjectInv
    <3>4. CASE ~ (x < e[x % SimdGroups])
      <4>1. x % SimdGroups = g BY <2>1, <2>4, <3>2, <3>4
      <4>2. e[g] <= x /\ x < e[g] + SimdGroups
        BY <1>0, <2>1, <2>4, <3>1, <3>4, <4>1
      <4>3. x = e[g] BY <1>0, <3>1, <4>1, <4>2, Stride
      <4> QED BY <2>2, <4>3
    <3> QED BY <3>3, <3>4
  <2> QED BY <2>3, <2>4 DEF IInv, ProjectInv
<1>5. StruckOut' BY DEF StruckOut
<1>6. SelectInv' BY DEF IInv, ProjectInv, SelectInv
<1> QED BY <1>1, <1>2, <1>3, <1>4, <1>5, <1>6 DEF IInv

\* Behind the barrier every logit is there.
LEMMA BarrierInv == ASSUME IInv, Barrier PROVE IInv'
<1> USE DEF Barrier, memoryVars
<1>1. TypeOK' /\ CacheFresh' /\ CallInv' /\ ProjectInv'
  BY DEF IInv, TypeOK, CacheFresh, CallInv, ProjectInv, Cached
<1>2. StruckOut'
  <2> SUFFICES ASSUME NEW x \in Experts PROVE logits[x] = gate_weight_t[x]
    BY DEF IInv, ProjectInv, StruckOut, Chosen
  <2>1. SimdGroups \in Nat /\ SimdGroups > 0 BY GatingAssumption
  <2>2. x \in Nat /\ x < NumExperts BY GatingAssumption DEF Experts
  <2>3. x % SimdGroups \in SGs BY <2>1, <2>2 DEF SGs
  <2>4. e[x % SimdGroups] \in Nat BY <2>3 DEF IInv, TypeOK
  <2>5. x < e[x % SimdGroups] BY <2>2, <2>3, <2>4, GatingAssumption
  <2> QED BY <2>5 DEF IInv, ProjectInv
<1>3. SelectInv' BY DEF IInv, ProjectInv, SelectInv
<1> QED BY <1>1, <1>2, <1>3 DEF IInv

\* A round strikes out an expert whose logit is the largest of those left.
LEMMA SelectStepInv == ASSUME IInv, Select PROVE IInv'
<1> USE DEF Select, memoryVars
<1> DEFINE w == gate_weight_t
           n == Len(topk_idx)
           b == BestIdx
<1>0. /\ gate_weight \in Ids /\ w = heap[gate_weight] /\ w \in [Experts -> Nat]
      /\ n \in Nat /\ n < k /\ k \in 0..NumExperts
      /\ topk_idx \in [1..n -> Experts] /\ topk_idx \in Seq(Experts)
      /\ logits \in [Experts -> Int]
  <2>1. gate_weight_t \in Weights BY DEF IInv, TypeOK, CallInv
  <2>2. topk_idx \in Seq(Experts) BY DEF IInv, TypeOK
  <2>3. topk_idx \in [1..n -> Experts] /\ n \in Nat BY <2>2
  <2> QED BY <2>1, <2>2, <2>3, GatingAssumption DEF IInv, TypeOK, CallInv
<1>1. \A x \in Experts : logits[x] = IF x \in Chosen THEN Infinity ELSE w[x]
  BY DEF IInv, StruckOut
<1>2. Leading(w)
  <2>1. CASE topk_idx = << >> BY <2>1 DEF Leading
  <2>2. CASE topk_idx # << >> BY <2>2, <1>0 DEF IInv, SelectInv
  <2> QED BY <2>1, <2>2
<1> HIDE DEF w, n, b
<1>3. PICK z \in Experts : \A i \in 1..n : topk_idx[i] # z
  <2>1. n < NumExperts BY <1>0, GatingAssumption
  <2> QED BY <2>1, <1>0, OneIsLeft
<1>4. z \notin Chosen BY <1>3 DEF Chosen, n
<1>5. logits[z] > Infinity
  <2>1. logits[z] = w[z] /\ w[z] \in Nat BY <1>0, <1>1, <1>4
  <2> QED BY <2>1 DEF Infinity
<1>6. /\ b \in Experts /\ logits[b] > Infinity
      /\ \A x \in Experts : logits[x] <= logits[b]
  BY <1>0, <1>5, BestIdxIsLargest DEF b
<1>7. b \notin Chosen /\ logits[b] = w[b]
  <2>1. b \in Chosen => logits[b] = Infinity BY <1>1, <1>6
  <2>2. ~ (Infinity > Infinity) BY DEF Infinity
  <2> QED BY <2>1, <2>2, <1>1, <1>6
<1>8. /\ topk_idx' \in Seq(Experts) /\ Len(topk_idx') = n + 1
      /\ topk_idx'[n + 1] = b /\ \A i \in 1..n : topk_idx'[i] = topk_idx[i]
  <2>1. topk_idx' = Append(topk_idx, b) BY DEF b
  <2> QED BY <2>1, <1>0, <1>6 DEF n
<1>9. \A i \in 1..(n + 1) : i \in 1..n \/ i = n + 1 BY <1>0
<1>10. Chosen' = Chosen \cup {b}
  <2>1. Chosen' = {topk_idx'[i] : i \in 1..(n + 1)} BY <1>8 DEF Chosen
  <2>2. Chosen = {topk_idx[i] : i \in 1..n} BY DEF Chosen, n
  <2>3. \A i \in 1..n : i \in 1..(n + 1) BY <1>0
  <2>4. n + 1 \in 1..(n + 1) BY <1>0
  <2>5. ASSUME NEW x PROVE x \in Chosen' <=> x \in Chosen \cup {b}
    <3>1. x \in Chosen' => x \in Chosen \cup {b} BY <2>1, <2>2, <1>8, <1>9
    <3>2. x \in Chosen => x \in Chosen' BY <2>1, <2>2, <2>3, <1>8
    <3>3. b \in Chosen' BY <2>1, <2>4, <1>8
    <3> QED BY <3>1, <3>2, <3>3
  <2> QED BY <2>5
<1>11. TypeOK'
  <2>1. logits' \in [Experts -> Int]
    <3>1. Infinity \in Int BY DEF Infinity
    <3>2. logits' = [logits EXCEPT ![b] = Infinity] BY DEF b
    <3> QED BY <1>0, <3>1, <3>2
  <2> QED BY <2>1, <1>8 DEF IInv, TypeOK, Cached
<1>12. CacheFresh' BY DEF IInv, CacheFresh, Cached
<1>13. CallInv' BY DEF IInv, CallInv
<1>14. ProjectInv' BY DEF ProjectInv
<1>15. StruckOut'
  <2>1. \A x \in Experts : logits'[x] = IF x = b THEN Infinity ELSE logits[x]
    BY <1>0 DEF b
  <2> QED BY <2>1, <1>1, <1>10 DEF StruckOut, w
<1>16. SelectInv'
  <2>1. \A i, j \in 1..(n + 1) :
           i < j => /\ topk_idx'[i] # topk_idx'[j]
                    /\ w[topk_idx'[i]] >= w[topk_idx'[j]]
    <3> SUFFICES ASSUME NEW i \in 1..(n + 1), NEW j \in 1..(n + 1), i < j
                 PROVE  /\ topk_idx'[i] # topk_idx'[j]
                        /\ w[topk_idx'[i]] >= w[topk_idx'[j]]
      OBVIOUS
    <3>1. i \in 1..n /\ topk_idx'[i] = topk_idx[i] BY <1>0, <1>8
    <3>2. CASE j \in 1..n BY <3>1, <3>2, <1>2, <1>8 DEF Leading, n
    <3>3. CASE j = n + 1
      <4>1. topk_idx[i] \in Chosen BY <3>1 DEF Chosen, n
      <4>2. w[topk_idx[i]] >= w[b] BY <3>1, <1>2, <1>6, <1>7 DEF Leading, n
      <4> QED BY <4>1, <4>2, <3>1, <3>3, <1>7, <1>8
    <3> QED BY <3>2, <3>3, <1>9
  <2>2. \A i \in 1..(n + 1), x \in Experts \ Chosen' : w[topk_idx'[i]] >= w[x]
    <3> SUFFICES ASSUME NEW i \in 1..(n + 1), NEW x \in Experts \ Chosen'
                 PROVE  w[topk_idx'[i]] >= w[x]
      OBVIOUS
    <3>1. x \in Experts \ Chosen BY <1>10
    <3>2. CASE i \in 1..n BY <3>1, <3>2, <1>2, <1>8 DEF Leading, n
    <3>3. CASE i = n + 1
      <4>1. w[x] <= w[b] BY <3>1, <1>1, <1>6, <1>7
      <4> QED BY <4>1, <3>1, <3>3, <1>0, <1>6, <1>8
    <3> QED BY <3>2, <3>3, <1>9
  <2>3. Leading(w)'
    BY <2>1, <2>2, <1>8 DEF Leading, w
  <2>4. Leading(heap[gate_weight])' BY <2>3, <1>0 DEF Leading, w
  <2> QED BY <2>4, <1>0, <1>8 DEF SelectInv
<1> QED BY <1>11, <1>12, <1>13, <1>14, <1>15, <1>16 DEF IInv

\* The call ends with k choices.
LEMMA ReturnInv == ASSUME IInv, Return PROVE IInv'
<1> USE DEF Return, memoryVars
<1>1. TypeOK' /\ CacheFresh' /\ CallInv' /\ ProjectInv' /\ StruckOut'
  BY DEF IInv, TypeOK, CacheFresh, CallInv, ProjectInv, StruckOut, Cached
<1>2. SelectInv' BY DEF IInv, SelectInv, Leading, Chosen
<1> QED BY <1>1, <1>2 DEF IInv

\* Every step keeps the invariant.
LEMMA NextInv == IInv /\ [Next]_vars => IInv'
<1> SUFFICES ASSUME IInv, [Next]_vars PROVE IInv' OBVIOUS
<1>1. CASE \E i \in Ids, w \in Weights : NewArray(i, w) BY <1>1, NewArrayInv
<1>2. CASE \E n \in 1..NumExperts : FusedGating(n) BY <1>2, FusedGatingInv
<1>3. CASE \E g \in SGs : Project(g) BY <1>3, ProjectStepInv
<1>4. CASE Barrier BY <1>4, BarrierInv
<1>5. CASE Select BY <1>5, SelectStepInv
<1>6. CASE Return BY <1>6, ReturnInv
<1>7. CASE UNCHANGED vars
  BY <1>7 DEF IInv, TypeOK, CacheFresh, CallInv, ProjectInv, StruckOut, SelectInv,
              Leading, Chosen, Cached, vars, memoryVars
<1> QED BY <1>1, <1>2, <1>3, <1>4, <1>5, <1>6, <1>7 DEF Next

\* The inductive invariant holds throughout.
THEOREM InvariantHolds == Spec => []IInv
BY InitInv, NextInv, PTL DEF Spec

\* Everything keeps its type; every index that a call selects is an expert's,
\* never the -1 that the scan starts from.
THEOREM TypeCorrect == Spec => []TypeOK
<1>1. IInv => TypeOK BY DEF IInv
<1> QED BY <1>1, InvariantHolds, PTL

\* The cache of transposed weights never serves another array's weights,
\* whatever arrays come and go at whatever addresses.
THEOREM CacheNeverStale == Spec => []CacheFresh
<1>1. IInv => CacheFresh BY DEF IInv
<1> QED BY <1>1, InvariantHolds, PTL

\* Whatever fused_gating returns, reference_gating could have returned.
THEOREM DropInReplacement == Spec => []FusedMatchesReference
<1>1. ASSUME IInv PROVE FusedMatchesReference
  <2> SUFFICES ASSUME mode = "idle", topk_idx # << >>
               PROVE  topk_idx \in ReferenceGating(heap[gate_weight], k)
    BY DEF FusedMatchesReference
  <2> DEFINE w == heap[gate_weight]
  <2>1. /\ gate_weight \in Ids /\ Leading(w) /\ Len(topk_idx) = k
        /\ topk_idx \in Seq(Experts) /\ k \in 0..NumExperts
    BY <1>1 DEF IInv, TypeOK, SelectInv
  <2>2. w \in [Experts -> Nat]
    <3>1. w \in Weights BY <1>1, <2>1 DEF IInv, TypeOK
    <3> QED BY <3>1, GatingAssumption
  <2> HIDE DEF w
  <2>3. topk_idx \in [1..k -> Experts] BY <2>1
  <2>4. /\ \A i, j \in 1..k : i < j => /\ topk_idx[i] # topk_idx[j]
                                      /\ w[topk_idx[i]] >= w[topk_idx[j]]
        /\ \A i \in 1..k, x \in Experts :
               (\A j \in 1..k : topk_idx[j] # x) => w[topk_idx[i]] >= w[x]
    BY <2>1 DEF Leading, Chosen
  <2>5. PICK o \in ArgSorts(w) : \A i \in 1..k : o[i] = topk_idx[i]
    BY <2>1, <2>2, <2>3, <2>4, Completion
  <2>6. topk_idx = SubSeq(o, 1, k)
    <3>1. SubSeq(o, 1, k) = [i \in 1..k |-> o[i]]
      <4>1. k \in Nat BY <2>1, GatingAssumption
      <4> QED BY <4>1
    <3> QED BY <3>1, <2>3, <2>5
  <2> QED BY <2>5, <2>6 DEF ReferenceGating, w
<1> QED BY <1>1, InvariantHolds, PTL
=============================================================================
