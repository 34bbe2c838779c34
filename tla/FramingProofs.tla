---------------------------- MODULE FramingProofs ----------------------------
(***************************************************************************)
(* For every width of the numbers, every size of the socket, every batch    *)
(* and every split of writes and reads: what is encoded decodes to itself   *)
(* and a proper part of it to nothing, and the byte loops of                *)
(* UnixSocketTransport implement the message channel.                       *)
(***************************************************************************)
EXTENDS Framing, SequenceTheorems, WellFoundedInduction, TLAPS

-----------------------------------------------------------------------------
(* Induction and recursion up to a number *)

\* A set with 0 and the successor of every number in it has every number.
LEMMA SetInduction ==
    ASSUME NEW S, 0 \in S, \A n \in Nat : n \in S => n + 1 \in S
    PROVE  \A n \in Nat : n \in S
<1> DEFINE T == Nat \ S
           R == {ss \in Nat \X Nat : ss[1] < ss[2]}
<1>1. SUFFICES ASSUME T # {} PROVE FALSE OBVIOUS
<1>2. IsWellFoundedOn(R, Nat) BY NatLessThanWellFounded DEF OpToRel
<1>3. T \subseteq Nat OBVIOUS
<1> HIDE DEF T, R
<1>4. PICK x \in T : \A y \in T : <<y, x>> \notin R
  BY <1>1, <1>2, <1>3, WFMin
<1>5. \A y \in T : ~ (y < x) BY <1>3, <1>4 DEF R
<1> QED BY <1>5 DEF T

\* The same up to n.
LEMMA Induction ==
    ASSUME NEW n \in Nat, NEW A, 0 \in A, \A k \in 1..n : k - 1 \in A => k \in A
    PROVE  \A k \in 0..n : k \in A
<1> DEFINE B == {k \in Nat : k <= n => k \in A}
<1>1. 0 \in B OBVIOUS
<1>2. ASSUME NEW k \in Nat, k \in B PROVE k + 1 \in B
  <2> SUFFICES ASSUME k + 1 <= n PROVE k + 1 \in A OBVIOUS
  <2>1. k + 1 \in 1..n /\ (k + 1) - 1 = k /\ k \in A BY <1>2
  <2> QED BY <2>1
<1>3. \A k \in Nat : k \in B
  <2> HIDE DEF B
  <2> QED BY <1>1, <1>2, SetInduction
<1> QED BY <1>3

\* The steps of a recursion with values in S, and its solution.
Steps(step, n, S) == \A k \in 1..n : \A x \in S : step[k][x] \in S

Solution(f, n, S, a, step) ==
    /\ f \in [0..n -> S]
    /\ f[0] = a /\ \A k \in 1..n : f[k] = step[k][f[k - 1]]

\* A function on 0..n is defined by its first value and its steps.
LEMMA Recursion ==
    ASSUME NEW n \in Nat, NEW S, NEW a \in S, NEW step, Steps(step, n, S)
    PROVE  \E f : Solution(f, n, S, a, step)
<1> USE DEF Steps
<1> DEFINE Has(m) == \E f \in [0..m -> S] :
                        f[0] = a /\ \A k \in 1..m : f[k] = step[k][f[k - 1]]
           A == {m \in 0..n : Has(m)}
<1>1. 0 \in A
  <2> DEFINE f == [x \in 0..0 |-> a]
  <2>1. f \in [0..0 -> S] /\ f[0] = a /\ \A k \in 1..0 : f[k] = step[k][f[k - 1]]
    OBVIOUS
  <2>2. Has(0) BY <2>1
  <2> QED BY <2>2
<1>2. ASSUME NEW m \in 1..n, m - 1 \in A PROVE m \in A
  <2>0. Has(m - 1) BY <1>2
  <2>1. PICK f \in [0..(m - 1) -> S] :
           f[0] = a /\ \A k \in 1..(m - 1) : f[k] = step[k][f[k - 1]]
    BY <2>0
  <2>2. f[m - 1] \in S BY <2>1
  <2>3. step[m][f[m - 1]] \in S BY <2>2
  <2> DEFINE g == [x \in 0..m |-> IF x = m THEN step[m][f[m - 1]] ELSE f[x]]
  <2>4. g \in [0..m -> S] BY <2>1, <2>3
  <2>5. /\ \A x \in 0..(m - 1) : g[x] = f[x]
        /\ g[m] = step[m][f[m - 1]]
    OBVIOUS
  <2> HIDE DEF g
  <2>6. g[0] = a BY <2>1, <2>5
  <2>7. ASSUME NEW k \in 1..m PROVE g[k] = step[k][g[k - 1]]
    <3>1. k - 1 \in 0..(m - 1) /\ g[k - 1] = f[k - 1] BY <2>5
    <3>2. CASE k = m BY <3>1, <3>2, <2>5
    <3>3. CASE k # m
      <4>1. k \in 1..(m - 1) /\ k \in 0..(m - 1) BY <3>3
      <4> QED BY <4>1, <3>1, <2>1, <2>5
    <3> QED BY <3>2, <3>3
  <2>8. Has(m) BY <2>4, <2>6, <2>7
  <2> QED BY <2>8
<1>3. \A m \in 0..n : m \in A
  <2> HIDE DEF A
  <2> QED BY <1>1, <1>2, Induction
<1>4. n \in A BY <1>3
<1>5. Has(n) BY <1>4
<1> QED BY <1>5 DEF Solution

-----------------------------------------------------------------------------
(* Numbers as bytes *)

\* Division with remainder by the values of a byte.
LEMMA DivBase ==
    ASSUME NEW x \in Nat
    PROVE  /\ x \div Base \in Nat /\ x % Base \in Byte
           /\ x = (x \div Base) * Base + (x % Base)
BY WidthAssumption DEF Byte

\* Shifting byte by byte, as encode_length does.
LEMMA ShiftsFacts ==
    ASSUME NEW v \in Nat, NEW w \in Nat
    PROVE  /\ Shifts(v, w)[0] = v
           /\ \A k \in 1..w : Shifts(v, w)[k] = Shifts(v, w)[k - 1] \div Base
           /\ \A k \in 0..w : Shifts(v, w)[k] \in Nat
<1> DEFINE Body(f, k) == IF k = 0 THEN v ELSE f[k - 1] \div Base
           step == [k \in 1..w |-> [x \in Nat |-> x \div Base]]
           g == Shifts(v, w)
<1>1. ASSUME NEW k \in 1..w, NEW x \in Nat
      PROVE  step[k][x] = x \div Base /\ step[k][x] \in Nat
  <2>2. step[k][x] = x \div Base OBVIOUS
  <2> QED BY <2>2, DivBase
<1> HIDE DEF step
<1>2. PICK f \in [0..w -> Nat] :
         f[0] = v /\ \A k \in 1..w : f[k] = step[k][f[k - 1]]
  <2>1. Steps(step, w, Nat) BY <1>1 DEF Steps
  <2>2. PICK f : Solution(f, w, Nat, v, step) BY <2>1, Recursion
  <2> QED BY <2>2 DEF Solution
<1>3. f = [k \in 0..w |-> Body(f, k)]
  <2>1. ASSUME NEW k \in 0..w PROVE f[k] = Body(f, k)
    <3>1. CASE k = 0 BY <3>1, <1>2
    <3>2. CASE k # 0
      <4>1. k \in 1..w /\ k - 1 \in 0..w BY <3>2
      <4>2. f[k - 1] \in Nat BY <4>1
      <4> QED BY <4>1, <4>2, <3>2, <1>1, <1>2
    <3> QED BY <3>1, <3>2
  <2> HIDE DEF Body
  <2> QED BY <2>1
<1>4. g = CHOOSE h : h = [k \in 0..w |-> Body(h, k)] BY DEF Shifts
<1>5. g = [k \in 0..w |-> Body(g, k)]
  <2> HIDE DEF g, Body
  <2> QED BY <1>3, <1>4
<1> HIDE DEF g
<1>6. g[0] = v /\ \A k \in 1..w : g[k] = g[k - 1] \div Base BY <1>5
<1>7. \A k \in 0..w : g[k] \in Nat
  <2> DEFINE A == {k \in 0..w : g[k] \in Nat}
  <2>1. 0 \in A BY <1>6
  <2>2. ASSUME NEW k \in 1..w, k - 1 \in A PROVE k \in A
    <3>1. g[k - 1] \in Nat /\ g[k] = g[k - 1] \div Base BY <2>2, <1>6
    <3>2. g[k] \in Nat BY <3>1, DivBase
    <3> QED BY <3>2
  <2>3. \A k \in 0..w : k \in A
    <3> HIDE DEF A
    <3> QED BY <2>1, <2>2, Induction
  <2> QED BY <2>3
<1> QED BY <1>6, <1>7 DEF g

\* Reading byte by byte, as decode_length does.
LEMMA NumberFacts ==
    ASSUME NEW d \in Seq(Nat)
    PROVE  \E n \in [0..Len(d) -> Nat] :
              /\ n[0] = 0 /\ \A k \in 1..Len(d) : n[k] = n[k - 1] * Base + d[k]
              /\ Number(d) = n[Len(d)]
<1> DEFINE w == Len(d)
           Body(f, k) == IF k = 0 THEN 0 ELSE f[k - 1] * Base + d[k]
           step == [k \in 1..w |-> [x \in Nat |-> x * Base + d[k]]]
           Sol == CHOOSE h : h = [k \in 0..w |-> Body(h, k)]
<1>0. w \in Nat /\ Base \in Nat /\ \A k \in 1..w : d[k] \in Nat
  BY WidthAssumption, LenProperties, ElementOfSeq
<1>a. Number(d) = Sol[w] BY DEF Number
<1> HIDE DEF w
<1>1. ASSUME NEW k \in 1..w, NEW x \in Nat
      PROVE  step[k][x] = x * Base + d[k] /\ step[k][x] \in Nat
  <2>2. step[k][x] = x * Base + d[k] OBVIOUS
  <2>3. x * Base \in Nat /\ d[k] \in Nat BY <1>0
  <2>4. x * Base + d[k] \in Nat BY <2>3
  <2> QED BY <2>2, <2>4
<1> HIDE DEF step
<1>2. PICK f \in [0..w -> Nat] :
         f[0] = 0 /\ \A k \in 1..w : f[k] = step[k][f[k - 1]]
  <2>1. Steps(step, w, Nat) BY <1>1 DEF Steps
  <2>2. PICK f : Solution(f, w, Nat, 0, step) BY <2>1, <1>0, Recursion
  <2> QED BY <2>2 DEF Solution
<1>3. f = [k \in 0..w |-> Body(f, k)]
  <2>1. ASSUME NEW k \in 0..w PROVE f[k] = Body(f, k)
    <3>1. CASE k = 0 BY <3>1, <1>2
    <3>2. CASE k # 0
      <4>1. k \in 1..w /\ k - 1 \in 0..w BY <3>2, <1>0
      <4>2. f[k - 1] \in Nat BY <4>1
      <4> QED BY <4>1, <4>2, <3>2, <1>1, <1>2
    <3> QED BY <3>1, <3>2
  <2> HIDE DEF Body
  <2> QED BY <2>1
<1>5. Sol = [k \in 0..w |-> Body(Sol, k)]
  <2> HIDE DEF Body
  <2> QED BY <1>3
<1> HIDE DEF Sol
<1>6. Sol[0] = 0 /\ \A k \in 1..w : Sol[k] = Sol[k - 1] * Base + d[k] BY <1>0, <1>5
<1>7. \A k \in 0..w : Sol[k] \in Nat
  <2> DEFINE A == {k \in 0..w : Sol[k] \in Nat}
  <2>1. 0 \in A BY <1>0, <1>6
  <2>2. ASSUME NEW k \in 1..w, k - 1 \in A PROVE k \in A
    <3>1. /\ Sol[k - 1] \in Nat /\ d[k] \in Nat
          /\ Sol[k] = Sol[k - 1] * Base + d[k]
      BY <2>2, <1>0, <1>6
    <3> DEFINE x == Sol[k - 1]
    <3>a. x \in Nat /\ Base \in Nat BY <3>1, <1>0
    <3>2. x * Base \in Nat
      <4> HIDE DEF x
      <4> QED BY <3>a
    <3>3. Sol[k] \in Nat BY <3>1, <3>2
    <3> QED BY <3>3, <1>0
  <2>3. \A k \in 0..w : k \in A
    <3> HIDE DEF A
    <3> QED BY <1>0, <2>1, <2>2, Induction
  <2> QED BY <2>3
<1>8. Sol \in [0..w -> Nat]
  <2> HIDE DEF Body
  <2> QED BY <1>5, <1>7
<1>9. Sol[0] = 0 /\ (\A k \in 1..w : Sol[k] = Sol[k - 1] * Base + d[k]) /\ Number(d) = Sol[w]
  BY <1>6, <1>a
<1> QED BY <1>8, <1>9 DEF w

\* A number is again what its bytes, the most significant one first, say.
LEMMA NumberOfBytes ==
    ASSUME NEW v \in Nat, NEW w \in Nat, Fits(v, w), NEW d \in Seq(Nat), Len(d) = w,
           \A k \in 1..w : d[k] = Shifts(v, w)[w - k] % Base
    PROVE  Number(d) = v
<1>1. PICK n \in [0..w -> Nat] :
         /\ n[0] = 0 /\ \A k \in 1..w : n[k] = n[k - 1] * Base + d[k]
         /\ Number(d) = n[w]
  BY NumberFacts
<1> DEFINE s == Shifts(v, w)
           A == {k \in 0..w : n[k] = s[w - k]}
<1>2. /\ s[0] = v /\ s[w] = 0 /\ \A k \in 1..w : s[k] = s[k - 1] \div Base
      /\ \A k \in 0..w : s[k] \in Nat
      /\ \A k \in 1..w : d[k] = s[w - k] % Base
  BY ShiftsFacts DEF Fits
<1> HIDE DEF s
<1>3. 0 \in A BY <1>1, <1>2
<1>4. ASSUME NEW k \in 1..w, k - 1 \in A PROVE k \in A
  <2> DEFINE x == s[w - k]
  <2>1. w - k \in 0..w /\ (w - k) + 1 \in 1..w /\ w - (k - 1) = (w - k) + 1
        /\ ((w - k) + 1) - 1 = w - k
    OBVIOUS
  <2>2. x \in Nat /\ s[(w - k) + 1] = x \div Base BY <2>1, <1>2
  <2>3. n[k - 1] = x \div Base BY <2>1, <2>2, <1>4
  <2>4. d[k] = x % Base BY <1>2
  <2>5. n[k] = (x \div Base) * Base + (x % Base) BY <2>3, <2>4, <1>1
  <2>6. n[k] = x
    <3> HIDE DEF x
    <3> QED BY <2>2, <2>5, DivBase
  <2> QED BY <2>6
<1>5. \A k \in 0..w : k \in A
  <2> HIDE DEF A
  <2> QED BY <1>3, <1>4, Induction
<1>6. n[w] = s[0]
  <2>1. w \in 0..w /\ w - w = 0 OBVIOUS
  <2>2. w \in A BY <2>1, <1>5
  <2> QED BY <2>1, <2>2
<1> QED BY <1>1, <1>2, <1>6

\* put_u32, put_u64 append w bytes.
LEMMA PutType ==
    ASSUME NEW v \in Nat, NEW w \in Nat
    PROVE  Put(v, w) \in Seq(Byte) /\ Len(Put(v, w)) = w
<1>1. ASSUME NEW i \in 1..w PROVE Shifts(v, w)[i - 1] % Base \in Byte
  <2>1. i - 1 \in 0..w OBVIOUS
  <2>2. Shifts(v, w)[i - 1] \in Nat BY <2>1, ShiftsFacts
  <2> QED BY <2>2, DivBase
<1>2. Put(v, w) \in [1..w -> Byte] BY <1>1 DEF Put
<1> QED BY <1>2, IsASeq, LenProperties

LEMMA Bytes == Byte \subseteq Nat /\ 0 \in Byte
BY WidthAssumption DEF Byte

\* get_u32, get_u64 return a number.
LEMMA GetType ==
    ASSUME NEW bytes \in Seq(Byte), NEW p \in Nat, NEW w \in Nat
    PROVE  Get(bytes, p, w) \in Nat
<1> DEFINE d == [i \in 1..w |->
                    IF p + w + 1 - i <= Len(bytes) THEN bytes[p + w + 1 - i] ELSE 0]
<1>1. ASSUME NEW i \in 1..w PROVE d[i] \in Nat
  <2>1. p + w + 1 - i \in Nat /\ p + w + 1 - i >= 1 /\ Len(bytes) \in Nat
    BY LenProperties
  <2>2. p + w + 1 - i <= Len(bytes) => bytes[p + w + 1 - i] \in Byte
    BY <2>1, ElementOfSeq
  <2> QED BY <2>2, Bytes
<1>2. d \in [1..w -> Nat] BY <1>1
<1>3. d \in Seq(Nat) /\ Len(d) = w
  <2> HIDE DEF d
  <2> QED BY <1>2, IsASeq, LenProperties
<1> HIDE DEF d
<1>4. Number(d) \in Nat
  <2>1. PICK n \in [0..w -> Nat] : Number(d) = n[w] BY <1>3, NumberFacts
  <2> QED BY <2>1
<1> QED BY <1>4 DEF Get, d

\* The bytes after p are those of v.
PutAt(bytes, p, v, w) ==
    p + w <= Len(bytes) /\ \A i \in 1..w : bytes[p + i] = Put(v, w)[i]

\* Where a number was put it is got, from any message that is long enough.
LEMMA GetPut ==
    ASSUME NEW v \in Nat, NEW w \in Nat, Fits(v, w),
           NEW bytes \in Seq(Byte), NEW p \in Nat, PutAt(bytes, p, v, w)
    PROVE  Get(bytes, p, w) = v
<1> USE DEF PutAt
<1> DEFINE d == [i \in 1..w |->
                    IF p + w + 1 - i <= Len(bytes) THEN bytes[p + w + 1 - i] ELSE 0]
<1>0. Len(bytes) \in Nat BY LenProperties
<1>1. ASSUME NEW i \in 1..w PROVE d[i] = Shifts(v, w)[w - i] % Base /\ d[i] \in Nat
  <2> DEFINE j == w + 1 - i
  <2>1. /\ j \in 1..w /\ p + w + 1 - i = p + j /\ p + w + 1 - i <= Len(bytes)
        /\ j - 1 = w - i /\ w - i \in 0..w
    BY <1>0
  <2>2. d[i] = bytes[p + j] BY <2>1
  <2>3. bytes[p + j] = Put(v, w)[j] BY <2>1
  <2>4. Put(v, w)[j] = Shifts(v, w)[w - i] % Base BY <2>1 DEF Put
  <2>5. Shifts(v, w)[w - i] % Base \in Nat BY <2>1, ShiftsFacts, DivBase, Bytes
  <2> QED BY <2>2, <2>3, <2>4, <2>5
<1>2. d \in [1..w -> Nat] BY <1>1
<1>3. d \in Seq(Nat) /\ Len(d) = w
  <2> HIDE DEF d
  <2> QED BY <1>2, IsASeq, LenProperties
<1> HIDE DEF d
<1>4. Number(d) = v BY <1>1, <1>3, NumberOfBytes
<1> QED BY <1>4 DEF Get, d

-----------------------------------------------------------------------------
(* Flattened lists *)

Assoc(a, b, c) == (a \o b) \o c = a \o (b \o c)

LEMMA ConcatAssoc ==
    ASSUME NEW S, NEW a \in Seq(S), NEW b \in Seq(S), NEW c \in Seq(S)
    PROVE  Assoc(a, b, c)
BY ConcatAssociative DEF Assoc

\* Two functions that go on alike from the same value are the same.
Alike(f, g, n) ==
    f[0] = g[0] /\ \A k \in 1..n : f[k - 1] = g[k - 1] => f[k] = g[k]

LEMMA Agree ==
    ASSUME NEW n \in Nat, NEW f, NEW g, Alike(f, g, n)
    PROVE  \A k \in 0..n : f[k] = g[k]
<1> USE DEF Alike
<1> DEFINE A == {k \in 0..n : f[k] = g[k]}
<1>1. 0 \in A OBVIOUS
<1>2. \A k \in 1..n : k - 1 \in A => k \in A OBVIOUS
<1>3. \A k \in 0..n : k \in A
  <2> HIDE DEF A
  <2> QED BY <1>1, <1>2, Induction
<1> QED BY <1>3

\* The flattened beginnings of a list.
IsRow(r, ss, S) ==
    /\ \A k \in 0..Len(ss) : r[k] \in Seq(S)
    /\ r[0] = << >> /\ \A k \in 1..Len(ss) : r[k] = r[k - 1] \o ss[k]

LEMMA FlattenEmpty == FlattenSeq(<< >>) = << >>
BY DEF FlattenSeq

LEMMA FlattenRow ==
    ASSUME NEW S, NEW ss \in Seq(Seq(S))
    PROVE  \E r : IsRow(r, ss, S) /\ FlattenSeq(ss) = r[Len(ss)]
<1> DEFINE n == Len(ss)
           Body(f, k) == IF k = 1 THEN ss[k] ELSE f[k - 1] \o ss[k]
           Sol == CHOOSE h : h = [k \in 1..n |-> Body(h, k)]
           step == [k \in 1..n |-> [x \in Seq(S) |-> x \o ss[k]]]
<1>0. /\ n \in Nat /\ << >> \in Seq(S) /\ \A k \in 1..n : ss[k] \in Seq(S)
      /\ n = 0 => ss = << >>
  BY LenProperties, ElementOfSeq, EmptySeq
<1>a. n # 0 => FlattenSeq(ss) = Sol[n] BY DEF FlattenSeq
<1> HIDE DEF n
<1>1. CASE n = 0
  <2> DEFINE r == [k \in 0..0 |-> << >>]
  <2>1. IsRow(r, ss, S) /\ r[0] = << >> BY <1>0, <1>1 DEF IsRow, n
  <2>2. FlattenSeq(ss) = << >> BY <1>0, <1>1, FlattenEmpty
  <2> HIDE DEF r
  <2> QED BY <2>1, <2>2, <1>1 DEF n
<1>2. CASE n # 0
  <2>1. ASSUME NEW k \in 1..n, NEW x \in Seq(S)
        PROVE  step[k][x] = x \o ss[k] /\ step[k][x] \in Seq(S)
    BY <1>0, ConcatProperties
  <2> HIDE DEF step
  <2>2. Steps(step, n, Seq(S)) BY <2>1 DEF Steps
  <2>3. PICK f : Solution(f, n, Seq(S), << >>, step) BY <2>2, <1>0, Recursion
  <2>4. /\ \A k \in 0..n : f[k] \in Seq(S)
        /\ f[0] = << >> /\ \A k \in 1..n : f[k] = f[k - 1] \o ss[k]
    <3>1. f \in [0..n -> Seq(S)] /\ f[0] = << >> /\ \A k \in 1..n : f[k] = step[k][f[k - 1]]
      BY <2>3 DEF Solution
    <3>2. \A k \in 1..n : k - 1 \in 0..n /\ f[k - 1] \in Seq(S) BY <3>1, <1>0
    <3> QED BY <3>1, <3>2, <2>1
  <2> DEFINE F == [k \in 1..n |-> f[k]]
  <2>5. F = [k \in 1..n |-> Body(F, k)]
    <3>1. ASSUME NEW k \in 1..n PROVE f[k] = Body(F, k)
      <4>1. CASE k = 1
        <5>0. 1 \in 1..n /\ 1 - 1 = 0 BY <4>1
        <5>1. f[1] = f[0] \o ss[1] BY <5>0, <2>4
        <5>2. << >> \o ss[1] = ss[1] BY <1>0, <4>1, ConcatEmptySeq
        <5> QED BY <5>1, <5>2, <4>1, <2>4
      <4>2. CASE k # 1
        <5>1. k - 1 \in 1..n BY <4>2, <1>0
        <5> QED BY <5>1, <4>2, <2>4
      <4> QED BY <4>1, <4>2
    <3> HIDE DEF Body
    <3> QED BY <3>1
  <2>6. Sol = [k \in 1..n |-> Body(Sol, k)]
    <3> HIDE DEF Body, F
    <3> QED BY <2>5
  <2> HIDE DEF Sol, F
  <2> DEFINE r == [k \in 0..n |-> IF k = 0 THEN << >> ELSE Sol[k]]
  <2>7. r[0] = << >> /\ \A k \in 1..n : r[k] = Sol[k] BY <1>0
  <2> HIDE DEF r
  <2>8. ASSUME NEW k \in 1..n PROVE r[k] = r[k - 1] \o ss[k]
    <3>1. Sol[k] = Body(Sol, k) BY <2>6
    <3>2. CASE k = 1
      <4>1. << >> \o ss[1] = ss[1] BY <1>0, <3>2, ConcatEmptySeq
      <4>2. r[1] = ss[1] BY <3>1, <3>2, <2>7
      <4>3. 1 - 1 = 0 OBVIOUS
      <4> QED BY <4>1, <4>2, <4>3, <3>2, <2>7
    <3>3. CASE k # 1
      <4>1. k - 1 \in 1..n BY <3>3, <1>0
      <4> QED BY <4>1, <3>1, <3>3, <2>7
    <3> QED BY <3>2, <3>3
  <2>9. \A k \in 0..n : r[k] = f[k]
    <3>1. Alike(r, f, n) BY <2>4, <2>7, <2>8 DEF Alike
    <3> QED BY <3>1, <1>0, Agree
  <2>10. IsRow(r, ss, S) BY <2>4, <2>7, <2>8, <2>9 DEF IsRow, n
  <2>11. FlattenSeq(ss) = r[n]
    <3>1. n \in 1..n BY <1>0, <1>2
    <3> QED BY <3>1, <2>7, <1>a, <1>2
  <2> QED BY <2>10, <2>11 DEF n
<1> QED BY <1>1, <1>2

\* Flattening gives bytes for lists of bytes.
LEMMA FlattenType ==
    ASSUME NEW S, NEW ss \in Seq(Seq(S))
    PROVE  FlattenSeq(ss) \in Seq(S)
<1>1. PICK r : IsRow(r, ss, S) /\ FlattenSeq(ss) = r[Len(ss)] BY FlattenRow
<1>2. Len(ss) \in 0..Len(ss) BY LenProperties
<1> QED BY <1>1, <1>2 DEF IsRow

\* One more list at the end.
LEMMA FlattenAppend ==
    ASSUME NEW S, NEW ss \in Seq(Seq(S)), NEW x \in Seq(S)
    PROVE  FlattenSeq(Append(ss, x)) = FlattenSeq(ss) \o x
<1> DEFINE n == Len(ss)
           tt == Append(ss, x)
<1>0. /\ n \in Nat /\ tt \in Seq(Seq(S)) /\ Len(tt) = n + 1
      /\ tt[n + 1] = x /\ \A k \in 1..n : tt[k] = ss[k]
  BY LenProperties, AppendProperties
<1> HIDE DEF n, tt
<1>1. PICK r : IsRow(r, ss, S) /\ FlattenSeq(ss) = r[n] BY FlattenRow DEF n
<1>2. PICK q : IsRow(q, tt, S) /\ FlattenSeq(tt) = q[n + 1] BY FlattenRow, <1>0
<1>3. r[0] = q[0] BY <1>1, <1>2 DEF IsRow
<1>4. ASSUME NEW k \in 1..n, r[k - 1] = q[k - 1] PROVE r[k] = q[k]
  <2>1. k \in 1..(n + 1) BY <1>0
  <2> QED BY <2>1, <1>0, <1>1, <1>2, <1>4 DEF IsRow, n
<1>5. \A k \in 0..n : r[k] = q[k]
  <2>1. Alike(r, q, n) BY <1>3, <1>4 DEF Alike
  <2> QED BY <2>1, <1>0, Agree
<1>6. q[n + 1] = q[n] \o x
  <2>1. n + 1 \in 1..(n + 1) /\ (n + 1) - 1 = n BY <1>0
  <2> QED BY <2>1, <1>0, <1>2 DEF IsRow
<1>7. n \in 0..n BY <1>0
<1> QED BY <1>1, <1>2, <1>5, <1>6, <1>7 DEF tt

\* The first list comes first.
LEMMA FlattenHead ==
    ASSUME NEW S, NEW ss \in Seq(Seq(S)), ss # << >>
    PROVE  /\ Head(ss) = ss[1] /\ Head(ss) \in Seq(S) /\ Tail(ss) \in Seq(Seq(S))
           /\ FlattenSeq(ss) = Head(ss) \o FlattenSeq(Tail(ss))
<1> DEFINE m == Len(Tail(ss))
           h == Head(ss)
           tt == Tail(ss)
<1>0. /\ m \in Nat /\ Len(ss) = m + 1 /\ tt \in Seq(Seq(S)) /\ h = ss[1]
      /\ h \in Seq(S) /\ \A k \in 1..m : tt[k] = ss[k + 1]
      /\ Len(tt) = m
  BY HeadTailProperties, LenProperties
<1> HIDE DEF m, h, tt
<1>1. PICK r : IsRow(r, ss, S) /\ FlattenSeq(ss) = r[m + 1] BY FlattenRow, <1>0
<1>2. PICK q : IsRow(q, tt, S) /\ FlattenSeq(tt) = q[m] BY FlattenRow, <1>0
<1> DEFINE f == [k \in 0..m |-> r[k + 1]]
           g == [k \in 0..m |-> h \o q[k]]
<1>3. \A k \in 0..m : f[k] = r[k + 1] /\ g[k] = h \o q[k] OBVIOUS
<1> HIDE DEF f, g
<1>a. /\ \A k \in 1..(m + 1) : r[k] = r[k - 1] \o ss[k]
      /\ r[0] = << >> /\ q[0] = << >>
      /\ \A k \in 1..m : q[k] = q[k - 1] \o tt[k]
      /\ \A k \in 0..m : q[k] \in Seq(S)
      /\ \A k \in 1..m : tt[k] \in Seq(S)
  BY <1>0, <1>1, <1>2, ElementOfSeq DEF IsRow
<1>4. f[0] = g[0]
  <2>1. f[0] = r[0] \o h
    <3>1. 0 \in 0..m /\ 0 + 1 = 1 /\ 1 \in 1..(m + 1) /\ 1 - 1 = 0 BY <1>0
    <3>2. r[1] = r[0] \o ss[1] BY <3>1, <1>a
    <3>3. f[0] = r[1] BY <3>1, <1>3
    <3> QED BY <3>2, <3>3, <1>0
  <2>2. g[0] = h \o << >>
    <3>1. 0 \in 0..m BY <1>0
    <3> QED BY <3>1, <1>a, <1>3
  <2> QED BY <2>1, <2>2, <1>a, <1>0, ConcatEmptySeq
<1>5. ASSUME NEW k \in 1..m, f[k - 1] = g[k - 1] PROVE f[k] = g[k]
  <2>1. /\ k \in 0..m /\ k - 1 \in 0..m /\ (k - 1) + 1 = k /\ k + 1 \in 1..(m + 1)
        /\ (k + 1) - 1 = k
    BY <1>0
  <2>2. f[k] = r[k] \o tt[k]
    <3>1. f[k] = r[k + 1] BY <2>1, <1>3
    <3>2. r[k + 1] = r[k] \o ss[k + 1] BY <2>1, <1>a
    <3>3. tt[k] = ss[k + 1] BY <1>0
    <3> QED BY <3>1, <3>2, <3>3, Zenon
  <2>3. r[k] = h \o q[k - 1] BY <2>1, <1>3, <1>5
  <2>4. (h \o q[k - 1]) \o tt[k] = h \o (q[k - 1] \o tt[k])
    <3> DEFINE x == q[k - 1]
               y == tt[k]
    <3>1. x \in Seq(S) /\ y \in Seq(S) /\ h \in Seq(S) BY <2>1, <1>a, <1>0
    <3> HIDE DEF x, y
    <3>2. Assoc(h, x, y) BY <3>1, ConcatAssoc
    <3> QED BY <3>2 DEF Assoc, x, y
  <2>5. g[k] = h \o (q[k - 1] \o tt[k]) BY <2>1, <1>a, <1>3
  <2> QED BY <2>2, <2>3, <2>4, <2>5
<1>6. \A k \in 0..m : f[k] = g[k]
  <2>1. Alike(f, g, m) BY <1>4, <1>5 DEF Alike
  <2> QED BY <2>1, <1>0, Agree
<1>7. r[m + 1] = h \o q[m]
  <2>1. m \in 0..m BY <1>0
  <2> QED BY <2>1, <1>3, <1>6
<1> QED BY <1>0, <1>1, <1>2, <1>7 DEF h, tt

\* A function on 1..n is a sequence of length n.
LEMMA FcnIsSeq ==
    ASSUME NEW S, NEW n \in Nat, NEW f \in [1..n -> S]
    PROVE  f \in Seq(S) /\ Len(f) = n
<1>1. f \in Seq(S) BY SeqDef
<1>2. DOMAIN f = 1..Len(f) /\ Len(f) \in Nat BY <1>1, LenProperties
<1> QED BY <1>1, <1>2

\* s is a beginning of t.
Begins(s, t) == Len(s) <= Len(t) /\ \A j \in 1..Len(s) : t[j] = s[j]

\* Where the parts of a flattened list are.
Places(pos, ss, row) ==
    /\ pos[0] = 0 /\ pos[Len(ss)] = Len(row)
    /\ \A k \in 0..Len(ss) : pos[k] \in Nat /\ pos[k] <= Len(row)
    /\ \A k \in 1..Len(ss) :
          /\ pos[k] = pos[k - 1] + Len(ss[k])
          /\ \A j \in 1..Len(ss[k]) : row[pos[k - 1] + j] = ss[k][j]

LEMMA FlattenPlaces ==
    ASSUME NEW S, NEW ss \in Seq(Seq(S))
    PROVE  \E pos : Places(pos, ss, FlattenSeq(ss))
<1> DEFINE n == Len(ss)
<1>0. n \in Nat /\ \A k \in 1..n : ss[k] \in Seq(S) /\ Len(ss[k]) \in Nat
  BY LenProperties, ElementOfSeq
<1> HIDE DEF n
<1>1. PICK r : IsRow(r, ss, S) /\ FlattenSeq(ss) = r[n] BY FlattenRow DEF n
<1>2. /\ \A k \in 0..n : r[k] \in Seq(S) /\ Len(r[k]) \in Nat
      /\ r[0] = << >> /\ \A k \in 1..n : r[k] = r[k - 1] \o ss[k]
  BY <1>1, LenProperties DEF IsRow, n
<1>3. ASSUME NEW k \in 1..n
      PROVE  /\ Len(r[k]) = Len(r[k - 1]) + Len(ss[k])
             /\ Begins(r[k - 1], r[k])
             /\ \A j \in 1..Len(ss[k]) : r[k][Len(r[k - 1]) + j] = ss[k][j]
  <2> DEFINE x == r[k - 1]
             y == ss[k]
             z == r[k]
  <2>1. k - 1 \in 0..n BY <1>0
  <2>2. x \in Seq(S) /\ y \in Seq(S) /\ z = x \o y BY <2>1, <1>0, <1>2
  <2> HIDE DEF x, y, z
  <2>3. /\ Len(x) \in Nat /\ Len(y) \in Nat /\ Len(z) = Len(x) + Len(y)
        /\ \A i \in 1..(Len(x) + Len(y)) : z[i] = IF i <= Len(x) THEN x[i] ELSE y[i - Len(x)]
    BY <2>2, ConcatProperties, LenProperties
  <2>4. Begins(x, z) BY <2>3 DEF Begins
  <2>5. ASSUME NEW j \in 1..Len(y) PROVE z[Len(x) + j] = y[j]
    <3>1. /\ Len(x) + j \in 1..(Len(x) + Len(y)) /\ ~ (Len(x) + j <= Len(x))
          /\ (Len(x) + j) - Len(x) = j
      BY <2>3
    <3> QED BY <3>1, <2>3
  <2> QED BY <2>3, <2>4, <2>5 DEF x, y, z
<1>4. ASSUME NEW k \in 0..n PROVE Begins(r[k], r[n])
  <2> DEFINE A == {m \in 0..n : m >= k => Begins(r[k], r[m])}
  <2>0. \A m \in 0..n : Begins(r[m], r[m]) BY <1>2 DEF Begins
  <2>1. 0 \in A BY <2>0, <1>0
  <2>2. ASSUME NEW m \in 1..n, m - 1 \in A PROVE m \in A
    <3> SUFFICES ASSUME m >= k PROVE Begins(r[k], r[m]) BY <1>0
    <3>1. CASE m = k BY <3>1, <2>0
    <3>2. CASE m # k
      <4>1. m - 1 >= k /\ m - 1 \in 0..n BY <3>2, <1>0
      <4>2. Begins(r[k], r[m - 1]) /\ Begins(r[m - 1], r[m]) BY <4>1, <2>2, <1>3
      <4>3. Len(r[k]) \in Nat /\ Len(r[m - 1]) \in Nat /\ Len(r[m]) \in Nat
        BY <4>1, <1>2
      <4> QED BY <4>2, <4>3 DEF Begins
    <3> QED BY <3>1, <3>2
  <2>3. \A m \in 0..n : m \in A
    <3> HIDE DEF A
    <3> QED BY <1>0, <2>1, <2>2, Induction
  <2>4. n \in A /\ n >= k BY <2>3, <1>0
  <2> QED BY <2>4
<1> DEFINE pos == [k \in 0..n |-> Len(r[k])]
           row == FlattenSeq(ss)
<1>5. \A k \in 0..n : pos[k] = Len(r[k]) OBVIOUS
<1>6. row = r[n] BY <1>1
<1> HIDE DEF pos, row
<1>7. pos[0] = 0 /\ pos[n] = Len(row)
  <2>1. 0 \in 0..n /\ n \in 0..n BY <1>0
  <2>2. Len(<< >>) = 0 BY EmptySeq
  <2> QED BY <2>1, <2>2, <1>2, <1>5, <1>6
<1>8. \A k \in 0..n : pos[k] \in Nat /\ pos[k] <= Len(row)
  BY <1>2, <1>4, <1>5, <1>6 DEF Begins
<1>9. ASSUME NEW k \in 1..n
      PROVE  /\ pos[k] = pos[k - 1] + Len(ss[k])
             /\ \A j \in 1..Len(ss[k]) : row[pos[k - 1] + j] = ss[k][j]
  <2>1. k - 1 \in 0..n /\ k \in 0..n BY <1>0
  <2>2. pos[k] = Len(r[k]) /\ pos[k - 1] = Len(r[k - 1]) BY <2>1, <1>5
  <2>3. ASSUME NEW j \in 1..Len(ss[k]) PROVE row[pos[k - 1] + j] = ss[k][j]
    <3>1. r[k][pos[k - 1] + j] = ss[k][j] BY <2>2, <1>3
    <3>2. pos[k - 1] + j \in 1..Len(r[k])
      <4>1. pos[k - 1] \in Nat /\ Len(ss[k]) \in Nat /\ Len(r[k]) = pos[k - 1] + Len(ss[k])
        BY <2>1, <2>2, <1>0, <1>3, <1>8
      <4> QED BY <4>1
    <3>3. Begins(r[k], row) BY <2>1, <1>4, <1>6
    <3> QED BY <3>1, <3>2, <3>3 DEF Begins
  <2> QED BY <2>2, <2>3, <1>3
<1>10. Places(pos, ss, row) BY <1>7, <1>8, <1>9 DEF Places, n
<1> QED BY <1>10 DEF row

-----------------------------------------------------------------------------
(* The encoding of an item *)

LEMMA Widths == /\ U32 \in Nat /\ U64 \in Nat /\ F32 \in Nat
                /\ U32 > 0 /\ U64 > 0 /\ F32 > 0 /\ Base \in Nat
BY WidthAssumption

\* The fields of both kinds.
LEMMA FieldsType ==
    ASSUME NEW kind
    PROVE  FieldsOf(kind) \in Seq(Nat)
BY Widths DEF FieldsOf, TokenFields, ResultFields

LEMMA OffsetsFacts ==
    ASSUME NEW widths \in Seq(Nat)
    PROVE  /\ Offsets(widths)[0] = 0
           /\ \A k \in 1..Len(widths) :
                 Offsets(widths)[k] = Offsets(widths)[k - 1] + widths[k]
<1> DEFINE w == Len(widths)
           Body(f, k) == IF k = 0 THEN 0 ELSE f[k - 1] + widths[k]
           step == [k \in 1..w |-> [x \in Nat |-> x + widths[k]]]
           g == Offsets(widths)
<1>0. w \in Nat /\ \A k \in 1..w : widths[k] \in Nat
  BY LenProperties, ElementOfSeq
<1>a. g = CHOOSE h : h = [k \in 0..w |-> Body(h, k)] BY DEF Offsets
<1> HIDE DEF w
<1>1. ASSUME NEW k \in 1..w, NEW x \in Nat
      PROVE  step[k][x] = x + widths[k] /\ step[k][x] \in Nat
  <2>2. step[k][x] = x + widths[k] OBVIOUS
  <2> QED BY <2>2, <1>0
<1> HIDE DEF step
<1>2. PICK f \in [0..w -> Nat] :
         f[0] = 0 /\ \A k \in 1..w : f[k] = step[k][f[k - 1]]
  <2>1. Steps(step, w, Nat) BY <1>1 DEF Steps
  <2>2. PICK f : Solution(f, w, Nat, 0, step) BY <2>1, <1>0, Recursion
  <2> QED BY <2>2 DEF Solution
<1>3. f = [k \in 0..w |-> Body(f, k)]
  <2>1. ASSUME NEW k \in 0..w PROVE f[k] = Body(f, k)
    <3>1. CASE k = 0 BY <3>1, <1>2
    <3>2. CASE k # 0
      <4>1. k \in 1..w /\ k - 1 \in 0..w BY <3>2, <1>0
      <4>2. f[k - 1] \in Nat BY <4>1
      <4> QED BY <4>1, <4>2, <3>2, <1>1, <1>2
    <3> QED BY <3>1, <3>2
  <2> HIDE DEF Body
  <2> QED BY <2>1
<1>5. g = [k \in 0..w |-> Body(g, k)]
  <2> HIDE DEF Body, g
  <2> QED BY <1>3, <1>a
<1> HIDE DEF g
<1>6. g[0] = 0 /\ \A k \in 1..w : g[k] = g[k - 1] + widths[k] BY <1>0, <1>5
<1> QED BY <1>6 DEF g, w

\* The fields of an item are at their offsets.
LEMMA PutFieldsFacts ==
    ASSUME NEW widths \in Seq(Nat), NEW fields \in Seq(Nat), Len(fields) = Len(widths)
    PROVE  /\ PutFields(widths, fields) \in Seq(Byte)
           /\ Size(widths) \in Nat /\ Len(PutFields(widths, fields)) = Size(widths)
           /\ \A k \in 1..Len(widths) :
                 /\ Offsets(widths)[k - 1] \in Nat
                 /\ Offsets(widths)[k - 1] + widths[k] <= Size(widths)
                 /\ \A j \in 1..widths[k] :
                       PutFields(widths, fields)[Offsets(widths)[k - 1] + j]
                           = Put(fields[k], widths[k])[j]
<1> DEFINE n == Len(widths)
           ss == [i \in DOMAIN widths |-> Put(fields[i], widths[i])]
           row == FlattenSeq(ss)
           off == Offsets(widths)
<1>0. n \in Nat /\ DOMAIN widths = 1..n BY LenProperties
<1>1. ASSUME NEW k \in 1..n
      PROVE  /\ widths[k] \in Nat /\ fields[k] \in Nat
             /\ ss[k] = Put(fields[k], widths[k])
             /\ ss[k] \in Seq(Byte) /\ Len(ss[k]) = widths[k]
  <2>1. widths[k] \in Nat /\ fields[k] \in Nat BY ElementOfSeq
  <2>2. ss[k] = Put(fields[k], widths[k]) BY <1>0
  <2> QED BY <2>1, <2>2, PutType
<1>2. ss \in Seq(Seq(Byte)) /\ Len(ss) = n
  <2>1. ss \in [1..n -> Seq(Byte)] BY <1>0, <1>1
  <2> HIDE DEF ss
  <2> QED BY <2>1, <1>0, FcnIsSeq
<1>3. PutFields(widths, fields) = row BY DEF PutFields
<1> HIDE DEF ss, row, n, off
<1>4. PICK pos : Places(pos, ss, row) BY <1>2, FlattenPlaces DEF row
<1>5. off[0] = 0 /\ \A k \in 1..n : off[k] = off[k - 1] + widths[k]
  BY OffsetsFacts DEF off, n
<1>6. \A k \in 0..n : pos[k] = off[k]
  <2>1. Alike(pos, off, n) BY <1>1, <1>2, <1>4, <1>5 DEF Alike, Places
  <2> QED BY <2>1, <1>0, Agree
<1>7. off[n] = Len(row) /\ Len(row) \in Nat
  <2>1. n \in 0..n BY <1>0
  <2> QED BY <2>1, <1>2, <1>4, <1>6 DEF Places
<1>8. row \in Seq(Byte) BY <1>2, FlattenType DEF row
<1>9. ASSUME NEW k \in 1..n
      PROVE  /\ off[k - 1] \in Nat /\ off[k - 1] + widths[k] <= off[n]
             /\ \A j \in 1..widths[k] : row[off[k - 1] + j] = Put(fields[k], widths[k])[j]
  <2>1. k - 1 \in 0..n /\ k \in 0..n BY <1>0
  <2>2. off[k - 1] \in Nat /\ off[k] <= Len(row) BY <2>1, <1>2, <1>4, <1>6 DEF Places
  <2>3. \A j \in 1..widths[k] : row[pos[k - 1] + j] = ss[k][j]
    BY <1>1, <1>2, <1>4 DEF Places
  <2> QED BY <2>1, <2>2, <2>3, <1>1, <1>5, <1>6, <1>7
<1>10. Size(widths) = off[n] BY DEF Size, off, n
<1> QED BY <1>3, <1>7, <1>8, <1>9, <1>10 DEF n, off

\* The bytes of a payload.
Floats(v) == FlattenSeq([i \in DOMAIN v |-> Put(v[i], F32)])

\* The floats of a payload are at multiples of their width.
LEMMA FloatsFacts ==
    ASSUME NEW v \in Seq(Nat), NEW row, row = Floats(v)
    PROVE  /\ row \in Seq(Byte) /\ Len(v) * F32 \in Nat /\ Len(row) = Len(v) * F32
           /\ \A k \in 1..Len(v) :
                 /\ (k - 1) * F32 \in Nat /\ (k - 1) * F32 + F32 <= Len(v) * F32
                 /\ \A j \in 1..F32 : row[(k - 1) * F32 + j] = Put(v[k], F32)[j]
<1> DEFINE n == Len(v)
           ss == [i \in DOMAIN v |-> Put(v[i], F32)]
<1>0. n \in Nat /\ DOMAIN v = 1..n /\ F32 \in Nat BY LenProperties, Widths
<1>1. ASSUME NEW k \in 1..n
      PROVE  /\ ss[k] = Put(v[k], F32) /\ ss[k] \in Seq(Byte) /\ Len(ss[k]) = F32
  <2>1. v[k] \in Nat BY ElementOfSeq
  <2>2. ss[k] = Put(v[k], F32) BY <1>0
  <2> QED BY <2>1, <2>2, <1>0, PutType
<1>2. ss \in Seq(Seq(Byte)) /\ Len(ss) = n
  <2>1. ss \in [1..n -> Seq(Byte)] BY <1>0, <1>1
  <2> HIDE DEF ss
  <2> QED BY <2>1, <1>0, FcnIsSeq
<1>3. row = FlattenSeq(ss) BY DEF Floats
<1> HIDE DEF ss, n
<1>4. PICK pos : Places(pos, ss, row) BY <1>2, <1>3, FlattenPlaces
<1> DEFINE off == [k \in 0..n |-> k * F32]
<1>5. \A k \in 0..n : off[k] = k * F32 OBVIOUS
<1> HIDE DEF off
<1>6. \A k \in 0..n : pos[k] = off[k]
  <2>1. pos[0] = 0 /\ \A k \in 1..n : pos[k] = pos[k - 1] + F32
    BY <1>1, <1>2, <1>4 DEF Places
  <2>2. off[0] = 0 BY <1>0, <1>5
  <2>3. ASSUME NEW k \in 1..n PROVE off[k] = off[k - 1] + F32
    <3>1. k \in 0..n /\ k - 1 \in 0..n /\ k \in Nat BY <1>0
    <3>2. off[k] = k * F32 /\ off[k - 1] = (k - 1) * F32 BY <3>1, <1>5
    <3>3. (k - 1) * F32 + F32 = k * F32 BY <3>1, <1>0
    <3> QED BY <3>2, <3>3
  <2>4. Alike(pos, off, n) BY <2>1, <2>2, <2>3 DEF Alike
  <2> QED BY <2>4, <1>0, Agree
<1>7. \A k \in 0..n : pos[k] = k * F32 BY <1>5, <1>6
<1>8. Len(row) = n * F32 /\ Len(row) \in Nat
  <2>1. n \in 0..n BY <1>0
  <2> QED BY <2>1, <1>2, <1>4, <1>7 DEF Places
<1>9. row \in Seq(Byte) BY <1>2, <1>3, FlattenType
<1>10. ASSUME NEW k \in 1..n
       PROVE  /\ (k - 1) * F32 \in Nat /\ (k - 1) * F32 + F32 <= n * F32
              /\ \A j \in 1..F32 : row[(k - 1) * F32 + j] = Put(v[k], F32)[j]
  <2>1. k - 1 \in 0..n /\ k \in 0..n BY <1>0
  <2>2. /\ pos[k - 1] \in Nat /\ pos[k] <= Len(row) /\ pos[k] = pos[k - 1] + F32
        /\ \A j \in 1..F32 : row[pos[k - 1] + j] = Put(v[k], F32)[j]
    BY <2>1, <1>1, <1>2, <1>4 DEF Places
  <2>3. pos[k - 1] = (k - 1) * F32 BY <2>1, <1>7
  <2> QED BY <2>2, <2>3, <1>8
<1> QED BY <1>8, <1>9, <1>10 DEF n

\* What RoutedToken and RoutedResult hold.
IsItem(widths, item) ==
    /\ item \in [fields : Seq(Nat), payload : Seq(Nat)]
    /\ Len(item.fields) = Len(widths)
    /\ \A k \in DOMAIN widths : Fits(item.fields[k], widths[k])
    /\ Fits(Len(item.payload), U32)
    /\ \A k \in DOMAIN item.payload : Fits(item.payload[k], F32)

\* The fixed part of an item, and all of it.
Fixed(widths) == Size(widths) + U32
ItemSize(widths, item) == Fixed(widths) + Len(item.payload) * F32

\* Two and three byte strings in a row.
LEMMA TwoParts ==
    ASSUME NEW S, NEW a \in Seq(S), NEW b \in Seq(S), NEW s, s = a \o b
    PROVE  /\ s \in Seq(S) /\ Len(a) \in Nat /\ Len(b) \in Nat /\ Len(s) = Len(a) + Len(b)
           /\ \A j \in 1..Len(a) : s[j] = a[j]
           /\ \A j \in 1..Len(b) : s[Len(a) + j] = b[j]
<1> DEFINE l == Len(a)
           m == Len(b)
<1>1. l \in Nat /\ m \in Nat BY LenProperties
<1>2. /\ s \in Seq(S) /\ Len(s) = l + m
      /\ \A i \in 1..(l + m) : s[i] = IF i <= l THEN a[i] ELSE b[i - l]
  BY ConcatProperties
<1> HIDE DEF l, m
<1>3. ASSUME NEW j \in 1..l PROVE s[j] = a[j]
  <2>1. j \in 1..(l + m) /\ j <= l BY <1>1
  <2> QED BY <2>1, <1>2
<1>4. ASSUME NEW j \in 1..m PROVE s[l + j] = b[j]
  <2>1. l + j \in 1..(l + m) /\ ~ (l + j <= l) /\ (l + j) - l = j BY <1>1
  <2> QED BY <2>1, <1>2
<1> QED BY <1>1, <1>2, <1>3, <1>4 DEF l, m

\* s consists of a, b and c.
InThree(s, a, b, c) ==
    /\ Len(s) = Len(a) + Len(b) + Len(c)
    /\ \A j \in 1..Len(a) : s[j] = a[j]
    /\ \A j \in 1..Len(b) : s[Len(a) + j] = b[j]
    /\ \A j \in 1..Len(c) : s[Len(a) + Len(b) + j] = c[j]

LEMMA ThreeParts ==
    ASSUME NEW S, NEW a \in Seq(S), NEW b \in Seq(S), NEW c \in Seq(S), NEW s, s = a \o (b \o c)
    PROVE  s \in Seq(S) /\ InThree(s, a, b, c)
<1> USE DEF InThree
<1> DEFINE d == b \o c
           l == Len(a)
           m == Len(b)
           n == Len(c)
<1>1. /\ l \in Nat /\ m \in Nat /\ n \in Nat /\ d \in Seq(S) /\ Len(d) = m + n
      /\ \A i \in 1..(m + n) : d[i] = IF i <= m THEN b[i] ELSE c[i - m]
  BY ConcatProperties, LenProperties
<1> HIDE DEF d
<1>2. /\ s \in Seq(S) /\ Len(s) = l + (m + n)
      /\ \A i \in 1..(l + (m + n)) : s[i] = IF i <= l THEN a[i] ELSE d[i - l]
  BY <1>1, ConcatProperties DEF d
<1> HIDE DEF l, m, n
<1>3. \A j \in 1..l : s[j] = a[j]
  <2>1. \A j \in 1..l : j \in 1..(l + (m + n)) /\ j <= l BY <1>1
  <2> QED BY <2>1, <1>2
<1>4. ASSUME NEW i \in 1..(m + n) PROVE s[l + i] = d[i]
  <2>1. l + i \in 1..(l + (m + n)) /\ ~ (l + i <= l) /\ (l + i) - l = i BY <1>1
  <2> QED BY <2>1, <1>2
<1>5. ASSUME NEW j \in 1..m PROVE s[l + j] = b[j]
  <2>1. j \in 1..(m + n) /\ j <= m BY <1>1
  <2> QED BY <2>1, <1>1, <1>4
<1>6. ASSUME NEW j \in 1..n PROVE s[l + m + j] = c[j]
  <2>1. m + j \in 1..(m + n) /\ ~ (m + j <= m) /\ (m + j) - m = j
        /\ l + (m + j) = l + m + j
    BY <1>1
  <2> QED BY <2>1, <1>1, <1>4
<1>7. Len(s) = l + m + n BY <1>1, <1>2
<1> QED BY <1>2, <1>3, <1>5, <1>6, <1>7 DEF l, m, n

\* Where the parts of an encoded item are.
LEMMA ItemFacts ==
    ASSUME NEW widths \in Seq(Nat), NEW item, IsItem(widths, item),
           NEW e, e = EncodeItem(widths, item)
    PROVE  /\ e \in Seq(Byte) /\ Len(e) = ItemSize(widths, item)
           /\ \A j \in 1..Size(widths) : e[j] = PutFields(widths, item.fields)[j]
           /\ \A j \in 1..U32 : e[Size(widths) + j] = Put(Len(item.payload), U32)[j]
           /\ \A k \in 1..Len(item.payload) : \A j \in 1..F32 :
                 e[Fixed(widths) + (k - 1) * F32 + j] = Put(item.payload[k], F32)[j]
<1> DEFINE v == item.payload
           a == PutFields(widths, item.fields)
           b == Put(Len(v), U32)
           c == Floats(v)
<1>0. v \in Seq(Nat) /\ item.fields \in Seq(Nat) /\ Len(item.fields) = Len(widths)
      /\ Len(v) \in Nat
  BY LenProperties DEF IsItem
<1>1. e = a \o (b \o c) BY DEF EncodeItem, put_floats, Floats
<1>2. a \in Seq(Byte) /\ Size(widths) \in Nat /\ Len(a) = Size(widths)
  BY <1>0, PutFieldsFacts
<1>3. b \in Seq(Byte) /\ Len(b) = U32 /\ U32 \in Nat /\ F32 \in Nat
  BY <1>0, Widths, PutType
<1>4. /\ c \in Seq(Byte) /\ Len(c) = Len(v) * F32 /\ Len(v) * F32 \in Nat
      /\ \A k \in 1..Len(v) :
            /\ (k - 1) * F32 \in Nat /\ (k - 1) * F32 + F32 <= Len(v) * F32
            /\ \A j \in 1..F32 : c[(k - 1) * F32 + j] = Put(v[k], F32)[j]
  <2> HIDE DEF v
  <2> QED BY <1>0, FloatsFacts
<1> HIDE DEF a, b, c, v
<1>5. /\ e \in Seq(Byte) /\ Len(e) = Len(a) + Len(b) + Len(c)
      /\ \A j \in 1..Len(a) : e[j] = a[j]
      /\ \A j \in 1..Len(b) : e[Len(a) + j] = b[j]
      /\ \A j \in 1..Len(c) : e[Len(a) + Len(b) + j] = c[j]
  <2>1. a \in Seq(Byte) /\ b \in Seq(Byte) /\ c \in Seq(Byte) BY <1>2, <1>3, <1>4
  <2>2. e \in Seq(Byte) /\ InThree(e, a, b, c) BY <2>1, <1>1, ThreeParts
  <2> QED BY <2>2 DEF InThree
<1>6. Len(e) = ItemSize(widths, item) BY <1>2, <1>3, <1>4, <1>5 DEF ItemSize, Fixed, v
<1>7. ASSUME NEW k \in 1..Len(v), NEW j \in 1..F32
      PROVE  e[Fixed(widths) + (k - 1) * F32 + j] = Put(v[k], F32)[j]
  <2> DEFINE p == (k - 1) * F32
             q == Len(v) * F32
  <2>1. p \in Nat /\ p + F32 <= q /\ q \in Nat /\ c[p + j] = Put(v[k], F32)[j] /\ Len(c) = q
    BY <1>4
  <2> HIDE DEF p, q
  <2>2. p + j \in 1..Len(c) BY <2>1, <1>3
  <2>3. e[Len(a) + Len(b) + (p + j)] = c[p + j] BY <2>2, <1>5
  <2>4. Len(a) + Len(b) + (p + j) = Fixed(widths) + p + j
    BY <2>1, <1>2, <1>3 DEF Fixed
  <2>5. e[Fixed(widths) + p + j] = Put(v[k], F32)[j] BY <2>1, <2>3, <2>4
  <2> QED BY <2>5 DEF p
<1> QED BY <1>2, <1>3, <1>5, <1>6, <1>7 DEF a, b, v

-----------------------------------------------------------------------------
(* Decoding what was encoded *)

Items == [fields : Seq(Nat), payload : Seq(Nat)]
Readers == [ok : BOOLEAN, p : Nat, items : Seq(Items)]

\* The item that a Reader at p finds.
ItemAt(widths, bytes, p) ==
    [fields |-> [i \in DOMAIN widths |->
                    Get(bytes, p + Offsets(widths)[i - 1], widths[i])],
     payload |-> [i \in 1..Get(bytes, p + Size(widths), U32) |->
                    Get(bytes, p + Fixed(widths) + (i - 1) * F32, F32)]]

\* One iteration of the loop of decode_token_batch, from a Reader.
LEMMA DecodeItemCases ==
    ASSUME NEW widths, NEW bytes, NEW r \in Readers, NEW n, NEW fixed,
           n = Get(bytes, r.p + Size(widths), U32), fixed = Fixed(widths)
    PROVE  LET good == r.ok /\ Need(bytes, r.p, fixed) /\ Need(bytes, r.p + fixed, n * F32)
           IN  /\ ~ good => DecodeItem(widths, bytes, r) = [r EXCEPT !.ok = FALSE]
               /\ good => DecodeItem(widths, bytes, r) =
                            [ok |-> TRUE, p |-> r.p + fixed + n * F32,
                             items |-> Append(r.items, ItemAt(widths, bytes, r.p))]
BY DEF DecodeItem, ItemAt, Fixed

LEMMA SizeType ==
    ASSUME NEW widths \in Seq(Nat)
    PROVE  /\ Size(widths) \in Nat /\ Fixed(widths) \in Nat
           /\ \A k \in 1..Len(widths) : Offsets(widths)[k - 1] \in Nat
<1> DEFINE f == [i \in 1..Len(widths) |-> 0]
<1>1. Len(widths) \in Nat /\ f \in [1..Len(widths) -> Nat] BY LenProperties
<1>2. f \in Seq(Nat) /\ Len(f) = Len(widths)
  <2> HIDE DEF f
  <2> QED BY <1>1, FcnIsSeq
<1> HIDE DEF f
<1>3. Size(widths) \in Nat /\ \A k \in 1..Len(widths) : Offsets(widths)[k - 1] \in Nat
  BY <1>2, PutFieldsFacts
<1> QED BY <1>3, Widths DEF Fixed

\* A Reader stays a Reader.
LEMMA DecodeItemType ==
    ASSUME NEW widths \in Seq(Nat), NEW bytes \in Seq(Byte), NEW r \in Readers
    PROVE  /\ DecodeItem(widths, bytes, r) \in Readers
           /\ ~ r.ok => ~ DecodeItem(widths, bytes, r).ok
<1> DEFINE n == Get(bytes, r.p + Size(widths), U32)
           fixed == Fixed(widths)
           x == ItemAt(widths, bytes, r.p)
           good == r.ok /\ Need(bytes, r.p, fixed) /\ Need(bytes, r.p + fixed, n * F32)
           d == DecodeItem(widths, bytes, r)
<1>1. /\ r.p \in Nat /\ Size(widths) \in Nat /\ fixed \in Nat /\ U32 \in Nat /\ F32 \in Nat
      /\ \A k \in 1..Len(widths) : Offsets(widths)[k - 1] \in Nat
      /\ Len(widths) \in Nat /\ DOMAIN widths = 1..Len(widths)
      /\ r.items \in Seq(Items) /\ r.ok \in BOOLEAN
  BY SizeType, Widths, LenProperties DEF Readers
<1>2. n \in Nat
  <2>1. r.p + Size(widths) \in Nat BY <1>1
  <2> QED BY <2>1, <1>1, GetType
<1> HIDE DEF n, fixed, x
<1>3. /\ ~ good => d = [r EXCEPT !.ok = FALSE]
      /\ good => d = [ok |-> TRUE, p |-> r.p + fixed + n * F32, items |-> Append(r.items, x)]
  BY DecodeItemCases DEF n, fixed, x
<1>4. x \in Items
  <2> DEFINE f == [i \in DOMAIN widths |-> Get(bytes, r.p + Offsets(widths)[i - 1], widths[i])]
             g == [i \in 1..n |-> Get(bytes, r.p + fixed + (i - 1) * F32, F32)]
  <2>1. x = [fields |-> f, payload |-> g] BY DEF x, ItemAt, n, fixed
  <2>2. f \in [1..Len(widths) -> Nat]
    <3>1. ASSUME NEW i \in 1..Len(widths)
          PROVE  Get(bytes, r.p + Offsets(widths)[i - 1], widths[i]) \in Nat
      <4>1. r.p + Offsets(widths)[i - 1] \in Nat /\ widths[i] \in Nat
        BY <1>1, ElementOfSeq
      <4> QED BY <4>1, GetType
    <3> QED BY <3>1, <1>1
  <2>3. g \in [1..n -> Nat]
    <3>1. ASSUME NEW i \in 1..n
          PROVE  Get(bytes, r.p + fixed + (i - 1) * F32, F32) \in Nat
      <4>1. i - 1 \in Nat BY <1>2
      <4> DEFINE o == (i - 1) * F32
      <4>2. o \in Nat BY <4>1, <1>1
      <4> HIDE DEF o
      <4>3. r.p + fixed + o \in Nat BY <4>2, <1>1
      <4>4. Get(bytes, r.p + fixed + o, F32) \in Nat BY <4>3, <1>1, GetType
      <4> QED BY <4>4 DEF o
    <3> QED BY <3>1
  <2> HIDE DEF f, g
  <2>4. f \in Seq(Nat) /\ g \in Seq(Nat) BY <2>2, <2>3, <1>1, <1>2, FcnIsSeq
  <2> QED BY <2>1, <2>4 DEF Items
<1>5. CASE good
  <2>1. n * F32 \in Nat BY <1>1, <1>2
  <2>2. r.p + fixed + n * F32 \in Nat BY <2>1, <1>1
  <2>3. Append(r.items, x) \in Seq(Items) BY <1>1, <1>4, AppendProperties
  <2>4. d = [ok |-> TRUE, p |-> r.p + fixed + n * F32, items |-> Append(r.items, x)]
    BY <1>3, <1>5
  <2>5. d \in Readers
    <3> HIDE DEF good, d
    <3> QED BY <2>2, <2>3, <2>4 DEF Readers
  <2>6. r.ok BY <1>5
  <2> QED BY <2>5, <2>6
<1>6. CASE ~ good
  <2>1. d = [r EXCEPT !.ok = FALSE] BY <1>3, <1>6
  <2> HIDE DEF good, d
  <2>2. d \in Readers /\ d.ok = FALSE BY <2>1 DEF Readers
  <2> QED BY <2>2 DEF d
<1> QED BY <1>5, <1>6

LEMMA DecodeItemFrom ==
    ASSUME NEW widths, NEW bytes, NEW r \in Readers, r.ok, NEW p, p = r.p,
           NEW items, items = r.items,
           NEW n, n = Get(bytes, p + Size(widths), U32), NEW fixed, fixed = Fixed(widths)
    PROVE  LET good == Need(bytes, p, fixed) /\ Need(bytes, p + fixed, n * F32)
           IN  /\ ~ good => ~ DecodeItem(widths, bytes, r).ok
               /\ good => DecodeItem(widths, bytes, r) =
                            [ok |-> TRUE, p |-> p + fixed + n * F32,
                             items |-> Append(items, ItemAt(widths, bytes, p))]
<1>1. n = Get(bytes, r.p + Size(widths), U32) OBVIOUS
<1>2. [r EXCEPT !.ok = FALSE].ok = FALSE BY DEF Readers
<1>3. LET good == Need(bytes, p, fixed) /\ Need(bytes, p + fixed, n * F32)
      IN  /\ ~ good => DecodeItem(widths, bytes, r) = [r EXCEPT !.ok = FALSE]
          /\ good => DecodeItem(widths, bytes, r) =
                            [ok |-> TRUE, p |-> p + fixed + n * F32,
                             items |-> Append(items, ItemAt(widths, bytes, p))]
  BY <1>1, DecodeItemCases
<1> QED BY <1>2, <1>3

\* An item is decoded from bytes that hold all of its encoding, and from no
\* beginning of it.
LEMMA DecodeItemRight ==
    ASSUME NEW widths \in Seq(Nat), NEW item, IsItem(widths, item),
           NEW bytes \in Seq(Byte), NEW r \in Readers, r.ok,
           NEW p \in Nat, p = r.p, NEW items \in Seq(Items), items = r.items,
           \A j \in 1..ItemSize(widths, item) :
              p + j <= Len(bytes) => bytes[p + j] = EncodeItem(widths, item)[j]
    PROVE  /\ p + ItemSize(widths, item) <= Len(bytes) =>
                 DecodeItem(widths, bytes, r) =
                    [ok |-> TRUE, p |-> p + ItemSize(widths, item),
                     items |-> Append(items, item)]
           /\ p + ItemSize(widths, item) > Len(bytes) => ~ DecodeItem(widths, bytes, r).ok
<1> DEFINE e == EncodeItem(widths, item)
           v == item.payload
           c == Len(v)
           size == Size(widths)
           fixed == Fixed(widths)
           n == Get(bytes, p + size, U32)
           l == Len(bytes)
           d == DecodeItem(widths, bytes, r)
           total == ItemSize(widths, item)
           floats == c * F32
<1>1. /\ v \in Seq(Nat) /\ item.fields \in Seq(Nat) /\ Len(item.fields) = Len(widths)
      /\ c \in Nat /\ l \in Nat /\ Len(widths) \in Nat
      /\ size \in Nat /\ fixed \in Nat /\ fixed = size + U32 /\ U32 \in Nat /\ F32 \in Nat
  BY LenProperties, SizeType, Widths DEF IsItem, Fixed
<1>2. floats \in Nat BY <1>1
<1>3. total = fixed + floats BY DEF ItemSize
<1>4. /\ \A j \in 1..size : e[j] = PutFields(widths, item.fields)[j]
      /\ \A j \in 1..U32 : e[size + j] = Put(c, U32)[j]
      /\ \A k \in 1..c : \A j \in 1..F32 :
            e[fixed + (k - 1) * F32 + j] = Put(v[k], F32)[j]
  BY ItemFacts
<1>5. \A j \in 1..total : p + j <= l => bytes[p + j] = e[j] OBVIOUS
<1>6. p \in Nat OBVIOUS
<1> HIDE DEF e, v, c, size, fixed, l, total, floats
<1>a. /\ p \in Nat /\ l \in Nat /\ size \in Nat /\ fixed \in Nat /\ floats \in Nat
      /\ U32 \in Nat /\ F32 \in Nat /\ c \in Nat
      /\ total = fixed + floats /\ fixed = size + U32
  BY <1>1, <1>2, <1>3, <1>6
<1>8. LET good == Need(bytes, p, fixed) /\ Need(bytes, p + fixed, n * F32)
      IN  /\ ~ good => ~ d.ok
          /\ good => d = [ok |-> TRUE, p |-> p + fixed + n * F32,
                          items |-> Append(items, ItemAt(widths, bytes, p))]
  <2>1. n = Get(bytes, p + Size(widths), U32) BY DEF size
  <2> HIDE DEF n
  <2> QED BY <2>1, DecodeItemFrom DEF fixed
<1> HIDE DEF d
<1>10. CASE p + fixed > l
  <2>1. ~ Need(bytes, p, fixed) BY <1>10, <1>a DEF Need, l
  <2>2. ~ d.ok BY <2>1, <1>8
  <2>3. p + total > l BY <1>10, <1>a
  <2> QED BY <2>2, <2>3, <1>a DEF d, total, l
<1>11. CASE p + fixed <= l
  <2>1. n = c
    <3>1. \A j \in 1..U32 : bytes[(p + size) + j] = Put(c, U32)[j]
      <4> TAKE j \in 1..U32
      <4>1. size + j \in 1..total /\ p + (size + j) <= l /\ (p + size) + j = p + (size + j)
        <5>1. j \in Nat /\ 1 <= j /\ j <= U32 BY <1>a
        <5> QED BY <5>1, <1>a, <1>11
      <4> QED BY <4>1, <1>4, <1>5
    <3> DEFINE o == p + size
    <3>2. o + U32 <= Len(bytes) /\ o \in Nat BY <1>a, <1>11 DEF l
    <3>3. Fits(c, U32) BY DEF IsItem, c, v
    <3>4. \A j \in 1..U32 : bytes[o + j] = Put(c, U32)[j] BY <3>1
    <3> HIDE DEF o
    <3>5. Get(bytes, o, U32) = c
      <4>1. c \in Nat /\ U32 \in Nat BY <1>a
      <4>2. PutAt(bytes, o, c, U32) BY <3>2, <3>4 DEF PutAt
      <4> QED BY <4>1, <4>2, <3>2, <3>3, GetPut
    <3> QED BY <3>5 DEF o
  <2> HIDE DEF n
  <2>2. Need(bytes, p, fixed) BY <1>a, <1>11 DEF Need, l
  <2>3. Need(bytes, p + fixed, n * F32) <=> p + total <= l
    <3>1. n * F32 = floats BY <2>1 DEF floats
    <3>2. l - (p + fixed) >= floats <=> p + total <= l BY <1>a
    <3> QED BY <3>1, <3>2 DEF Need, l
  <2>4. CASE p + total > l
    <3>1. ~ Need(bytes, p + fixed, n * F32) BY <2>3, <2>4, <1>a
    <3>2. ~ d.ok BY <3>1, <1>8
    <3> QED BY <3>2, <2>4, <1>a DEF d, total, l
  <2>5. CASE p + total <= l
    <3>1. d = [ok |-> TRUE, p |-> p + fixed + n * F32,
               items |-> Append(items, ItemAt(widths, bytes, p))]
      BY <2>2, <2>3, <2>5, <1>8
    <3>2. p + fixed + n * F32 = p + total BY <2>1, <1>a DEF floats
    <3> DEFINE f == [i \in DOMAIN widths |-> Get(bytes, p + Offsets(widths)[i - 1], widths[i])]
               g == [i \in 1..n |-> Get(bytes, p + fixed + (i - 1) * F32, F32)]
    <3>3. ItemAt(widths, bytes, p) = [fields |-> f, payload |-> g]
      BY DEF ItemAt, n, fixed, size
    <3>4. f = item.fields
      <4>1. DOMAIN widths = 1..Len(widths) /\ DOMAIN item.fields = 1..Len(widths)
        BY <1>1, LenProperties
      <4>2. ASSUME NEW i \in 1..Len(widths)
            PROVE  Get(bytes, p + Offsets(widths)[i - 1], widths[i]) = item.fields[i]
        <5> DEFINE o == Offsets(widths)[i - 1]
                   w == widths[i]
                   y == item.fields[i]
                   q == p + o
        <5>1. /\ o \in Nat /\ w \in Nat /\ o + w <= size /\ y \in Nat
              /\ \A j \in 1..w : PutFields(widths, item.fields)[o + j] = Put(y, w)[j]
          BY <1>1, PutFieldsFacts, ElementOfSeq DEF size
        <5>2. Fits(y, w) BY <4>1 DEF IsItem
        <5> HIDE DEF o, w, y
        <5>a. o \in Nat /\ w \in Nat /\ o + w <= size BY <5>1
        <5>3. ASSUME NEW j \in 1..w PROVE bytes[q + j] = Put(y, w)[j]
          <6>a. j \in Nat /\ 1 <= j /\ j <= w BY <5>a
          <6>1. /\ o + j \in 1..size /\ o + j \in 1..total /\ p + (o + j) <= l
                /\ q + j = p + (o + j)
            <7>1. o + j \in Nat /\ 1 <= o + j /\ o + j <= size /\ o + j <= total
              BY <6>a, <5>a, <1>a
            <7>2. p + (o + j) <= l
              <8> DEFINE z == o + j
              <8>1. z \in Nat /\ z <= total BY <7>1
              <8> HIDE DEF z
              <8>2. p + z <= l BY <8>1, <1>a, <2>5
              <8> QED BY <8>2 DEF z
            <7>3. q + j = p + (o + j) BY <6>a, <5>a, <1>a
            <7>4. o + j \in 1..size /\ o + j \in 1..total BY <7>1, <1>a
            <7> QED BY <7>2, <7>3, <7>4
          <6>2. bytes[p + (o + j)] = e[o + j] BY <6>1, <1>5
          <6>3. e[o + j] = PutFields(widths, item.fields)[o + j] BY <6>1, <1>4
          <6>4. PutFields(widths, item.fields)[o + j] = Put(y, w)[j] BY <5>1
          <6> QED BY <6>1, <6>2, <6>3, <6>4, Zenon
        <5>4. q + w <= Len(bytes) /\ q \in Nat
          <6> DEFINE z == o + w
          <6>a. z \in Nat /\ z <= total BY <5>a, <1>a
          <6>b. q \in Nat /\ q + w = p + z BY <5>a, <1>a
          <6> HIDE DEF z
          <6>c. p + z <= l BY <6>a, <1>a, <2>5
          <6>1. q + w <= l /\ q \in Nat BY <6>b, <6>c
          <6> QED BY <6>1 DEF l
        <5> HIDE DEF q
        <5>b. y \in Nat /\ w \in Nat BY <5>1
        <5>c. PutAt(bytes, q, y, w) BY <5>3, <5>4 DEF PutAt
        <5>6. Get(bytes, q, w) = y BY <5>b, <5>c, <5>2, <5>4, GetPut
        <5> QED BY <5>6 DEF o, w, q, y
      <4>3. item.fields \in [1..Len(widths) -> Nat] BY <1>1, LenProperties
      <4> QED BY <4>1, <4>2, <4>3
    <3>5. g = v
      <4>1. ASSUME NEW i \in 1..c
            PROVE  Get(bytes, p + fixed + (i - 1) * F32, F32) = v[i]
        <5> DEFINE o == (i - 1) * F32
        <5>1. o \in Nat /\ o + F32 <= floats BY <1>1, FloatsFacts DEF c, floats
        <5>2. v[i] \in Nat /\ Fits(v[i], F32)
          BY <1>1, ElementOfSeq, LenProperties DEF IsItem, c, v
        <5>a. \A j \in 1..F32 : e[fixed + o + j] = Put(v[i], F32)[j] BY <1>4
        <5> HIDE DEF o
        <5>3. ASSUME NEW j \in 1..F32 PROVE bytes[(p + fixed + o) + j] = Put(v[i], F32)[j]
          <6>1. /\ fixed + o + j \in 1..total /\ p + (fixed + o + j) <= l
                /\ (p + fixed + o) + j = p + (fixed + o + j)
            <7>1. j \in Nat /\ 1 <= j /\ j <= F32 BY <1>a
            <7>2. fixed + o + j \in Nat /\ 1 <= fixed + o + j /\ fixed + o + j <= total
              BY <7>1, <5>1, <1>a
            <7>3. p + (fixed + o + j) <= l
              <8> DEFINE z == fixed + o + j
              <8>1. z \in Nat /\ z <= total BY <7>2
              <8> HIDE DEF z
              <8>2. p + z <= l BY <8>1, <1>a, <2>5
              <8> QED BY <8>2 DEF z
            <7>4. (p + fixed + o) + j = p + (fixed + o + j) BY <7>1, <5>1, <1>a
            <7> QED BY <7>2, <7>3, <7>4, <1>a
          <6> QED BY <6>1, <5>a, <1>5
        <5>4. (p + fixed + o) + F32 <= Len(bytes) /\ p + fixed + o \in Nat
          BY <5>1, <1>a, <2>5 DEF l
        <5> DEFINE q == p + fixed + o
        <5>5. q + F32 <= Len(bytes) /\ q \in Nat /\ \A j \in 1..F32 : bytes[q + j] = Put(v[i], F32)[j]
          BY <5>3, <5>4
        <5> HIDE DEF q
        <5>6. Get(bytes, q, F32) = v[i]
          <6>1. F32 \in Nat BY <1>a
          <6> DEFINE y == v[i]
          <6>2. y \in Nat /\ Fits(y, F32) BY <5>2
          <6>3. PutAt(bytes, q, y, F32) BY <5>5 DEF PutAt
          <6> HIDE DEF y
          <6>4. Get(bytes, q, F32) = y BY <6>1, <6>2, <6>3, <5>5, GetPut
          <6> QED BY <6>4 DEF y
        <5> QED BY <5>6 DEF o, q
      <4>2. v \in [1..c -> Nat] BY <1>1, LenProperties DEF c
      <4> QED BY <4>1, <4>2, <2>1
    <3> HIDE DEF f, g
    <3>6. item = [fields |-> item.fields, payload |-> item.payload] BY DEF IsItem
    <3>7. ItemAt(widths, bytes, p) = item BY <3>3, <3>4, <3>5, <3>6 DEF v
    <3>8. d = [ok |-> TRUE, p |-> p + total, items |-> Append(items, item)]
      BY <3>1, <3>2, <3>7
    <3>9. ~ (p + total > l) BY <2>5, <1>a
    <3> QED BY <3>8, <3>9 DEF d, total, l
  <2> QED BY <2>4, <2>5, <1>a
<1> QED BY <1>10, <1>11, <1>a

-----------------------------------------------------------------------------
(* Decoding a batch *)

\* The Readers of decode_token_batch, decode_result_batch: f[i] after i items.
Loop(f, kind, bytes, n) ==
    /\ \A i \in 0..n : f[i] \in Readers
    /\ f[0] = [ok |-> Need(bytes, 0, U32), p |-> U32, items |-> << >>]
    /\ \A i \in 1..n : f[i] = DecodeItem(FieldsOf(kind), bytes, f[i - 1])

LEMMA DecodeLoop ==
    ASSUME NEW kind, NEW bytes \in Seq(Byte), NEW n, n = Get(bytes, 0, U32)
    PROVE  n \in Nat /\ \E f : Loop(f, kind, bytes, n) /\ DecodeBatch(kind, bytes) = f[n]
<1> DEFINE widths == FieldsOf(kind)
           a == [ok |-> Need(bytes, 0, U32), p |-> U32, items |-> << >>]
           Body(f, i) == IF i = 0 THEN a ELSE DecodeItem(widths, bytes, f[i - 1])
           step == [i \in 1..n |-> [x \in Readers |-> DecodeItem(widths, bytes, x)]]
           g == CHOOSE h : h = [i \in 0..n |-> Body(h, i)]
<1>0. n \in Nat /\ widths \in Seq(Nat) BY GetType, Widths, FieldsType
<1>a. DecodeBatch(kind, bytes) = g[n] BY DEF DecodeBatch
<1>b. a \in Readers
  <2>1. << >> \in Seq(Items) BY EmptySeq
  <2>2. Need(bytes, 0, U32) \in BOOLEAN BY DEF Need
  <2> QED BY <2>1, <2>2, Widths DEF Readers
<1> HIDE DEF a, widths
<1>1. ASSUME NEW k \in 1..n, NEW x \in Readers
      PROVE  step[k][x] = DecodeItem(widths, bytes, x) /\ step[k][x] \in Readers
  <2>2. step[k][x] = DecodeItem(widths, bytes, x) OBVIOUS
  <2> QED BY <2>2, <1>0, DecodeItemType
<1> HIDE DEF step
<1>2. PICK f \in [0..n -> Readers] : f[0] = a /\ \A k \in 1..n : f[k] = step[k][f[k - 1]]
  <2>1. Steps(step, n, Readers) BY <1>1 DEF Steps
  <2>2. PICK f : Solution(f, n, Readers, a, step) BY <2>1, <1>0, <1>b, Recursion
  <2> QED BY <2>2 DEF Solution
<1>3. f = [k \in 0..n |-> Body(f, k)]
  <2>1. ASSUME NEW k \in 0..n PROVE f[k] = Body(f, k)
    <3>1. CASE k = 0 BY <3>1, <1>2
    <3>2. CASE k # 0
      <4>1. k \in 1..n /\ k - 1 \in 0..n BY <3>2, <1>0
      <4>2. f[k - 1] \in Readers BY <4>1
      <4> QED BY <4>1, <4>2, <3>2, <1>1, <1>2
    <3> QED BY <3>1, <3>2
  <2> HIDE DEF Body
  <2> QED BY <2>1
<1>4. g = [k \in 0..n |-> Body(g, k)]
  <2> HIDE DEF Body
  <2> QED BY <1>3
<1> HIDE DEF g
<1>5. g[0] = a /\ \A k \in 1..n : g[k] = DecodeItem(widths, bytes, g[k - 1])
  BY <1>0, <1>4
<1>6. \A k \in 0..n : g[k] \in Readers
  <2> DEFINE A == {k \in 0..n : g[k] \in Readers}
  <2>1. 0 \in A BY <1>0, <1>5, <1>b
  <2>2. ASSUME NEW k \in 1..n, k - 1 \in A PROVE k \in A
    <3>1. g[k - 1] \in Readers BY <2>2
    <3>2. g[k] \in Readers BY <3>1, <1>0, <1>5, DecodeItemType
    <3> QED BY <3>2
  <2>3. \A k \in 0..n : k \in A
    <3> HIDE DEF A
    <3> QED BY <2>1, <2>2, <1>0, Induction
  <2> QED BY <2>3
<1>7. Loop(g, kind, bytes, n) BY <1>5, <1>6 DEF Loop, a, widths
<1> QED BY <1>0, <1>a, <1>7

\* A failed check is not forgotten.
LEMMA FailedStays ==
    ASSUME NEW kind, NEW bytes \in Seq(Byte), NEW n \in Nat, NEW f, Loop(f, kind, bytes, n),
           NEW m \in 0..n, ~ f[m].ok
    PROVE  ~ f[n].ok
<1> DEFINE A == {k \in 0..n : k >= m => ~ f[k].ok}
<1>0. FieldsOf(kind) \in Seq(Nat) BY FieldsType
<1>1. 0 \in A OBVIOUS
<1>2. ASSUME NEW k \in 1..n, k - 1 \in A PROVE k \in A
  <2>1. CASE k <= m
    <3>1. k >= m => k = m BY <2>1
    <3> QED BY <3>1
  <2>2. CASE k > m
    <3>1. k - 1 >= m /\ k - 1 \in 0..n BY <2>2
    <3>2. ~ f[k - 1].ok BY <3>1, <1>2
    <3>3. f[k - 1] \in Readers /\ f[k] = DecodeItem(FieldsOf(kind), bytes, f[k - 1])
      BY <3>1 DEF Loop
    <3>4. ~ f[k].ok BY <3>2, <3>3, <1>0, DecodeItemType
    <3> QED BY <3>4
  <2> QED BY <2>1, <2>2
<1>3. \A k \in 0..n : k \in A
  <2> HIDE DEF A
  <2> QED BY <1>1, <1>2, Induction
<1>4. n \in A BY <1>3
<1> QED BY <1>4

\* Where the items of an encoded batch are.
BatchPlaces(pos, widths, batch, e) ==
    /\ pos[0] = U32 /\ pos[Len(batch)] = Len(e)
    /\ \A k \in 0..Len(batch) : pos[k] \in Nat /\ pos[k] <= Len(e)
    /\ \A k \in 1..Len(batch) :
          /\ pos[k] = pos[k - 1] + ItemSize(widths, batch[k])
          /\ \A j \in 1..ItemSize(widths, batch[k]) :
                e[pos[k - 1] + j] = EncodeItem(widths, batch[k])[j]

\* The items of a batch, encoded.
Encoded(widths, batch) == [i \in DOMAIN batch |-> EncodeItem(widths, batch[i])]

LEMMA BatchItems ==
    ASSUME NEW kind, NEW batch, IsBatch(kind, batch)
    PROVE  /\ batch \in Seq(Items) /\ Len(batch) \in Nat /\ Fits(Len(batch), U32)
           /\ \A k \in 1..Len(batch) : IsItem(FieldsOf(kind), batch[k])
<1> DEFINE widths == FieldsOf(kind)
<1>1. batch \in Seq(Items) /\ Fits(Len(batch), U32) BY DEF IsBatch, Items
<1>2. Len(batch) \in Nat /\ DOMAIN batch = 1..Len(batch) BY <1>1, LenProperties
<1>3. ASSUME NEW k \in 1..Len(batch) PROVE IsItem(widths, batch[k])
  <2>1. batch[k] \in Items BY <1>1, ElementOfSeq
  <2> QED BY <2>1, <1>2 DEF IsBatch, IsItem, Items
<1> QED BY <1>1, <1>2, <1>3

LEMMA BatchFacts ==
    ASSUME NEW kind, NEW batch, IsBatch(kind, batch), NEW e, e = EncodeBatch(kind, batch)
    PROVE  /\ e \in Seq(Byte)
           /\ \A j \in 1..U32 : e[j] = Put(Len(batch), U32)[j]
           /\ \E pos : BatchPlaces(pos, FieldsOf(kind), batch, e)
<1> DEFINE widths == FieldsOf(kind)
           n == Len(batch)
           ss == Encoded(widths, batch)
           h == Put(n, U32)
           row == FlattenSeq(ss)
<1>0. /\ batch \in Seq(Items) /\ n \in Nat /\ DOMAIN batch = 1..n
      /\ widths \in Seq(Nat) /\ \A k \in 1..n : IsItem(widths, batch[k])
  BY BatchItems, LenProperties, FieldsType
<1>1. ASSUME NEW k \in 1..n
      PROVE  /\ ss[k] = EncodeItem(widths, batch[k]) /\ ss[k] \in Seq(Byte)
             /\ Len(ss[k]) = ItemSize(widths, batch[k])
  <2>1. ss[k] = EncodeItem(widths, batch[k]) BY <1>0 DEF Encoded
  <2> HIDE DEF ss
  <2> QED BY <2>1, <1>0, ItemFacts
<1>2. ss \in Seq(Seq(Byte)) /\ Len(ss) = n
  <2>0. ss = [i \in 1..n |-> EncodeItem(widths, batch[i])] BY <1>0 DEF Encoded
  <2>1. ss \in [1..n -> Seq(Byte)] BY <2>0, <1>1
  <2> HIDE DEF ss
  <2> QED BY <2>1, <1>0, FcnIsSeq
<1>3. e = h \o row BY DEF EncodeBatch, Encoded
<1> HIDE DEF ss, n, widths
<1>4. PICK q : Places(q, ss, row) BY <1>2, FlattenPlaces
<1>5. row \in Seq(Byte) /\ h \in Seq(Byte) /\ Len(h) = U32 /\ U32 \in Nat /\ Len(row) \in Nat
  BY <1>0, <1>2, FlattenType, PutType, Widths, LenProperties
<1> HIDE DEF row, h
<1>6. /\ e \in Seq(Byte) /\ Len(e) = U32 + Len(row)
      /\ \A j \in 1..U32 : e[j] = h[j]
      /\ \A j \in 1..Len(row) : e[U32 + j] = row[j]
  <2>1. row \in Seq(Byte) /\ h \in Seq(Byte) BY <1>5
  <2>2. /\ e \in Seq(Byte) /\ Len(e) = Len(h) + Len(row)
        /\ \A j \in 1..Len(h) : e[j] = h[j]
        /\ \A j \in 1..Len(row) : e[Len(h) + j] = row[j]
    BY <2>1, <1>3, TwoParts
  <2> QED BY <2>2, <1>5
<1> DEFINE pos == [k \in 0..n |-> U32 + q[k]]
<1>9. /\ q[0] = 0 /\ q[n] = Len(row)
      /\ \A k \in 0..n : q[k] \in Nat /\ q[k] <= Len(row)
      /\ \A k \in 1..n :
            /\ q[k] = q[k - 1] + Len(ss[k])
            /\ \A j \in 1..Len(ss[k]) : row[q[k - 1] + j] = ss[k][j]
  BY <1>2, <1>4 DEF Places
<1>10. \A k \in 0..n : pos[k] = U32 + q[k] OBVIOUS
<1> HIDE DEF pos
<1>11. ASSUME NEW k \in 1..n
       PROVE  /\ pos[k] = pos[k - 1] + ItemSize(widths, batch[k])
              /\ \A j \in 1..ItemSize(widths, batch[k]) :
                    e[pos[k - 1] + j] = EncodeItem(widths, batch[k])[j]
  <2> DEFINE x == q[k - 1]
             y == q[k]
             m == Len(ss[k])
  <2>0. k - 1 \in 0..n /\ k \in 0..n BY <1>0
  <2>1. x \in Nat /\ y \in Nat /\ y = x + m /\ y <= Len(row) BY <2>0, <1>9
  <2>2. pos[k - 1] = U32 + x /\ pos[k] = U32 + y BY <2>0, <1>10
  <2>3. m \in Nat /\ m = ItemSize(widths, batch[k]) BY <1>1, LenProperties
  <2>4. \A j \in 1..m : row[x + j] = ss[k][j] BY <1>9
  <2> HIDE DEF x, y, m
  <2>5. U32 + y = (U32 + x) + m BY <2>1, <2>3, <1>5
  <2>6. ASSUME NEW j \in 1..m PROVE e[(U32 + x) + j] = ss[k][j]
    <3>1. x + j \in 1..Len(row) /\ (U32 + x) + j = U32 + (x + j) BY <2>1, <2>3, <1>5
    <3> QED BY <3>1, <2>4, <1>6
  <2> QED BY <2>2, <2>3, <2>5, <2>6, <1>1
<1>12. pos[0] = U32 /\ pos[n] = Len(e) /\ \A k \in 0..n : pos[k] \in Nat /\ pos[k] <= Len(e)
  <2>0. 0 \in 0..n /\ n \in 0..n BY <1>0
  <2>1. pos[0] = U32 /\ pos[n] = Len(e)
    <3>1. pos[0] = U32 + 0 /\ pos[n] = U32 + Len(row) BY <2>0, <1>9, <1>10
    <3> QED BY <3>1, <1>5, <1>6
  <2>2. ASSUME NEW k \in 0..n PROVE pos[k] \in Nat /\ pos[k] <= Len(e)
    <3> DEFINE x == q[k]
    <3>1. x \in Nat /\ x <= Len(row) /\ pos[k] = U32 + x BY <1>9, <1>10
    <3> HIDE DEF x
    <3>2. U32 + x \in Nat /\ U32 + x <= Len(e) BY <3>1, <1>5, <1>6
    <3> QED BY <3>1, <3>2
  <2> QED BY <2>1, <2>2
<1>13. BatchPlaces(pos, widths, batch, e) BY <1>11, <1>12 DEF BatchPlaces, n
<1> QED BY <1>6, <1>13 DEF widths, h, n

\* decode_token_batch and decode_result_batch return the batch that was encoded,
\* and throw on every proper beginning of its encoding.
THEOREM RoundTrip ==
    ASSUME NEW kind, NEW batch, IsBatch(kind, batch), NEW e, e = EncodeBatch(kind, batch),
           NEW bytes \in Seq(Byte), Begins(bytes, e)
    PROVE  /\ Len(bytes) = Len(e) => Decodes(kind, bytes, batch)
           /\ Len(bytes) < Len(e) => ~ DecodeBatch(kind, bytes).ok
<1> DEFINE widths == FieldsOf(kind)
           n == Len(batch)
           l == Len(bytes)
           count == Get(bytes, 0, U32)
           d == DecodeBatch(kind, bytes)
<1>0. /\ batch \in Seq(Items) /\ n \in Nat /\ Fits(n, U32) /\ widths \in Seq(Nat)
      /\ \A k \in 1..n : IsItem(widths, batch[k])
  BY BatchItems, FieldsType
<1>1. e \in Seq(Byte) /\ \A j \in 1..U32 : e[j] = Put(n, U32)[j] BY BatchFacts
<1>2. PICK pos : BatchPlaces(pos, widths, batch, e) BY BatchFacts
<1>3. l \in Nat /\ Len(e) \in Nat /\ U32 \in Nat /\ l <= Len(e)
      /\ \A j \in 1..l : bytes[j] = e[j]
  BY <1>1, LenProperties, Widths DEF Begins
<1>4. count \in Nat /\ \E f : Loop(f, kind, bytes, count) /\ d = f[count] BY DecodeLoop
<1>5. PICK f : Loop(f, kind, bytes, count) /\ d = f[count] BY <1>4
<1> HIDE DEF n, l, widths, d
<1>6. f[0] = [ok |-> Need(bytes, 0, U32), p |-> U32, items |-> << >>]
  BY <1>5 DEF Loop
<1>7. CASE l < U32
  <2>1. ~ Need(bytes, 0, U32) BY <1>7, <1>3 DEF Need, l
  <2>2. ~ f[0].ok /\ 0 \in 0..count BY <2>1, <1>4, <1>6
  <2> HIDE DEF count
  <2>3. ~ d.ok BY <2>2, <1>4, <1>5, FailedStays
  <2>4. 0 \in 0..n /\ U32 <= Len(e) BY <1>0, <1>2 DEF BatchPlaces, n
  <2>5. l < Len(e) BY <2>4, <1>3, <1>7
  <2> QED BY <2>3, <2>5, <1>3 DEF d, l
<1>8. CASE l >= U32
  <2>1. count = n
    <3>1. \A j \in 1..U32 : 0 + j = j /\ j \in 1..l BY <1>3, <1>8
    <3>2. \A j \in 1..U32 : bytes[0 + j] = Put(n, U32)[j] BY <3>1, <1>1, <1>3
    <3>3. 0 + U32 <= Len(bytes) BY <1>3, <1>8 DEF l
    <3>4. PutAt(bytes, 0, n, U32) BY <3>2, <3>3 DEF PutAt
    <3> QED BY <3>4, <1>0, <1>3, GetPut
  <2> HIDE DEF count
  <2>2. Loop(f, kind, bytes, n) /\ d = f[n] BY <2>1, <1>5
  <2>3. Need(bytes, 0, U32) BY <1>3, <1>8 DEF Need, l
  <2> DEFINE Good(i) == f[i] = [ok |-> TRUE, p |-> pos[i], items |-> SubSeq(batch, 1, i)]
             A == {i \in 0..n : IF pos[i] <= l THEN Good(i) ELSE ~ f[i].ok}
  <2>4. 0 \in A
    <3>1. pos[0] = U32 /\ 0 \in 0..n BY <1>0, <1>2 DEF BatchPlaces
    <3>2. SubSeq(batch, 1, 0) = << >> BY <1>0, SubSeqEmpty
    <3>3. Good(0) BY <3>1, <3>2, <2>3, <1>6
    <3>4. pos[0] <= l BY <3>1, <1>8, <1>3
    <3> HIDE DEF Good
    <3> QED BY <3>1, <3>3, <3>4
  <2>5. ASSUME NEW i \in 1..n, i - 1 \in A PROVE i \in A
    <3> DEFINE q == pos[i - 1]
               t == pos[i]
               item == batch[i]
               x == ItemSize(widths, item)
               r == f[i - 1]
               before == SubSeq(batch, 1, i - 1)
    <3>1. /\ q \in Nat /\ t \in Nat /\ t = q + x /\ t <= Len(e)
          /\ \A j \in 1..x : e[q + j] = EncodeItem(widths, item)[j]
      <4>1. i - 1 \in 0..n /\ i \in 0..n BY <1>0
      <4> QED BY <4>1, <1>2 DEF BatchPlaces, n
    <3>2. IsItem(widths, item) BY <1>0
    <3>3. x \in Nat
      <4>1. EncodeItem(widths, item) \in Seq(Byte) /\ Len(EncodeItem(widths, item)) = x
        BY <3>2, <1>0, ItemFacts
      <4> QED BY <4>1, LenProperties
    <3>4. r \in Readers /\ f[i] = DecodeItem(widths, bytes, r)
      <4>1. i - 1 \in 0..n BY <1>0
      <4> QED BY <4>1, <2>2 DEF Loop, widths
    <3>5. IF q <= l THEN Good(i - 1) ELSE ~ r.ok BY <2>5
    <3> HIDE DEF x, item, q, t
    <3>6. CASE q > l
      <4>1. ~ r.ok BY <3>5, <3>6, <3>1, <1>3
      <4>2. ~ f[i].ok BY <4>1, <3>4, <1>0, DecodeItemType
      <4>3. ~ (t <= l) BY <3>1, <3>3, <3>6, <1>3
      <4> QED BY <4>2, <4>3 DEF t
    <3>7. CASE q <= l
      <4>1. r.ok /\ r.p = q /\ r.items = before
        <5>1. Good(i - 1) BY <3>5, <3>7
        <5> QED BY <5>1 DEF q
      <4>2. \A j \in 1..x : q + j <= l => bytes[q + j] = EncodeItem(widths, item)[j]
        <5> SUFFICES ASSUME NEW j \in 1..x, q + j <= l
                     PROVE  bytes[q + j] = EncodeItem(widths, item)[j]
          OBVIOUS
        <5>1. q + j \in 1..l BY <3>1, <3>3, <1>3
        <5> QED BY <5>1, <3>1, <1>3
      <4>3. before \in Seq(Items)
        <5>1. r.items \in Seq(Items) BY <3>4 DEF Readers
        <5> QED BY <5>1, <4>1
      <4> HIDE DEF before, r
      <4>4. /\ q + x <= l => f[i] = [ok |-> TRUE, p |-> q + x, items |-> Append(before, item)]
            /\ q + x > l => ~ f[i].ok
        <5>1. q \in Nat /\ q = r.p /\ before = r.items /\ r.ok BY <3>1, <4>1
        <5>2. /\ widths \in Seq(Nat) /\ IsItem(widths, item) /\ r \in Readers
              /\ before \in Seq(Items)
          BY <4>3, <3>2, <3>4, <1>0
        <5>3. \A j \in 1..ItemSize(widths, item) :
                 q + j <= Len(bytes) => bytes[q + j] = EncodeItem(widths, item)[j]
          BY <4>2 DEF x, l
        <5> DEFINE k == DecodeItem(widths, bytes, r)
                   z == ItemSize(widths, item)
        <5>4. /\ q + z <= Len(bytes) =>
                    k = [ok |-> TRUE, p |-> q + z, items |-> Append(before, item)]
              /\ q + z > Len(bytes) => ~ k.ok
          BY <5>1, <5>2, <5>3, DecodeItemRight, Zenon
        <5>5. f[i] = k BY <3>4
        <5> HIDE DEF k, z
        <5> QED BY <5>4, <5>5, Zenon DEF x, l, z
      <4>5. Append(before, item) = SubSeq(batch, 1, i)
        <5>1. 1 \in 1..Len(batch) /\ i \in 1..Len(batch) BY <1>0 DEF n
        <5>2. SubSeq(batch, 1, i) = before \o <<item>>
          BY <5>1, <1>0, SubSeqRecursiveSecond DEF before, item
        <5>3. item \in Items BY <5>1, <1>0, ElementOfSeq DEF item
        <5> QED BY <5>2, <5>3, <4>3, AppendIsConcat
      <4>6. CASE t <= l
        <5>1. Good(i) BY <4>4, <4>5, <4>6, <3>1 DEF t
        <5> QED BY <5>1, <4>6 DEF t
      <4>7. CASE ~ (t <= l)
        <5>1. q + x > l BY <4>7, <3>1, <3>3, <1>3
        <5>2. ~ f[i].ok BY <5>1, <4>4
        <5> QED BY <5>2, <4>7 DEF t
      <4> QED BY <4>6, <4>7
    <3> QED BY <3>6, <3>7, <3>1, <1>3
  <2>6. \A i \in 0..n : i \in A
    <3> HIDE DEF A
    <3> QED BY <2>4, <2>5, <1>0, Induction
  <2>7. n \in A /\ pos[n] = Len(e)
    <3>1. n \in 0..n BY <1>0
    <3> QED BY <3>1, <2>6, <1>2 DEF BatchPlaces, n
  <2>8. CASE l = Len(e)
    <3>1. pos[n] <= l BY <2>7, <2>8, <1>3
    <3>2. Good(n) BY <3>1, <2>7
    <3>3. SubSeq(batch, 1, n) = batch BY <1>0, SubSeqFull DEF n
    <3>4. d = [ok |-> TRUE, p |-> pos[n], items |-> batch] BY <3>2, <3>3, <2>2
    <3>5. d.ok /\ d.items = batch BY <3>4
    <3>6. ~ (l < Len(e)) BY <2>8, <1>3
    <3> QED BY <3>5, <3>6 DEF Decodes, d, l
  <2>9. CASE l < Len(e)
    <3>1. ~ (pos[n] <= l) BY <2>7, <2>9, <1>3
    <3>2. ~ d.ok BY <3>1, <2>7, <2>2
    <3>3. ~ (l = Len(e)) BY <2>9, <1>3
    <3> QED BY <3>2, <3>3 DEF d, l
  <2> QED BY <2>8, <2>9, <1>3
<1> QED BY <1>7, <1>8, <1>3

-----------------------------------------------------------------------------
(* Cutting and joining *)

Parts(s, a, b) ==
    /\ Len(s) = Len(a) + Len(b)
    /\ \A j \in 1..Len(a) : s[j] = a[j]
    /\ \A j \in 1..Len(b) : s[Len(a) + j] = b[j]

LEMMA ConcatParts ==
    ASSUME NEW S, NEW a \in Seq(S), NEW b \in Seq(S)
    PROVE  Parts(a \o b, a, b)
<1>1. \A s : s = a \o b => Parts(s, a, b) BY TwoParts DEF Parts
<1> QED BY <1>1

LEMMA SameParts ==
    ASSUME NEW S, NEW a \in Seq(S), NEW b \in Seq(S), NEW c \in Seq(S), NEW d \in Seq(S),
           NEW s, Parts(s, a, b), Parts(s, c, d), Len(a) = Len(c)
    PROVE  a = c /\ b = d
<1> DEFINE l == Len(a)
           m == Len(b)
           n == Len(d)
<1>1. /\ l \in Nat /\ m \in Nat /\ n \in Nat /\ Len(c) = l BY LenProperties
<1>2. /\ Len(s) = l + m /\ \A j \in 1..l : s[j] = a[j]
      /\ \A j \in 1..m : s[l + j] = b[j]
  BY DEF Parts
<1>3. /\ Len(s) = l + n /\ \A j \in 1..l : s[j] = c[j]
      /\ \A j \in 1..n : s[l + j] = d[j]
  BY <1>1 DEF Parts
<1> HIDE DEF l, m, n
<1>4. n = m BY <1>1, <1>2, <1>3
<1>5. \A j \in 1..l : a[j] = c[j] BY <1>2, <1>3
<1>6. \A j \in 1..m : b[j] = d[j] BY <1>2, <1>3, <1>4
<1>7. a = c BY <1>1, <1>5, SeqEqual DEF l
<1>8. b = d BY <1>4, <1>6, SeqEqual DEF m, n
<1> QED BY <1>7, <1>8

\* Equal strings have equal beginnings of the same length.
LEMMA Cancel ==
    ASSUME NEW S, NEW a \in Seq(S), NEW b \in Seq(S), NEW c \in Seq(S), NEW d \in Seq(S),
           a \o b = c \o d, Len(a) = Len(c)
    PROVE  a = c /\ b = d
<1>1. Parts(a \o b, a, b) /\ Parts(c \o d, c, d) BY ConcatParts
<1>2. PICK s : Parts(s, a, b) /\ Parts(s, c, d) BY <1>1
<1> QED BY <1>2, SameParts

\* A string is its first k bytes and the rest.
LEMMA SplitAt ==
    ASSUME NEW S, NEW s \in Seq(S), NEW k \in 0..Len(s)
    PROVE  /\ SubSeq(s, 1, k) \in Seq(S) /\ Len(SubSeq(s, 1, k)) = k
           /\ SubSeq(s, k + 1, Len(s)) \in Seq(S)
           /\ Len(SubSeq(s, k + 1, Len(s))) = Len(s) - k
           /\ s = SubSeq(s, 1, k) \o SubSeq(s, k + 1, Len(s))
<1> DEFINE l == Len(s)
<1>1. l \in Nat /\ k \in Nat /\ k <= l BY LenProperties
<1>2. \A i \in 1..l : s[i] \in S BY ElementOfSeq
<1>a. SubSeq(s, 1, l) = s BY SubSeqFull
<1>b. SubSeq(s, 1, k) \o SubSeq(s, k + 1, l) = SubSeq(s, 1, l)
  <2>1. 1 \in 1..(Len(s) + 1) /\ k \in (1 - 1)..Len(s) /\ l \in k..Len(s) BY <1>1
  <2> QED BY <2>1, ConcatAdjacentSubSeq
<1> HIDE DEF l
<1>3. SubSeq(s, 1, k) \in Seq(S) /\ Len(SubSeq(s, 1, k)) = k
  <2>1. \A i \in 1..k : s[i] \in S BY <1>1, <1>2
  <2>2. SubSeq(s, 1, k) \in Seq(S) /\ Len(SubSeq(s, 1, k)) = IF 1 <= k THEN k - 1 + 1 ELSE 0
    BY <2>1, <1>1, SubSeqProperties
  <2> QED BY <2>2, <1>1
<1>4. SubSeq(s, k + 1, l) \in Seq(S) /\ Len(SubSeq(s, k + 1, l)) = l - k
  <2>1. \A i \in (k + 1)..l : s[i] \in S BY <1>1, <1>2
  <2>2. k + 1 \in Int /\ l \in Int BY <1>1
  <2>3. SubSeq(s, k + 1, l) \in Seq(S)
        /\ Len(SubSeq(s, k + 1, l)) = IF k + 1 <= l THEN l - (k + 1) + 1 ELSE 0
    BY <2>1, <2>2, SubSeqProperties
  <2> QED BY <2>3, <1>1
<1> QED BY <1>3, <1>4, <1>a, <1>b DEF l

\* f and g are d, cut after k bytes.
Halves(f, g, d, k) == f = SubSeq(d, 1, k) /\ g = SubSeq(d, k + 1, Len(d))

LEMMA JoinThree ==
    ASSUME NEW S, NEW a \in Seq(S), NEW b \in Seq(S), NEW c \in Seq(S)
    PROVE  /\ (a \o b) \o c = a \o (b \o c)
           /\ a \o b \in Seq(S) /\ Len(a \o b) = Len(a) + Len(b)
BY ConcatAssociative, ConcatProperties

Joined(S, c, d, k) ==
    \E e \in Seq(S), f \in Seq(S), g \in Seq(S) :
       /\ Halves(f, g, d, k) /\ e = c \o f
       /\ e \o g = c \o d /\ Len(e) = Len(c) + k

LEMMA JoinHalves ==
    ASSUME NEW S, NEW c \in Seq(S), NEW d \in Seq(S), NEW k \in 0..Len(d)
    PROVE  Joined(S, c, d, k)
<1>1. PICK f \in Seq(S), g \in Seq(S) : Len(f) = k /\ d = f \o g /\ Halves(f, g, d, k)
  <2> DEFINE a == SubSeq(d, 1, k)
             b == SubSeq(d, k + 1, Len(d))
  <2>1. a \in Seq(S) /\ b \in Seq(S) /\ Len(a) = k /\ d = a \o b BY SplitAt
  <2>2. Halves(a, b, d, k) BY DEF Halves
  <2> HIDE DEF a, b
  <2> QED BY <2>1, <2>2, Zenon
<1> DEFINE e == c \o f
<1>3. e \in Seq(S) /\ e \o g = c \o (f \o g) /\ Len(e) = Len(c) + Len(f)
  <2>1. Assoc(c, f, g) BY ConcatAssoc
  <2>2. e \in Seq(S) /\ Len(e) = Len(c) + Len(f) BY ConcatProperties
  <2> QED BY <2>1, <2>2 DEF Assoc
<1>4. e = c \o f OBVIOUS
<1> HIDE DEF e
<1>5. e \o g = c \o d
  <2>1. c \o (f \o g) = c \o d BY <1>1, Zenon
  <2> QED BY <2>1, <1>3, Zenon
<1>6. Len(e) = Len(c) + k BY <1>1, <1>3
<1>7. e \in Seq(S) BY <1>3
<1> QED BY <1>1, <1>4, <1>5, <1>6, <1>7, Zenon DEF Joined

\* A string that ends inside of d.
EndsInside(a, b, c, d, k) == a = c \o SubSeq(d, 1, k) /\ b = SubSeq(d, k + 1, Len(d))

LEMMA Split ==
    ASSUME NEW S, NEW a \in Seq(S), NEW b \in Seq(S), NEW c \in Seq(S), NEW d \in Seq(S),
           a \o b = c \o d, NEW k \in 0..Len(d), Len(a) = Len(c) + k
    PROVE  EndsInside(a, b, c, d, k)
<1>1. PICK e \in Seq(S), f \in Seq(S), g \in Seq(S) :
         /\ Halves(f, g, d, k) /\ e = c \o f
         /\ e \o g = c \o d /\ Len(e) = Len(c) + k
  <2>1. Joined(S, c, d, k) BY JoinHalves
  <2> QED BY <2>1 DEF Joined
<1>2. e \o g = a \o b BY <1>1, Zenon
<1>3. Len(e) = Len(a) BY <1>1, Zenon
<1>4. e = a /\ g = b BY <1>2, <1>3, Cancel
<1>5. f = SubSeq(d, 1, k) /\ g = SubSeq(d, k + 1, Len(d)) BY <1>1 DEF Halves
<1> QED BY <1>1, <1>4, <1>5, Zenon DEF EndsInside

-----------------------------------------------------------------------------
(* Frames *)

LEMMA Sizes == /\ HeaderSize \in Nat /\ HeaderSize > 0 /\ SocketBuffer \in Nat
               /\ SocketBuffer > 0 /\ MaxMessages \in Nat
BY FramingAssumption

\* The header gives its number back.
LEMMA HeaderFacts ==
    ASSUME NEW n \in Nat
    PROVE  /\ encode_length(n) \in Seq(Byte) /\ Len(encode_length(n)) = HeaderSize
           /\ Fits(n, HeaderSize) => decode_length(encode_length(n)) = n
<1> DEFINE w == HeaderSize
           s == Put(n, w)
           h == [i \in 1..w |-> s[(w - i) + 1]]
<1>0. w \in Nat BY Sizes
<1>1. s \in Seq(Byte) /\ Len(s) = w BY <1>0, PutType
<1>2. encode_length(n) = h BY <1>1 DEF encode_length, Reverse
<1>3. ASSUME NEW i \in 1..w PROVE (w - i) + 1 \in 1..w /\ ((w - i) + 1) - 1 = w - i BY <1>0
<1>4. \A i \in 1..w : h[i] \in Byte /\ h[i] = Shifts(n, w)[w - i] % Base
  <2> TAKE i \in 1..w
  <2>1. h[i] = s[(w - i) + 1] OBVIOUS
  <2>2. s[(w - i) + 1] \in Byte BY <1>1, <1>3, ElementOfSeq
  <2>3. s[(w - i) + 1] = Shifts(n, w)[w - i] % Base BY <1>3 DEF Put
  <2> QED BY <2>1, <2>2, <2>3
<1>5. h \in [1..w -> Byte] BY <1>4
<1> HIDE DEF h
<1>6. h \in Seq(Byte) /\ Len(h) = w BY <1>0, <1>5, FcnIsSeq
<1>7. h \in Seq(Nat) BY <1>6, Bytes, SeqMonotonic
<1>8. Fits(n, w) => Number(h) = n BY <1>0, <1>4, <1>6, <1>7, NumberOfBytes
<1> QED BY <1>2, <1>6, <1>8 DEF decode_length

LEMMA DecodeLengthType ==
    ASSUME NEW h \in Seq(Byte)
    PROVE  decode_length(h) \in Nat
<1>1. h \in Seq(Nat) BY Bytes, SeqMonotonic
<1>2. Len(h) \in Nat BY LenProperties
<1>3. PICK n \in [0..Len(h) -> Nat] : Number(h) = n[Len(h)] BY <1>1, <1>2, NumberFacts
<1> QED BY <1>2, <1>3 DEF decode_length

\* Two lengths with the same header are equal.
LEMMA SameHeader ==
    ASSUME NEW m \in Nat, NEW n \in Nat, Fits(m, HeaderSize), Fits(n, HeaderSize),
           encode_length(m) = encode_length(n)
    PROVE  m = n
BY HeaderFacts

LEMMA EncodeFacts ==
    ASSUME NEW b \in Batches
    PROVE  /\ Encode(b) \in Seq(Byte) /\ Len(Encode(b)) \in Nat
           /\ Fits(Len(Encode(b)), HeaderSize)
           /\ b.kind # "raw" => IsBatch(b.kind, b.items)
                                /\ Encode(b) = EncodeBatch(b.kind, b.items)
<1>1. /\ IF b.kind = "raw" THEN b.items \in Seq(Byte) ELSE IsBatch(b.kind, b.items)
      /\ Fits(Len(Encode(b)), HeaderSize)
  BY BatchesAssumption
<1>2. Encode(b) \in Seq(Byte) BY <1>1, BatchFacts DEF Encode
<1> QED BY <1>1, <1>2, LenProperties DEF Encode

\* Messages, and a message on the wire.
Messages == {Encode(b) : b \in Batches}

LEMMA MessageFacts ==
    ASSUME NEW m \in Messages
    PROVE  /\ m \in Seq(Byte) /\ Len(m) \in Nat /\ Fits(Len(m), HeaderSize)
           /\ Framed(m) \in Seq(Byte) /\ Len(Framed(m)) = HeaderSize + Len(m)
<1>1. PICK b \in Batches : m = Encode(b) BY DEF Messages
<1>2. m \in Seq(Byte) /\ Len(m) \in Nat /\ Fits(Len(m), HeaderSize) BY <1>1, EncodeFacts
<1> DEFINE h == encode_length(Len(m))
<1>3. h \in Seq(Byte) /\ Len(h) = HeaderSize BY <1>2, HeaderFacts
<1> HIDE DEF h
<1>4. h \o m \in Seq(Byte) /\ Len(h \o m) = HeaderSize + Len(m) BY <1>2, <1>3, TwoParts
<1> QED BY <1>2, <1>4 DEF Framed, h

\* Messages in a row on the wire.
Frames(q) == [i \in DOMAIN q |-> Framed(q[i])]
RowOf(q) == FlattenSeq(Frames(q))

LEMMA FramesType ==
    ASSUME NEW q \in Seq(Messages)
    PROVE  /\ Frames(q) \in Seq(Seq(Byte)) /\ Len(Frames(q)) = Len(q) /\ Len(q) \in Nat
           /\ \A i \in 1..Len(q) : Frames(q)[i] = Framed(q[i])
<1>1. Len(q) \in Nat /\ DOMAIN q = 1..Len(q) BY LenProperties
<1>2. \A i \in 1..Len(q) : q[i] \in Messages BY ElementOfSeq
<1>3. \A i \in 1..Len(q) : Framed(q[i]) \in Seq(Byte) BY <1>2, MessageFacts
<1>4. Frames(q) \in [1..Len(q) -> Seq(Byte)] BY <1>1, <1>3 DEF Frames
<1>5. Frames(q) \in Seq(Seq(Byte)) /\ Len(Frames(q)) = Len(q) BY <1>1, <1>4, FcnIsSeq
<1>6. \A i \in 1..Len(q) : Frames(q)[i] = Framed(q[i]) BY <1>1 DEF Frames
<1> QED BY <1>1, <1>5, <1>6

LEMMA RowType ==
    ASSUME NEW q \in Seq(Messages)
    PROVE  RowOf(q) \in Seq(Byte)
BY FramesType, FlattenType DEF RowOf

LEMMA RowEmpty == RowOf(<< >>) = << >>
<1>1. Len(<< >>) = 0 /\ << >> \in Seq(Messages) BY EmptySeq
<1>2. Frames(<< >>) \in Seq(Seq(Byte)) /\ Len(Frames(<< >>)) = 0 BY <1>1, FramesType
<1>3. Frames(<< >>) = << >>
  <2>1. << >> \in Seq(Seq(Byte)) BY EmptySeq
  <2> QED BY <2>1, <1>2, EmptySeq
<1> QED BY <1>3, FlattenEmpty DEF RowOf

LEMMA RowHead ==
    ASSUME NEW q \in Seq(Messages), q # << >>
    PROVE  /\ Head(q) \in Messages /\ Tail(q) \in Seq(Messages)
           /\ RowOf(q) = Framed(Head(q)) \o RowOf(Tail(q))
<1> DEFINE m == Head(q)
           t == Tail(q)
           n == Len(t)
<1>1. /\ m \in Messages /\ m = q[1] /\ t \in Seq(Messages) /\ n = Len(q) - 1
      /\ \A i \in 1..n : t[i] = q[i + 1]
  BY HeadTailProperties
<1>2. Len(q) \in Nat /\ Len(q) # 0 BY EmptySeq
<1>3. n \in Nat /\ Len(q) = n + 1
  <2> DEFINE k == Len(q)
  <2>1. k \in Nat /\ k # 0 /\ n = k - 1 BY <1>1, <1>2
  <2> HIDE DEF k, n
  <2>2. n \in Nat /\ k = n + 1 BY <2>1
  <2> QED BY <2>2 DEF k
<1> HIDE DEF m, t, n
<1>4. /\ Frames(q) \in Seq(Seq(Byte)) /\ Len(Frames(q)) = n + 1
      /\ \A i \in 1..(n + 1) : Frames(q)[i] = Framed(q[i])
  BY <1>3, FramesType
<1>5. /\ Frames(t) \in Seq(Seq(Byte)) /\ Len(Frames(t)) = n
      /\ \A i \in 1..n : Frames(t)[i] = Framed(t[i])
  BY <1>1, FramesType DEF n
<1>6. Frames(q) # << >>
  <2>1. n + 1 # 0 BY <1>3
  <2> QED BY <2>1, <1>4, EmptySeq
<1>7. Head(Frames(q)) = Framed(m)
  <2>1. 1 \in 1..(n + 1) BY <1>3
  <2>2. Head(Frames(q)) = Frames(q)[1] BY <1>4, <1>6, FlattenHead
  <2> QED BY <2>1, <2>2, <1>1, <1>4
<1>8. Tail(Frames(q)) = Frames(t)
  <2>1. /\ Tail(Frames(q)) \in Seq(Seq(Byte)) /\ Len(Tail(Frames(q))) = (n + 1) - 1
        /\ \A i \in 1..Len(Tail(Frames(q))) : Tail(Frames(q))[i] = Frames(q)[i + 1]
    BY <1>4, <1>6, HeadTailProperties
  <2>2. Len(Tail(Frames(q))) = n BY <2>1, <1>3
  <2>3. ASSUME NEW i \in 1..n PROVE Tail(Frames(q))[i] = Frames(t)[i]
    <3>1. i + 1 \in 1..(n + 1) BY <1>3
    <3>2. Tail(Frames(q))[i] = Framed(q[i + 1]) BY <3>1, <2>1, <2>2, <1>4
    <3> QED BY <3>2, <1>1, <1>5
  <2> QED BY <2>1, <2>2, <2>3, <1>5, SeqEqual
<1>9. FlattenSeq(Frames(q)) = Head(Frames(q)) \o FlattenSeq(Tail(Frames(q)))
  BY <1>4, <1>6, FlattenHead
<1> QED BY <1>1, <1>7, <1>8, <1>9, Zenon DEF RowOf, m, t

LEMMA RowAppend ==
    ASSUME NEW q \in Seq(Messages), NEW m \in Messages
    PROVE  /\ Append(q, m) \in Seq(Messages)
           /\ RowOf(Append(q, m)) = RowOf(q) \o Framed(m)
<1> DEFINE t == Append(q, m)
           n == Len(q)
<1>1. /\ t \in Seq(Messages) /\ Len(t) = n + 1 /\ n \in Nat
      /\ t[n + 1] = m /\ \A i \in 1..n : t[i] = q[i]
  BY AppendProperties, LenProperties
<1>a. Framed(m) \in Seq(Byte) BY MessageFacts
<1> HIDE DEF t
<1>2. /\ Frames(q) \in Seq(Seq(Byte)) /\ Len(Frames(q)) = n
      /\ \A i \in 1..n : Frames(q)[i] = Framed(q[i])
  BY FramesType
<1>3. /\ Frames(t) \in Seq(Seq(Byte)) /\ Len(Frames(t)) = n + 1
      /\ \A i \in 1..(n + 1) : Frames(t)[i] = Framed(t[i])
  BY <1>1, FramesType
<1> HIDE DEF n
<1> DEFINE u == Append(Frames(q), Framed(m))
<1>4. /\ u \in Seq(Seq(Byte)) /\ Len(u) = n + 1 /\ u[n + 1] = Framed(m)
      /\ \A i \in 1..n : u[i] = Frames(q)[i]
  BY <1>2, <1>a, AppendProperties
<1>a5. FlattenSeq(u) = FlattenSeq(Frames(q)) \o Framed(m) BY <1>2, <1>a, FlattenAppend
<1> HIDE DEF u
<1>5. Frames(t) = u
  <2>1. ASSUME NEW i \in 1..(n + 1) PROVE Frames(t)[i] = u[i]
    <3>1. CASE i = n + 1 BY <3>1, <1>1, <1>3, <1>4
    <3>2. CASE i # n + 1
      <4>1. i \in 1..n BY <3>2, <1>1
      <4> QED BY <4>1, <1>1, <1>2, <1>3, <1>4
    <3> QED BY <3>1, <3>2
  <2> QED BY <2>1, <1>3, <1>4, SeqEqual
<1> QED BY <1>1, <1>5, <1>a5 DEF RowOf, t

-----------------------------------------------------------------------------
(* What is under way *)

\* The part of a message that a sender has written when it ends.
Fragment(f) ==
    \E m \in Messages : \E n \in 1..(HeaderSize + Len(m) - 1) : f = SubSeq(Framed(m), 1, n)

\* The bytes of the messages in q, and nothing more unless the sender was cut off.
Holds(stream, q, snd) ==
    \/ stream = RowOf(q) /\ snd # "cut"
    \/ /\ snd \in {"cut", "reset"}
       /\ \E f : Fragment(f) /\ stream = RowOf(q) \o f

\* f is a proper beginning of the message m on the wire, x the rest.
Starts(f, m, x) ==
    /\ f \in Seq(Byte) /\ x \in Seq(Byte) /\ Framed(m) = f \o x
    /\ f # << >> /\ Len(f) < HeaderSize + Len(m)

LEMMA FragmentFacts ==
    ASSUME NEW f, Fragment(f)
    PROVE  \E m \in Messages : \E x : Starts(f, m, x)
<1>1. PICK m \in Messages : \E n \in 1..(HeaderSize + Len(m) - 1) :
         f = SubSeq(Framed(m), 1, n)
  BY DEF Fragment
<1>2. PICK n \in 1..(HeaderSize + Len(m) - 1) : f = SubSeq(Framed(m), 1, n) BY <1>1
<1>3. /\ Len(m) \in Nat /\ Framed(m) \in Seq(Byte) /\ Len(Framed(m)) = HeaderSize + Len(m)
      /\ HeaderSize \in Nat
  BY MessageFacts, Sizes
<1> DEFINE l == Len(m)
           s == Framed(m)
           x == SubSeq(s, n + 1, Len(s))
<1>4. n \in Nat /\ n # 0 /\ n <= HeaderSize + l - 1 /\ l \in Nat
  BY <1>3
<1>5. n \in 0..Len(s) /\ n < HeaderSize + l
  <2>1. n <= HeaderSize + l /\ n < HeaderSize + l
    <3> HIDE DEF l
    <3> QED BY <1>3, <1>4
  <2> QED BY <2>1, <1>3, <1>4
<1>6. f \in Seq(Byte) /\ Len(f) = n /\ x \in Seq(Byte) /\ s = f \o x
  BY <1>2, <1>3, <1>5, SplitAt
<1>7. f # << >> BY <1>4, <1>6, EmptySeq
<1>8. Starts(f, m, x) BY <1>5, <1>6, <1>7 DEF Starts
<1> QED BY <1>8

\* The stream begins with the message m, of which x is still missing; y follows.
AtFront(s, q, snd, m, x, y) ==
    /\ x \in Seq(Byte) /\ y \in Seq(Byte) /\ s \o x = Framed(m) \o y
    /\ \/ q # << >> /\ m = Head(q) /\ x = << >> /\ Holds(y, Tail(q), snd)
       \/ q = << >> /\ snd \in {"cut", "reset"} /\ Len(s) < HeaderSize + Len(m)

LEMMA FrontFacts ==
    ASSUME NEW q \in Seq(Messages), NEW snd, NEW s \in Seq(Byte), Holds(s, q, snd)
    PROVE  /\ s # << >> => \E m \in Messages : \E x, y : AtFront(s, q, snd, m, x, y)
           /\ s = << >> => q = << >> /\ snd # "cut"
<1> DEFINE m == Head(q)
           r == RowOf(Tail(q))
<1>1. ASSUME q # << >>
      PROVE  /\ m \in Messages /\ r \in Seq(Byte) /\ RowOf(q) = Framed(m) \o r
             /\ Framed(m) \in Seq(Byte) /\ Framed(m) # << >>
  <2>1. m \in Messages /\ Tail(q) \in Seq(Messages) /\ RowOf(q) = Framed(m) \o r
    BY <1>1, RowHead
  <2>2. r \in Seq(Byte) BY <2>1, RowType
  <2>3. Framed(m) \in Seq(Byte) /\ Len(Framed(m)) = HeaderSize + Len(m) /\ Len(m) \in Nat
    BY <2>1, MessageFacts
  <2>4. HeaderSize + Len(m) # 0
    <3> DEFINE l == Len(m)
    <3>1. l \in Nat BY <2>3
    <3> HIDE DEF l
    <3>2. HeaderSize + l # 0 BY <3>1, Sizes
    <3> QED BY <3>2 DEF l
  <2>5. Framed(m) # << >> BY <2>3, <2>4, EmptySeq
  <2> QED BY <2>1, <2>2, <2>3, <2>5
<1>2. << >> \in Seq(Byte) BY EmptySeq
<1>3. CASE s = RowOf(q) /\ snd # "cut"
  <2>1. CASE q = << >>
    <3>1. s = << >> BY <1>3, <2>1, RowEmpty
    <3> QED BY <3>1, <2>1, <1>3
  <2>2. CASE q # << >>
    <3> HIDE DEF m, r
    <3>1. s = Framed(m) \o r /\ m \in Messages /\ r \in Seq(Byte)
          /\ Framed(m) \in Seq(Byte) /\ Framed(m) # << >>
      BY <1>1, <1>3, <2>2
    <3>2. s \o << >> = s BY ConcatEmptySeq
    <3>3. s # << >> BY <3>1, ConcatEqualIffEmpty
    <3>4. Holds(r, Tail(q), snd) BY <1>3 DEF Holds, r
    <3>5. s \o << >> = Framed(m) \o r BY <3>1, <3>2, Zenon
    <3>6. AtFront(s, q, snd, m, << >>, r)
      BY <3>1, <3>4, <3>5, <2>2, <1>2, Zenon DEF AtFront, m
    <3> QED BY <3>1, <3>3, <3>6, Zenon
  <2> QED BY <2>1, <2>2
<1>4. ASSUME NEW f, Fragment(f), s = RowOf(q) \o f, snd \in {"cut", "reset"}
      PROVE  s # << >> /\ \E n \in Messages : \E x, y : AtFront(s, q, snd, n, x, y)
  <2>1. PICK n \in Messages : \E x : Starts(f, n, x) BY <1>4, FragmentFacts
  <2>2. PICK x : Starts(f, n, x) BY <2>1
  <2>3. f \in Seq(Byte) /\ x \in Seq(Byte) /\ Framed(n) = f \o x /\ f # << >>
        /\ Len(f) < HeaderSize + Len(n)
    BY <2>2 DEF Starts
  <2>4. RowOf(q) \in Seq(Byte) BY RowType
  <2>5. s # << >> BY <2>3, <2>4, <1>4, ConcatEqualIffEmpty
  <2>6. CASE q = << >>
    <3>1. s = f
      <4>1. RowOf(q) = << >> BY <2>6, RowEmpty
      <4>2. << >> \o f = f BY <2>3, ConcatEmptySeq
      <4> QED BY <4>1, <4>2, <1>4, Zenon
    <3>2. Framed(n) \in Seq(Byte) BY MessageFacts
    <3>3. Framed(n) \o << >> = Framed(n) BY <3>2, ConcatEmptySeq
    <3>4. s \o x = Framed(n) \o << >> BY <3>1, <3>3, <2>3, Zenon
    <3>5. AtFront(s, q, snd, n, x, << >>)
      BY <3>1, <3>4, <2>3, <2>6, <1>2, <1>4, Zenon DEF AtFront
    <3> QED BY <3>5, <2>5
  <2>7. CASE q # << >>
    <3> HIDE DEF m, r
    <3>1. m \in Messages /\ r \in Seq(Byte) /\ RowOf(q) = Framed(m) \o r
          /\ Framed(m) \in Seq(Byte)
      BY <1>1, <2>7
    <3> DEFINE y == r \o f
    <3>a. r \in Seq(Byte) /\ f \in Seq(Byte) /\ Framed(m) \in Seq(Byte) BY <3>1, <2>3
    <3>2. y \in Seq(Byte) /\ (Framed(m) \o r) \o f = Framed(m) \o y
      BY <3>a, JoinThree
    <3>3. Holds(y, Tail(q), snd) BY <1>4 DEF Holds, r
    <3> HIDE DEF y
    <3>4. s \o << >> = s BY ConcatEmptySeq
    <3>5. s \o << >> = Framed(m) \o y BY <3>1, <3>2, <3>4, <1>4, Zenon
    <3>6. AtFront(s, q, snd, m, << >>, y)
      BY <3>1, <3>2, <3>3, <3>5, <2>7, <1>2, Zenon DEF AtFront, m
    <3> QED BY <3>1, <3>6, <2>5, Zenon
  <2> QED BY <2>6, <2>7
<1>5. CASE snd \in {"cut", "reset"} /\ \E f : Fragment(f) /\ s = RowOf(q) \o f
  <2>1. PICK f : Fragment(f) /\ s = RowOf(q) \o f BY <1>5
  <2> QED BY <2>1, <1>4, <1>5
<1> QED BY <1>3, <1>5 DEF Holds

-----------------------------------------------------------------------------
(* The state *)

LEMMA TakenType ==
    ASSUME NEW n \in Nat, NEW b \in Seq(Byte)
    PROVE  /\ encode_length(n) \o b \in Seq(Byte)
           /\ Len(encode_length(n) \o b) = HeaderSize + Len(b)
<1>1. encode_length(n) \in Seq(Byte) /\ Len(encode_length(n)) = HeaderSize BY HeaderFacts
<1> QED BY <1>1, ConcatProperties

LEMMA StreamType ==
    ASSUME TypeOK
    PROVE  /\ Taken \in Seq(Byte) /\ wire \in Seq(Byte) /\ Unsent \in Seq(Byte)
           /\ Taken \o wire \in Seq(Byte) /\ Stream \in Seq(Byte)
           /\ wire \o Unsent \in Seq(Byte) /\ Stream = Taken \o (wire \o Unsent)
<1>1. Taken \in Seq(Byte) BY TakenType DEF Taken, TypeOK
<1>2. wire \in Seq(Byte) BY DEF TypeOK
<1>3. Unsent \in Seq(Byte) BY FlattenType DEF Unsent, TypeOK
<1> DEFINE a == Taken
           b == wire
           c == Unsent
<1>4. a \in Seq(Byte) /\ b \in Seq(Byte) /\ c \in Seq(Byte) BY <1>1, <1>2, <1>3
<1>5. Stream = (a \o b) \o c BY DEF Stream
<1> HIDE DEF a, b, c
<1>6. a \o b \in Seq(Byte) /\ b \o c \in Seq(Byte) /\ (a \o b) \o c = a \o (b \o c)
  BY <1>4, JoinThree
<1>7. (a \o b) \o c \in Seq(Byte) BY <1>4, <1>6, ConcatProperties
<1> QED BY <1>4, <1>5, <1>6, <1>7, Zenon DEF a, b, c

LEMMA LenFacts ==
    ASSUME TypeOK
    PROVE  Len(begun) \in Nat /\ Len(received) \in Nat /\ Len(buf) \in Nat /\ Len(out) \in Nat
           /\ Len(wire) \in Nat /\ Unwritten \in Nat
<1>1. Len(Unsent) \in Nat BY StreamType, LenProperties
<1> QED BY <1>1, LenProperties DEF TypeOK, Unwritten

\* The messages under way, for histories b and r.
QueueOf(b, r) == [i \in 1..(Len(b) - Len(r)) |-> Encode(b[Len(r) + i])]

LEMMA QueueFacts ==
    ASSUME NEW T, NEW b \in Seq(Batches), NEW r \in Seq(T), Len(r) <= Len(b)
    PROVE  /\ QueueOf(b, r) \in Seq(Messages) /\ Len(QueueOf(b, r)) = Len(b) - Len(r)
           /\ Len(b) \in Nat /\ Len(r) \in Nat
           /\ \A i \in 1..(Len(b) - Len(r)) :
                 QueueOf(b, r)[i] = Encode(b[Len(r) + i]) /\ b[Len(r) + i] \in Batches
<1> DEFINE m == Len(b)
           k == Len(r)
           n == m - k
           q == [i \in 1..n |-> Encode(b[k + i])]
<1>1. m \in Nat /\ k \in Nat /\ k <= m BY LenProperties
<1>2. n \in Nat
  <2> HIDE DEF m, k
  <2> QED BY <1>1
<1>3. ASSUME NEW i \in 1..n PROVE b[k + i] \in Batches /\ Encode(b[k + i]) \in Messages
  <2>1. k + i \in 1..m
    <3> HIDE DEF m, k
    <3> QED BY <1>1
  <2>2. b[k + i] \in Batches BY <2>1, ElementOfSeq
  <2> QED BY <2>2 DEF Messages
<1>4. q \in [1..n -> Messages] BY <1>3
<1>5. \A i \in 1..n : q[i] = Encode(b[k + i]) OBVIOUS
<1>6. QueueOf(b, r) = q BY DEF QueueOf
<1> HIDE DEF q, n
<1>7. q \in Seq(Messages) /\ Len(q) = n BY <1>2, <1>4, FcnIsSeq
<1> QED BY <1>1, <1>3, <1>5, <1>6, <1>7 DEF n

LEMMA QueueIs ==
    /\ receiver # "gone" => Queue = QueueOf(begun, received)
    /\ receiver' # "gone" => Queue' = QueueOf(begun', received')
    /\ receiver = "gone" => Queue = << >>
    /\ receiver' = "gone" => Queue' = << >>
BY DEF Queue, QueueOf

\* The messages in q and a fragment, as CutOff has them and as Holds has them.
CutA(s, q) == \E b \in Batches : \E n \in 1..(HeaderSize + Len(Encode(b)) - 1) :
                 s = RowOf(q) \o SubSeq(Framed(Encode(b)), 1, n)
CutB(s, q) == \E f : Fragment(f) /\ s = RowOf(q) \o f

LEMMA CutIs ==
    ASSUME NEW s, NEW q
    PROVE  CutA(s, q) <=> CutB(s, q)
BY DEF Fragment, Messages, CutA, CutB

LEMMA StreamIs ==
    /\ (Whole \/ CutOff) <=> Holds(Stream, Queue, sender)
    /\ (Whole \/ CutOff)' <=> Holds(Stream', Queue', sender')
<1>1. Row = RowOf(Queue) /\ Row' = RowOf(Queue') BY DEF Row, RowOf, Frames
<1>2. CutOff <=> sender \in {"cut", "reset"} /\ CutB(Stream, Queue)
  <2>1. CutOff <=> sender \in {"cut", "reset"} /\ CutA(Stream, Queue)
    BY <1>1, Zenon DEF CutOff, CutA
  <2>2. CutA(Stream, Queue) <=> CutB(Stream, Queue) BY CutIs
  <2> QED BY <2>1, <2>2
<1>3. CutOff' <=> sender' \in {"cut", "reset"} /\ CutB(Stream', Queue')
  <2>1. CutOff' <=> sender' \in {"cut", "reset"} /\ CutA(Stream', Queue')
    BY <1>1, Zenon DEF CutOff, CutA
  <2>2. CutA(Stream', Queue') <=> CutB(Stream', Queue') BY CutIs
  <2> QED BY <2>1, <2>2
<1>4. Whole <=> Stream = RowOf(Queue) /\ sender # "cut" BY <1>1, Zenon DEF Whole
<1>5. Whole' <=> Stream' = RowOf(Queue') /\ sender' # "cut" BY <1>1, Zenon DEF Whole
<1> QED BY <1>2, <1>3, <1>4, <1>5 DEF Holds, CutB

-----------------------------------------------------------------------------
(* Sending keeps the invariant *)

LEMMA KeepStream ==
    ASSUME IInv, Live, Stream' = Stream, Queue' = Queue,
           sender' = sender \/ (sender \in {"idle", "sending"} /\ sender' # "cut")
    PROVE  (Whole \/ CutOff)'
<1>1. Holds(Stream, Queue, sender) BY StreamIs DEF IInv, StreamInv
<1>2. Holds(Stream, Queue, sender') BY <1>1 DEF Holds
<1> QED BY <1>2, StreamIs

\* Bytes that move from what is unsent into the socket.
Moved(t, w, a, z, u) == (t \o w) \o ((a \o z) \o u) = (t \o (w \o a)) \o (z \o u)

LEMMA Move ==
    ASSUME NEW S, NEW t \in Seq(S), NEW w \in Seq(S), NEW a \in Seq(S), NEW z \in Seq(S),
           NEW u \in Seq(S)
    PROVE  Moved(t, w, a, z, u)
<1> DEFINE v == z \o u
           tw == t \o w
<1>0. v \in Seq(S) /\ tw \in Seq(S) BY ConcatProperties
<1>1. Assoc(a, z, u) BY ConcatAssoc
<1>2. Assoc(t, w, a) BY ConcatAssoc
<1> HIDE DEF v, tw
<1>3. Assoc(tw, a, v) BY <1>0, ConcatAssoc
<1> QED BY <1>1, <1>2, <1>3, Zenon DEF Assoc, Moved, v, tw

LEMMA WriteStep ==
    ASSUME IInv, NEW n \in Amount, Write(n)
    PROVE  IInv'
<1> DEFINE h == Head(out)
           t == Tail(out)
           u == FlattenSeq(t)
           a == SubSeq(h, 1, n)
           z == SubSeq(h, n + 1, Len(h))
<1>0. /\ TypeOK /\ StreamInv /\ HistoryInv /\ SendInv /\ EndInv BY DEF IInv
<1>a. /\ sender = "sending" /\ out # << >> /\ receiver # "gone"
      /\ n <= Len(h) /\ n <= SocketBuffer - Len(wire)
      /\ wire' = wire \o a /\ out' = [out EXCEPT ![1] = SubSeq(@, n + 1, Len(@))]
      /\ UNCHANGED <<sender, begun, receiver, len, buf, received>>
  BY DEF Write
<1>1. out \in Seq(Seq(Byte)) BY <1>0 DEF TypeOK
<1>2. /\ h = out[1] /\ h \in Seq(Byte) /\ t \in Seq(Seq(Byte)) /\ Unsent = h \o u
  BY <1>1, <1>a, FlattenHead DEF Unsent
<1>3. u \in Seq(Byte) BY <1>2, FlattenType
<1>4. n \in Nat /\ n > 0 /\ n \in 0..Len(h)
  <2>1. Len(h) \in Nat BY <1>2, LenProperties
  <2> QED BY <2>1, <1>a, Sizes DEF Amount
<1>5. a \in Seq(Byte) /\ z \in Seq(Byte) /\ h = a \o z /\ Len(a) = n BY <1>2, <1>4, SplitAt
<1> HIDE DEF a, h, t, u
<1>6. 1 \in 1..Len(out)
  <2>1. Len(out) \in Nat /\ Len(out) # 0 BY <1>1, <1>a, EmptySeq
  <2> QED BY <2>1
<1>7. out' = [out EXCEPT ![1] = z]
  <2>1. out' = [out EXCEPT ![1] = SubSeq(out[1], n + 1, Len(out[1]))] BY <1>a
  <2> QED BY <2>1, <1>2
<1> HIDE DEF z
<1>8. /\ out' \in Seq(Seq(Byte)) /\ Len(out') = Len(out) /\ out'[1] = z
      /\ \A j \in 1..Len(out) : j # 1 => out'[j] = out[j]
  BY <1>1, <1>5, <1>6, <1>7, ExceptSeq
<1>9. out' # << >>
  <2>1. Len(out') # 0 BY <1>6, <1>8
  <2> QED BY <2>1, EmptySeq
<1>10. Head(out') = z BY <1>8, <1>9, FlattenHead
<1>11. Tail(out') = t
  <2> DEFINE o == out'
             v == Tail(o)
             k == Len(out)
  <2>1. /\ v \in Seq(Seq(Byte)) /\ Len(v) = k - 1
        /\ \A i \in 1..Len(v) : v[i] = o[i + 1]
    BY <1>8, <1>9, HeadTailProperties
  <2>2. /\ t \in Seq(Seq(Byte)) /\ Len(t) = k - 1 /\ \A i \in 1..Len(t) : t[i] = out[i + 1]
    BY <1>1, <1>a, HeadTailProperties DEF t
  <2>a. k \in Nat BY <1>1, LenProperties
  <2> HIDE DEF v, k
  <2>3. ASSUME NEW i \in 1..(k - 1) PROVE v[i] = t[i]
    <3>1. i + 1 \in 1..k /\ i + 1 # 1 BY <2>a
    <3> QED BY <3>1, <2>1, <2>2, <1>8 DEF k
  <2>4. v = t BY <2>1, <2>2, <2>3, SeqEqual
  <2> QED BY <2>4 DEF v
<1>12. Unsent' = z \o u
  <2>1. FlattenSeq(out') = Head(out') \o FlattenSeq(Tail(out')) BY <1>8, <1>9, FlattenHead
  <2>2. Unsent' = FlattenSeq(out') BY DEF Unsent
  <2> QED BY <2>1, <2>2, <1>10, <1>11, Zenon DEF u
<1>13. Taken \in Seq(Byte) /\ wire \in Seq(Byte) /\ Len(wire) \in Nat
  BY <1>0, StreamType, LenFacts
<1>14. wire' \in Seq(Byte) /\ Len(wire') = Len(wire) + n
  <2>1. wire \o a \in Seq(Byte) /\ Len(wire \o a) = Len(wire) + Len(a)
    BY <1>5, <1>13, ConcatProperties
  <2> QED BY <2>1, <1>5, <1>a
<1>15. Stream' = Stream
  <2>1. Taken' = Taken BY <1>a DEF Taken
  <2>2. Stream' = (Taken \o (wire \o a)) \o (z \o u)
    BY <2>1, <1>12, <1>a, Zenon DEF Stream
  <2>3. Stream = (Taken \o wire) \o ((a \o z) \o u) BY <1>2, <1>5, Zenon DEF Stream
  <2> DEFINE tk == Taken
  <2>4. tk \in Seq(Byte) /\ wire \in Seq(Byte) /\ a \in Seq(Byte) /\ z \in Seq(Byte)
        /\ u \in Seq(Byte)
    BY <1>3, <1>5, <1>13
  <2> HIDE DEF tk
  <2>5. Moved(tk, wire, a, z, u) BY <2>4, Move
  <2> QED BY <2>2, <2>3, <2>5, Zenon DEF Moved, tk
<1>16. Unwritten' \in Nat /\ Unwritten' <= Unwritten
  <2>1. Unwritten' = Len(z \o u) BY <1>12 DEF Unwritten
  <2>2. Unwritten = Len((a \o z) \o u) BY <1>2, <1>5 DEF Unwritten
  <2>a. a \in Seq(Byte) /\ z \in Seq(Byte) /\ u \in Seq(Byte) BY <1>3, <1>5
  <2>b. z \o u \in Seq(Byte) BY <2>a, ConcatProperties
  <2>c. Assoc(a, z, u) BY <2>a, ConcatAssoc
  <2>3. (a \o z) \o u = a \o (z \o u) /\ z \o u \in Seq(Byte)
    BY <2>b, <2>c, Zenon DEF Assoc
  <2>4. Len(a \o (z \o u)) = Len(a) + Len(z \o u) /\ Len(z \o u) \in Nat
    BY <2>3, <1>5, ConcatProperties, LenProperties
  <2>d. Unwritten = Len(a) + Len(z \o u) BY <2>2, <2>3, <2>4, Zenon
  <2>5. Unwritten = n + Unwritten' /\ Unwritten' \in Nat
    BY <2>1, <2>d, <2>4, <1>5, Zenon
  <2> DEFINE x == Unwritten
             y == Unwritten'
  <2>6. x = n + y /\ y \in Nat /\ n \in Nat BY <2>5, <1>4
  <2> HIDE DEF x, y
  <2>7. y <= x BY <2>6
  <2> QED BY <2>5, <2>7 DEF x, y
<1>17. Queue' = Queue BY <1>a DEF Queue
<1>18. TypeOK'
  <2>1. Len(wire') <= SocketBuffer BY <1>13, <1>14, <1>4, <1>a, Sizes
  <2> QED BY <2>1, <1>0, <1>8, <1>14, <1>a DEF TypeOK
<1>19. StreamInv'
  <2>1. Live => (Whole \/ CutOff)' BY <1>15, <1>17, <1>a, KeepStream
  <2>2. Live' <=> Live BY <1>a DEF Live
  <2> QED BY <2>1, <2>2, <1>0, <1>a DEF StreamInv
<1>20. HistoryInv'
  <2>1. Unwritten' > 0 => Unwritten > 0 BY <1>0, <1>16, LenFacts
  <2> QED BY <2>1, <1>0, <1>a DEF HistoryInv
<1>21. SendInv'
  <2>1. sender' = "sending" <=> out' # << >> BY <1>9, <1>a
  <2>2. Len(begun') > 0 BY <1>0, <1>a DEF SendInv
  <2>3. begun' = begun BY <1>a
  <2> DEFINE total == HeaderSize + Len(Encode(begun[Len(begun)]))
  <2>4. Unwritten <= total BY <1>0, <1>a DEF SendInv
  <2>5. total \in Nat
    <3>1. Len(begun) \in 1..Len(begun)
      <4>1. Len(begun) > 0 /\ Len(begun) \in Nat BY <1>0, <1>a, LenFacts DEF SendInv
      <4> QED BY <4>1
    <3>2. begun[Len(begun)] \in Batches BY <3>1, <1>0, ElementOfSeq DEF TypeOK
    <3> QED BY <3>2, EncodeFacts, Sizes
  <2> HIDE DEF total
  <2>6. Unwritten' <= total BY <2>4, <2>5, <1>16, <1>0, LenFacts
  <2> QED BY <2>1, <2>2, <2>3, <2>6 DEF SendInv, total
<1>22. EndInv' BY <1>0, <1>a DEF EndInv, Ended
<1> QED BY <1>18, <1>19, <1>20, <1>21, <1>22 DEF IInv

LEMMA FlattenOne ==
    ASSUME NEW S, NEW a \in Seq(S)
    PROVE  FlattenSeq(<<a>>) = a
<1>1. << >> \in Seq(Seq(S)) /\ << >> \in Seq(S) BY EmptySeq
<1>2. Append(<< >>, a) = <<a>> OBVIOUS
<1>3. FlattenSeq(Append(<< >>, a)) = FlattenSeq(<< >>) \o a BY <1>1, FlattenAppend
<1>4. << >> \o a = a BY ConcatEmptySeq
<1> QED BY <1>2, <1>3, <1>4, FlattenEmpty, Zenon

LEMMA FlattenTwo ==
    ASSUME NEW S, NEW a \in Seq(S), NEW b \in Seq(S)
    PROVE  FlattenSeq(<<a, b>>) = a \o b /\ <<a, b>> \in Seq(Seq(S))
<1>1. <<a, b>> \in Seq(Seq(S)) OBVIOUS
<1>2. <<a, b>> # << >> /\ Head(<<a, b>>) = a /\ Tail(<<a, b>>) = <<b>> OBVIOUS
<1>3. FlattenSeq(<<a, b>>) = Head(<<a, b>>) \o FlattenSeq(Tail(<<a, b>>))
  BY <1>1, <1>2, FlattenHead
<1>4. FlattenSeq(<<b>>) = b BY FlattenOne
<1> QED BY <1>1, <1>2, <1>3, <1>4, Zenon

LEMMA QueueAppend ==
    ASSUME NEW T, NEW b \in Seq(Batches), NEW r \in Seq(T), Len(r) <= Len(b),
           NEW x \in Batches
    PROVE  QueueOf(Append(b, x), r) = Append(QueueOf(b, r), Encode(x))
<1> DEFINE c == Append(b, x)
           k == Len(r)
           n == Len(b) - k
           q == QueueOf(b, r)
           p == QueueOf(c, r)
           m == Encode(x)
           a == Append(q, m)
<1>1. /\ q \in Seq(Messages) /\ Len(q) = n /\ Len(b) \in Nat /\ k \in Nat
      /\ \A i \in 1..n : q[i] = Encode(b[k + i])
  BY QueueFacts
<1>2. /\ c \in Seq(Batches) /\ Len(c) = Len(b) + 1 /\ c[Len(b) + 1] = x
      /\ \A i \in 1..Len(b) : c[i] = b[i]
  BY AppendProperties
<1>3. Len(r) <= Len(c)
  <2> DEFINE l == Len(b)
  <2>1. l \in Nat /\ k \in Nat /\ k <= l /\ Len(c) = l + 1 BY <1>1, <1>2
  <2> HIDE DEF l, k, c
  <2>2. k <= l + 1 BY <2>1
  <2> QED BY <2>1, <2>2 DEF k
<1> HIDE DEF c
<1>4. /\ p \in Seq(Messages) /\ Len(p) = Len(c) - k
      /\ \A i \in 1..(Len(c) - k) : p[i] = Encode(c[k + i])
  BY <1>2, <1>3, QueueFacts
<1>5. m \in Messages BY DEF Messages
<1> HIDE DEF q, p, m
<1>6. a \in Seq(Messages) /\ Len(a) = n + 1 /\ a[n + 1] = m /\ \A i \in 1..n : a[i] = q[i]
  BY <1>1, <1>5, AppendProperties
<1> HIDE DEF a
<1>7. n \in Nat /\ Len(c) - k = n + 1 /\ k + (n + 1) = Len(b) + 1
  <2> DEFINE l == Len(b)
  <2>1. l \in Nat /\ k \in Nat /\ k <= l /\ Len(c) = l + 1 /\ n = l - k BY <1>1, <1>2
  <2> HIDE DEF l, k, n
  <2>2. n \in Nat /\ (l + 1) - k = n + 1 /\ k + (n + 1) = l + 1 BY <2>1
  <2> QED BY <2>1, <2>2 DEF l
<1> HIDE DEF n
<1>8. ASSUME NEW i \in 1..(n + 1) PROVE p[i] = a[i]
  <2>1. p[i] = Encode(c[k + i]) BY <1>4, <1>7
  <2>2. CASE i = n + 1 BY <2>1, <2>2, <1>2, <1>6, <1>7 DEF m
  <2>3. CASE i # n + 1
    <3>1. i \in 1..n BY <2>3, <1>7
    <3>2. k + i \in 1..Len(b)
      <4> DEFINE l == Len(b)
      <4>1. l \in Nat /\ k \in Nat /\ k + (n + 1) = l + 1 BY <1>1, <1>7
      <4> HIDE DEF l, k
      <4>2. k + i \in 1..l BY <4>1, <3>1, <1>7
      <4> QED BY <4>2 DEF l
    <3> QED BY <2>1, <3>1, <3>2, <1>1, <1>2, <1>6
  <2> QED BY <2>2, <2>3
<1>9. p = a BY <1>4, <1>6, <1>7, <1>8, SeqEqual
<1> QED BY <1>9 DEF p, a, c, m, q

LEMMA QueueTail ==
    ASSUME NEW T, NEW b \in Seq(Batches), NEW r \in Seq(T), Len(r) < Len(b), NEW x \in T
    PROVE  /\ QueueOf(b, r) # << >> /\ Head(QueueOf(b, r)) = Encode(b[Len(r) + 1])
           /\ b[Len(r) + 1] \in Batches
           /\ QueueOf(b, Append(r, x)) = Tail(QueueOf(b, r))
<1> DEFINE s == Append(r, x)
           k == Len(r)
           n == Len(b) - k
           q == QueueOf(b, r)
           p == QueueOf(b, s)
<1>0. Len(b) \in Nat /\ k \in Nat /\ k < Len(b) BY LenProperties
<1>a. Len(r) <= Len(b) /\ n \in Nat /\ n # 0 /\ k + 1 <= Len(b) /\ Len(b) - (k + 1) = n - 1
  <2> DEFINE l == Len(b)
  <2>1. l \in Nat /\ k \in Nat /\ k < l /\ n = l - k BY <1>0
  <2> HIDE DEF l, k, n
  <2>2. k <= l /\ n \in Nat /\ n # 0 /\ k + 1 <= l /\ l - (k + 1) = n - 1 BY <2>1
  <2> QED BY <2>2 DEF l, k
<1>1. /\ q \in Seq(Messages) /\ Len(q) = n
      /\ \A i \in 1..n : q[i] = Encode(b[k + i]) /\ b[k + i] \in Batches
  BY <1>a, QueueFacts
<1>2. s \in Seq(T) /\ Len(s) = k + 1 BY AppendProperties
<1>3. Len(s) <= Len(b) BY <1>a, <1>2
<1> HIDE DEF s
<1>4. /\ p \in Seq(Messages) /\ Len(p) = Len(b) - Len(s)
      /\ \A i \in 1..(Len(b) - Len(s)) : p[i] = Encode(b[Len(s) + i])
  BY <1>2, <1>3, QueueFacts
<1> HIDE DEF q, p
<1>5. Len(p) = n - 1 /\ \A i \in 1..(n - 1) : p[i] = Encode(b[(k + 1) + i])
  BY <1>2, <1>4, <1>a
<1> HIDE DEF n, k
<1>6. q # << >> BY <1>1, <1>a, EmptySeq
<1> DEFINE t == Tail(q)
<1>7. /\ t \in Seq(Messages) /\ Len(t) = n - 1 /\ \A i \in 1..(n - 1) : t[i] = q[i + 1]
  BY <1>1, <1>6, HeadTailProperties
<1>8. Head(q) = q[1] BY <1>6
<1>9. 1 \in 1..n BY <1>a
<1> HIDE DEF t
<1>10. ASSUME NEW i \in 1..(n - 1) PROVE p[i] = t[i]
  <2>1. i + 1 \in 1..n /\ (k + 1) + i = k + (i + 1) BY <1>a, <1>0
  <2>2. t[i] = Encode(b[k + (i + 1)]) BY <2>1, <1>1, <1>7
  <2> QED BY <2>1, <2>2, <1>5
<1>11. p = t BY <1>4, <1>5, <1>7, <1>10, SeqEqual
<1>12. Head(q) = Encode(b[k + 1]) /\ b[k + 1] \in Batches BY <1>1, <1>8, <1>9
<1> QED BY <1>6, <1>11, <1>12 DEF q, p, t, s, k

\* A sequence is all but its last element, and that.
LEMMA LastOf ==
    ASSUME NEW S, NEW b \in Seq(S), Len(b) > 0, NEW c, c = SubSeq(b, 1, Len(b) - 1)
    PROVE  /\ c \in Seq(S) /\ Len(c) = Len(b) - 1 /\ b[Len(b)] \in S
           /\ b = Append(c, b[Len(b)])
<1> DEFINE n == Len(b)
           x == b[n]
<1>1. n \in Nat /\ n > 0 BY LenProperties
<1>2. 1 \in 1..Len(b) /\ n \in 1..Len(b) /\ n - 1 \in 0..Len(b) BY <1>1
<1>3. x \in S BY <1>2, ElementOfSeq
<1>4. SubSeq(b, 1, n) = SubSeq(b, 1, n - 1) \o <<x>> BY <1>2, SubSeqRecursiveSecond
<1>5. SubSeq(b, 1, n) = b BY SubSeqFull
<1>6. c \in Seq(S) /\ Len(c) = n - 1 BY <1>2, SplitAt
<1>7. Append(c, x) = c \o <<x>> BY <1>3, <1>6, AppendIsConcat
<1> QED BY <1>3, <1>4, <1>5, <1>6, <1>7

\* The lists of sent and received messages, as long as nothing is received that
\* was not sent.
LEMMA HistoryTypes ==
    ASSUME TypeOK, HistoryInv
    PROVE  /\ begun \in Seq(Batches) /\ received \in Seq(Seq(Byte))
           /\ Len(received) <= Len(begun)
           /\ QueueOf(begun, received) \in Seq(Messages)
<1>1. /\ begun \in Seq(Batches) /\ received \in Seq(Seq(Byte)) /\ Len(received) <= Len(begun)
  BY DEF TypeOK, HistoryInv
<1> QED BY <1>1, QueueFacts

\* A sender at work has left nothing behind but whole messages.
LEMMA WholeStream ==
    ASSUME IInv, Live, sender \in {"idle", "sending"}
    PROVE  Stream = RowOf(QueueOf(begun, received)) /\ Queue = QueueOf(begun, received)
<1>1. Holds(Stream, Queue, sender) BY StreamIs DEF IInv, StreamInv
<1>2. Stream = RowOf(Queue) BY <1>1 DEF Holds
<1>3. receiver # "gone" BY DEF Live
<1> QED BY <1>2, <1>3, QueueIs

LEMMA SendBeginStep ==
    ASSUME IInv, NEW b \in Batches, SendBegin(b)
    PROVE  IInv'
<1> DEFINE m == Encode(b)
           h == encode_length(Len(m))
           q == QueueOf(begun, received)
<1>0. /\ TypeOK /\ StreamInv /\ HistoryInv /\ SendInv /\ EndInv BY DEF IInv
<1>a. /\ sender = "idle" /\ begun' = Append(begun, b) /\ out' = <<h, m>>
      /\ sender' = "sending" /\ UNCHANGED <<wire, receiver, len, buf, received>>
  BY DEF SendBegin
<1>1. m \in Seq(Byte) /\ Len(m) \in Nat /\ m \in Messages BY EncodeFacts DEF Messages
<1>2. h \in Seq(Byte) BY <1>1, HeaderFacts
<1>b. begun \in Seq(Batches) /\ received \in Seq(Seq(Byte)) /\ Len(received) <= Len(begun)
      /\ q \in Seq(Messages)
  BY <1>0, HistoryTypes
<1>c. Len(begun) \in Nat /\ Len(received) \in Nat BY <1>0, LenFacts
<1>3. Framed(m) = h \o m /\ Framed(m) \in Seq(Byte) /\ Len(Framed(m)) = HeaderSize + Len(m)
  BY <1>1, MessageFacts DEF Framed
<1> HIDE DEF m, h
<1>4. FlattenSeq(<<h, m>>) = h \o m /\ <<h, m>> \in Seq(Seq(Byte)) BY <1>1, <1>2, FlattenTwo
<1>5. Unsent' = Framed(m)
  <2>1. Unsent' = FlattenSeq(out') BY DEF Unsent
  <2> QED BY <2>1, <1>3, <1>4, <1>a, Zenon
<1>6. /\ begun' \in Seq(Batches) /\ Len(begun') = Len(begun) + 1
      /\ begun'[Len(begun) + 1] = b /\ \A i \in 1..Len(begun) : begun'[i] = begun[i]
  BY <1>a, <1>b, AppendProperties
<1>7. QueueOf(begun', received') = Append(q, m)
  <2>1. QueueOf(Append(begun, b), received) = Append(q, m) BY <1>b, QueueAppend DEF m
  <2> QED BY <2>1, <1>a
<1>8. Live => (Whole \/ CutOff)'
  <2> SUFFICES ASSUME Live PROVE (Whole \/ CutOff)' OBVIOUS
  <2>1. Stream = RowOf(q) BY <1>a, WholeStream
  <2>2. Unsent = << >>
    <3>1. out = << >> BY <1>0, <1>a DEF SendInv
    <3> QED BY <3>1, FlattenEmpty DEF Unsent
  <2>3. Stream = Taken \o wire
    <3>1. Taken \o wire \in Seq(Byte) BY <1>0, StreamType
    <3>2. (Taken \o wire) \o << >> = Taken \o wire BY <3>1, ConcatEmptySeq
    <3> QED BY <3>2, <2>2, Zenon DEF Stream
  <2>4. Taken' = Taken BY <1>a DEF Taken
  <2>5. Stream' = (Taken \o wire) \o Framed(m) BY <2>4, <1>5, <1>a, Zenon DEF Stream
  <2>6. RowOf(Append(q, m)) = RowOf(q) \o Framed(m) BY <1>1, <1>b, RowAppend
  <2>7. Stream' = RowOf(Append(q, m)) BY <2>1, <2>3, <2>5, <2>6, Zenon
  <2>8. Queue' = Append(q, m)
    <3>1. receiver' # "gone" BY <1>a DEF Live
    <3> QED BY <3>1, <1>7, QueueIs
  <2>9. Holds(Stream', Queue', sender')
    <3>1. sender' # "cut" BY <1>a
    <3> QED BY <3>1, <2>7, <2>8, Zenon DEF Holds
  <2> QED BY <2>9, StreamIs
<1>9. TypeOK' BY <1>0, <1>4, <1>6, <1>a DEF TypeOK
<1>10. StreamInv'
  <2>1. Live' <=> Live BY <1>a DEF Live
  <2> QED BY <2>1, <1>8, <1>0, <1>a DEF StreamInv
<1>11. HistoryInv'
  <2>1. Len(received') < Len(begun') BY <1>a, <1>b, <1>c, <1>6
  <2>2. Len(received') <= Len(begun') BY <2>1, <1>a, <1>c, <1>6
  <2>3. ASSUME NEW i \in DOMAIN received' PROVE received'[i] = Encode(begun'[i])
    <3>1. i \in DOMAIN received /\ received'[i] = received[i] BY <1>a
    <3>2. i \in 1..Len(begun)
      <4>1. i \in 1..Len(received) BY <3>1, <1>b, LenProperties
      <4> QED BY <4>1, <1>b, <1>c
    <3>3. received[i] = Encode(begun[i]) BY <3>1, <1>0 DEF HistoryInv
    <3> QED BY <3>1, <3>2, <3>3, <1>6
  <2> QED BY <2>1, <2>2, <2>3 DEF HistoryInv
<1>12. SendInv'
  <2>1. out' # << >> BY <1>a
  <2>2. Len(begun') > 0 BY <1>6, <1>c
  <2>3. begun'[Len(begun')] = b BY <1>6
  <2>4. Unwritten' = HeaderSize + Len(m) BY <1>3, <1>5 DEF Unwritten
  <2>5. HeaderSize + Len(m) \in Nat BY <1>1, Sizes
  <2>6. Unwritten' <= HeaderSize + Len(m) BY <2>4, <2>5
  <2> QED BY <2>1, <2>2, <2>3, <2>6, <1>a DEF SendInv, m
<1>13. EndInv' BY <1>0, <1>a DEF EndInv, Ended
<1> QED BY <1>9, <1>10, <1>11, <1>12, <1>13 DEF IInv

LEMMA WriteAllDoneStep ==
    ASSUME IInv, WriteAllDone
    PROVE  IInv' /\ Queue' = Queue /\ (Len(out) = 1 \/ sender' = sender)
<1> DEFINE t == Tail(out)
<1>0. /\ TypeOK /\ StreamInv /\ HistoryInv /\ SendInv /\ EndInv BY DEF IInv
<1>a. /\ sender = "sending" /\ Head(out) = << >> /\ out' = t
      /\ sender' = IF Len(out) = 1 THEN "idle" ELSE "sending"
      /\ UNCHANGED <<begun, wire, receiver, len, buf, received>>
  BY DEF WriteAllDone
<1>1. out \in Seq(Seq(Byte)) /\ out # << >> BY <1>0, <1>a DEF TypeOK, SendInv
<1>2. /\ t \in Seq(Seq(Byte)) /\ FlattenSeq(out) = << >> \o FlattenSeq(t)
      /\ Len(t) = Len(out) - 1 /\ Len(out) \in Nat
  BY <1>1, <1>a, FlattenHead, HeadTailProperties, LenProperties
<1>3. Unsent' = Unsent
  <2>1. FlattenSeq(t) \in Seq(Byte) BY <1>2, FlattenType
  <2>2. << >> \o FlattenSeq(t) = FlattenSeq(t) BY <2>1, ConcatEmptySeq
  <2>3. Unsent' = FlattenSeq(t) BY <1>a DEF Unsent
  <2> QED BY <2>2, <2>3, <1>2, Zenon DEF Unsent
<1> HIDE DEF t
<1>4. Stream' = Stream
  <2>1. Taken' = Taken BY <1>a DEF Taken
  <2> QED BY <2>1, <1>3, <1>a, Zenon DEF Stream
<1>5. Queue' = Queue BY <1>a DEF Queue
<1>6. t = << >> <=> Len(out) = 1
  <2> DEFINE k == Len(out)
  <2>1. t = << >> <=> Len(t) = 0 BY <1>2, EmptySeq
  <2>2. k \in Nat /\ Len(t) = k - 1 BY <1>2
  <2> HIDE DEF k
  <2>3. k - 1 = 0 <=> k = 1 BY <2>2
  <2> QED BY <2>1, <2>2, <2>3 DEF k
<1>7. TypeOK' BY <1>0, <1>2, <1>a DEF TypeOK
<1>8. StreamInv'
  <2>1. sender \in {"idle", "sending"} /\ sender' # "cut" BY <1>a
  <2>2. Live => (Whole \/ CutOff)' BY <2>1, <1>4, <1>5, KeepStream
  <2>3. Live' <=> Live BY <1>a DEF Live
  <2> QED BY <2>2, <2>3, <1>0, <1>a DEF StreamInv
<1>b. Unwritten' = Unwritten BY <1>3 DEF Unwritten
<1>9. HistoryInv' BY <1>b, <1>0, <1>a DEF HistoryInv
<1>10. SendInv'
  <2>1. sender' = "sending" <=> out' # << >> BY <1>6, <1>a
  <2>2. begun' = begun BY <1>a
  <2> QED BY <2>1, <2>2, <1>b, <1>0, <1>a DEF SendInv
<1>11. EndInv' BY <1>0, <1>a DEF EndInv, Ended
<1>12. Len(out) = 1 \/ sender' = sender BY <1>a
<1> QED BY <1>5, <1>7, <1>8, <1>9, <1>10, <1>11, <1>12 DEF IInv

LEMMA SendThrowsStep ==
    ASSUME IInv, SendThrows
    PROVE  IInv'
<1>0. /\ TypeOK /\ StreamInv /\ HistoryInv /\ SendInv /\ EndInv BY DEF IInv
<1>a. /\ sender = "sending" /\ receiver = "gone" /\ sender' = "threw" /\ out' = << >>
      /\ UNCHANGED <<begun, wire, receiver, len, buf, received>>
  BY DEF SendThrows
<1>1. << >> \in Seq(Seq(Byte)) BY EmptySeq
<1>2. Unwritten' = 0
  <2>1. Unsent' = << >> BY <1>a, FlattenEmpty DEF Unsent
  <2> QED BY <2>1, EmptySeq DEF Unwritten
<1>3. TypeOK' BY <1>0, <1>1, <1>a DEF TypeOK
<1>4. StreamInv'
  <2>1. ~ Live' BY <1>a DEF Live
  <2> QED BY <2>1, <1>a DEF StreamInv, Live
<1>5. HistoryInv' BY <1>2, <1>0, <1>a DEF HistoryInv
<1>6. SendInv' BY <1>a DEF SendInv
<1>7. EndInv' BY <1>a DEF EndInv
<1> QED BY <1>3, <1>4, <1>5, <1>6, <1>7 DEF IInv

\* Dropping what was appended.
LEMMA DropLast ==
    ASSUME NEW S, NEW q \in Seq(S), NEW x \in S, NEW a, a = Append(q, x)
    PROVE  SubSeq(a, 1, Len(a) - 1) = q /\ a # << >>
<1> DEFINE n == Len(q)
<1>1. a \in Seq(S) /\ a # << >> /\ Len(a) = n + 1 /\ n \in Nat BY AppendProperties, LenProperties
<1>2. a = q \o <<x>> BY AppendIsConcat
<1>3. <<x>> \in Seq(S) OBVIOUS
<1>4. n \in 0..Len(a) /\ Len(a) - 1 = n BY <1>1
<1> DEFINE f == SubSeq(a, 1, n)
           g == SubSeq(a, n + 1, Len(a))
<1>5. f \in Seq(S) /\ g \in Seq(S) /\ Len(f) = n /\ a = f \o g BY <1>1, <1>4, SplitAt
<1> HIDE DEF f, g
<1>6. f \o g = q \o <<x>> /\ Len(f) = Len(q) BY <1>2, <1>5, Zenon
<1>7. f = q BY <1>3, <1>5, <1>6, Cancel
<1> QED BY <1>1, <1>4, <1>7 DEF f

\* What a sender leaves behind of its last message m, for messages q before it.
LEMMA LeftBehind ==
    ASSUME NEW q \in Seq(Messages), NEW m \in Messages, NEW a \in Seq(Byte),
           NEW u \in Seq(Byte), a \o u = RowOf(Append(q, m)), u # << >>, NEW snd,
           Len(u) <= HeaderSize + Len(m),
           snd = "reset" \/ snd = IF Len(u) = HeaderSize + Len(m) THEN "done" ELSE "cut"
    PROVE  Holds(a, q, snd)
<1> DEFINE c == RowOf(q)
           d == Framed(m)
           total == HeaderSize + Len(m)
           k == total - Len(u)
<1>1. RowOf(Append(q, m)) = c \o d /\ c \in Seq(Byte) BY RowAppend, RowType
<1>2. d \in Seq(Byte) /\ Len(d) = total /\ Len(m) \in Nat BY MessageFacts
<1>3. total \in Nat BY <1>2, Sizes
<1>4. Len(u) \in Nat /\ Len(u) # 0 /\ Len(a) \in Nat /\ Len(c) \in Nat
  BY <1>1, EmptySeq, LenProperties
<1>5. Len(a) + Len(u) = Len(c) + total
  <2>1. Len(a \o u) = Len(a) + Len(u) BY ConcatProperties
  <2>2. Len(c \o d) = Len(c) + Len(d) BY <1>1, <1>2, ConcatProperties
  <2>3. a \o u = c \o d BY <1>1, Zenon
  <2>4. Len(a) + Len(u) = Len(c) + Len(d) BY <2>1, <2>2, <2>3, Zenon
  <2> QED BY <2>4, <1>2
<1> HIDE DEF c, d
<1>6. k \in Nat /\ k <= total - 1 /\ Len(a) = Len(c) + k /\ (k = 0 <=> Len(u) = total)
  <2> DEFINE x == Len(u)
             y == Len(a)
             z == Len(c)
  <2>1. x \in Nat /\ x # 0 /\ y \in Nat /\ z \in Nat /\ total \in Nat /\ x <= total
        /\ y + x = z + total /\ k = total - x
    BY <1>3, <1>4, <1>5
  <2> HIDE DEF x, y, z, k, total
  <2>2. k \in Nat /\ k <= total - 1 /\ y = z + k /\ (k = 0 <=> x = total) BY <2>1
  <2> QED BY <2>2 DEF x, y, z
<1>7. k \in 0..Len(d)
  <2> HIDE DEF k, total
  <2> QED BY <1>2, <1>3, <1>6
<1>8. a \o u = c \o d BY <1>1, Zenon
<1> HIDE DEF k
<1>9. a = c \o SubSeq(d, 1, k)
  <2>1. c \in Seq(Byte) /\ d \in Seq(Byte) /\ Len(a) = Len(c) + k BY <1>1, <1>2, <1>6
  <2>2. EndsInside(a, u, c, d, k) BY <2>1, <1>7, <1>8, Split
  <2> QED BY <2>2 DEF EndsInside
<1>10. CASE k = 0
  <2>1. SubSeq(d, 1, 0) = << >> BY SubSeqEmpty
  <2>2. c \o << >> = c BY <1>1, ConcatEmptySeq
  <2>3. a = c BY <2>1, <2>2, <1>9, <1>10, Zenon
  <2>4. snd # "cut" BY <1>6, <1>10
  <2> QED BY <2>3, <2>4, Zenon DEF Holds, c
<1>11. CASE k # 0
  <2>1. k \in 1..(HeaderSize + Len(m) - 1)
    <3> DEFINE l == Len(m)
    <3>1. k \in Nat /\ k <= (HeaderSize + l) - 1 /\ l \in Nat /\ HeaderSize \in Nat /\ k # 0
      BY <1>2, <1>3, <1>6, <1>11, Sizes
    <3> HIDE DEF l
    <3>2. k \in 1..(HeaderSize + l - 1) BY <3>1
    <3> QED BY <3>2 DEF l
  <2>2. Fragment(SubSeq(d, 1, k)) BY <2>1 DEF Fragment, d
  <2>3. snd \in {"cut", "reset"} BY <1>6, <1>11
  <2> QED BY <2>2, <2>3, <1>9, Zenon DEF Holds, c
<1> QED BY <1>10, <1>11

LEMMA SenderEndsStep ==
    ASSUME IInv, NEW unread \in BOOLEAN, SenderEnds(unread)
    PROVE  /\ IInv'
           /\ \/ sender' \in {"done", "reset"} /\ Queue' = Queue
              \/ /\ sender = "sending" /\ (Queue # << >> \/ receiver = "gone")
                 /\ sender' \in {"done", "cut", "reset"}
                 /\ Queue' = SubSeq(Queue, 1, Len(Queue) - 1)
<1> DEFINE x == begun[Len(begun)]
           m == Encode(x)
           total == HeaderSize + Len(m)
           c == SubSeq(begun, 1, Len(begun) - 1)
           q == QueueOf(c, received)
<1>0. /\ TypeOK /\ StreamInv /\ HistoryInv /\ SendInv /\ EndInv BY DEF IInv
<1>a. /\ sender \in {"idle", "sending", "threw"} /\ out' = << >>
      /\ sender' = IF unread THEN "reset"
                   ELSE IF Unwritten = 0 \/ Unwritten = total THEN "done" ELSE "cut"
      /\ begun' = IF Unwritten = 0 THEN begun ELSE c
      /\ UNCHANGED <<wire, receiver, len, buf, received>>
  BY DEF SenderEnds
<1>b. begun \in Seq(Batches) /\ received \in Seq(Seq(Byte)) /\ Len(received) <= Len(begun)
  BY <1>0, HistoryTypes
<1>c. Len(begun) \in Nat /\ Len(received) \in Nat /\ Unwritten \in Nat BY <1>0, LenFacts
<1>d. /\ sender' \in {"done", "cut", "reset"} /\ Ended' /\ Unsent' = << >> /\ Unwritten' = 0
      /\ << >> \in Seq(Seq(Byte))
  <2>1. Unsent' = << >> BY <1>a, FlattenEmpty DEF Unsent
  <2>2. Len(<< >>) = 0 /\ << >> \in Seq(Seq(Byte)) BY EmptySeq
  <2>3. Unwritten' = 0 BY <2>1, <2>2 DEF Unwritten
  <2>4. sender' \in {"done", "cut", "reset"} BY <1>a
  <2> QED BY <2>1, <2>2, <2>3, <2>4 DEF Ended
<1>1. /\ Stream' = Taken \o wire /\ Taken \o wire \in Seq(Byte) /\ Unsent \in Seq(Byte)
      /\ Stream = (Taken \o wire) \o Unsent
  <2>1. Taken \o wire \in Seq(Byte) /\ Unsent \in Seq(Byte) BY <1>0, StreamType
  <2>2. Taken' = Taken BY <1>a DEF Taken
  <2>3. Stream' = (Taken \o wire) \o << >> BY <2>2, <1>a, <1>d, Zenon DEF Stream
  <2>4. (Taken \o wire) \o << >> = Taken \o wire BY <2>1, ConcatEmptySeq
  <2> QED BY <2>1, <2>3, <2>4, Zenon DEF Stream
<1>2. ASSUME begun' \in Seq(Batches), HistoryInv', Live => (Whole \/ CutOff)'
      PROVE  IInv'
  <2>1. TypeOK' BY <1>0, <1>2, <1>a, <1>d DEF TypeOK
  <2>2. StreamInv'
    <3>1. Live' <=> Live BY <1>a DEF Live
    <3> QED BY <3>1, <1>0, <1>2, <1>a DEF StreamInv
  <2>3. SendInv' BY <1>a, <1>d DEF SendInv
  <2>4. EndInv' BY <1>d DEF EndInv
  <2> QED BY <2>1, <2>2, <2>3, <2>4, <1>2 DEF IInv
<1>3. CASE Unwritten = 0
  <2>1. begun' = begun /\ sender' \in {"done", "reset"} BY <1>3, <1>a
  <2>2. Queue' = Queue BY <2>1, <1>a DEF Queue
  <2>3. Stream' = Stream
    <3>1. Unsent = << >> BY <1>1, <1>3, EmptySeq DEF Unwritten
    <3>2. (Taken \o wire) \o << >> = Taken \o wire BY <1>1, ConcatEmptySeq
    <3> QED BY <3>1, <3>2, <1>1, Zenon
  <2>4. Live => (Whole \/ CutOff)'
    <3> SUFFICES ASSUME Live PROVE (Whole \/ CutOff)' OBVIOUS
    <3>1. sender # "threw" BY <1>0 DEF EndInv, Live
    <3>2. sender \in {"idle", "sending"} /\ sender' # "cut" BY <3>1, <2>1, <1>a
    <3> QED BY <3>2, <2>2, <2>3, KeepStream
  <2>5. HistoryInv' BY <2>1, <1>0, <1>a, <1>d DEF HistoryInv
  <2> QED BY <2>1, <2>2, <2>4, <2>5, <1>2, <1>b
<1>4. CASE Unwritten # 0
  <2>0. Unwritten > 0 BY <1>4, <1>c
  <2>1. Len(received) < Len(begun) BY <2>0, <1>0 DEF HistoryInv
  <2>2. sender = "sending"
    <3>1. out # << >>
      <4>1. out = << >> => Unwritten = 0 BY FlattenEmpty, EmptySeq DEF Unwritten, Unsent
      <4> QED BY <4>1, <1>4
    <3> QED BY <3>1, <1>0 DEF SendInv
  <2>3. Len(begun) > 0 BY <2>1, <1>c
  <2>4. /\ c \in Seq(Batches) /\ Len(c) = Len(begun) - 1 /\ x \in Batches
        /\ begun = Append(c, x)
    BY <2>3, <1>b, LastOf
  <2>5. begun' = c BY <1>4, <1>a
  <2> HIDE DEF c, x
  <2>6. Len(received) <= Len(c)
    <3> DEFINE l == Len(begun)
               k == Len(received)
    <3>1. l \in Nat /\ k \in Nat /\ k < l /\ Len(c) = l - 1 BY <2>1, <2>4, <1>c
    <3> HIDE DEF l, k
    <3>2. k <= l - 1 BY <3>1
    <3> QED BY <3>1, <3>2 DEF k
  <2>7. q \in Seq(Messages) /\ QueueOf(begun, received) = Append(q, m)
    <3>1. q \in Seq(Messages) BY <2>4, <2>6, <1>b, QueueFacts
    <3>2. QueueOf(Append(c, x), received) = Append(q, m) BY <2>4, <2>6, <1>b, QueueAppend
    <3>3. QueueOf(begun, received) = QueueOf(Append(c, x), received) BY <2>4, Zenon
    <3> QED BY <3>1, <3>2, <3>3, Zenon
  <2>8. m \in Messages BY <2>4 DEF Messages
  <2> HIDE DEF q, m
  <2>9. HistoryInv'
    <3>1. \A i \in 1..Len(c) : begun[i] = c[i] BY <2>4, AppendProperties
    <3>2. DOMAIN received = 1..Len(received) BY <1>b, LenProperties
    <3>3. ASSUME NEW i \in 1..Len(received) PROVE received[i] = Encode(c[i])
      <4>1. i \in 1..Len(c)
        <5>1. Len(c) \in Nat BY <2>4, LenProperties
        <5> QED BY <5>1, <2>6, <1>c
      <4>2. received[i] = Encode(begun[i]) BY <3>2, <1>0 DEF HistoryInv
      <4> QED BY <4>1, <4>2, <3>1
    <3> QED BY <3>2, <3>3, <2>5, <2>6, <1>a, <1>d DEF HistoryInv
  <2>10. CASE receiver = "gone"
    <3>1. Queue = << >> /\ Queue' = << >> BY <2>10, <1>a, QueueIs
    <3>2. SubSeq(<< >>, 1, Len(<< >>) - 1) = << >>
      <4>1. Len(<< >>) - 1 \in Int /\ Len(<< >>) - 1 < 1 BY EmptySeq
      <4> QED BY <4>1, SubSeqEmpty
    <3>3. Queue' = SubSeq(Queue, 1, Len(Queue) - 1) BY <3>1, <3>2, Zenon
    <3>4. ~ Live BY <2>10 DEF Live
    <3>5. IInv' BY <3>4, <2>4, <2>5, <2>9, <1>2
    <3> QED BY <3>3, <3>5, <2>2, <2>10, <1>d
  <2>11. CASE receiver # "gone"
    <3>1. Queue = Append(q, m) BY <2>7, <2>11, QueueIs, Zenon
    <3>2. Queue' = q
      <4>1. receiver' # "gone" /\ received' = received BY <2>11, <1>a
      <4>2. Queue' = QueueOf(begun', received') BY <4>1, QueueIs
      <4> QED BY <4>1, <4>2, <2>5, Zenon DEF q
    <3>3. SubSeq(Append(q, m), 1, Len(Append(q, m)) - 1) = q /\ Append(q, m) # << >>
      BY <2>7, <2>8, DropLast
    <3>4. Queue' = SubSeq(Queue, 1, Len(Queue) - 1) /\ Queue # << >>
      BY <3>1, <3>2, <3>3, Zenon
    <3>5. Live => (Whole \/ CutOff)'
      <4> SUFFICES ASSUME Live PROVE (Whole \/ CutOff)' OBVIOUS
      <4>1. Stream = RowOf(Append(q, m))
        <5>1. Stream = RowOf(QueueOf(begun, received)) BY <2>2, WholeStream
        <5> QED BY <5>1, <2>7, Zenon
      <4> DEFINE a == Taken \o wire
                 u == Unsent
                 snd == sender'
      <4>2. a \in Seq(Byte) /\ u \in Seq(Byte) /\ a \o u = RowOf(Append(q, m))
        BY <4>1, <1>1, Zenon
      <4>3. Unwritten = Len(u) BY DEF Unwritten
      <4>4. Unwritten <= total BY <2>2, <1>0 DEF SendInv, m, x
      <4>5. snd = "reset" \/ snd = IF Unwritten = total THEN "done" ELSE "cut"
        BY <1>4, <1>a DEF m, x
      <4>6. u # << >> BY <1>4, <4>3, EmptySeq
      <4> HIDE DEF a, u, snd
      <4>7. Len(u) <= HeaderSize + Len(m) BY <4>3, <4>4
      <4>8. snd = "reset" \/ snd = IF Len(u) = HeaderSize + Len(m) THEN "done" ELSE "cut"
        BY <4>3, <4>5
      <4>9. Holds(a, q, snd) BY <4>2, <4>6, <4>7, <4>8, <2>7, <2>8, LeftBehind
      <4>10. Holds(Stream', Queue', sender') BY <4>9, <3>2, <1>1, Zenon DEF a, snd
      <4> QED BY <4>10, StreamIs
    <3>6. IInv' BY <3>5, <2>4, <2>5, <2>9, <1>2
    <3> QED BY <3>4, <3>6, <2>2, <1>d
  <2> QED BY <2>10, <2>11
<1> QED BY <1>3, <1>4

-----------------------------------------------------------------------------
(* Receiving keeps the invariant *)

\* A header and the rest.
Stripped(e, b, w, x, h, m, y) == e = h /\ b \o (w \o x) = m \o y

LEMMA Strip ==
    ASSUME NEW S, NEW e \in Seq(S), NEW b \in Seq(S), NEW w \in Seq(S), NEW x \in Seq(S),
           NEW h \in Seq(S), NEW m \in Seq(S), NEW y \in Seq(S), Len(e) = Len(h),
           NEW t, t = e \o b, NEW f, f = h \o m, (t \o w) \o x = f \o y
    PROVE  Stripped(e, b, w, x, h, m, y)
<1> DEFINE v == w \o x
           r == b \o v
           z == m \o y
<1>0. t \in Seq(S) BY ConcatProperties
<1>1. v \in Seq(S) BY ConcatProperties
<1>a. z \in Seq(S) BY ConcatProperties
<1>2. Assoc(t, w, x) BY <1>0, ConcatAssoc
<1>3. Assoc(h, m, y) BY ConcatAssoc
<1> HIDE DEF v, z
<1>4. Assoc(e, b, v) BY <1>1, ConcatAssoc
<1>5. r \in Seq(S) BY <1>1, ConcatProperties
<1> HIDE DEF r
<1>6. (t \o w) \o x = e \o r
  <2>1. (t \o w) \o x = t \o v BY <1>2 DEF Assoc, v
  <2>2. t \o v = (e \o b) \o v BY Zenon
  <2>3. (e \o b) \o v = e \o r BY <1>4 DEF Assoc, r
  <2> QED BY <2>1, <2>2, <2>3, Zenon
<1>7. f \o y = h \o z
  <2>1. f \o y = (h \o m) \o y BY Zenon
  <2>2. (h \o m) \o y = h \o z BY <1>3 DEF Assoc, z
  <2> QED BY <2>1, <2>2, Zenon
<1>8. e \o r = h \o z BY <1>6, <1>7, Zenon
<1>9. e = h /\ r = z BY <1>5, <1>a, <1>8, Cancel
<1> QED BY <1>9 DEF Stripped, r, v, z

\* The message at the front of the stream.
LEMMA StreamFront ==
    ASSUME IInv, Live
    PROVE  /\ Stream # << >> =>
                 \E m \in Messages : \E x, y : AtFront(Stream, Queue, sender, m, x, y)
           /\ Stream = << >> => Queue = << >> /\ sender # "cut"
<1>1. Holds(Stream, Queue, sender) BY StreamIs DEF IInv, StreamInv
<1>2. TypeOK /\ HistoryInv BY DEF IInv
<1>3. Queue \in Seq(Messages)
  <2>1. receiver # "gone" BY DEF Live
  <2> QED BY <2>1, <1>2, QueueIs, HistoryTypes
<1>4. Stream \in Seq(Byte) BY <1>2, StreamType
<1> DEFINE s == Stream
           q == Queue
           d == sender
<1>5. s \in Seq(Byte) /\ q \in Seq(Messages) /\ Holds(s, q, d) BY <1>1, <1>3, <1>4
<1> HIDE DEF s, q, d
<1>6. /\ s # << >> => \E m \in Messages : \E x, y : AtFront(s, q, d, m, x, y)
      /\ s = << >> => q = << >> /\ d # "cut"
  BY <1>5, FrontFacts
<1> QED BY <1>6 DEF s, q, d

\* In the payload, len is the length of the message at the front.
LEMMA PayloadFront ==
    ASSUME IInv, receiver = "payload"
    PROVE  \E m \in Messages : \E x, y :
              /\ AtFront(Stream, Queue, sender, m, x, y) /\ len = Len(m)
              /\ buf \o ((wire \o Unsent) \o x) = m \o y
<1> DEFINE e == encode_length(len)
           t == e \o buf
           w == wire \o Unsent
<1>0. TypeOK /\ Live /\ Fits(len, HeaderSize) BY DEF IInv, Live, StreamInv
<1>1. len \in Nat /\ buf \in Seq(Byte) BY <1>0 DEF TypeOK
<1>2. e \in Seq(Byte) /\ Len(e) = HeaderSize BY <1>1, HeaderFacts
<1>3. Taken = t BY DEF Taken
<1>4. w \in Seq(Byte) /\ Stream = t \o w
  <2>1. w \in Seq(Byte) /\ Stream = Taken \o w BY <1>0, StreamType
  <2> QED BY <2>1, <1>3, Zenon
<1>5. Stream # << >>
  <2>1. t \in Seq(Byte) /\ Len(t) = HeaderSize + Len(buf) BY <1>1, TakenType
  <2>2. HeaderSize + Len(buf) # 0
    <3> DEFINE l == Len(buf)
    <3>1. l \in Nat BY <1>1, LenProperties
    <3> HIDE DEF l
    <3>2. HeaderSize + l # 0 BY <3>1, Sizes
    <3> QED BY <3>2 DEF l
  <2>3. t # << >> BY <2>1, <2>2, EmptySeq
  <2> HIDE DEF t, w
  <2>4. t \o w # << >> BY <2>1, <2>3, <1>4, ConcatEqualIffEmpty
  <2> QED BY <2>4, <1>4, Zenon
<1>6. PICK m \in Messages : \E x, y : AtFront(Stream, Queue, sender, m, x, y)
  BY <1>0, <1>5, StreamFront
<1>7. PICK x, y : AtFront(Stream, Queue, sender, m, x, y) BY <1>6
<1>8. x \in Seq(Byte) /\ y \in Seq(Byte) /\ Stream \o x = Framed(m) \o y BY <1>7 DEF AtFront
<1> DEFINE h == encode_length(Len(m))
           f == h \o m
<1>9. m \in Seq(Byte) /\ Len(m) \in Nat /\ Fits(Len(m), HeaderSize) BY MessageFacts
<1>10. h \in Seq(Byte) /\ Len(h) = HeaderSize BY <1>9, HeaderFacts
<1>11. Framed(m) = f BY DEF Framed
<1>12. (t \o w) \o x = f \o y BY <1>4, <1>8, <1>11, Zenon
<1>13. Stripped(e, buf, w, x, h, m, y)
  <2>1. /\ e \in Seq(Byte) /\ buf \in Seq(Byte) /\ w \in Seq(Byte) /\ x \in Seq(Byte)
        /\ h \in Seq(Byte) /\ m \in Seq(Byte) /\ y \in Seq(Byte) /\ Len(e) = Len(h)
    BY <1>1, <1>2, <1>4, <1>8, <1>9, <1>10
  <2>2. t = e \o buf /\ f = h \o m OBVIOUS
  <2> HIDE DEF e, t, w, h, f
  <2> QED BY <2>1, <2>2, <1>12, Strip
<1>14. e = h /\ buf \o (w \o x) = m \o y BY <1>13, Zenon DEF Stripped
<1>15. len = Len(m) BY <1>0, <1>1, <1>9, <1>14, SameHeader
<1> QED BY <1>7, <1>14, <1>15, Zenon

LEMMA ReceiveBeginStep ==
    ASSUME IInv, ReceiveBegin
    PROVE  IInv' /\ Queue' = Queue
<1>0. /\ TypeOK /\ StreamInv /\ HistoryInv /\ SendInv /\ EndInv BY DEF IInv
<1>a. /\ receiver = "idle" /\ receiver' = "header" /\ len' = HeaderSize /\ buf' = << >>
      /\ UNCHANGED <<sender, out, begun, wire, received>>
  BY DEF ReceiveBegin
<1>1. Queue' = Queue BY <1>a DEF Queue
<1>2. Unsent' = Unsent /\ Unwritten' = Unwritten BY <1>a DEF Unsent, Unwritten
<1>3. Stream' = Stream
  <2>1. buf = << >> BY <1>0, <1>a DEF StreamInv
  <2>2. Taken' = Taken BY <2>1, <1>a DEF Taken
  <2> QED BY <2>2, <1>2, <1>a, Zenon DEF Stream
<1>4. TypeOK'
  <2>1. << >> \in Seq(Byte) /\ Len(<< >>) = 0 BY EmptySeq
  <2>2. Len(<< >>) <= HeaderSize /\ HeaderSize \in Nat BY <2>1, Sizes
  <2> QED BY <2>1, <2>2, <1>0, <1>a DEF TypeOK
<1>5. StreamInv'
  <2>1. Live /\ Live' BY <1>a DEF Live
  <2>2. (Whole \/ CutOff)' BY <2>1, <1>1, <1>3, <1>a, KeepStream
  <2> QED BY <2>2, <1>a DEF StreamInv
<1>6. HistoryInv' BY <1>0, <1>2, <1>a DEF HistoryInv
<1>7. SendInv' BY <1>0, <1>2, <1>a DEF SendInv
<1>8. EndInv' BY <1>0, <1>a DEF EndInv
<1> QED BY <1>1, <1>4, <1>5, <1>6, <1>7, <1>8 DEF IInv

LEMMA ReadStep ==
    ASSUME IInv, NEW n \in Amount, Read(n)
    PROVE  IInv' /\ Queue' = Queue
<1> DEFINE a == SubSeq(wire, 1, n)
           z == SubSeq(wire, n + 1, Len(wire))
           tk == Taken
           u == Unsent
<1>0. /\ TypeOK /\ StreamInv /\ HistoryInv /\ SendInv /\ EndInv BY DEF IInv
<1>a. /\ receiver \in {"header", "payload"} /\ n <= len - Len(buf) /\ n <= Len(wire)
      /\ buf' = buf \o a /\ wire' = z
      /\ UNCHANGED <<sender, out, begun, receiver, len, received>>
  BY DEF Read
<1>b. /\ wire \in Seq(Byte) /\ buf \in Seq(Byte) /\ len \in Nat /\ tk \in Seq(Byte)
      /\ u \in Seq(Byte) /\ Len(wire) \in Nat /\ Len(buf) \in Nat
      /\ Len(wire) <= SocketBuffer
  BY <1>0, StreamType, LenFacts DEF TypeOK
<1>c. n \in Nat /\ n > 0 /\ n \in 0..Len(wire)
  <2>1. n \in Nat /\ n > 0 BY Sizes DEF Amount
  <2> QED BY <2>1, <1>a, <1>b
<1>1. a \in Seq(Byte) /\ Len(a) = n /\ z \in Seq(Byte) /\ Len(z) = Len(wire) - n
      /\ wire = a \o z
  <2>1. wire \in Seq(Byte) /\ n \in 0..Len(wire) BY <1>b, <1>c
  <2> QED BY <2>1, SplitAt
<1>2. Queue' = Queue BY <1>a DEF Queue
<1>3. Unsent' = Unsent /\ Unwritten' = Unwritten BY <1>a DEF Unsent, Unwritten
<1> HIDE DEF a, z
<1>4. buf \o a \in Seq(Byte) /\ Len(buf \o a) = Len(buf) + n
  <2>1. buf \o a \in Seq(Byte) /\ Len(buf \o a) = Len(buf) + Len(a)
    BY <1>1, <1>b, ConcatProperties
  <2> QED BY <2>1, <1>1
<1>5. Taken' = tk \o a
  <2>1. CASE receiver = "header" BY <2>1, <1>a DEF Taken
  <2>2. CASE receiver = "payload"
    <3> DEFINE e == encode_length(len)
    <3>1. e \in Seq(Byte) BY <1>b, HeaderFacts
    <3>2. Taken = e \o buf /\ Taken' = e \o (buf \o a) BY <2>2, <1>a DEF Taken
    <3> HIDE DEF e
    <3>3. Assoc(e, buf, a) BY <3>1, <1>1, <1>b, ConcatAssoc
    <3> QED BY <3>2, <3>3, Zenon DEF Assoc
  <2> QED BY <2>1, <2>2, <1>a
<1>6. Stream' = Stream
  <2>1. Stream' = ((tk \o a) \o z) \o u BY <1>3, <1>5, <1>a, Zenon DEF Stream
  <2>2. Stream = (tk \o (a \o z)) \o u BY <1>1, Zenon DEF Stream
  <2> HIDE DEF tk, u
  <2>3. Assoc(tk, a, z) BY <1>1, <1>b, ConcatAssoc
  <2> QED BY <2>1, <2>2, <2>3, Zenon DEF Assoc
<1>7. TypeOK'
  <2>1. Len(wire') <= SocketBuffer
    <3> DEFINE l == Len(wire)
    <3>1. l \in Nat /\ l <= SocketBuffer /\ Len(z) = l - n BY <1>b, <1>1
    <3> HIDE DEF l
    <3>2. l - n <= SocketBuffer BY <3>1, <1>c, Sizes
    <3> QED BY <3>1, <3>2, <1>a
  <2>2. Len(buf') <= len
    <3> DEFINE l == Len(buf)
    <3>1. l \in Nat /\ n <= len - l /\ Len(buf') = l + n BY <1>a, <1>b, <1>4
    <3> HIDE DEF l
    <3>2. l + n <= len BY <3>1, <1>b, <1>c
    <3> QED BY <3>1, <3>2
  <2> QED BY <2>1, <2>2, <1>0, <1>1, <1>4, <1>a DEF TypeOK
<1>8. StreamInv'
  <2>1. Live /\ Live' BY <1>a DEF Live
  <2>2. (Whole \/ CutOff)' BY <2>1, <1>2, <1>6, <1>a, KeepStream
  <2> QED BY <2>2, <1>0, <1>a DEF StreamInv
<1>9. HistoryInv' BY <1>0, <1>3, <1>a DEF HistoryInv
<1>10. SendInv' BY <1>0, <1>3, <1>a DEF SendInv
<1>11. EndInv' BY <1>0, <1>a DEF EndInv, Ended
<1> QED BY <1>2, <1>7, <1>8, <1>9, <1>10, <1>11 DEF IInv

LEMMA HeaderDoneStep ==
    ASSUME IInv, HeaderDone
    PROVE  IInv' /\ Queue' = Queue
<1>0. /\ TypeOK /\ StreamInv /\ HistoryInv /\ SendInv /\ EndInv BY DEF IInv
<1>a. /\ receiver = "header" /\ Len(buf) = len /\ receiver' = "payload"
      /\ len' = decode_length(buf) /\ buf' = << >>
      /\ UNCHANGED <<sender, out, begun, wire, received>>
  BY DEF HeaderDone
<1>b. buf \in Seq(Byte) /\ len = HeaderSize /\ Live BY <1>0, <1>a DEF TypeOK, StreamInv, Live
<1>1. Queue' = Queue BY <1>a DEF Queue
<1>2. Unsent' = Unsent /\ Unwritten' = Unwritten BY <1>a DEF Unsent, Unwritten
<1>3. \E m \in Messages : buf = encode_length(Len(m))
  <2> DEFINE w == wire \o Unsent
  <2>1. Taken = buf BY <1>a DEF Taken
  <2>2. w \in Seq(Byte) /\ Stream = buf \o w
    <3>1. w \in Seq(Byte) /\ Stream = Taken \o w BY <1>0, StreamType
    <3> QED BY <3>1, <2>1, Zenon
  <2> HIDE DEF w
  <2>3. Stream # << >>
    <3>1. buf # << >>
      <4>1. Len(buf) # 0 BY <1>a, <1>b, Sizes
      <4> QED BY <4>1, EmptySeq
    <3>2. buf \o w # << >> BY <3>1, <2>2, <1>b, ConcatEqualIffEmpty
    <3> QED BY <3>2, <2>2, Zenon
  <2>4. PICK m \in Messages : \E x, y : AtFront(Stream, Queue, sender, m, x, y)
    BY <1>b, <2>3, StreamFront
  <2>5. PICK x, y : AtFront(Stream, Queue, sender, m, x, y) BY <2>4
  <2>6. x \in Seq(Byte) /\ y \in Seq(Byte) /\ Stream \o x = Framed(m) \o y BY <2>5 DEF AtFront
  <2> DEFINE h == encode_length(Len(m))
             v == w \o x
             z == m \o y
  <2>7. m \in Seq(Byte) /\ h \in Seq(Byte) /\ Len(h) = HeaderSize BY MessageFacts, HeaderFacts
  <2>8. Stream \o x = (h \o m) \o y BY <2>6, Zenon DEF Framed
  <2> HIDE DEF h
  <2>9. Assoc(buf, w, x) BY <2>2, <2>6, <1>b, ConcatAssoc
  <2>10. Assoc(h, m, y) BY <2>6, <2>7, ConcatAssoc
  <2>11. v \in Seq(Byte) /\ z \in Seq(Byte) BY <2>2, <2>6, <2>7, ConcatProperties
  <2>12. buf \o v = h \o z BY <2>2, <2>8, <2>9, <2>10, Zenon DEF Assoc
  <2> HIDE DEF v, z
  <2>13. Len(buf) = Len(h) BY <2>7, <1>a, <1>b
  <2>14. buf = h BY <2>7, <2>11, <2>12, <2>13, <1>b, Cancel
  <2> QED BY <2>14 DEF h
<1>4. PICK m \in Messages : buf = encode_length(Len(m)) BY <1>3
<1>5. Len(m) \in Nat /\ Fits(Len(m), HeaderSize) BY MessageFacts
<1>6. len' = Len(m) BY <1>4, <1>5, <1>a, HeaderFacts
<1>7. Stream' = Stream
  <2>1. Taken = buf BY <1>a DEF Taken
  <2>2. Taken' = encode_length(len') \o << >> BY <1>a DEF Taken
  <2>3. buf \o << >> = buf BY <1>b, ConcatEmptySeq
  <2>4. encode_length(len') = buf BY <1>4, <1>6
  <2>5. Taken' = Taken BY <2>1, <2>2, <2>3, <2>4, Zenon
  <2> QED BY <2>5, <1>2, <1>a, Zenon DEF Stream
<1>8. TypeOK'
  <2>1. << >> \in Seq(Byte) /\ Len(<< >>) = 0 BY EmptySeq
  <2>2. len' \in Nat BY <1>5, <1>6
  <2>3. Len(<< >>) <= len' BY <2>1, <2>2
  <2> QED BY <2>1, <2>2, <2>3, <1>0, <1>a DEF TypeOK
<1>9. StreamInv'
  <2>1. (Whole \/ CutOff)' BY <1>1, <1>7, <1>a, <1>b, KeepStream
  <2>2. Fits(len', HeaderSize) BY <1>5, <1>6
  <2> QED BY <2>1, <2>2, <1>a DEF StreamInv
<1>10. HistoryInv' BY <1>0, <1>2, <1>a DEF HistoryInv
<1>11. SendInv' BY <1>0, <1>2, <1>a DEF SendInv
<1>12. EndInv' BY <1>0, <1>a DEF EndInv
<1> QED BY <1>1, <1>8, <1>9, <1>10, <1>11, <1>12 DEF IInv

\* A whole message is at the front if any is under way.
LEMMA FrontLong ==
    ASSUME NEW s \in Seq(Byte), NEW q, NEW snd, NEW m \in Messages, NEW x, NEW y,
           AtFront(s, q, snd, m, x, y), q # << >>
    PROVE  Len(s) >= HeaderSize + Len(m)
<1>1. x = << >> /\ y \in Seq(Byte) /\ s \o x = Framed(m) \o y BY DEF AtFront
<1>2. s \o << >> = s BY ConcatEmptySeq
<1>3. s = Framed(m) \o y BY <1>1, <1>2, Zenon
<1>4. Framed(m) \in Seq(Byte) /\ Len(Framed(m)) = HeaderSize + Len(m) /\ Len(m) \in Nat
  BY MessageFacts
<1>5. Len(Framed(m) \o y) = Len(Framed(m)) + Len(y) BY <1>1, <1>4, ConcatProperties
<1>6. Len(s) = (HeaderSize + Len(m)) + Len(y) BY <1>3, <1>4, <1>5, Zenon
<1> DEFINE l == Len(m)
           k == Len(y)
<1>7. l \in Nat /\ k \in Nat /\ HeaderSize \in Nat BY <1>1, <1>4, LenProperties, Sizes
<1> HIDE DEF l, k
<1>8. (HeaderSize + l) + k >= HeaderSize + l BY <1>7
<1> QED BY <1>6, <1>8 DEF l, k

LEMMA QueueLen ==
    ASSUME TypeOK, HistoryInv, receiver # "gone"
    PROVE  /\ Queue # << >> <=> Len(received) < Len(begun)
           /\ Queue = QueueOf(begun, received)
<1>1. /\ begun \in Seq(Batches) /\ received \in Seq(Seq(Byte)) /\ Len(received) <= Len(begun)
  BY HistoryTypes
<1> DEFINE q == QueueOf(begun, received)
           l == Len(begun)
           k == Len(received)
<1>2. q \in Seq(Messages) /\ Len(q) = l - k /\ l \in Nat /\ k \in Nat /\ k <= l
  BY <1>1, QueueFacts
<1>3. Queue = q BY QueueIs
<1> HIDE DEF q
<1>4. q # << >> <=> Len(q) # 0 BY <1>2, EmptySeq
<1> HIDE DEF l, k
<1>5. l - k # 0 <=> k < l BY <1>2
<1> QED BY <1>2, <1>3, <1>4, <1>5 DEF l, k, q

LEMMA ReceiveReturnStep ==
    ASSUME IInv, ReceiveReturn
    PROVE  /\ IInv' /\ Queue # << >> /\ Queue' = Tail(Queue)
           /\ received' = Append(received, Head(Queue))
<1> DEFINE w == wire \o Unsent
           q == QueueOf(begun, received)
<1>0. /\ TypeOK /\ StreamInv /\ HistoryInv /\ SendInv /\ EndInv BY DEF IInv
<1>a. /\ receiver = "payload" /\ Len(buf) = len /\ receiver' = "idle"
      /\ received' = Append(received, buf) /\ len' = 0 /\ buf' = << >>
      /\ UNCHANGED <<sender, out, begun, wire>>
  BY DEF ReceiveReturn
<1>b. /\ begun \in Seq(Batches) /\ received \in Seq(Seq(Byte)) /\ buf \in Seq(Byte)
      /\ len \in Nat /\ Stream \in Seq(Byte) /\ w \in Seq(Byte) /\ Stream = Taken \o w
      /\ Unsent \in Seq(Byte) /\ wire \in Seq(Byte)
  BY <1>0, StreamType DEF TypeOK
<1>c. Len(begun) \in Nat /\ Len(received) \in Nat BY <1>0, LenFacts
<1>d. receiver # "gone" /\ Queue = q /\ (Queue # << >> <=> Len(received) < Len(begun))
  BY <1>0, <1>a, QueueLen
<1>1. PICK m \in Messages : \E x, y :
         /\ AtFront(Stream, Queue, sender, m, x, y) /\ len = Len(m)
         /\ buf \o (w \o x) = m \o y
  BY <1>a, PayloadFront
<1>2. PICK x, y : /\ AtFront(Stream, Queue, sender, m, x, y) /\ len = Len(m)
                  /\ buf \o (w \o x) = m \o y
  BY <1>1
<1> HIDE DEF w, q
<1>3. x \in Seq(Byte) /\ y \in Seq(Byte) BY <1>2 DEF AtFront
<1>4. m \in Seq(Byte) /\ Len(m) \in Nat BY MessageFacts
<1>5. buf = m /\ w \o x = y
  <2> DEFINE v == w \o x
  <2>1. v \in Seq(Byte) BY <1>3, <1>b, ConcatProperties
  <2>2. Len(buf) = Len(m) BY <1>2, <1>a
  <2>3. buf \o v = m \o y BY <1>2
  <2> HIDE DEF v
  <2>4. buf = m /\ v = y BY <2>1, <2>2, <2>3, <1>3, <1>4, <1>b, Cancel
  <2> QED BY <2>4 DEF v
<1>6. Queue # << >>
  <2> SUFFICES ASSUME Queue = << >> PROVE FALSE OBVIOUS
  <2>1. Len(Stream) < HeaderSize + Len(m) BY <1>2 DEF AtFront
  <2>2. Taken \in Seq(Byte) /\ Len(Taken) = HeaderSize + Len(buf)
    BY <1>a, <1>b, TakenType DEF Taken
  <2>3. Len(Taken \o w) = Len(Taken) + Len(w) /\ Len(w) \in Nat
    BY <2>2, <1>b, ConcatProperties, LenProperties
  <2>4. Len(Stream) = (HeaderSize + Len(m)) + Len(w)
    BY <2>2, <2>3, <1>2, <1>a, <1>b, Zenon
  <2> DEFINE l == Len(m)
             k == Len(w)
  <2>5. l \in Nat /\ k \in Nat /\ (HeaderSize + l) + k < HeaderSize + l
    BY <2>1, <2>3, <2>4, <1>4
  <2> HIDE DEF l, k
  <2> QED BY <2>5, Sizes
<1>7. m = Head(Queue) /\ x = << >> /\ Holds(y, Tail(Queue), sender) BY <1>2, <1>6 DEF AtFront
<1>8. received' = Append(received, Head(Queue)) BY <1>5, <1>7, <1>a
<1>9. Len(received) < Len(begun) BY <1>6, <1>d
<1>10. /\ Head(q) = Encode(begun[Len(received) + 1])
       /\ QueueOf(begun, Append(received, buf)) = Tail(q)
  BY <1>9, <1>b, QueueTail DEF q
<1>11. Queue' = Tail(Queue)
  <2>1. receiver' # "gone" /\ begun' = begun BY <1>a
  <2>2. Queue' = QueueOf(begun', received') BY <2>1, QueueIs
  <2>3. Queue' = QueueOf(begun, Append(received, buf)) BY <2>1, <2>2, <1>a, Zenon
  <2> QED BY <2>3, <1>10, <1>d, Zenon
<1>12. y = w
  <2>1. w \o << >> = w BY <1>b, ConcatEmptySeq
  <2> QED BY <2>1, <1>5, <1>7, Zenon
<1>13. Unsent' = Unsent /\ Unwritten' = Unwritten BY <1>a DEF Unsent, Unwritten
<1>14. Stream' = w
  <2>1. Taken' = << >> BY <1>a DEF Taken
  <2>2. Stream' = (<< >> \o wire) \o Unsent BY <2>1, <1>13, <1>a, Zenon DEF Stream
  <2>3. << >> \o wire = wire BY <1>b, ConcatEmptySeq
  <2> QED BY <2>2, <2>3, Zenon DEF w
<1>15. Holds(Stream', Queue', sender') BY <1>7, <1>11, <1>12, <1>14, <1>a, Zenon
<1>16. /\ received' \in Seq(Seq(Byte)) /\ Len(received') = Len(received) + 1
       /\ received'[Len(received) + 1] = buf
       /\ \A i \in 1..Len(received) : received'[i] = received[i]
  BY <1>a, <1>b, AppendProperties
<1>17. TypeOK'
  <2>1. << >> \in Seq(Byte) /\ Len(<< >>) = 0 /\ Len(<< >>) <= 0 BY EmptySeq
  <2> QED BY <2>1, <1>0, <1>16, <1>a DEF TypeOK
<1>18. StreamInv'
  <2>1. (Whole \/ CutOff)' BY <1>15, StreamIs
  <2> QED BY <2>1, <1>a DEF StreamInv
<1>19. HistoryInv'
  <2>1. Len(received') <= Len(begun')
    <3>1. Len(received) + 1 <= Len(begun) BY <1>9, <1>c
    <3> QED BY <3>1, <1>16, <1>a
  <2>2. ASSUME NEW i \in DOMAIN received' PROVE received'[i] = Encode(begun'[i])
    <3>1. i \in 1..(Len(received) + 1) BY <1>16, LenProperties
    <3>2. CASE i = Len(received) + 1
      <4>1. received'[i] = Encode(begun[Len(received) + 1])
        BY <3>2, <1>16, <1>5, <1>7, <1>10, <1>d
      <4> QED BY <4>1, <3>2, <1>a
    <3>3. CASE i # Len(received) + 1
      <4>1. i \in 1..Len(received) BY <3>1, <3>3, <1>c
      <4>2. received'[i] = received[i] BY <4>1, <1>16
      <4>3. i \in DOMAIN received BY <4>1, <1>b, LenProperties
      <4>4. received[i] = Encode(begun[i]) BY <4>3, <1>0 DEF HistoryInv
      <4> QED BY <4>2, <4>4, <1>a
    <3> QED BY <3>2, <3>3
  <2>3. ASSUME Unwritten' > 0 PROVE Len(received') < Len(begun')
    <3>1. Unsent # << >>
      <4>1. Len(Unsent) > 0 BY <2>3, <1>13 DEF Unwritten
      <4> QED BY <4>1, EmptySeq
    <3>2. sender = "sending"
      <4>1. out = << >> => Unsent = << >> BY FlattenEmpty DEF Unsent
      <4> QED BY <4>1, <3>1, <1>0 DEF SendInv
    <3>3. w = RowOf(Queue')
      <4>1. y = RowOf(Tail(Queue)) BY <3>2, <1>7 DEF Holds
      <4> QED BY <4>1, <1>11, <1>12, Zenon
    <3>4. w # << >> BY <3>1, <1>b, ConcatEqualIffEmpty DEF w
    <3>5. Queue' # << >> BY <3>3, <3>4, RowEmpty
    <3>6. Queue' = QueueOf(begun', received')
      <4>1. receiver' # "gone" BY <1>a
      <4> QED BY <4>1, QueueIs
    <3> DEFINE p == QueueOf(begun', received')
               l == Len(begun')
               k == Len(received')
    <3>7. begun' \in Seq(Batches) BY <1>a, <1>b
    <3>8. p \in Seq(Messages) /\ Len(p) = l - k /\ l \in Nat /\ k \in Nat
      BY <3>7, <2>1, <1>16, QueueFacts
    <3> HIDE DEF p
    <3>9. Len(p) # 0 BY <3>5, <3>6, <3>8, EmptySeq DEF p
    <3>10. l - k # 0 /\ k <= l /\ l \in Nat /\ k \in Nat BY <3>8, <3>9, <2>1
    <3> HIDE DEF l, k
    <3>11. k < l BY <3>10
    <3> QED BY <3>11 DEF l, k
  <2> QED BY <2>1, <2>2, <2>3 DEF HistoryInv
<1>20. SendInv' BY <1>0, <1>13, <1>a DEF SendInv
<1>21. EndInv' BY <1>0, <1>a DEF EndInv
<1> QED BY <1>6, <1>8, <1>11, <1>17, <1>18, <1>19, <1>20, <1>21 DEF IInv


\* A receive that meets the end of the stream: nothing is under way any more, and
\* it reports a clean close only if the sender ended between two messages.
LEMMA ReadEndsStep ==
    ASSUME IInv, ReadEnds
    PROVE  /\ IInv' /\ Queue = << >> /\ Queue' = Queue
           /\ \/ sender = "done" /\ receiver' = "closed"
              \/ sender \in {"cut", "reset"} /\ receiver' = "failed"
<1> DEFINE w == wire \o Unsent
<1>0. /\ TypeOK /\ StreamInv /\ HistoryInv /\ SendInv /\ EndInv BY DEF IInv
<1>a. /\ receiver \in {"header", "payload"} /\ Len(buf) < len
      /\ wire = << >> /\ sender \in {"done", "cut", "reset"}
      /\ receiver' = IF receiver = "header" /\ buf = << >> /\ sender # "reset"
                     THEN "closed" ELSE "failed"
      /\ UNCHANGED <<sender, out, begun, wire, len, buf, received>>
  BY DEF ReadEnds
<1>b. /\ Live /\ buf \in Seq(Byte) /\ len \in Nat /\ Stream \in Seq(Byte)
      /\ Stream = Taken \o w /\ Taken \in Seq(Byte) /\ Len(buf) \in Nat
  BY <1>0, <1>a, StreamType, LenFacts DEF TypeOK, Live
<1>1. Unsent = << >> /\ w = << >>
  <2>1. out = << >> BY <1>0, <1>a DEF SendInv
  <2>2. Unsent = << >> BY <2>1, FlattenEmpty DEF Unsent
  <2>3. << >> \in Seq(Byte) BY EmptySeq
  <2>4. << >> \o << >> = << >> BY <2>3, ConcatEmptySeq
  <2> QED BY <2>2, <2>4, <1>a, Zenon DEF w
<1>2. Stream = Taken
  <2>1. Taken \o << >> = Taken BY <1>b, ConcatEmptySeq
  <2> QED BY <2>1, <1>1, <1>b, Zenon
<1>3. Queue' = Queue BY <1>a DEF Queue
<1>4. IInv'
  <2>1. receiver' \in {"closed", "failed"} BY <1>a
  <2>2. TypeOK' BY <2>1, <1>0, <1>a DEF TypeOK
  <2>3. StreamInv' BY <2>1 DEF StreamInv, Live
  <2>4. Unwritten' = Unwritten BY <1>a DEF Unwritten, Unsent
  <2>5. HistoryInv' BY <2>4, <1>0, <1>a DEF HistoryInv
  <2>6. SendInv' BY <2>4, <1>0, <1>a DEF SendInv
  <2>7. EndInv' BY <1>a DEF EndInv, Ended
  <2> QED BY <2>2, <2>3, <2>5, <2>6, <2>7 DEF IInv
<1>5. CASE receiver = "header"
  <2>1. Stream = buf /\ len = HeaderSize BY <1>2, <1>5, <1>0 DEF Taken, StreamInv
  <2>2. CASE buf = << >>
    <3>1. Queue = << >> /\ sender # "cut" BY <2>1, <2>2, <1>b, StreamFront
    <3> QED BY <3>1, <2>2, <1>3, <1>5, <1>4, <1>a
  <2>3. CASE buf # << >>
    <3>1. PICK m \in Messages : \E x, y : AtFront(Stream, Queue, sender, m, x, y)
      BY <2>1, <2>3, <1>b, StreamFront
    <3>2. PICK x, y : AtFront(Stream, Queue, sender, m, x, y) BY <3>1
    <3>3. Queue = << >>
      <4> SUFFICES ASSUME Queue # << >> PROVE FALSE OBVIOUS
      <4>1. Len(Stream) >= HeaderSize + Len(m) BY <3>2, <1>b, FrontLong
      <4> DEFINE l == Len(m)
                 k == Len(buf)
      <4>2. l \in Nat /\ k \in Nat /\ k < HeaderSize /\ k >= HeaderSize + l /\ HeaderSize \in Nat
        BY <4>1, <2>1, <1>a, <1>b, MessageFacts, Sizes
      <4> HIDE DEF l, k
      <4> QED BY <4>2
    <3>4. sender \in {"cut", "reset"} BY <3>2, <3>3 DEF AtFront
    <3> QED BY <3>3, <3>4, <2>3, <1>3, <1>4, <1>a
  <2> QED BY <2>2, <2>3
<1>6. CASE receiver = "payload"
  <2>1. PICK m \in Messages : \E x, y :
           /\ AtFront(Stream, Queue, sender, m, x, y) /\ len = Len(m)
           /\ buf \o (w \o x) = m \o y
    BY <1>6, PayloadFront
  <2>2. PICK x, y : /\ AtFront(Stream, Queue, sender, m, x, y) /\ len = Len(m)
                    /\ buf \o (w \o x) = m \o y
    BY <2>1
  <2> HIDE DEF w
  <2>3. Queue = << >>
    <3> SUFFICES ASSUME Queue # << >> PROVE FALSE OBVIOUS
    <3>1. x = << >> /\ y \in Seq(Byte) BY <2>2 DEF AtFront
    <3>2. w \o x = << >>
      <4>1. << >> \in Seq(Byte) BY EmptySeq
      <4>2. << >> \o << >> = << >> BY <4>1, ConcatEmptySeq
      <4> QED BY <4>2, <3>1, <1>1, Zenon
    <3>3. buf \o << >> = buf BY <1>b, ConcatEmptySeq
    <3>4. buf = m \o y BY <3>2, <3>3, <2>2, Zenon
    <3>5. m \in Seq(Byte) /\ Len(m) \in Nat /\ Len(y) \in Nat BY <3>1, MessageFacts, LenProperties
    <3>6. Len(m \o y) = Len(m) + Len(y) BY <3>1, <3>5, ConcatProperties
    <3> DEFINE l == Len(m)
               k == Len(y)
    <3>7. l \in Nat /\ k \in Nat /\ l + k < l BY <3>4, <3>5, <3>6, <2>2, <1>a
    <3> HIDE DEF l, k
    <3> QED BY <3>7
  <2>4. sender \in {"cut", "reset"} BY <2>2, <2>3 DEF AtFront
  <2> QED BY <2>3, <2>4, <1>3, <1>6, <1>4, <1>a
<1> QED BY <1>5, <1>6, <1>a

LEMMA ReceiverEndsStep ==
    ASSUME IInv, ReceiverEnds
    PROVE  IInv' /\ Queue' = << >>
<1>0. /\ TypeOK /\ StreamInv /\ HistoryInv /\ SendInv /\ EndInv BY DEF IInv
<1>a. /\ receiver' = "gone" /\ wire' = << >> /\ len' = 0 /\ buf' = << >>
      /\ UNCHANGED <<sender, out, begun, received>>
  BY DEF ReceiverEnds
<1>1. << >> \in Seq(Byte) /\ Len(<< >>) = 0 /\ Len(<< >>) <= 0 BY EmptySeq
<1>2. Len(<< >>) <= SocketBuffer BY <1>1, Sizes
<1>3. TypeOK' BY <1>0, <1>1, <1>2, <1>a DEF TypeOK
<1>4. StreamInv' BY <1>a DEF StreamInv, Live
<1>5. Unwritten' = Unwritten BY <1>a DEF Unwritten, Unsent
<1>6. HistoryInv' BY <1>0, <1>5, <1>a DEF HistoryInv
<1>7. SendInv' BY <1>0, <1>5, <1>a DEF SendInv
<1>8. EndInv' BY <1>a DEF EndInv
<1>9. Queue' = << >> BY <1>a, QueueIs
<1> QED BY <1>3, <1>4, <1>6, <1>7, <1>8, <1>9 DEF IInv


-----------------------------------------------------------------------------
(* The theorems *)

LEMMA InitInv == Init => IInv /\ Queue = << >>
<1> SUFFICES ASSUME Init PROVE IInv /\ Queue = << >> OBVIOUS
<1>a. /\ sender = "idle" /\ out = << >> /\ begun = << >> /\ wire = << >>
      /\ receiver = "idle" /\ len = 0 /\ buf = << >> /\ received = << >>
  BY DEF Init
<1>1. /\ << >> \in Seq(Byte) /\ << >> \in Seq(Seq(Byte)) /\ << >> \in Seq(Batches)
      /\ Len(<< >>) = 0 /\ Len(<< >>) <= 0
  BY EmptySeq
<1>2. TypeOK BY <1>1, <1>a, Sizes DEF TypeOK
<1>3. Unsent = << >> /\ Unwritten = 0 BY <1>1, <1>a, FlattenEmpty DEF Unsent, Unwritten
<1>4. HistoryInv
  <2>1. DOMAIN received = {} BY <1>a
  <2> QED BY <2>1, <1>1, <1>3, <1>a DEF HistoryInv
<1>5. Queue = << >>
  <2>1. receiver # "gone" /\ ~ Len(received) < Len(begun) BY <1>1, <1>a
  <2> QED BY <2>1, <1>2, <1>4, QueueLen
<1>6. Stream = << >>
  <2>1. Taken = << >> BY <1>a DEF Taken
  <2>2. << >> \o << >> = << >> BY <1>1, ConcatEmptySeq
  <2> QED BY <2>1, <2>2, <1>3, <1>a, Zenon DEF Stream
<1>7. StreamInv
  <2>1. Stream = RowOf(Queue) BY <1>5, <1>6, RowEmpty
  <2>2. sender # "cut" BY <1>a
  <2>3. Holds(Stream, Queue, sender) BY <2>1, <2>2 DEF Holds
  <2>4. Whole \/ CutOff BY <2>3, StreamIs
  <2> QED BY <2>4, <1>a DEF StreamInv
<1>8. SendInv BY <1>a DEF SendInv
<1>9. EndInv BY <1>a DEF EndInv
<1> QED BY <1>2, <1>4, <1>5, <1>7, <1>8, <1>9 DEF IInv

LEMMA SendBeginQueue ==
    ASSUME IInv, NEW b \in Batches, SendBegin(b)
    PROVE  Queue' = IF receiver = "gone" THEN << >> ELSE Append(Queue, Encode(b))
<1>1. TypeOK /\ HistoryInv BY DEF IInv
<1>2. receiver' = receiver /\ received' = received /\ begun' = Append(begun, b)
  BY DEF SendBegin
<1>3. CASE receiver = "gone" BY <1>2, <1>3, QueueIs
<1>4. CASE receiver # "gone"
  <2>1. begun \in Seq(Batches) /\ received \in Seq(Seq(Byte)) /\ Len(received) <= Len(begun)
    BY <1>1, HistoryTypes
  <2>2. QueueOf(Append(begun, b), received) = Append(QueueOf(begun, received), Encode(b))
    BY <2>1, QueueAppend
  <2>3. Queue' = QueueOf(begun', received') /\ Queue = QueueOf(begun, received)
    BY <1>2, <1>4, QueueIs
  <2> QED BY <2>2, <2>3, <1>2, <1>4, Zenon
<1> QED BY <1>3, <1>4

LEMMA UnchangedStep ==
    ASSUME IInv, UNCHANGED vars
    PROVE  IInv' /\ Queue' = Queue
<1>a. UNCHANGED <<sender, out, begun, wire, receiver, len, buf, received>> BY DEF vars
<1>1. Queue' = Queue BY <1>a DEF Queue
<1>2. Stream' = Stream /\ Unwritten' = Unwritten
  BY <1>a DEF Stream, Taken, Unsent, Unwritten
<1>3. Live => (Whole \/ CutOff)' BY <1>1, <1>2, <1>a, KeepStream
<1>4. TypeOK' BY <1>a DEF TypeOK, IInv
<1>5. StreamInv' BY <1>3, <1>a DEF StreamInv, Live, IInv
<1>6. HistoryInv' BY <1>2, <1>a DEF HistoryInv, IInv
<1>7. SendInv' BY <1>2, <1>a DEF SendInv, IInv
<1>8. EndInv' BY <1>a DEF EndInv, Ended, IInv
<1> QED BY <1>1, <1>4, <1>5, <1>6, <1>7, <1>8 DEF IInv

LEMMA NextInv == IInv /\ [Next]_vars => IInv'
<1> SUFFICES ASSUME IInv, [Next]_vars PROVE IInv' OBVIOUS
<1>1. CASE \E b \in Batches : SendBegin(b) BY <1>1, SendBeginStep
<1>2. CASE SendStep BY <1>2, WriteAllDoneStep, SendThrowsStep, WriteStep DEF SendStep
<1>3. CASE ReceiveStep
  BY <1>3, ReceiveBeginStep, HeaderDoneStep, ReceiveReturnStep, ReadEndsStep, ReadStep
     DEF ReceiveStep
<1>4. CASE \E unread \in BOOLEAN : SenderEnds(unread) BY <1>4, SenderEndsStep
<1>5. CASE ReceiverEnds BY <1>5, ReceiverEndsStep
<1>6. CASE UNCHANGED vars BY <1>6, UnchangedStep
<1> QED BY <1>1, <1>2, <1>3, <1>4, <1>5, <1>6 DEF Next

\* The bytes read, in the socket and still to be written are those of the messages
\* under way, whatever pieces write and read take and whenever an end goes away.
THEOREM InvariantHolds == Spec => []IInv
<1>1. Init => IInv BY InitInv
<1> QED BY <1>1, NextInv, PTL DEF Spec

\* Type correctness of the transport; neither the socket nor the buffer of
\* read_all overflows.
THEOREM TypeCorrect == Spec => []TypeOK
<1>1. IInv => TypeOK BY DEF IInv
<1> QED BY <1>1, InvariantHolds, PTL

LEMMA BatchesIntactInv == IInv => BatchesIntact
<1> SUFFICES ASSUME IInv PROVE BatchesIntact OBVIOUS
<1>0. TypeOK /\ HistoryInv /\ Len(buf) \in Nat BY LenFacts DEF IInv
<1>1. ASSUME NEW i \in DOMAIN received, NEW b \in Batches, b.kind # "raw",
             Encode(b) = Encode(begun[i])
      PROVE  Decodes(b.kind, received[i], b.items)
  <2> DEFINE e == Encode(b)
  <2>1. received[i] = e BY <1>0, <1>1 DEF HistoryInv
  <2>2. e \in Seq(Byte) /\ Len(e) \in Nat /\ IsBatch(b.kind, b.items)
        /\ e = EncodeBatch(b.kind, b.items)
    BY <1>1, EncodeFacts
  <2> HIDE DEF e
  <2>3. Begins(e, e) BY <2>2 DEF Begins
  <2>4. Decodes(b.kind, e, b.items) BY <2>2, <2>3, RoundTrip
  <2> QED BY <2>1, <2>4
<1>2. ASSUME receiver = "payload", Len(buf) < len, Len(begun) > Len(received),
             NEW b, b = begun[Len(received) + 1], b.kind # "raw"
      PROVE  ~ DecodeBatch(b.kind, buf).ok
  <2> DEFINE w == wire \o Unsent
             q == QueueOf(begun, received)
  <2>1. /\ begun \in Seq(Batches) /\ received \in Seq(Seq(Byte)) /\ buf \in Seq(Byte)
        /\ w \in Seq(Byte)
    BY <1>0, StreamType DEF TypeOK
  <2>2. Queue = q /\ Queue # << >>
    <3>1. receiver # "gone" /\ Len(received) < Len(begun) BY <1>2, <1>0, LenFacts
    <3> QED BY <3>1, <1>0, QueueLen
  <2>3. Head(q) = Encode(b) /\ b \in Batches
    <3>1. Len(received) < Len(begun) BY <1>2, <1>0, LenFacts
    <3> QED BY <3>1, <2>1, <1>2, QueueTail
  <2>4. PICK m \in Messages : \E x, y :
           /\ AtFront(Stream, Queue, sender, m, x, y) /\ len = Len(m)
           /\ buf \o (w \o x) = m \o y
    BY <1>2, PayloadFront
  <2>5. PICK x, y : /\ AtFront(Stream, Queue, sender, m, x, y) /\ len = Len(m)
                    /\ buf \o (w \o x) = m \o y
    BY <2>4
  <2> HIDE DEF w, q
  <2>6. m = Encode(b) /\ x \in Seq(Byte) /\ y \in Seq(Byte) BY <2>2, <2>3, <2>5 DEF AtFront
  <2>7. m \in Seq(Byte) /\ Len(m) \in Nat /\ IsBatch(b.kind, b.items)
        /\ m = EncodeBatch(b.kind, b.items)
    BY <2>3, <2>6, <1>2, EncodeFacts
  <2>8. Begins(buf, m)
    <3> DEFINE v == w \o x
    <3>1. v \in Seq(Byte) BY <2>1, <2>6, ConcatProperties
    <3>2. buf \o v = m \o y BY <2>5
    <3> HIDE DEF v
    <3>3. ASSUME NEW j \in 1..Len(buf) PROVE m[j] = buf[j]
      <4>1. (buf \o v)[j] = buf[j] BY <3>1, <2>1
      <4>2. j \in 1..Len(m) BY <2>5, <2>7, <1>0, <1>2
      <4>3. (m \o y)[j] = m[j] BY <4>2, <2>6, <2>7
      <4> QED BY <4>1, <4>3, <3>2, Zenon
    <3>4. Len(buf) <= Len(m) BY <2>5, <2>7, <1>0, <1>2
    <3> QED BY <3>3, <3>4 DEF Begins
  <2>9. Len(buf) < Len(m) BY <2>5, <1>2
  <2> QED BY <2>1, <2>7, <2>8, <2>9, RoundTrip
<1> QED BY <1>1, <1>2 DEF BatchesIntact

\* A received batch decodes to the batch that was encoded, and what read_all has of
\* an incomplete one decodes to nothing, for batches of any size.
THEOREM NothingGarbled == Spec => []BatchesIntact
BY BatchesIntactInv, InvariantHolds, PTL

-----------------------------------------------------------------------------
(* The transport implements the message channel *)

LEMMA NextRefines == IInv /\ [Next]_vars => [Channel!Next]_(Channel!vars)
<1> SUFFICES ASSUME IInv, [Next]_vars PROVE Channel!Next \/ UNCHANGED Channel!vars
  OBVIOUS
<1> DEFINE r == IF receiver \in {"header", "payload"} THEN "receiving" ELSE receiver
<1>1. ASSUME NEW b \in Batches, SendBegin(b) PROVE Channel!Next
  <2>1. Queue' = IF receiver = "gone" THEN << >> ELSE Append(Queue, Encode(b))
    BY <1>1, SendBeginQueue
  <2>2. /\ sender = "idle" /\ sender' = "sending" /\ receiver' = receiver
        /\ received' = received
    BY <1>1 DEF SendBegin
  <2>3. Channel!SendBegin(Encode(b)) BY <2>1, <2>2 DEF Channel!SendBegin
  <2> QED BY <2>3 DEF Channel!Next
<1>2. ASSUME NEW n \in Amount, Write(n) PROVE UNCHANGED Channel!vars
  <2>1. UNCHANGED <<sender, begun, receiver, received>> BY <1>2 DEF Write
  <2>2. Queue' = Queue BY <2>1 DEF Queue
  <2> QED BY <2>1, <2>2 DEF Channel!vars
<1>3. ASSUME WriteAllDone PROVE Channel!Next \/ UNCHANGED Channel!vars
  <2>1. Queue' = Queue /\ (Len(out) = 1 \/ sender' = sender) BY <1>3, WriteAllDoneStep
  <2>2. /\ sender = "sending" /\ sender' = IF Len(out) = 1 THEN "idle" ELSE "sending"
        /\ UNCHANGED <<receiver, received>>
    BY <1>3 DEF WriteAllDone
  <2>3. CASE Len(out) = 1
    <3>1. Channel!SendReturn BY <2>1, <2>2, <2>3 DEF Channel!SendReturn
    <3> QED BY <3>1 DEF Channel!Next
  <2>4. CASE sender' = sender BY <2>1, <2>2, <2>4 DEF Channel!vars
  <2> QED BY <2>1, <2>3, <2>4
<1>4. ASSUME SendThrows PROVE Channel!Next
  <2>1. /\ sender = "sending" /\ receiver = "gone" /\ sender' = "threw"
        /\ UNCHANGED <<begun, receiver, received>>
    BY <1>4 DEF SendThrows
  <2>2. Queue' = Queue BY <2>1 DEF Queue
  <2>3. Channel!SendThrows BY <2>1, <2>2 DEF Channel!SendThrows
  <2> QED BY <2>3 DEF Channel!Next
<1>5. ASSUME NEW unread \in BOOLEAN, SenderEnds(unread) PROVE Channel!Next
  <2>1. \/ sender' \in {"done", "reset"} /\ Queue' = Queue
        \/ /\ sender = "sending" /\ (Queue # << >> \/ receiver = "gone")
           /\ sender' \in {"done", "cut", "reset"}
           /\ Queue' = SubSeq(Queue, 1, Len(Queue) - 1)
    BY <1>5, SenderEndsStep
  <2>2. sender \in {"idle", "sending", "threw"} /\ UNCHANGED <<receiver, received>>
    BY <1>5 DEF SenderEnds
  <2>3. Channel!SenderEnds BY <2>1, <2>2 DEF Channel!SenderEnds
  <2> QED BY <2>3 DEF Channel!Next
<1>6. ASSUME ReceiveBegin PROVE Channel!Next
  <2>1. Queue' = Queue BY <1>6, ReceiveBeginStep
  <2>2. receiver = "idle" /\ receiver' = "header" /\ UNCHANGED <<sender, received>>
    BY <1>6 DEF ReceiveBegin
  <2>3. Channel!ReceiveBegin BY <2>1, <2>2 DEF Channel!ReceiveBegin
  <2> QED BY <2>3 DEF Channel!Next
<1>7. ASSUME NEW n \in Amount, Read(n) PROVE UNCHANGED Channel!vars
  <2>1. UNCHANGED <<sender, receiver, received>> BY <1>7 DEF Read
  <2>2. Queue' = Queue BY <1>7, ReadStep
  <2> QED BY <2>1, <2>2 DEF Channel!vars
<1>8. ASSUME HeaderDone PROVE UNCHANGED Channel!vars
  <2>1. receiver = "header" /\ receiver' = "payload" /\ UNCHANGED <<sender, received>>
    BY <1>8 DEF HeaderDone
  <2>2. Queue' = Queue BY <1>8, HeaderDoneStep
  <2> QED BY <2>1, <2>2 DEF Channel!vars
<1>9. ASSUME ReceiveReturn PROVE Channel!Next
  <2>1. Queue # << >> /\ Queue' = Tail(Queue) /\ received' = Append(received, Head(Queue))
    BY <1>9, ReceiveReturnStep
  <2>2. receiver = "payload" /\ receiver' = "idle" /\ UNCHANGED sender
    BY <1>9 DEF ReceiveReturn
  <2>3. Channel!ReceiveReturn BY <2>1, <2>2 DEF Channel!ReceiveReturn
  <2> QED BY <2>3 DEF Channel!Next
<1>10. ASSUME ReadEnds PROVE Channel!Next
  <2>1. /\ Queue = << >> /\ Queue' = Queue
        /\ \/ sender = "done" /\ receiver' = "closed"
           \/ sender \in {"cut", "reset"} /\ receiver' = "failed"
    BY <1>10, ReadEndsStep
  <2>2. receiver \in {"header", "payload"} /\ UNCHANGED <<sender, received>>
    BY <1>10 DEF ReadEnds
  <2>3. Channel!ReceiveThrows BY <2>1, <2>2 DEF Channel!ReceiveThrows
  <2> QED BY <2>3 DEF Channel!Next
<1>11. ASSUME ReceiverEnds PROVE Channel!Next
  <2>1. Queue' = << >> BY <1>11, ReceiverEndsStep
  <2>2. receiver # "gone" /\ receiver' = "gone" /\ UNCHANGED <<sender, received>>
    BY <1>11 DEF ReceiverEnds
  <2>3. Channel!ReceiverEnds BY <2>1, <2>2 DEF Channel!ReceiverEnds
  <2> QED BY <2>3 DEF Channel!Next
<1>12. ASSUME UNCHANGED vars PROVE UNCHANGED Channel!vars
  <2>1. UNCHANGED <<sender, receiver, received>> BY <1>12 DEF vars
  <2>2. Queue' = Queue BY <1>12, UnchangedStep
  <2> QED BY <2>1, <2>2 DEF Channel!vars
<1> QED BY <1>1, <1>2, <1>3, <1>4, <1>5, <1>6, <1>7, <1>8, <1>9, <1>10, <1>11, <1>12
        DEF Next, SendStep, ReceiveStep

\* UnixSocketTransport implements the channel of whole messages on which Router and
\* its workers are modelled: nothing is truncated, merged, reordered or repeated,
\* and PeerClosedError is raised only between messages.
THEOREM ImplementsMessageChannel == Spec => ImplementsChannel
<1>1. Init => Channel!Init
  <2> SUFFICES ASSUME Init PROVE Channel!Init OBVIOUS
  <2>1. Queue = << >> BY InitInv
  <2> QED BY <2>1 DEF Init, Channel!Init
<1> QED BY <1>1, InvariantHolds, NextRefines, PTL DEF Spec, ImplementsChannel, Channel!Spec
=============================================================================
