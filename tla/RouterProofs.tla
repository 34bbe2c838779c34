---------------------------- MODULE RouterProofs ----------------------------
(***************************************************************************)
(* The Router for every set of shards, every placement of experts, every    *)
(* batch, every number of calls and every kill of a worker, as long as it   *)
(* is not used again after it threw: IInv of Router is inductive.           *)
(***************************************************************************)
EXTENDS Router, FunctionTheorems, FiniteSetTheorems, SequenceTheorems, TLAPS

-----------------------------------------------------------------------------
(* Lists of shards and of messages *)

\* Appending a value that is not in a list.
LEMMA AppendRange ==
    ASSUME NEW S, NEW q \in Seq(S), NEW x \in S
    PROVE  /\ Range(Append(q, x)) = Range(q) \cup {x}
           /\ IsInjective(q) /\ x \notin Range(q) => IsInjective(Append(q, x))
<1> DEFINE a == Append(q, x)
<1>1. /\ a \in Seq(S) /\ Len(a) = Len(q) + 1 /\ Len(q) \in Nat
      /\ a[Len(q) + 1] = x /\ \A k \in 1..Len(q) : a[k] = q[k]
  BY AppendProperties, LenProperties
<1>2. DOMAIN a = 1..(Len(q) + 1) /\ DOMAIN q = 1..Len(q)
  BY <1>1, LenProperties
<1> HIDE DEF a
<1>3. Range(a) = Range(q) \cup {x} BY <1>1, <1>2 DEF Range
<1>4. IsInjective(q) /\ x \notin Range(q) => IsInjective(a)
  BY <1>1, <1>2 DEF Range, IsInjective
<1> QED BY <1>3, <1>4 DEF a

\* Removing the front of a list without repetitions.
LEMMA TailRange ==
    ASSUME NEW S, NEW q \in Seq(S), q # << >>, IsInjective(q)
    PROVE  /\ Head(q) \in Range(q) /\ Range(Tail(q)) = Range(q) \ {Head(q)}
           /\ IsInjective(Tail(q))
<1> DEFINE n == Len(q)
           a == Tail(q)
<1>1. /\ a \in Seq(S) /\ Len(a) = n - 1 /\ n \in Nat \ {0}
      /\ \A k \in 1..(n - 1) : a[k] = q[k + 1]
  BY HeadTailProperties, EmptySeq
<1>2. Head(q) = q[1] OBVIOUS
<1>3. DOMAIN a = 1..(n - 1) /\ DOMAIN q = 1..n BY <1>1, LenProperties
<1> HIDE DEF n, a
<1>4. \A k \in 1..(n - 1) : k + 1 \in 1..n /\ k + 1 # 1 BY <1>1
<1>5. \A k \in 2..n : a[k - 1] = q[k] /\ k - 1 \in 1..(n - 1) BY <1>1
<1>6. Head(q) \in Range(q) BY <1>1, <1>2, <1>3 DEF Range
<1>7. Range(a) = Range(q) \ {Head(q)}
  <2>1. ASSUME NEW y \in Range(a) PROVE y \in Range(q) /\ y # q[1]
    <3>1. PICK k \in 1..(n - 1) : y = a[k] BY <2>1, <1>3 DEF Range
    <3>2. y = q[k + 1] /\ k + 1 \in 1..n /\ k + 1 # 1 /\ 1 \in 1..n BY <3>1, <1>1, <1>4
    <3> QED BY <3>2, <1>3 DEF Range, IsInjective
  <2>2. ASSUME NEW y \in Range(q), y # q[1] PROVE y \in Range(a)
    <3>1. PICK k \in 1..n : y = q[k] BY <2>2, <1>3 DEF Range
    <3>2. k \in 2..n BY <3>1, <2>2, <1>1
    <3> QED BY <3>1, <3>2, <1>5, <1>3 DEF Range
  <2> QED BY <2>1, <2>2, <1>2
<1>8. IsInjective(a)
  <2> SUFFICES ASSUME NEW j \in 1..(n - 1), NEW k \in 1..(n - 1), a[j] = a[k]
               PROVE  j = k
    BY <1>3 DEF IsInjective
  <2>1. q[j + 1] = q[k + 1] /\ j + 1 \in 1..n /\ k + 1 \in 1..n BY <1>1
  <2>2. j + 1 = k + 1 BY <2>1, <1>3 DEF IsInjective
  <2> QED BY <2>2
<1> QED BY <1>6, <1>7, <1>8 DEF a

\* The empty list.
LEMMA EmptyRange == Range(<< >>) = {} /\ IsInjective(<< >>)
BY DEF Range, IsInjective

\* The list of one message, and the empty list made one longer.
LEMMA OneMessage ==
    ASSUME NEW x
    PROVE  /\ Append(<< >>, x) = <<x>> /\ Len(<<x>>) = 1 /\ Len(<< >>) = 0
           /\ Head(<<x>>) = x /\ Tail(<<x>>) = << >> /\ <<x>> # << >>
           /\ SubSeq(<<x>>, 1, Len(<<x>>) - 1) = << >>
OBVIOUS

-----------------------------------------------------------------------------
(* Batches *)

TokenRec == [pos : Nat, primary : Nat, secondary : Nat]

\* The argument of a call; for the tolerant method its positions are those of
\* the answer, each once.
LEMMA BatchShape ==
    ASSUME NEW m \in Methods, NEW b \in Batches[m]
    PROVE  /\ b \in Seq(TokenRec)
           /\ m = "tolerant" =>
                 /\ \A i \in DOMAIN b : b[i].pos \in Positions(b)
                 /\ \A p \in Positions(b) : \E i \in DOMAIN b : b[i].pos = p
                 /\ \A i, j \in DOMAIN b : b[i].pos = b[j].pos => i = j
<1>1. b \in Seq(TokenRec) BY BatchesAssumption DEF TokenRec
<1>2. Len(b) \in Nat /\ DOMAIN b = 1..Len(b) BY <1>1, LenProperties
<1>3. ASSUME m = "tolerant"
      PROVE  /\ \A i \in DOMAIN b : b[i].pos \in Positions(b)
             /\ \A p \in Positions(b) : \E i \in DOMAIN b : b[i].pos = p
             /\ \A i, j \in DOMAIN b : b[i].pos = b[j].pos => i = j
  <2> DEFINE n == Len(b)
             f == [i \in 1..n |-> b[i].pos]
  <2>1. {b[i].pos : i \in DOMAIN b} = 0..(n - 1) BY <1>3, BatchesAssumption
  <2> HIDE DEF n
  <2>2. /\ \A i \in DOMAIN b : b[i].pos \in 0..(n - 1)
        /\ \A p \in 0..(n - 1) : \E i \in DOMAIN b : b[i].pos = p
    BY <2>1
  <2>3. n \in Nat /\ DOMAIN b = 1..n BY <1>2 DEF n
  <2>4. f \in Surjection(1..n, 0..(n - 1))
    <3>1. f \in [1..n -> 0..(n - 1)] BY <2>2, <2>3
    <3>2. \A p \in 0..(n - 1) : \E i \in 1..n : f[i] = p BY <2>2, <2>3
    <3> QED BY <3>1, <3>2, Fun_IsSurj
  <2>5. IsFiniteSet(1..n) /\ Cardinality(1..n) = Cardinality(0..(n - 1))
    BY <2>3, FS_Interval
  <2>6. f \in Injection(1..n, 0..(n - 1))
    BY <2>4, <2>5, FS_SurjSameCardinalityImpliesInj
  <2>7. \A i, j \in 1..n : f[i] = f[j] => i = j
    BY <2>6 DEF Injection, IsInjective
  <2> QED BY <2>2, <2>3, <2>7 DEF n, Positions
<1> QED BY <1>1, <1>3

\* The same of the argument of the current call.
LEMMA BatchFacts ==
    ASSUME CallInv
    PROVE  /\ tokens \in Seq(TokenRec) /\ Len(tokens) \in Nat
           /\ DOMAIN tokens = 1..Len(tokens)
           /\ \A i \in DOMAIN tokens : tokens[i].pos \in Nat
           /\ method = "tolerant" =>
                 /\ \A i \in DOMAIN tokens : tokens[i].pos \in Positions(tokens)
                 /\ \A p \in Positions(tokens) :
                       \E i \in DOMAIN tokens : tokens[i].pos = p
                 /\ \A i, j \in DOMAIN tokens : tokens[i].pos = tokens[j].pos => i = j
<1>1. tokens \in Seq(TokenRec)
  <2>1. CASE method = "none"
    <3>1. tokens = << >> BY <2>1 DEF CallInv
    <3> QED BY <3>1, EmptySeq
  <2>2. CASE method # "none" BY <2>2, BatchShape DEF CallInv
  <2> QED BY <2>1, <2>2
<1>2. Len(tokens) \in Nat /\ DOMAIN tokens = 1..Len(tokens) BY <1>1, LenProperties
<1>3. \A i \in DOMAIN tokens : tokens[i].pos \in Nat
  <2>1. \A i \in DOMAIN tokens : tokens[i] \in TokenRec BY <1>1, <1>2, ElementOfSeq
  <2> QED BY <2>1 DEF TokenRec
<1>4. method = "tolerant" => method \in Methods /\ tokens \in Batches[method]
  BY DEF CallInv
<1> QED BY <1>1, <1>2, <1>3, <1>4, BatchShape

\* Every token of a mapped batch has a shard.
LEMMA ShardType ==
    ASSUME Mapped(tokens), NEW i \in DOMAIN tokens
    PROVE  ShardOf(tokens, i) \in Shards
BY RouterAssumption DEF Mapped, ShardOf

\* What goes over the sockets.
LEMMA MessageTypes ==
    ASSUME TypeOK, CallInv, calls > 0, NEW sh \in Shards
    PROVE  Request(sh) \in SUBSET TokenMessage /\ Reply(sh) \in SUBSET ResultMessage
<1>1. ASSUME NEW t \in Request(sh) PROVE t \in TokenMessage
  <2>1. PICK i \in Group(sh) : t = [token_id |-> <<calls, i>>, pos |-> tokens[i].pos]
    BY <1>1 DEF Request
  <2>2. i \in DOMAIN tokens BY DEF Group
  <2>3. i \in Nat /\ tokens[i].pos \in Nat BY <2>2, BatchFacts
  <2>a. calls \in 0..MaxCalls /\ MaxCalls \in Nat BY RouterAssumption DEF TypeOK
  <2>4. calls \in 1..MaxCalls BY <2>a
  <2> QED BY <2>1, <2>3, <2>4 DEF TokenMessage
<1>2. ASSUME NEW r \in Reply(sh) PROVE r \in ResultMessage
  <2>1. PICK t \in Request(sh) : r = Processed(t, sh) BY <1>2 DEF Reply
  <2>2. t \in TokenMessage BY <1>1
  <2> QED BY <2>1, <2>2 DEF Processed, TokenMessage, ResultMessage
<1> QED BY <1>1, <1>2

\* The results of a shard are those of its group.
LEMMA ReplyMembers ==
    ASSUME NEW sh
    PROVE  Reply(sh) = {[token_id |-> <<calls, i>>, pos |-> tokens[i].pos, shard |-> sh]
                           : i \in Group(sh)}
<1> DEFINE req(i) == [token_id |-> <<calls, i>>, pos |-> tokens[i].pos]
           res(i) == [token_id |-> <<calls, i>>, pos |-> tokens[i].pos, shard |-> sh]
<1>1. Request(sh) = {req(i) : i \in Group(sh)} BY DEF Request
<1>2. Reply(sh) = {Processed(t, sh) : t \in Request(sh)} BY DEF Reply
<1>3. \A i : Processed(req(i), sh) = res(i) BY DEF Processed
<1> HIDE DEF req, res
<1>4. Reply(sh) = {res(i) : i \in Group(sh)} BY <1>1, <1>2, <1>3
<1> QED BY <1>4 DEF res

\* What depends on the call and its argument only.
LEMMA SameCall ==
    ASSUME UNCHANGED <<calls, tokens>>
    PROVE  /\ \A sh : Request(sh)' = Request(sh) /\ Reply(sh)' = Reply(sh)
           /\ \A sh : Group(sh)' = Group(sh) /\ GroupPositions(sh)' = GroupPositions(sh)
           /\ \A i : /\ ShardOf(tokens, i)' = ShardOf(tokens, i)
                     /\ EffectiveExpert(tokens, i)' = EffectiveExpert(tokens, i)
                     /\ Served(i)' = Served(i)
           /\ \A p : Failure(p)' = Failure(p)
           /\ BatchShards' = BatchShards /\ Mapped(tokens)' = Mapped(tokens)
           /\ Positions(tokens)' = Positions(tokens)
<1>1. \A i : /\ EffectiveExpert(tokens, i)' = EffectiveExpert(tokens, i)
             /\ ShardOf(tokens, i)' = ShardOf(tokens, i)
  BY DEF EffectiveExpert, Before, ShardOf
<1>2. \A sh : Group(sh)' = Group(sh) BY <1>1 DEF Group
<1>3. \A sh : GroupPositions(sh)' = GroupPositions(sh) BY <1>2 DEF GroupPositions
<1>4. \A sh : Request(sh)' = Request(sh) BY <1>2 DEF Request
<1>5. \A sh : Reply(sh)' = Reply(sh) BY <1>4 DEF Reply, Processed
<1>6. \A i : Served(i)' = Served(i) BY <1>1 DEF Served
<1>7. \A p : Failure(p)' = Failure(p)
  <2>1. \A p : IndexAt(p)' = IndexAt(p) BY DEF IndexAt
  <2> QED BY <2>1 DEF Failure, EffectiveExpert, Before
<1>8. BatchShards' = BatchShards BY <1>1 DEF BatchShards
<1>9. Mapped(tokens)' = Mapped(tokens) BY DEF Mapped, EffectiveExpert, Before
<1>10. Positions(tokens)' = Positions(tokens) BY DEF Positions
<1> QED BY <1>1, <1>2, <1>3, <1>4, <1>5, <1>6, <1>7, <1>8, <1>9, <1>10

\* The traffic with a shard that a step does not touch.
LEMMA FlightElsewhere ==
    ASSUME NEW sh \in Shards, Flight(sh), UNCHANGED <<calls, tokens>>,
           to'[sh] = to[sh], from'[sh] = from[sh],
           worker'[sh] = worker[sh], hand'[sh] = hand[sh],
           sh \in Engaged' <=> sh \in Engaged
    PROVE  Flight(sh)'
<1>1. Request(sh)' = Request(sh) /\ Reply(sh)' = Reply(sh) BY SameCall
<1> QED BY <1>1 DEF Flight, Gone

-----------------------------------------------------------------------------
(* The workers, the kills and the closing of the transports *)

\* Steps that leave the call alone.
LEMMA CallUntouched ==
    ASSUME IInv, UNCHANGED callVars, mode # "idle" => open',
           \A sh \in Shards : Gone(sh) => Gone(sh)', TypeOK', FlightInv'
    PROVE  IInv'
<1>1. UNCHANGED <<calls, method, tokens, mode, todo, current, sent, flat, ordered,
                  unhealthy_shards_, outcome>>
  BY DEF callVars
<1>2. CallInv'
  <2>1. BatchShards' = BatchShards /\ Mapped(tokens)' = Mapped(tokens)
    BY <1>1, SameCall
  <2> QED BY <2>1, <1>1 DEF IInv, CallInv, Returned
<1>3. AnswerInv'
  <2>1. /\ BatchShards' = BatchShards /\ \A sh : Reply(sh)' = Reply(sh)
        /\ \A i : ShardOf(tokens, i)' = ShardOf(tokens, i) /\ Served(i)' = Served(i)
        /\ \A p : Failure(p)' = Failure(p)
    BY <1>1, SameCall
  <2> QED BY <2>1, <1>1 DEF IInv, AnswerInv
<1>4. OwnAnswers'
  BY <1>1, SameCall DEF IInv, OwnAnswers, Returned
<1>5. NoFalseFailure'
  <2>1. unhealthy_shards_ \subseteq Shards BY DEF IInv, TypeOK
  <2> QED BY <2>1, <1>1, SameCall DEF IInv, NoFalseFailure, Returned
<1>6. StrictInOrder => ExpertAnnotated'
  BY <1>1, SameCall DEF IInv, ExpertAnnotated, Returned
<1>7. StrictInOrder' <=> StrictInOrder BY DEF StrictInOrder, Positions
<1> QED BY <1>2, <1>3, <1>4, <1>5, <1>6, <1>7 DEF IInv

\* A worker computes the results of the request in its socket.
LEMMA WorkerReceiveInv ==
    ASSUME IInv, NEW sh \in Shards, WorkerReceive(sh)
    PROVE  IInv'
<1>0. /\ worker[sh] = "receive" /\ to[sh] # << >>
      /\ to' = [to EXCEPT ![sh] = Tail(to[sh])]
      /\ hand' = [hand EXCEPT ![sh] = {Processed(t, sh) : t \in Head(to[sh])}]
      /\ worker' = [worker EXCEPT ![sh] = "reply"]
      /\ UNCHANGED <<callVars, open, from>>
  BY DEF WorkerReceive
<1>1. /\ to \in [Shards -> Seq(SUBSET TokenMessage)]
      /\ from \in [Shards -> Seq(SUBSET ResultMessage)]
      /\ worker \in [Shards -> {"receive", "reply", "flush", "gone"}]
      /\ hand \in [Shards -> SUBSET ResultMessage]
  BY DEF IInv, TypeOK
<1>2. TypeOK'
  <2>1. to[sh] \in Seq(SUBSET TokenMessage) BY <1>1
  <2>2. Head(to[sh]) \in SUBSET TokenMessage /\ Tail(to[sh]) \in Seq(SUBSET TokenMessage)
    BY <2>1, <1>0, HeadTailProperties
  <2>3. {Processed(t, sh) : t \in Head(to[sh])} \in SUBSET ResultMessage
    BY <2>2 DEF Processed, TokenMessage, ResultMessage
  <2>4. /\ to' \in [Shards -> Seq(SUBSET TokenMessage)]
        /\ worker' \in [Shards -> {"receive", "reply", "flush", "gone"}]
        /\ hand' \in [Shards -> SUBSET ResultMessage]
    BY <2>2, <2>3, <1>0, <1>1
  <2> QED BY <2>4, <1>0 DEF callVars, IInv, TypeOK, Positions
<1>3. Engaged' = Engaged /\ UNCHANGED <<calls, tokens, outcome>>
  BY <1>0 DEF callVars, Engaged
<1>4. FlightInv'
  <2> SUFFICES ASSUME open, outcome # "threw", NEW s \in Shards PROVE Flight(s)'
    BY <1>0, <1>3 DEF FlightInv
  <2>1. Flight(sh) /\ Flight(s) BY DEF IInv, FlightInv
  <2>2. CASE s # sh BY <2>1, <2>2, <1>0, <1>1, <1>3, FlightElsewhere
  <2>3. CASE s = sh
    <3>2. from[sh] = << >> BY <2>1, <1>0 DEF Flight
    <3>3. sh \in Engaged /\ to[sh] = <<Request(sh)>> BY <2>1, <1>0 DEF Flight, Gone
    <3>4. Head(to[sh]) = Request(sh) /\ Tail(to[sh]) = << >>
      BY <3>3, OneMessage
    <3>5. /\ to'[sh] = << >> /\ from'[sh] = << >> /\ worker'[sh] = "reply"
          /\ hand'[sh] = Reply(sh)
      BY <3>2, <3>4, <1>0, <1>1 DEF Reply
    <3>6. Request(sh)' = Request(sh) /\ Reply(sh)' = Reply(sh) BY <1>3, SameCall
    <3> QED BY <3>3, <3>5, <3>6, <2>3, <1>3 DEF Flight
  <2> QED BY <2>2, <2>3
<1>5. \A s \in Shards : Gone(s) => Gone(s)' BY <1>0, <1>1 DEF Gone
<1> QED BY <1>0, <1>2, <1>4, <1>5, CallUntouched DEF IInv, CallInv

\* A worker sends its results.
LEMMA WorkerReplyInv ==
    ASSUME IInv, NEW sh \in Shards, WorkerReply(sh)
    PROVE  IInv'
<1>0. /\ worker[sh] = "reply"
      /\ from' = [from EXCEPT ![sh] = Append(from[sh], hand[sh])]
      /\ hand' = [hand EXCEPT ![sh] = {}]
      /\ worker' = [worker EXCEPT ![sh] = "flush"]
      /\ UNCHANGED <<callVars, open, to>>
  BY DEF WorkerReply
<1>1. /\ to \in [Shards -> Seq(SUBSET TokenMessage)]
      /\ from \in [Shards -> Seq(SUBSET ResultMessage)]
      /\ worker \in [Shards -> {"receive", "reply", "flush", "gone"}]
      /\ hand \in [Shards -> SUBSET ResultMessage]
  BY DEF IInv, TypeOK
<1>2. TypeOK'
  <2>1. Append(from[sh], hand[sh]) \in Seq(SUBSET ResultMessage)
    BY <1>1, AppendProperties
  <2>2. /\ from' \in [Shards -> Seq(SUBSET ResultMessage)]
        /\ worker' \in [Shards -> {"receive", "reply", "flush", "gone"}]
        /\ hand' \in [Shards -> SUBSET ResultMessage]
    BY <2>1, <1>0, <1>1
  <2> QED BY <2>2, <1>0 DEF callVars, IInv, TypeOK, Positions
<1>3. Engaged' = Engaged /\ UNCHANGED <<calls, tokens, outcome>>
  BY <1>0 DEF callVars, Engaged
<1>4. FlightInv'
  <2> SUFFICES ASSUME open, outcome # "threw", NEW s \in Shards PROVE Flight(s)'
    BY <1>0, <1>3 DEF FlightInv
  <2>1. Flight(sh) /\ Flight(s) BY DEF IInv, FlightInv
  <2>2. CASE s # sh BY <2>1, <2>2, <1>0, <1>1, <1>3, FlightElsewhere
  <2>3. CASE s = sh
    <3>2. from[sh] = << >> /\ to[sh] = << >> BY <2>1, <1>0 DEF Flight
    <3>3. sh \in Engaged /\ hand[sh] = Reply(sh) BY <2>1, <1>0 DEF Flight, Gone
    <3>4. Append(from[sh], hand[sh]) = <<Reply(sh)>>
      BY <3>2, <3>3, OneMessage
    <3>5. /\ to'[sh] = << >> /\ from'[sh] = <<Reply(sh)>> /\ worker'[sh] = "flush"
          /\ hand'[sh] = {}
      BY <3>2, <3>4, <1>0, <1>1
    <3>6. Request(sh)' = Request(sh) /\ Reply(sh)' = Reply(sh) BY <1>3, SameCall
    <3> QED BY <3>3, <3>5, <3>6, <2>3, <1>3 DEF Flight
  <2> QED BY <2>2, <2>3
<1>5. \A s \in Shards : Gone(s) => Gone(s)' BY <1>0, <1>1 DEF Gone
<1> QED BY <1>0, <1>2, <1>4, <1>5, CallUntouched DEF IInv, CallInv

\* A worker's send has returned, or its loop has ended.
LEMMA WorkerOnInv ==
    ASSUME IInv, NEW sh \in Shards, WorkerFlushed(sh) \/ WorkerExit(sh)
    PROVE  IInv'
<1>1. /\ to \in [Shards -> Seq(SUBSET TokenMessage)]
      /\ from \in [Shards -> Seq(SUBSET ResultMessage)]
      /\ worker \in [Shards -> {"receive", "reply", "flush", "gone"}]
      /\ hand \in [Shards -> SUBSET ResultMessage]
  BY DEF IInv, TypeOK
<1>2. CASE WorkerFlushed(sh)
  <2>0. /\ worker[sh] = "flush" /\ worker' = [worker EXCEPT ![sh] = "receive"]
        /\ UNCHANGED <<callVars, open, to, from, hand>>
    BY <1>2 DEF WorkerFlushed
  <2>1. TypeOK'
    <3>1. worker' \in [Shards -> {"receive", "reply", "flush", "gone"}] BY <2>0, <1>1
    <3> QED BY <3>1, <2>0 DEF callVars, IInv, TypeOK, Positions
  <2>2. Engaged' = Engaged /\ UNCHANGED <<calls, tokens, outcome>>
    BY <2>0 DEF callVars, Engaged
  <2>3. \A s \in Shards : /\ Gone(s)' <=> Gone(s)
                          /\ worker'[s] = "reply" <=> worker[s] = "reply"
    BY <2>0, <1>1 DEF Gone
  <2>4. \A s \in Shards : Request(s)' = Request(s) /\ Reply(s)' = Reply(s)
    BY <2>2, SameCall
  <2>5. \A s \in Shards : Flight(s) => Flight(s)'
    BY <2>0, <2>2, <2>3, <2>4 DEF Flight
  <2>6. FlightInv' BY <2>0, <2>2, <2>5 DEF IInv, FlightInv
  <2> QED BY <2>0, <2>1, <2>3, <2>6, CallUntouched DEF IInv, CallInv
<1>3. CASE WorkerExit(sh)
  <2>0. /\ ~ open /\ worker' = [worker EXCEPT ![sh] = "gone"]
        /\ hand' = [hand EXCEPT ![sh] = {}]
        /\ UNCHANGED <<callVars, open, to, from>>
    BY <1>3 DEF WorkerExit
  <2>1. TypeOK'
    <3>1. /\ worker' \in [Shards -> {"receive", "reply", "flush", "gone"}]
          /\ hand' \in [Shards -> SUBSET ResultMessage]
      BY <2>0, <1>1
    <3> QED BY <3>1, <2>0 DEF callVars, IInv, TypeOK, Positions
  <2>2. FlightInv' BY <2>0 DEF FlightInv
  <2>3. \A s \in Shards : Gone(s) => Gone(s)' BY <2>0, <1>1 DEF Gone
  <2> QED BY <2>0, <2>1, <2>2, <2>3, CallUntouched DEF IInv, CallInv
<1> QED BY <1>2, <1>3

\* A worker is killed, and a reply it had not written to its end is lost.
LEMMA KillInv ==
    ASSUME IInv, NEW sh \in Shards, Kill(sh)
    PROVE  IInv'
<1> DEFINE f == IF worker[sh] = "flush" /\ Len(from[sh]) > SocketBuffer[sh]
                THEN SubSeq(from[sh], 1, Len(from[sh]) - 1) ELSE from[sh]
<1>0. /\ from' = [from EXCEPT ![sh] = f]
      /\ worker' = [worker EXCEPT ![sh] = "gone"] /\ hand' = [hand EXCEPT ![sh] = {}]
      /\ UNCHANGED <<callVars, open, to>>
  BY DEF Kill
<1>1. /\ to \in [Shards -> Seq(SUBSET TokenMessage)]
      /\ from \in [Shards -> Seq(SUBSET ResultMessage)]
      /\ worker \in [Shards -> {"receive", "reply", "flush", "gone"}]
      /\ hand \in [Shards -> SUBSET ResultMessage]
      /\ SocketBuffer[sh] \in Nat
  BY RouterAssumption DEF IInv, TypeOK
<1>2. f \in Seq(SUBSET ResultMessage)
  <2>1. from[sh] \in Seq(SUBSET ResultMessage) BY <1>1
  <2>2. Len(from[sh]) \in Nat /\ \A k \in 1..Len(from[sh]) : from[sh][k] \in SUBSET ResultMessage
    BY <2>1, LenProperties, ElementOfSeq
  <2>3. \A k \in 1..(Len(from[sh]) - 1) : from[sh][k] \in SUBSET ResultMessage BY <2>2
  <2>4. SubSeq(from[sh], 1, Len(from[sh]) - 1) \in Seq(SUBSET ResultMessage)
    BY <2>2, <2>3, SubSeqProperties
  <2> QED BY <2>1, <2>4
<1>3. from[sh] = << >> => f = << >>
  BY <1>1, EmptySeq
<1>4. \A x : from[sh] = <<x>> => f \in {<< >>, <<x>>}
  BY OneMessage
<1> HIDE DEF f
<1>5. TypeOK'
  <2>1. /\ from' \in [Shards -> Seq(SUBSET ResultMessage)]
        /\ worker' \in [Shards -> {"receive", "reply", "flush", "gone"}]
        /\ hand' \in [Shards -> SUBSET ResultMessage]
    BY <1>0, <1>1, <1>2
  <2> QED BY <2>1, <1>0 DEF callVars, IInv, TypeOK, Positions
<1>6. Engaged' = Engaged /\ UNCHANGED <<calls, tokens, outcome>>
  BY <1>0 DEF callVars, Engaged
<1>7. FlightInv'
  <2> SUFFICES ASSUME open, outcome # "threw", NEW s \in Shards PROVE Flight(s)'
    BY <1>0, <1>6 DEF FlightInv
  <2>1. Flight(sh) /\ Flight(s) BY DEF IInv, FlightInv
  <2>2. CASE s # sh BY <2>1, <2>2, <1>0, <1>1, <1>6, FlightElsewhere
  <2>3. CASE s = sh
    <3>1. from[sh] = << >> \/ from[sh] = <<Reply(sh)>> BY <2>1 DEF Flight
    <3>2. f \in {<< >>, from[sh]} BY <3>1, <1>3, <1>4
    <3>3. /\ to'[sh] = to[sh] /\ from'[sh] = f /\ worker'[sh] = "gone" /\ hand'[sh] = {}
      BY <1>0, <1>1
    <3>4. Request(sh)' = Request(sh) /\ Reply(sh)' = Reply(sh) BY <1>6, SameCall
    <3> QED BY <3>1, <3>2, <3>3, <3>4, <2>1, <2>3, <1>6 DEF Flight, Gone
  <2> QED BY <2>2, <2>3
<1>8. \A s \in Shards : Gone(s) => Gone(s)' BY <1>0, <1>1 DEF Gone
<1> QED BY <1>0, <1>5, <1>7, <1>8, CallUntouched DEF IInv, CallInv

\* The caller drops the transports.
LEMMA CloseInv ==
    ASSUME IInv, Close
    PROVE  IInv'
<1>0. /\ mode = "idle" /\ open' = FALSE /\ from' = [sh \in Shards |-> << >>]
      /\ UNCHANGED <<callVars, to, workerVars>>
  BY DEF Close
<1>1. TypeOK'
  <2>1. from' \in [Shards -> Seq(SUBSET ResultMessage)] BY <1>0, EmptySeq
  <2>2. open' \in BOOLEAN BY <1>0
  <2> QED BY <2>1, <2>2, <1>0 DEF callVars, workerVars, IInv, TypeOK, Positions
<1>2. FlightInv' BY <1>0 DEF FlightInv
<1>3. \A s \in Shards : Gone(s) => Gone(s)' BY <1>0 DEF Gone, workerVars
<1> QED BY <1>0, <1>1, <1>2, <1>3, CallUntouched

-----------------------------------------------------------------------------
(* The start of a call, and its end by an exception *)

\* An exception ends the call; nothing is claimed of the Router from then on.
LEMMA ThrowInv ==
    ASSUME IInv, Throw
    PROVE  IInv'
<1>0. /\ mode' = "idle" /\ outcome' = "threw"
      /\ UNCHANGED <<calls, method, tokens, todo, current, sent, flat, ordered,
                     unhealthy_shards_, open, to, from, worker, hand>>
  BY DEF Throw, workerVars
<1>1. TypeOK' BY <1>0 DEF IInv, TypeOK, Positions
<1>2. CallInv' BY <1>0 DEF IInv, CallInv, Returned
<1>3. FlightInv' /\ AnswerInv' BY <1>0 DEF FlightInv, AnswerInv
<1>4. OwnAnswers' /\ ExpertAnnotated' BY <1>0 DEF OwnAnswers, ExpertAnnotated, Returned
<1>5. NoFalseFailure' BY <1>0 DEF IInv, NoFalseFailure, Returned, Gone
<1> QED BY <1>1, <1>2, <1>3, <1>4, <1>5 DEF IInv

\* Steps within a call.
LEMMA CallGoesOn ==
    ASSUME IInv, outcome' = "none", UNCHANGED worker,
           \A sh \in unhealthy_shards_' : Gone(sh),
           TypeOK', CallInv', FlightInv', AnswerInv'
    PROVE  IInv'
<1>1. OwnAnswers' /\ ExpertAnnotated' BY DEF OwnAnswers, ExpertAnnotated, Returned
<1>2. NoFalseFailure' BY DEF NoFalseFailure, Returned, Gone
<1> QED BY <1>1, <1>2 DEF IInv

\* A call finds the sockets and workers of the living shards empty.
LEMMA CallStartInv ==
    ASSUME IInv, ~ ReuseAfterThrow, NEW m \in Methods, NEW b \in Batches[m], Call(m, b)
    PROVE  IInv'
<1>0. /\ mode = "idle" /\ open /\ outcome # "threw" /\ calls < MaxCalls
      /\ calls' = calls + 1 /\ method' = m /\ tokens' = b
      /\ flat' = {} /\ ordered' = [p \in Positions(b) |-> NoAnswer]
      /\ sent' = << >> /\ current' = NoShard
      /\ UNCHANGED <<unhealthy_shards_, open, to, from, worker, hand>>
  BY DEF Call, workerVars
<1>1. /\ calls \in Nat /\ calls' \in 0..MaxCalls /\ calls' > 0
      /\ m \in {"strict", "tolerant"} /\ m # "none"
  <2>1. calls \in 0..MaxCalls /\ MaxCalls \in Nat BY RouterAssumption DEF IInv, TypeOK
  <2> QED BY <2>1, <1>0, RouterAssumption
<1>2. /\ todo' \in SUBSET Shards
      /\ mode' \in {"idle", "scatter", "next shard"} /\ outcome' \in {"none", "threw"}
      /\ outcome' = "none" => /\ Mapped(b) /\ todo' = {ShardOf(b, i) : i \in DOMAIN b}
                              /\ mode' = IF m = "strict" THEN "scatter" ELSE "next shard"
      /\ outcome' = "threw" => mode' = "idle"
  <2>1. CASE Mapped(b)
    <3>1. /\ todo' = {ShardOf(b, i) : i \in DOMAIN b} /\ outcome' = "none"
          /\ mode' = IF m = "strict" THEN "scatter" ELSE "next shard"
      BY <2>1 DEF Call
    <3>2. \A i \in DOMAIN b : ShardOf(b, i) \in Shards
      BY <2>1, RouterAssumption DEF Mapped, ShardOf
    <3> QED BY <2>1, <3>1, <3>2
  <2>2. CASE ~ Mapped(b)
    <3>1. todo' = {} /\ mode' = "idle" /\ outcome' = "threw" BY <2>2 DEF Call
    <3> QED BY <3>1
  <2> QED BY <2>1, <2>2
<1>3. TypeOK'
  <2>1. << >> \in Seq(Shards) BY EmptySeq
  <2>2. tokens' \in (UNION {Batches[x] : x \in Methods}) \cup {<< >>} BY <1>0
  <2>3. DOMAIN ordered' = Positions(tokens)' BY <1>0 DEF Positions
  <2> QED BY <2>1, <2>2, <2>3, <1>0, <1>1, <1>2 DEF IInv, TypeOK
<1>4. outcome' = "none" => BatchShards' = todo' /\ Mapped(tokens)'
  <2>1. \A i : /\ EffectiveExpert(tokens, i)' = EffectiveExpert(b, i)
               /\ ShardOf(tokens, i)' = ShardOf(b, i)
    BY <1>0 DEF ShardOf, EffectiveExpert, Before
  <2>2. BatchShards' = {ShardOf(b, i) : i \in DOMAIN b} BY <2>1, <1>0 DEF BatchShards
  <2>3. Mapped(tokens)' <=> Mapped(b) BY <2>1, <1>0 DEF Mapped
  <2> QED BY <2>2, <2>3, <1>2
<1>5. CallInv'
  BY <1>0, <1>1, <1>2, <1>4, EmptyRange DEF IInv, CallInv, Returned
<1>6. FlightInv'
  <2>1. sent = << >> BY <1>0 DEF IInv, CallInv
  <2>2. Engaged = {} /\ Engaged' = {} BY <2>1, <1>0, <1>2, EmptyRange DEF Engaged
  <2>3. \A s \in Shards : Flight(s) BY <1>0 DEF IInv, FlightInv
  <2>4. \A s \in Shards : Flight(s)' BY <2>2, <2>3, <1>0 DEF Flight, Gone
  <2> QED BY <2>4 DEF FlightInv
<1>7. AnswerInv'
  <2>1. ASSUME outcome' = "none"
        PROVE  UNION {Reply(sh)' : sh \in (BatchShards \ (todo \cup Range(sent)))'} = {}
    BY <2>1, <1>4
  <2>2. mode' \in {"scatter", "scatter send"} => outcome' = "none" BY <1>2
  <2>3. ASSUME outcome' # "threw", m = "tolerant", NEW i \in DOMAIN b
        PROVE  /\ ShardOf(tokens, i)' \in todo'
               /\ ordered'[tokens'[i].pos] = NoAnswer
    <3>1. b[i].pos \in Positions(b) BY <2>3, BatchShape
    <3>2. ShardOf(tokens, i)' = ShardOf(b, i)
      BY <1>0 DEF ShardOf, EffectiveExpert, Before
    <3> QED BY <3>1, <3>2, <2>3, <1>0, <1>2
  <2> QED BY <2>1, <2>2, <2>3, <1>0 DEF AnswerInv
<1>8. OwnAnswers' /\ ExpertAnnotated' BY <1>2 DEF OwnAnswers, ExpertAnnotated, Returned
<1>9. NoFalseFailure' BY <1>0, <1>2 DEF IInv, NoFalseFailure, Returned, Gone
<1> QED BY <1>3, <1>5, <1>6, <1>7, <1>8, <1>9 DEF IInv

-----------------------------------------------------------------------------
(* Sends *)

\* A request starts on its way to a shard of the batch, whose sockets are empty.
LEMMA SendInv ==
    ASSUME IInv, NEW sh \in Shards, Scatter(sh) \/ SendGroup(sh)
    PROVE  IInv'
<1>0. /\ mode \in {"scatter", "next shard"} /\ sh \in todo /\ ~ Gone(sh)
      /\ to' = [to EXCEPT ![sh] = Append(to[sh], Request(sh))]
      /\ current' = sh
      /\ mode' = IF mode = "scatter" THEN "scatter send" ELSE "shard send"
      /\ UNCHANGED <<calls, method, tokens, todo, sent, flat, ordered,
                     unhealthy_shards_, outcome, open, from, worker, hand>>
  BY DEF Scatter, SendGroup, Send, workerVars
<1>1. outcome = "none" /\ open /\ calls > 0 BY <1>0 DEF IInv, CallInv
<1>2. to \in [Shards -> Seq(SUBSET TokenMessage)] BY DEF IInv, TypeOK
<1>3. TypeOK'
  <2>1. Append(to[sh], Request(sh)) \in Seq(SUBSET TokenMessage)
    BY <1>1, <1>2, MessageTypes, AppendProperties DEF IInv
  <2>2. to' \in [Shards -> Seq(SUBSET TokenMessage)] BY <2>1, <1>0, <1>2
  <2> QED BY <2>2, <1>0 DEF IInv, TypeOK, Positions
<1>4. CallInv'
  <2>1. BatchShards' = BatchShards /\ Mapped(tokens)' = Mapped(tokens)
    BY <1>0, SameCall
  <2> QED BY <2>1, <1>0, <1>1 DEF IInv, CallInv, Returned
<1>5. FlightInv'
  <2>1. Engaged = Range(sent) /\ Engaged' = Range(sent) \cup {sh} BY <1>0 DEF Engaged
  <2>2. sh \notin Range(sent) BY <1>0, <1>1 DEF IInv, CallInv
  <2>3. \A s \in Shards : Flight(s) BY <1>1 DEF IInv, FlightInv
  <2>4. ASSUME NEW s \in Shards, s # sh PROVE Flight(s)'
    BY <2>1, <2>3, <2>4, <1>0, <1>2, FlightElsewhere
  <2>5. Flight(sh)'
    <3>1. to[sh] = << >> /\ from[sh] = << >> /\ worker[sh] # "reply" /\ hand[sh] = {}
      BY <2>1, <2>2, <2>3, <1>0 DEF Flight
    <3>2. to'[sh] = <<Request(sh)>> BY <3>1, <1>0, <1>2, OneMessage
    <3>3. Request(sh)' = Request(sh) BY <1>0, SameCall
    <3> QED BY <3>1, <3>2, <3>3, <2>1, <1>0 DEF Flight
  <2> QED BY <2>4, <2>5 DEF FlightInv
<1>6. AnswerInv'
  <2>1. /\ BatchShards' = BatchShards /\ \A s : Reply(s)' = Reply(s)
        /\ \A i : ShardOf(tokens, i)' = ShardOf(tokens, i) /\ Served(i)' = Served(i)
        /\ \A p : Failure(p)' = Failure(p)
    BY <1>0, SameCall
  <2>2. mode' \in {"scatter", "scatter send"} => mode = "scatter" BY <1>0
  <2> QED BY <2>1, <2>2, <1>0 DEF IInv, AnswerInv
<1>7. \A s \in unhealthy_shards_' : Gone(s) BY <1>0 DEF IInv, NoFalseFailure
<1> QED BY <1>0, <1>1, <1>3, <1>4, <1>5, <1>6, <1>7, CallGoesOn

\* route_batch has written a request and goes on to the next shard.
LEMMA ScatteredInv ==
    ASSUME IInv, Scattered
    PROVE  IInv'
<1>0. /\ mode = "scatter send" /\ todo' = todo \ {current}
      /\ sent' = Append(sent, current) /\ mode' = "scatter"
      /\ UNCHANGED <<calls, method, tokens, current, flat, ordered,
                     unhealthy_shards_, outcome, open, to, from, worker, hand>>
  BY DEF Scattered, workerVars
<1>1. /\ outcome = "none" /\ open /\ method = "strict" /\ current \in todo
      /\ current \in Shards /\ sent \in Seq(Shards) /\ todo \in SUBSET Shards
      /\ IsInjective(sent) /\ Range(sent) \cap todo = {}
  BY <1>0 DEF IInv, CallInv, TypeOK
<1>2. Range(sent') = Range(sent) \cup {current} /\ IsInjective(sent')
  <2>1. current \notin Range(sent) BY <1>1
  <2>2. /\ Range(Append(sent, current)) = Range(sent) \cup {current}
        /\ IsInjective(Append(sent, current))
    BY <2>1, <1>1, AppendRange
  <2> QED BY <2>2, <1>0
<1>3. TypeOK'
  <2>1. sent' \in Seq(Shards) BY <1>0, <1>1, AppendProperties
  <2> QED BY <2>1, <1>0, <1>1 DEF IInv, TypeOK, Positions
<1>4. BatchShards' = BatchShards /\ Mapped(tokens)' = Mapped(tokens)
  BY <1>0, SameCall
<1>5. CallInv' BY <1>0, <1>1, <1>2, <1>4 DEF IInv, CallInv, Returned
<1>6. FlightInv'
  <2>1. Engaged' = Engaged BY <1>0, <1>2 DEF Engaged
  <2>2. \A s \in Shards : Flight(s) BY <1>1 DEF IInv, FlightInv
  <2>3. \A s \in Shards : Flight(s)' BY <2>1, <2>2, <1>0, FlightElsewhere
  <2> QED BY <2>3 DEF FlightInv
<1>7. AnswerInv'
  <2>1. (BatchShards \ (todo \cup Range(sent)))' = BatchShards \ (todo \cup Range(sent))
    BY <1>0, <1>1, <1>2, <1>4
  <2>2. \A s : Reply(s)' = Reply(s) BY <1>0, SameCall
  <2> QED BY <2>1, <2>2, <1>0, <1>1 DEF IInv, AnswerInv
<1>8. \A s \in unhealthy_shards_' : Gone(s) BY <1>0 DEF IInv, NoFalseFailure
<1> QED BY <1>0, <1>1, <1>3, <1>5, <1>6, <1>7, <1>8, CallGoesOn

\* route_batch_tolerant has written a request and waits for the answer.
LEMMA GroupSentInv ==
    ASSUME IInv, GroupSent
    PROVE  IInv'
<1>0. /\ mode = "shard send" /\ mode' = "shard receive"
      /\ UNCHANGED <<calls, method, tokens, todo, current, sent, flat, ordered,
                     unhealthy_shards_, outcome, open, to, from, worker, hand>>
  BY DEF GroupSent, workerVars
<1>1. outcome = "none" /\ open BY <1>0 DEF IInv, CallInv
<1>2. TypeOK' BY <1>0 DEF IInv, TypeOK, Positions
<1>3. CallInv'
  <2>1. BatchShards' = BatchShards /\ Mapped(tokens)' = Mapped(tokens)
    BY <1>0, SameCall
  <2> QED BY <2>1, <1>0 DEF IInv, CallInv, Returned
<1>4. FlightInv'
  <2>1. Engaged' = Engaged BY <1>0 DEF Engaged
  <2>2. \A s \in Shards : Flight(s) BY <1>1 DEF IInv, FlightInv
  <2>3. \A s \in Shards : Flight(s)' BY <2>1, <2>2, <1>0, FlightElsewhere
  <2> QED BY <2>3 DEF FlightInv
<1>5. AnswerInv'
  <2>1. /\ \A i : ShardOf(tokens, i)' = ShardOf(tokens, i) /\ Served(i)' = Served(i)
        /\ \A p : Failure(p)' = Failure(p)
    BY <1>0, SameCall
  <2> QED BY <2>1, <1>0 DEF IInv, AnswerInv
<1>6. \A s \in unhealthy_shards_' : Gone(s) BY <1>0 DEF IInv, NoFalseFailure
<1> QED BY <1>0, <1>1, <1>2, <1>3, <1>4, <1>5, <1>6, CallGoesOn

-----------------------------------------------------------------------------
(* route_batch gathers the answers *)

\* The answer at the head of the socket is the one this call is waiting for.
LEMMA GatherInv ==
    ASSUME IInv, Gather
    PROVE  IInv'
<1>a. sent # << >> /\ sent \in Seq(Shards) BY DEF Gather, IInv, TypeOK
<1>b. PICK h \in Shards : h = Head(sent) BY <1>a, HeadTailProperties
<1>0. /\ mode = "scatter" /\ todo = {} /\ sent # << >> /\ from[h] # << >>
      /\ from' = [from EXCEPT ![h] = Tail(from[h])]
      /\ flat' = flat \cup Head(from[h]) /\ sent' = Tail(sent)
      /\ UNCHANGED <<calls, method, tokens, mode, todo, current, ordered,
                     unhealthy_shards_, outcome, open, to, worker, hand>>
  BY <1>b DEF Gather, Receive, workerVars
<1>1. /\ outcome = "none" /\ open /\ calls > 0 /\ method = "strict"
      /\ sent \in Seq(Shards) /\ IsInjective(sent) /\ Range(sent) \subseteq BatchShards
      /\ from \in [Shards -> Seq(SUBSET ResultMessage)]
      /\ flat \in SUBSET ResultMessage
  BY <1>0 DEF IInv, CallInv, TypeOK
<1>2. /\ h \in Shards /\ sent' \in Seq(Shards) /\ h \in Range(sent)
      /\ Range(sent') = Range(sent) \ {h} /\ IsInjective(sent')
  BY <1>b, <1>0, <1>1, TailRange, HeadTailProperties
<1>3. Engaged = Range(sent) /\ Engaged' = Engaged \ {h} BY <1>0, <1>2 DEF Engaged
<1>4. \A s \in Shards : Flight(s) BY <1>1 DEF IInv, FlightInv
<1>5. /\ from[h] = <<Reply(h)>> /\ worker[h] # "reply" /\ hand[h] = {} /\ to[h] = << >>
  BY <1>0, <1>2, <1>3, <1>4 DEF Flight
<1>6. Head(from[h]) = Reply(h) /\ Tail(from[h]) = << >> BY <1>5, OneMessage
<1>7. TypeOK'
  <2>1. flat' \in SUBSET ResultMessage BY <1>0, <1>1, <1>2, <1>6, MessageTypes DEF IInv
  <2>2. from' \in [Shards -> Seq(SUBSET ResultMessage)]
    BY <1>0, <1>1, <1>2, <1>6, EmptySeq
  <2> QED BY <2>1, <2>2, <1>0, <1>2 DEF IInv, TypeOK, Positions
<1>8. BatchShards' = BatchShards /\ Mapped(tokens)' = Mapped(tokens)
  BY <1>0, SameCall
<1>9. CallInv'
  <2>1. Range(sent') \cap todo = {} /\ todo \cup Range(sent') \subseteq BatchShards
    BY <1>0, <1>1, <1>2
  <2> QED BY <2>1, <1>0, <1>1, <1>2, <1>8 DEF IInv, CallInv, Returned
<1>10. FlightInv'
  <2>1. ASSUME NEW s \in Shards, s # h PROVE Flight(s)'
    BY <2>1, <1>0, <1>1, <1>3, <1>4, FlightElsewhere
  <2>2. Flight(h)'
    <3>1. from'[h] = << >> BY <1>0, <1>1, <1>2, <1>6
    <3> QED BY <3>1, <1>0, <1>3, <1>5 DEF Flight
  <2> QED BY <2>1, <2>2 DEF FlightInv
<1>11. AnswerInv'
  <2>1. \A s : Reply(s)' = Reply(s) BY <1>0, SameCall
  <2>2. (BatchShards \ (todo \cup Range(sent)))'
           = (BatchShards \ (todo \cup Range(sent))) \cup {h}
    BY <1>0, <1>1, <1>2, <1>8
  <2>3. flat = UNION {Reply(s) : s \in BatchShards \ (todo \cup Range(sent))}
    BY <1>0 DEF IInv, AnswerInv
  <2>4. flat' = UNION {Reply(s) : s \in (BatchShards \ (todo \cup Range(sent))) \cup {h}}
    BY <2>3, <1>0, <1>6
  <2>5. flat' = UNION {Reply(s)' : s \in (BatchShards \ (todo \cup Range(sent)))'}
    BY <2>1, <2>2, <2>4
  <2> QED BY <2>5, <1>0, <1>1 DEF AnswerInv
<1>12. \A s \in unhealthy_shards_' : Gone(s) BY <1>0 DEF IInv, NoFalseFailure
<1> QED BY <1>0, <1>1, <1>7, <1>9, <1>10, <1>11, <1>12, CallGoesOn

\* The result that route_batch expects of the token at index i.
Answer(i) == [token_id |-> <<calls, i>>, pos |-> tokens[i].pos, shard |-> ShardOf(tokens, i)]

\* Once all shards have answered, what was gathered is one result per token.
LEMMA AllGathered ==
    ASSUME CallInv, AnswerInv, Gathered
    PROVE  flat = {Answer(i) : i \in DOMAIN tokens} /\ IsFiniteSet(flat)
<1>1. mode = "scatter" /\ todo = {} /\ Range(sent) = {} BY EmptyRange DEF Gathered
<1>2. flat = UNION {Reply(s) : s \in BatchShards} BY <1>1 DEF AnswerInv
<1>3. ASSUME NEW r \in flat PROVE \E i \in DOMAIN tokens : r = Answer(i)
  <2>1. PICK s \in BatchShards : r \in Reply(s) BY <1>2
  <2>2. PICK i \in Group(s) :
           r = [token_id |-> <<calls, i>>, pos |-> tokens[i].pos, shard |-> s]
    BY <2>1, ReplyMembers
  <2> QED BY <2>2 DEF Group, Answer
<1>4. ASSUME NEW i \in DOMAIN tokens PROVE Answer(i) \in flat
  <2>1. i \in Group(ShardOf(tokens, i)) /\ ShardOf(tokens, i) \in BatchShards
    BY DEF Group, BatchShards
  <2>2. Answer(i) \in Reply(ShardOf(tokens, i)) BY <2>1, ReplyMembers DEF Answer
  <2> QED BY <2>1, <2>2, <1>2
<1>5. flat = {Answer(i) : i \in DOMAIN tokens} BY <1>3, <1>4
<1>6. IsFiniteSet(DOMAIN tokens) BY BatchFacts, FS_Interval
<1>7. IsFiniteSet(flat)
  <2> DEFINE f == [i \in DOMAIN tokens |-> Answer(i)]
  <2>1. f \in Surjection(DOMAIN tokens, flat)
    <3>1. f \in [DOMAIN tokens -> flat] BY <1>4
    <3>2. \A r \in flat : \E i \in DOMAIN tokens : f[i] = r BY <1>3
    <3> QED BY <3>1, <3>2, Fun_IsSurj
  <2> QED BY <2>1, <1>6, FS_Surjection
<1> QED BY <1>5, <1>7

\* When reassemble accepts, it finds for each token the answer to that token.
LEMMA Reassembled ==
    ASSUME CallInv, AnswerInv, Gathered, Complete, NEW i \in DOMAIN tokens
    PROVE  /\ tokens[i].pos \in Positions(tokens)
           /\ (CHOOSE r \in flat : r.pos = tokens[i].pos) = Answer(i)
<1> DEFINE p == tokens[i].pos
           S == {r \in flat : r.pos = p}
<1>1. Answer(i) \in flat /\ Answer(i).pos = p BY AllGathered DEF Answer
<1>2. p \in Positions(tokens) BY <1>1 DEF Complete
<1>3. Cardinality(S) = 1 BY <1>2 DEF Complete
<1>4. IsFiniteSet(S) BY AllGathered, FS_Subset
<1>5. PICK x : S = {x} BY <1>3, <1>4, FS_Singleton
<1>6. \A r \in flat : r.pos = p => r = Answer(i) BY <1>1, <1>5
<1> QED BY <1>1, <1>2, <1>6

\* ... and the token_ids are at the positions of their tokens.
LEMMA ReassembledInOrder ==
    ASSUME CallInv, AnswerInv, Gathered, Complete
    PROVE  {tokens[i].pos : i \in DOMAIN tokens} = Positions(tokens)
<1>1. \A i \in DOMAIN tokens : tokens[i].pos \in Positions(tokens) BY Reassembled
<1>2. ASSUME NEW p \in Positions(tokens) PROVE \E i \in DOMAIN tokens : tokens[i].pos = p
  <2> DEFINE S == {r \in flat : r.pos = p}
  <2>1. Cardinality(S) = 1 BY DEF Complete
  <2>2. S # {}
    <3> HIDE DEF S
    <3> QED BY <2>1, FS_EmptySet
  <2>3. PICK r \in flat : r.pos = p BY <2>2
  <2>4. PICK i \in DOMAIN tokens : r = Answer(i) BY AllGathered
  <2> QED BY <2>3, <2>4 DEF Answer
<1> QED BY <1>1, <1>2

\* route_batch returns: each token has its own answer at its position.
LEMMA ReassembleInv ==
    ASSUME IInv, Reassemble
    PROVE  IInv'
<1>0. /\ Gathered /\ Complete
      /\ ordered' = [p \in Positions(tokens) |->
            [token_id |-> (CHOOSE r \in flat : r.pos = p).token_id,
             shard |-> (CHOOSE r \in flat : r.pos = p).shard, failed |-> FALSE,
             effective |-> EffectiveExpert(tokens, p + 1)]]
      /\ mode' = "idle" /\ outcome' = "returned"
      /\ UNCHANGED <<calls, method, tokens, todo, current, sent, flat,
                     unhealthy_shards_, open, to, from, worker, hand>>
  BY DEF Reassemble, workerVars
<1>1. /\ mode = "scatter" /\ outcome = "none" /\ open /\ method = "strict" /\ calls > 0
      /\ todo = {} /\ sent = << >> /\ CallInv /\ AnswerInv
  BY <1>0 DEF IInv, CallInv, Gathered
<1>2. ASSUME NEW i \in DOMAIN tokens
      PROVE  LET a == ordered'[tokens[i].pos]
             IN  /\ a.token_id = <<calls, i>> /\ a.shard = ShardOf(tokens, i)
                 /\ a.failed = FALSE
                 /\ a.effective = EffectiveExpert(tokens, tokens[i].pos + 1)
                 /\ a # NoAnswer
  <2> DEFINE p == tokens[i].pos
             r == CHOOSE x \in flat : x.pos = p
             a == ordered'[p]
             e == EffectiveExpert(tokens, p + 1)
  <2>1. p \in Positions(tokens) /\ r = Answer(i) BY <1>0, <1>1, Reassembled
  <2>2. r.token_id = <<calls, i>> /\ r.shard = ShardOf(tokens, i)
    <3>1. Answer(i).token_id = <<calls, i>> /\ Answer(i).shard = ShardOf(tokens, i)
      BY DEF Answer
    <3> QED BY <3>1, <2>1
  <2>3. a = [token_id |-> r.token_id, shard |-> r.shard, failed |-> FALSE, effective |-> e]
    BY <2>1, <1>0
  <2> HIDE DEF r, e, a
  <2>4. /\ a.token_id = r.token_id /\ a.shard = r.shard /\ a.failed = FALSE
        /\ a.effective = e
    BY <2>3
  <2>5. a # NoAnswer
    <3>1. NoAnswer.token_id = <<0, 0>> BY DEF NoAnswer
    <3>2. <<calls, i>> # <<0, 0>> BY <1>1
    <3> QED BY <3>1, <3>2, <2>2, <2>4
  <2> QED BY <2>2, <2>4, <2>5 DEF a, e
<1>3. TypeOK'
  <2>1. DOMAIN ordered' = Positions(tokens)' BY <1>0 DEF Positions
  <2> QED BY <2>1, <1>0 DEF IInv, TypeOK
<1>4. BatchShards' = BatchShards /\ Mapped(tokens)' = Mapped(tokens)
  BY <1>0, SameCall
<1>5. CallInv' BY <1>0, <1>1, <1>4 DEF CallInv, Returned
<1>6. FlightInv'
  <2>1. Engaged' = Engaged BY <1>0, <1>1 DEF Engaged
  <2>2. \A s \in Shards : Flight(s) BY <1>1 DEF IInv, FlightInv
  <2>3. \A s \in Shards : Flight(s)' BY <2>1, <2>2, <1>0, FlightElsewhere
  <2> QED BY <2>3 DEF FlightInv
<1>7. AnswerInv' BY <1>0, <1>1 DEF AnswerInv
<1>8. OwnAnswers'
  <2>1. ASSUME NEW i \in DOMAIN tokens
        PROVE  /\ ordered'[tokens[i].pos] # NoAnswer
               /\ ordered'[tokens[i].pos].token_id = <<calls, i>>
               /\ ordered'[tokens[i].pos].shard = ShardOf(tokens, i)
    BY <1>2
  <2>2. \A i : ShardOf(tokens, i)' = ShardOf(tokens, i) BY <1>0, SameCall
  <2> QED BY <2>1, <2>2, <1>0 DEF OwnAnswers
<1>9. NoFalseFailure'
  <2>1. \A i \in DOMAIN tokens : ~ ordered'[tokens[i].pos].failed BY <1>2
  <2> QED BY <2>1, <1>0 DEF IInv, NoFalseFailure, Gone
<1>10. StrictInOrder' => ExpertAnnotated'
  <2> SUFFICES ASSUME StrictInOrder, NEW i \in DOMAIN tokens
               PROVE  ordered'[tokens[i].pos].effective = EffectiveExpert(tokens, i)'
    BY <1>0 DEF StrictInOrder, Positions, ExpertAnnotated
  <2>1. "strict" \in Methods /\ tokens \in Batches["strict"] BY <1>1 DEF CallInv
  <2>2. tokens[i].pos = i - 1 BY <2>1, <1>0, <1>1, ReassembledInOrder DEF StrictInOrder
  <2>3. tokens[i].pos + 1 = i
    <3>1. i \in Nat BY <1>1, BatchFacts
    <3> QED BY <3>1, <2>2
  <2>4. EffectiveExpert(tokens, i)' = EffectiveExpert(tokens, i) BY <1>0, SameCall
  <2> QED BY <2>3, <2>4, <1>2
<1> QED BY <1>3, <1>5, <1>6, <1>7, <1>8, <1>9, <1>10 DEF IInv

-----------------------------------------------------------------------------
(* route_batch_tolerant *)

\* A position stands for one token, whose group is that of its shard.
LEMMA PositionOfToken ==
    ASSUME CallInv, method = "tolerant", NEW i \in DOMAIN tokens
    PROVE  /\ tokens[i].pos \in Positions(tokens) /\ IndexAt(tokens[i].pos) = i
           /\ \A sh : tokens[i].pos \in GroupPositions(sh) <=> ShardOf(tokens, i) = sh
<1>1. /\ tokens[i].pos \in Positions(tokens)
      /\ \A j \in DOMAIN tokens : tokens[j].pos = tokens[i].pos => j = i
  BY BatchFacts
<1>2. IndexAt(tokens[i].pos) = i BY <1>1 DEF IndexAt
<1>3. ASSUME NEW sh
      PROVE  tokens[i].pos \in GroupPositions(sh) <=> ShardOf(tokens, i) = sh
  <2>1. ASSUME tokens[i].pos \in GroupPositions(sh) PROVE ShardOf(tokens, i) = sh
    <3>1. PICK j \in Group(sh) : tokens[i].pos = tokens[j].pos BY <2>1 DEF GroupPositions
    <3>2. j \in DOMAIN tokens /\ ShardOf(tokens, j) = sh BY DEF Group
    <3> QED BY <3>1, <3>2, <1>1
  <2>2. ASSUME ShardOf(tokens, i) = sh PROVE tokens[i].pos \in GroupPositions(sh)
    BY <2>2 DEF GroupPositions, Group
  <2> QED BY <2>1, <2>2
<1> QED BY <1>1, <1>2, <1>3

\* The group of a dead shard fails, and no other token is touched.
LEMMA FailGroupInv ==
    ASSUME IInv, NEW sh \in Shards, sh \in todo,
           mode \in {"next shard", "shard send", "shard receive"},
           Engaged \subseteq {sh}, Gone(sh), from[sh] = << >>,
           FailGroup(sh), unhealthy_shards_' = unhealthy_shards_ \cup {sh},
           UNCHANGED <<calls, method, tokens, current, sent, flat, outcome, open,
                       to, from, worker, hand>>
    PROVE  IInv'
<1>0. /\ todo' = todo \ {sh} /\ mode' = "next shard"
      /\ ordered' = [p \in Positions(tokens) |->
                        IF p \in GroupPositions(sh) THEN Failure(p) ELSE ordered[p]]
  BY DEF FailGroup
<1>1. /\ outcome = "none" /\ open /\ method = "tolerant" /\ sent = << >> /\ CallInv
      /\ todo \in SUBSET Shards /\ unhealthy_shards_ \in SUBSET Shards
  BY DEF IInv, CallInv, TypeOK
<1>2. TypeOK'
  <2>1. DOMAIN ordered' = Positions(tokens)' BY <1>0 DEF Positions
  <2> QED BY <2>1, <1>0, <1>1 DEF IInv, TypeOK
<1>3. BatchShards' = BatchShards /\ Mapped(tokens)' = Mapped(tokens)
  BY SameCall
<1>4. CallInv' BY <1>0, <1>1, <1>3 DEF CallInv, Returned
<1>5. FlightInv'
  <2>1. Engaged' = {} BY <1>0, <1>1, EmptyRange DEF Engaged
  <2>2. \A s \in Shards : Flight(s) BY <1>1 DEF IInv, FlightInv
  <2>3. ASSUME NEW s \in Shards, s # sh PROVE Flight(s)'
    BY <2>1, <2>2, <2>3, FlightElsewhere
  <2>4. Flight(sh)' BY <2>1, <2>2 DEF Flight, Gone
  <2> QED BY <2>3, <2>4 DEF FlightInv
<1>6. AnswerInv'
  <2> SUFFICES ASSUME NEW i \in DOMAIN tokens
               PROVE  LET p == tokens[i].pos
                          s == ShardOf(tokens, i)
                      IN  IF s \in todo' THEN ordered'[p] = NoAnswer
                          ELSE \/ ordered'[p] = Served(i)
                               \/ ordered'[p] = Failure(p) /\ s \in unhealthy_shards_'
    <3>1. /\ \A i : ShardOf(tokens, i)' = ShardOf(tokens, i) /\ Served(i)' = Served(i)
          /\ \A p : Failure(p)' = Failure(p)
      BY SameCall
    <3> QED BY <3>1, <1>0 DEF AnswerInv
  <2> DEFINE p == tokens[i].pos
             s == ShardOf(tokens, i)
  <2>1. IF s \in todo THEN ordered[p] = NoAnswer
        ELSE \/ ordered[p] = Served(i)
             \/ ordered[p] = Failure(p) /\ s \in unhealthy_shards_
    BY <1>1 DEF IInv, AnswerInv
  <2>2. p \in Positions(tokens) /\ (p \in GroupPositions(sh) <=> s = sh)
    BY <1>1, PositionOfToken
  <2>3. ordered'[p] = IF s = sh THEN Failure(p) ELSE ordered[p] BY <2>2, <1>0
  <2> HIDE DEF p, s
  <2>4. IF s \in todo' THEN ordered'[p] = NoAnswer
        ELSE \/ ordered'[p] = Served(i)
             \/ ordered'[p] = Failure(p) /\ s \in unhealthy_shards_'
    BY <2>1, <2>3, <1>0
  <2> QED BY <2>4 DEF p, s
<1>7. \A s \in unhealthy_shards_' : Gone(s) BY DEF IInv, NoFalseFailure
<1> QED BY <1>1, <1>2, <1>4, <1>5, <1>6, <1>7, CallGoesOn

\* A shard known to be dead is skipped.
LEMMA SkipUnhealthyInv ==
    ASSUME IInv, NEW sh \in Shards, SkipUnhealthy(sh)
    PROVE  IInv'
<1>0. /\ mode = "next shard" /\ sh \in todo /\ sh \in unhealthy_shards_
      /\ FailGroup(sh)
      /\ UNCHANGED <<calls, method, tokens, current, sent, flat, unhealthy_shards_,
                     outcome, open, to, from, worker, hand>>
  BY DEF SkipUnhealthy, workerVars
<1>1. outcome = "none" /\ open /\ sent = << >> BY <1>0 DEF IInv, CallInv
<1>2. Engaged = {} BY <1>0, <1>1, EmptyRange DEF Engaged
<1>3. Gone(sh) BY <1>0 DEF IInv, NoFalseFailure
<1>4. from[sh] = << >> BY <1>1, <1>2 DEF IInv, FlightInv, Flight
<1>5. unhealthy_shards_' = unhealthy_shards_ \cup {sh} BY <1>0
<1> QED BY <1>0, <1>2, <1>3, <1>4, <1>5, FailGroupInv

\* The transport fails: the worker is gone and no answer of it is left.
LEMMA ShardFailsInv ==
    ASSUME IInv, NEW sh \in Shards, ShardFails(sh)
    PROVE  IInv'
<1>0. /\ mode \in {"next shard", "shard send", "shard receive"}
      /\ mode = "next shard" => sh \in todo
      /\ mode # "next shard" => sh = current
      /\ FailGroup(sh) /\ unhealthy_shards_' = unhealthy_shards_ \cup {sh}
      /\ UNCHANGED <<calls, method, tokens, current, sent, flat, outcome, open,
                     to, from, worker, hand>>
  BY DEF ShardFails, workerVars
<1>1. outcome = "none" /\ open /\ sent = << >> /\ sh \in todo
  BY <1>0 DEF IInv, CallInv
<1>2. Engaged \subseteq {sh} /\ (mode = "next shard" => Engaged = {})
  BY <1>0, <1>1, EmptyRange DEF Engaged
<1>3. Flight(sh) BY <1>1 DEF IInv, FlightInv
<1>4. Gone(sh) BY DEF ShardFails, SendThrows, ReceiveThrows
<1>5. from[sh] = << >>
  <2>1. CASE mode = "next shard" BY <2>1, <1>2, <1>3 DEF Flight
  <2>2. CASE mode = "shard send" /\ SendThrows(sh)
    <3>1. ~ (Len(to[sh]) <= SocketBuffer[sh]) BY <2>2 DEF SendThrows, Written
    <3>2. SocketBuffer[sh] \in Nat BY RouterAssumption
    <3>3. to[sh] # << >>
      <4>1. SUFFICES ASSUME to[sh] = << >> PROVE FALSE OBVIOUS
      <4>2. Len(to[sh]) = 0 BY <4>1
      <4> QED BY <4>2, <3>1, <3>2
    <3> QED BY <3>3, <1>3 DEF Flight
  <2>3. CASE ReceiveThrows(sh) BY <2>3 DEF ReceiveThrows
  <2> QED BY <2>1, <2>2, <2>3 DEF ShardFails
<1> QED BY <1>0, <1>1, <1>2, <1>4, <1>5, FailGroupInv

\* An answer is never taken for an empty slot.
LEMMA Filled ==
    ASSUME calls > 0
    PROVE  /\ \A i : Served(i) # NoAnswer
           /\ \A p : Failure(p) # NoAnswer
<1>1. NoAnswer.token_id = <<0, 0>> BY DEF NoAnswer
<1>2. \A i : <<calls, i>> # <<0, 0>> OBVIOUS
<1>3. \A i : Served(i).token_id = <<calls, i>> BY DEF Served
<1>4. \A p : Failure(p).token_id = <<calls, IndexAt(p)>> BY DEF Failure
<1> QED BY <1>1, <1>2, <1>3, <1>4

\* Merging the reply of a shard fills the slots of its group and no others.
LEMMA Merged ==
    ASSUME CallInv, AnswerInv, calls > 0, method = "tolerant", outcome # "threw",
           current \in todo, MergeReply(Reply(current)), NEW i \in DOMAIN tokens
    PROVE  ordered'[tokens[i].pos] =
              IF ShardOf(tokens, i) = current THEN Served(i) ELSE ordered[tokens[i].pos]
<1> DEFINE p == tokens[i].pos
           s == ShardOf(tokens, i)
           reply == Reply(current)
           c == CHOOSE r \in reply : r.pos = p
           res(j) == [token_id |-> <<calls, j>>, pos |-> tokens[j].pos, shard |-> current]
           g == [token_id |-> c.token_id, shard |-> c.shard, failed |-> FALSE,
                 effective |-> IF p \in GroupPositions(current)
                               THEN EffectiveExpert(tokens, IndexAt(p)) ELSE 0]
<1>1. /\ p \in Positions(tokens) /\ IndexAt(p) = i
      /\ p \in GroupPositions(current) <=> s = current
  BY PositionOfToken
<1>2. ordered'[p] = IF ordered[p] # NoAnswer THEN ordered[p]
                    ELSE IF \E r \in reply : r.pos = p THEN g
                    ELSE IF p \in GroupPositions(current) THEN Failure(p)
                    ELSE NoAnswer
  BY <1>1 DEF MergeReply
<1>3. IF s \in todo THEN ordered[p] = NoAnswer
      ELSE ordered[p] = Served(i) \/ ordered[p] = Failure(p)
  BY DEF AnswerInv
<1>4. reply = {res(j) : j \in Group(current)} BY ReplyMembers
<1>5. \A r \in reply : r.pos = p => r = res(i) /\ i \in Group(current)
  <2> SUFFICES ASSUME NEW r \in reply, r.pos = p PROVE r = res(i) /\ i \in Group(current)
    OBVIOUS
  <2>1. PICK j \in Group(current) : r = res(j) BY <1>4
  <2>2. tokens[j].pos = p /\ j \in DOMAIN tokens BY <2>1 DEF Group
  <2>3. j = i BY <2>2, BatchFacts
  <2> QED BY <2>1, <2>3
<1>6. CASE s = current
  <2>1. ordered[p] = NoAnswer BY <1>6, <1>3
  <2>2. res(i) \in reply /\ res(i).pos = p BY <1>4, <1>6 DEF Group
  <2>3. c = res(i) BY <2>2, <1>5
  <2>4. c.token_id = <<calls, i>> /\ c.shard = current
    <3>1. res(i).token_id = <<calls, i>> /\ res(i).shard = current OBVIOUS
    <3> QED BY <3>1, <2>3
  <2>5. g = Served(i)
    <3> HIDE DEF c
    <3> QED BY <2>4, <1>1, <1>6 DEF Served
  <2> HIDE DEF g, reply, c, res
  <2> QED BY <2>1, <2>2, <2>5, <1>2, <1>6
<1>7. CASE s # current
  <2>1. ~ \E r \in reply : r.pos = p BY <1>5, <1>7 DEF Group
  <2>2. p \notin GroupPositions(current) BY <1>1, <1>7
  <2> HIDE DEF g, reply
  <2>3. ordered'[p] = ordered[p] BY <2>1, <2>2, <1>2
  <2> QED BY <2>3, <1>7
<1> QED BY <1>6, <1>7

\* The answer route_batch_tolerant receives is that of the shard's group.
LEMMA ReceiveGroupInv ==
    ASSUME IInv, ReceiveGroup
    PROVE  IInv'
<1>a. mode = "shard receive" BY DEF ReceiveGroup
<1>b. PICK h \in Shards : h = current BY <1>a DEF IInv, TypeOK
<1>0. /\ from[h] # << >> /\ from' = [from EXCEPT ![h] = Tail(from[h])]
      /\ MergeReply(Head(from[h]))
      /\ todo' = todo \ {h} /\ mode' = "next shard"
      /\ UNCHANGED <<calls, method, tokens, current, sent, flat, unhealthy_shards_,
                     outcome, open, to, worker, hand>>
  BY <1>b DEF ReceiveGroup, Receive, workerVars
<1>1. /\ outcome = "none" /\ open /\ calls > 0 /\ method = "tolerant" /\ sent = << >>
      /\ h \in todo /\ CallInv /\ AnswerInv /\ todo \in SUBSET Shards
      /\ from \in [Shards -> Seq(SUBSET ResultMessage)]
  BY <1>a, <1>b DEF IInv, CallInv, TypeOK
<1>2. Engaged = {h} /\ Engaged' = {} BY <1>a, <1>b, <1>0, <1>1, EmptyRange DEF Engaged
<1>3. \A s \in Shards : Flight(s) BY <1>1 DEF IInv, FlightInv
<1>4. from[h] = <<Reply(h)>> /\ worker[h] # "reply" /\ hand[h] = {} /\ to[h] = << >>
  BY <1>0, <1>2, <1>3 DEF Flight
<1>5. Head(from[h]) = Reply(h) /\ Tail(from[h]) = << >> BY <1>4, OneMessage
<1>6. TypeOK'
  <2>1. DOMAIN ordered' = Positions(tokens)' BY <1>0 DEF MergeReply, Positions
  <2>2. from' \in [Shards -> Seq(SUBSET ResultMessage)] BY <1>0, <1>1, <1>5, EmptySeq
  <2> QED BY <2>1, <2>2, <1>0, <1>1 DEF IInv, TypeOK
<1>7. BatchShards' = BatchShards /\ Mapped(tokens)' = Mapped(tokens)
  BY <1>0, SameCall
<1>8. CallInv' BY <1>0, <1>1, <1>7 DEF CallInv, Returned
<1>9. FlightInv'
  <2>1. ASSUME NEW s \in Shards, s # h PROVE Flight(s)'
    BY <2>1, <1>0, <1>1, <1>2, <1>3, FlightElsewhere
  <2>2. Flight(h)'
    <3>1. from'[h] = << >> BY <1>0, <1>1, <1>5
    <3> QED BY <3>1, <1>0, <1>2, <1>4 DEF Flight
  <2> QED BY <2>1, <2>2 DEF FlightInv
<1>10. AnswerInv'
  <2>0. MergeReply(Reply(current)) BY <1>0, <1>5, <1>b
  <2> SUFFICES ASSUME NEW i \in DOMAIN tokens
               PROVE  LET p == tokens[i].pos
                          s == ShardOf(tokens, i)
                      IN  IF s \in todo' THEN ordered'[p] = NoAnswer
                          ELSE \/ ordered'[p] = Served(i)
                               \/ ordered'[p] = Failure(p) /\ s \in unhealthy_shards_
    <3>1. /\ \A i : ShardOf(tokens, i)' = ShardOf(tokens, i) /\ Served(i)' = Served(i)
          /\ \A p : Failure(p)' = Failure(p)
      BY <1>0, SameCall
    <3> QED BY <3>1, <1>0 DEF AnswerInv
  <2> DEFINE p == tokens[i].pos
             s == ShardOf(tokens, i)
  <2>1. IF s \in todo THEN ordered[p] = NoAnswer
        ELSE \/ ordered[p] = Served(i)
             \/ ordered[p] = Failure(p) /\ s \in unhealthy_shards_
    BY <1>1 DEF AnswerInv
  <2>2. ordered'[p] = IF s = h THEN Served(i) ELSE ordered[p]
    BY <2>0, <1>1, <1>b, Merged
  <2> HIDE DEF p, s
  <2>3. IF s \in todo' THEN ordered'[p] = NoAnswer
        ELSE \/ ordered'[p] = Served(i)
             \/ ordered'[p] = Failure(p) /\ s \in unhealthy_shards_
    BY <2>1, <2>2, <1>0
  <2> QED BY <2>3 DEF p, s
<1>11. \A s \in unhealthy_shards_' : Gone(s) BY <1>0 DEF IInv, NoFalseFailure
<1> QED BY <1>0, <1>1, <1>6, <1>8, <1>9, <1>10, <1>11, CallGoesOn

\* route_batch_tolerant returns: every token was served by its shard or failed
\* with it.
LEMMA TolerantReturnInv ==
    ASSUME IInv, TolerantReturn
    PROVE  IInv'
<1>0. /\ mode = "next shard" /\ todo = {} /\ mode' = "idle" /\ outcome' = "returned"
      /\ UNCHANGED <<calls, method, tokens, todo, current, sent, flat, ordered,
                     unhealthy_shards_, open, to, from, worker, hand>>
  BY DEF TolerantReturn, workerVars
<1>1. /\ outcome = "none" /\ open /\ method = "tolerant" /\ calls > 0 /\ sent = << >>
      /\ CallInv /\ AnswerInv
  BY <1>0 DEF IInv, CallInv
<1>2. TypeOK' BY <1>0 DEF IInv, TypeOK, Positions
<1>3. BatchShards' = BatchShards /\ Mapped(tokens)' = Mapped(tokens)
  BY <1>0, SameCall
<1>4. CallInv' BY <1>0, <1>1, <1>3 DEF CallInv, Returned
<1>5. FlightInv'
  <2>1. Engaged' = Engaged BY <1>0 DEF Engaged
  <2>2. \A s \in Shards : Flight(s) BY <1>1 DEF IInv, FlightInv
  <2>3. \A s \in Shards : Flight(s)' BY <2>1, <2>2, <1>0, FlightElsewhere
  <2> QED BY <2>3 DEF FlightInv
<1>6. AnswerInv'
  <2>1. /\ \A i : ShardOf(tokens, i)' = ShardOf(tokens, i) /\ Served(i)' = Served(i)
        /\ \A p : Failure(p)' = Failure(p)
    BY <1>0, SameCall
  <2> QED BY <2>1, <1>0, <1>1 DEF AnswerInv
<1>7. ASSUME NEW i \in DOMAIN tokens
      PROVE  LET a == ordered[tokens[i].pos]
             IN  /\ a # NoAnswer /\ a.token_id = <<calls, i>>
                 /\ a.effective = EffectiveExpert(tokens, i)
                 /\ \/ a.shard = ShardOf(tokens, i) /\ a.failed = FALSE
                    \/ a.failed = TRUE /\ ShardOf(tokens, i) \in unhealthy_shards_
  <2> DEFINE p == tokens[i].pos
             a == ordered[p]
  <2>1. \/ a = Served(i)
        \/ a = Failure(p) /\ ShardOf(tokens, i) \in unhealthy_shards_
    BY <1>0, <1>1 DEF AnswerInv
  <2>2. IndexAt(p) = i BY <1>1, PositionOfToken
  <2>3. /\ Served(i).token_id = <<calls, i>> /\ Served(i).shard = ShardOf(tokens, i)
        /\ Served(i).failed = FALSE /\ Served(i).effective = EffectiveExpert(tokens, i)
    BY DEF Served
  <2>4. /\ Failure(p).token_id = <<calls, i>> /\ Failure(p).failed = TRUE
        /\ Failure(p).effective = EffectiveExpert(tokens, i)
    BY <2>2 DEF Failure
  <2>5. Served(i) # NoAnswer /\ Failure(p) # NoAnswer BY <1>1, Filled
  <2> QED BY <2>1, <2>3, <2>4, <2>5
<1>8. OwnAnswers' /\ ExpertAnnotated'
  <2>1. \A i : /\ ShardOf(tokens, i)' = ShardOf(tokens, i)
               /\ EffectiveExpert(tokens, i)' = EffectiveExpert(tokens, i)
    BY <1>0, SameCall
  <2> QED BY <2>1, <1>0, <1>1, <1>7 DEF OwnAnswers, ExpertAnnotated
<1>9. NoFalseFailure'
  <2>1. \A i : ShardOf(tokens, i)' = ShardOf(tokens, i) BY <1>0, SameCall
  <2> QED BY <2>1, <1>0, <1>7 DEF IInv, NoFalseFailure, Gone
<1> QED BY <1>2, <1>4, <1>5, <1>6, <1>8, <1>9 DEF IInv

-----------------------------------------------------------------------------
(* The theorems *)

\* A Router before its first call.
LEMMA InitInv == Init => IInv
<1> SUFFICES ASSUME Init PROVE IInv OBVIOUS
<1>0. /\ calls = 0 /\ method = "none" /\ tokens = << >> /\ mode = "idle" /\ todo = {}
      /\ current = NoShard /\ sent = << >> /\ flat = {} /\ ordered = << >>
      /\ unhealthy_shards_ = {} /\ outcome = "none" /\ open = TRUE
      /\ to = [sh \in Shards |-> << >>] /\ from = [sh \in Shards |-> << >>]
      /\ worker = [sh \in Shards |-> "receive"] /\ hand = [sh \in Shards |-> {}]
  BY DEF Init
<1>1. TypeOK
  <2>1. << >> \in Seq(Shards) /\ Positions(tokens) = {} /\ DOMAIN ordered = {}
    BY <1>0, EmptySeq DEF Positions
  <2>2. /\ to \in [Shards -> Seq(SUBSET TokenMessage)]
        /\ from \in [Shards -> Seq(SUBSET ResultMessage)]
        /\ worker \in [Shards -> {"receive", "reply", "flush", "gone"}]
        /\ hand \in [Shards -> SUBSET ResultMessage]
    BY <1>0, EmptySeq
  <2>3. calls \in 0..MaxCalls BY <1>0, RouterAssumption
  <2>4. tokens \in (UNION {Batches[m] : m \in Methods}) \cup {<< >>} BY <1>0
  <2>5. /\ todo \in SUBSET Shards /\ sent \in Seq(Shards) /\ flat \in SUBSET ResultMessage
        /\ DOMAIN ordered = Positions(tokens)
    BY <2>1, <1>0
  <2>6. /\ method \in {"none", "strict", "tolerant"} /\ mode = "idle"
        /\ current \in Shards \cup {NoShard} /\ unhealthy_shards_ \in SUBSET Shards
        /\ outcome \in {"none", "returned", "threw"} /\ open \in BOOLEAN
    BY <1>0
  <2> QED BY <2>2, <2>3, <2>4, <2>5, <2>6 DEF TypeOK
<1>2. CallInv
  <2>1. DOMAIN tokens = {} BY <1>0
  <2>2. Mapped(tokens) BY <2>1 DEF Mapped
  <2>3. outcome # "threw" =>
           /\ Mapped(tokens)
           /\ IsInjective(sent) /\ Range(sent) \cap todo = {}
           /\ todo \cup Range(sent) \subseteq BatchShards
           /\ todo = {} /\ sent = << >>
    BY <2>2, <1>0, EmptyRange
  <2> QED BY <2>3, <1>0 DEF CallInv, Returned
<1>3. FlightInv
  <2>1. Engaged = {} BY <1>0, EmptyRange DEF Engaged
  <2>2. \A sh \in Shards : Flight(sh) BY <2>1, <1>0 DEF Flight
  <2> QED BY <2>2 DEF FlightInv
<1>4. AnswerInv BY <1>0 DEF AnswerInv
<1>5. OwnAnswers /\ ExpertAnnotated /\ NoFalseFailure
  BY <1>0 DEF OwnAnswers, ExpertAnnotated, NoFalseFailure, Returned
<1> QED BY <1>1, <1>2, <1>3, <1>4, <1>5 DEF IInv

\* Every step of the router, a worker or the chaos script.
LEMMA NextInv ==
    ASSUME IInv, ~ ReuseAfterThrow, [Next]_vars
    PROVE  IInv'
<1>1. CASE \E m \in Methods : \E b \in Batches[m] : Call(m, b) BY <1>1, CallStartInv
<1>2. CASE RouterStep
  <2>1. CASE Scattered BY <2>1, ScatteredInv
  <2>2. CASE ScatterThrows \/ GatherThrows \/ ReassembleThrows
    BY <2>2, ThrowInv DEF ScatterThrows, GatherThrows, ReassembleThrows
  <2>3. CASE Gather BY <2>3, GatherInv
  <2>4. CASE Reassemble BY <2>4, ReassembleInv
  <2>5. CASE GroupSent BY <2>5, GroupSentInv
  <2>6. CASE ReceiveGroup BY <2>6, ReceiveGroupInv
  <2>7. CASE TolerantReturn BY <2>7, TolerantReturnInv
  <2>8. ASSUME NEW sh \in Shards, Scatter(sh) \/ SendGroup(sh) PROVE IInv'
    BY <2>8, SendInv
  <2>9. ASSUME NEW sh \in Shards, SkipUnhealthy(sh) PROVE IInv'
    BY <2>9, SkipUnhealthyInv
  <2>10. ASSUME NEW sh \in Shards, ShardFails(sh) PROVE IInv' BY <2>10, ShardFailsInv
  <2> QED BY <1>2, <2>1, <2>2, <2>3, <2>4, <2>5, <2>6, <2>7, <2>8, <2>9, <2>10
          DEF RouterStep
<1>3. CASE Close BY <1>3, CloseInv
<1>4. ASSUME NEW sh \in Shards, WorkerStep(sh) \/ Kill(sh) PROVE IInv'
  BY <1>4, WorkerReceiveInv, WorkerReplyInv, WorkerOnInv, KillInv DEF WorkerStep
<1>5. CASE UNCHANGED vars
  <2>1. UNCHANGED <<callVars, open, to, from, worker, hand>> BY <1>5 DEF vars, workerVars
  <2>2. TypeOK' BY <2>1 DEF callVars, IInv, TypeOK, Positions
  <2>3. Engaged' = Engaged /\ UNCHANGED <<calls, tokens, outcome>>
    BY <2>1 DEF callVars, Engaged
  <2>4. \A sh \in Shards : Flight(sh) => Flight(sh)' BY <2>1, <2>3, FlightElsewhere
  <2>5. FlightInv' BY <2>1, <2>3, <2>4 DEF IInv, FlightInv
  <2>6. \A sh \in Shards : Gone(sh) => Gone(sh)' BY <2>1 DEF Gone
  <2> QED BY <2>1, <2>2, <2>5, <2>6, CallUntouched DEF IInv, CallInv
<1> QED BY <1>1, <1>2, <1>3, <1>4, <1>5 DEF Next

\* The inductive invariant holds of a Router that is dropped when it throws.
THEOREM InvariantHolds == ~ ReuseAfterThrow => (Spec => []IInv)
<1> SUFFICES ASSUME ~ ReuseAfterThrow PROVE Spec => []IInv OBVIOUS
<1>1. Init => IInv BY InitInv
<1>2. IInv /\ [Next]_vars => IInv' BY NextInv
<1> QED BY <1>1, <1>2, PTL DEF Spec

\* Type correctness of Router, worker loops and sockets.
THEOREM TypeCorrect == ~ ReuseAfterThrow => (Spec => []TypeOK)
<1> SUFFICES ASSUME ~ ReuseAfterThrow PROVE Spec => []TypeOK OBVIOUS
<1>1. IInv => TypeOK BY DEF IInv
<1> QED BY <1>1, InvariantHolds, PTL

\* Both route methods: whatever is killed when, a call that returns has for
\* every token the answer to that token, from the shard of its effective expert
\* or (route_batch_tolerant only) marked failed.
THEOREM EveryTokenAnswered == ~ ReuseAfterThrow => (Spec => []OwnAnswers)
<1> SUFFICES ASSUME ~ ReuseAfterThrow PROVE Spec => []OwnAnswers OBVIOUS
<1>1. IInv => OwnAnswers BY DEF IInv
<1> QED BY <1>1, InvariantHolds, PTL

\* route_batch_tolerant fails only the tokens of shards that really died, and
\* marks only such shards unhealthy.
THEOREM HealthyShardsUnaffected == ~ ReuseAfterThrow => (Spec => []NoFalseFailure)
<1> SUFFICES ASSUME ~ ReuseAfterThrow PROVE Spec => []NoFalseFailure OBVIOUS
<1>1. IInv => NoFalseFailure BY DEF IInv
<1> QED BY <1>1, InvariantHolds, PTL

\* Results name the effective expert of their token, provided route_batch is
\* given its batches in the order of their positions.
THEOREM ExpertsNamed ==
    ~ ReuseAfterThrow /\ StrictInOrder => (Spec => []ExpertAnnotated)
<1> SUFFICES ASSUME ~ ReuseAfterThrow, StrictInOrder PROVE Spec => []ExpertAnnotated
  OBVIOUS
<1>1. IInv => ExpertAnnotated BY DEF IInv
<1> QED BY <1>1, InvariantHolds, PTL

\* A call that returns has emptied the sockets and hands of the living workers,
\* so that the next call cannot read its answers.
THEOREM CleanReturn == ~ ReuseAfterThrow => (Spec => []NothingLeftBehind)
<1> SUFFICES ASSUME ~ ReuseAfterThrow PROVE Spec => []NothingLeftBehind OBVIOUS
<1>1. IInv => NothingLeftBehind
  <2> SUFFICES ASSUME IInv, Returned, open, NEW sh \in Shards, ~ Gone(sh)
               PROVE  to[sh] = << >> /\ from[sh] = << >> /\ hand[sh] = {}
    BY DEF NothingLeftBehind
  <2>1. mode = "idle" /\ outcome # "threw" BY DEF IInv, CallInv, Returned
  <2>2. sent = << >> BY <2>1 DEF IInv, CallInv
  <2>3. Engaged = {} BY <2>1, <2>2, EmptyRange DEF Engaged
  <2>4. Flight(sh) BY <2>1 DEF IInv, FlightInv
  <2> QED BY <2>3, <2>4 DEF Flight
<1> QED BY <1>1, InvariantHolds, PTL
=============================================================================
