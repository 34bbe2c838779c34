------------------------------- MODULE Router -------------------------------
(***************************************************************************)
(* The simulated cluster of src/src/orchestration: the Router that scatters *)
(* a batch over expert shards and gathers the answers, the loop of each     *)
(* worker process, the socket between them, and SIGKILLs of workers at any  *)
(* moment (ChaosScript).                                                   *)
(*                                                                         *)
(* A message is a set of tokens or results; a send is complete once all but *)
(* SocketBuffer[sh] messages before and including it are read, so 0 means   *)
(* messages larger than the socket's buffer.  A token_id is the number of   *)
(* the call and the index in its batch; payloads are left out.              *)
(***************************************************************************)
EXTENDS Integers, Sequences, FiniteSets, Functions

CONSTANTS Shards,           \* worker processes
          expert_to_shard,  \* the mapping given to the Router
          ExpertCapacity,   \* RouterConfig::expert_capacity
          Methods,          \* which of the two route methods is called
          Batches,          \* per method: sequences of [pos, primary, secondary]
          Victims,          \* shards that may be killed
          SocketBuffer,     \* messages the socket of each shard buffers
          ReuseAfterThrow,  \* whether a caller goes on using a Router that threw
          MaxCalls          \* bound: calls of route_batch(_tolerant)

ASSUME RouterAssumption ==
    /\ expert_to_shard \in [DOMAIN expert_to_shard -> Shards]
    /\ ExpertCapacity \in Nat /\ MaxCalls \in Nat
    /\ SocketBuffer \in [Shards -> Nat]
    /\ Methods \subseteq {"strict", "tolerant"}
    /\ Victims \subseteq Shards
    /\ ReuseAfterThrow \in BOOLEAN

\* batch_position tells the tokens of one expert apart (the order in which
\* std::sort leaves equal ones is open), and is a permutation of the positions
\* for the tolerant method.
ASSUME BatchesAssumption ==
    \A m \in Methods : \A b \in Batches[m] :
        /\ b \in Seq([pos : Nat, primary : Nat, secondary : Nat])
        /\ \A i, j \in DOMAIN b :
              b[i].primary = b[j].primary /\ b[i].pos = b[j].pos => i = j
        /\ m = "tolerant" => {b[i].pos : i \in DOMAIN b} = 0..(Len(b) - 1)

VARIABLES calls, method, tokens,  \* the call: its number, method, argument
          mode,                   \* where the router is in the call
          todo,                   \* shards of the batch not yet sent to
          current,                \* the shard a send or receive is with
          sent,                   \* shards_sent, those not yet gathered
          flat, ordered,          \* flat_results; ordered, by batch_position
          unhealthy_shards_,
          outcome,                \* of the last call
          open,                   \* the router still has its transports
          to, from,               \* what the sockets hold, per shard
          worker, hand            \* per shard: its loop, the results computed

callVars == <<calls, method, tokens, mode, todo, current, sent, flat, ordered,
              unhealthy_shards_, outcome>>
workerVars == <<worker, hand>>
vars == <<callVars, open, to, from, workerVars>>

NoAnswer == [token_id |-> <<0, 0>>]
NoShard == "no shard"

Init ==
    /\ calls = 0 /\ method = "none" /\ tokens = << >>
    /\ mode = "idle" /\ todo = {} /\ current = NoShard /\ sent = << >>
    /\ flat = {} /\ ordered = << >>
    /\ unhealthy_shards_ = {} /\ outcome = "none"
    /\ open = TRUE
    /\ to = [sh \in Shards |-> << >>] /\ from = [sh \in Shards |-> << >>]
    /\ worker = [sh \in Shards |-> "receive"] /\ hand = [sh \in Shards |-> {}]

-----------------------------------------------------------------------------
(* Placement *)

Positions(b) == 0..(Len(b) - 1)

\* The tokens of b with the same first choice and an earlier position.
Before(b, i) ==
    {j \in DOMAIN b : b[j].primary = b[i].primary /\ b[j].pos < b[i].pos}

\* assign_effective_experts: the first ExpertCapacity of an expert stay.
EffectiveExpert(b, i) ==
    IF Cardinality(Before(b, i)) < ExpertCapacity THEN b[i].primary
                                                  ELSE b[i].secondary

Mapped(b) == \A i \in DOMAIN b : EffectiveExpert(b, i) \in DOMAIN expert_to_shard

\* shard_for_expert, of a token's effective expert.
ShardOf(b, i) == expert_to_shard[EffectiveExpert(b, i)]

\* The indices sent to a shard.
Group(sh) == {i \in DOMAIN tokens : ShardOf(tokens, i) = sh}

\* encode_token_batch of a shard's group.
Request(sh) == {[token_id |-> <<calls, i>>, pos |-> tokens[i].pos] : i \in Group(sh)}

-----------------------------------------------------------------------------
(* The transport *)

Gone(sh) == worker[sh] = "gone"

\* A send starts; the worker at the other end is there.
Send(sh) ==
    /\ ~ Gone(sh)
    /\ to' = [to EXCEPT ![sh] = Append(@, Request(sh))]

\* The whole message is written.
Written(sh) == Len(to[sh]) <= SocketBuffer[sh]

\* write fails with EPIPE in the middle of the message.
SendThrows(sh) == Gone(sh) /\ ~ Written(sh)

Receive(sh) ==
    /\ from[sh] # << >>
    /\ from' = [from EXCEPT ![sh] = Tail(@)]

\* Mutants of ReceiveThrows: no data yet is taken for an error; the death of
\* the peer goes unnoticed.
ReceiveThrowsEarly(sh) == from[sh] = << >>
ReceiveThrowsNever(sh) == Gone(sh) /\ FALSE

\* read finds the peer gone: PeerClosedError, a reset, or a message cut short.
ReceiveThrows(sh) == Gone(sh) /\ from[sh] = << >>

-----------------------------------------------------------------------------
(* A call starts; it ends by returning or by an exception *)

\* The grouping at the start of both methods, which throws for an expert
\* without a shard before anything is sent.
Call(m, b) ==
    /\ mode = "idle" /\ open
    /\ calls < MaxCalls
    /\ outcome # "threw" \/ ReuseAfterThrow
    /\ calls' = calls + 1 /\ method' = m /\ tokens' = b
    /\ flat' = {} /\ ordered' = [p \in Positions(b) |-> NoAnswer]
    /\ sent' = << >> /\ current' = NoShard
    /\ IF Mapped(b)
       THEN /\ todo' = {ShardOf(b, i) : i \in DOMAIN b}
            /\ mode' = IF m = "strict" THEN "scatter" ELSE "next shard"
            /\ outcome' = "none"
       ELSE /\ todo' = {}
            /\ mode' = "idle" /\ outcome' = "threw"
    /\ UNCHANGED <<unhealthy_shards_, open, to, from, workerVars>>

Throw ==
    /\ mode' = "idle" /\ outcome' = "threw"
    /\ UNCHANGED <<calls, method, tokens, todo, current, sent, flat, ordered,
                   unhealthy_shards_, open, to, from, workerVars>>

-----------------------------------------------------------------------------
(* route_batch: send to every shard, then receive from every shard *)

Scatter(sh) ==
    /\ mode = "scatter" /\ sh \in todo
    /\ Send(sh)
    /\ current' = sh /\ mode' = "scatter send"
    /\ UNCHANGED <<calls, method, tokens, todo, sent, flat, ordered,
                   unhealthy_shards_, outcome, open, from, workerVars>>

Scattered ==
    /\ mode = "scatter send" /\ Written(current)
    /\ todo' = todo \ {current} /\ sent' = Append(sent, current)
    /\ mode' = "scatter"
    /\ UNCHANGED <<calls, method, tokens, current, flat, ordered,
                   unhealthy_shards_, outcome, open, to, from, workerVars>>

ScatterThrows ==
    /\ \/ mode = "scatter" /\ \E sh \in todo : Gone(sh)
       \/ mode = "scatter send" /\ SendThrows(current)
    /\ Throw

Gather ==
    /\ mode = "scatter" /\ todo = {} /\ sent # << >>
    /\ Receive(Head(sent))
    /\ flat' = flat \cup Head(from[Head(sent)])
    /\ sent' = Tail(sent)
    /\ UNCHANGED <<calls, method, tokens, mode, todo, current, ordered,
                   unhealthy_shards_, outcome, open, to, workerVars>>

GatherThrows ==
    /\ mode = "scatter" /\ todo = {} /\ sent # << >>
    /\ ReceiveThrows(Head(sent))
    /\ Throw

\* reassemble accepts: in range, one result for each position.
Complete ==
    /\ \A r \in flat : r.pos \in Positions(tokens)
    /\ \A p \in Positions(tokens) : Cardinality({r \in flat : r.pos = p}) = 1

Gathered == mode = "scatter" /\ todo = {} /\ sent = << >>

\* reassemble, and the annotation with effective_expert by index.
Reassemble ==
    /\ Gathered /\ Complete
    /\ ordered' = [p \in Positions(tokens) |->
          LET r == CHOOSE r \in flat : r.pos = p
          IN  [token_id |-> r.token_id, shard |-> r.shard, failed |-> FALSE,
               effective |-> EffectiveExpert(tokens, p + 1)]]
    /\ mode' = "idle" /\ outcome' = "returned"
    /\ UNCHANGED <<calls, method, tokens, todo, current, sent, flat,
                   unhealthy_shards_, open, to, from, workerVars>>

ReassembleThrows == Gathered /\ ~ Complete /\ Throw

-----------------------------------------------------------------------------
(* route_batch_tolerant: one shard after the other, failures are recorded *)

GroupPositions(sh) == {tokens[i].pos : i \in Group(sh)}

\* Mutant of IndexAt: the position is taken for the index.
PositionAsIndex(p) == p + 1

IndexAt(p) == CHOOSE i \in DOMAIN tokens : tokens[i].pos = p

Failure(p) ==
    [token_id |-> <<calls, IndexAt(p)>>, shard |-> NoShard, failed |-> TRUE,
     effective |-> EffectiveExpert(tokens, IndexAt(p))]

\* Mutant of FailGroup: the group is dropped.
DropGroup(sh) == todo' = todo \ {sh} /\ mode' = "next shard" /\ UNCHANGED ordered

\* fail_group, and on to the next shard.
FailGroup(sh) ==
    /\ ordered' = [p \in Positions(tokens) |->
                      IF p \in GroupPositions(sh) THEN Failure(p) ELSE ordered[p]]
    /\ todo' = todo \ {sh} /\ mode' = "next shard"

SkipUnhealthy(sh) ==
    /\ mode = "next shard" /\ sh \in todo
    /\ sh \in unhealthy_shards_
    /\ FailGroup(sh)
    /\ UNCHANGED <<calls, method, tokens, current, sent, flat, unhealthy_shards_,
                   outcome, open, to, from, workerVars>>

SendGroup(sh) ==
    /\ mode = "next shard" /\ sh \in todo
    /\ sh \notin unhealthy_shards_
    /\ Send(sh)
    /\ current' = sh /\ mode' = "shard send"
    /\ UNCHANGED <<calls, method, tokens, todo, sent, flat, ordered,
                   unhealthy_shards_, outcome, open, from, workerVars>>

GroupSent ==
    /\ mode = "shard send" /\ Written(current)
    /\ mode' = "shard receive"
    /\ UNCHANGED <<calls, method, tokens, todo, current, sent, flat, ordered,
                   unhealthy_shards_, outcome, open, to, from, workerVars>>

\* The transport threw: the shard is marked unhealthy and its group fails.
ShardFails(sh) ==
    /\ \/ /\ mode = "next shard" /\ sh \in todo
          /\ sh \notin unhealthy_shards_ /\ Gone(sh)
       \/ mode = "shard send" /\ sh = current /\ SendThrows(sh)
       \/ mode = "shard receive" /\ sh = current /\ ReceiveThrows(sh)
    /\ unhealthy_shards_' = unhealthy_shards_ \cup {sh}
    /\ FailGroup(sh)
    /\ UNCHANGED <<calls, method, tokens, current, sent, flat, outcome, open,
                   to, from, workerVars>>

\* The reply is merged by batch_position into what is not filled yet; what the
\* shard should have answered and did not is recorded as failed.
MergeReply(reply) ==
    ordered' = [p \in Positions(tokens) |->
        IF ordered[p] # NoAnswer THEN ordered[p]
        ELSE IF \E r \in reply : r.pos = p
        THEN LET r == CHOOSE r \in reply : r.pos = p
             IN  [token_id |-> r.token_id, shard |-> r.shard, failed |-> FALSE,
                  effective |-> IF p \in GroupPositions(current)
                                THEN EffectiveExpert(tokens, IndexAt(p)) ELSE 0]
        ELSE IF p \in GroupPositions(current) THEN Failure(p)
        ELSE NoAnswer]

ReceiveGroup ==
    /\ mode = "shard receive"
    /\ Receive(current)
    /\ MergeReply(Head(from[current]))
    /\ todo' = todo \ {current} /\ mode' = "next shard"
    /\ UNCHANGED <<calls, method, tokens, current, sent, flat, unhealthy_shards_,
                   outcome, open, to, workerVars>>

TolerantReturn ==
    /\ mode = "next shard" /\ todo = {}
    /\ mode' = "idle" /\ outcome' = "returned"
    /\ UNCHANGED <<calls, method, tokens, todo, current, sent, flat, ordered,
                   unhealthy_shards_, open, to, from, workerVars>>

\* The caller drops the transports (and then waits in join_all).
Close ==
    /\ mode = "idle" /\ open
    /\ open' = FALSE
    /\ from' = [sh \in Shards |-> << >>]
    /\ UNCHANGED <<callVars, to, workerVars>>

-----------------------------------------------------------------------------
(* run_worker_loop *)

\* process_token_placeholder.
Processed(t, sh) == [token_id |-> t.token_id, pos |-> t.pos, shard |-> sh]

\* receive, decode_token_batch, and the results of all tokens.
WorkerReceive(sh) ==
    /\ worker[sh] = "receive" /\ to[sh] # << >>
    /\ to' = [to EXCEPT ![sh] = Tail(@)]
    /\ hand' = [hand EXCEPT ![sh] = {Processed(t, sh) : t \in Head(to[sh])}]
    /\ worker' = [worker EXCEPT ![sh] = "reply"]
    /\ UNCHANGED <<callVars, open, from>>

WorkerReply(sh) ==
    /\ worker[sh] = "reply" /\ open
    /\ from' = [from EXCEPT ![sh] = Append(@, hand[sh])]
    /\ hand' = [hand EXCEPT ![sh] = {}]
    /\ worker' = [worker EXCEPT ![sh] = "flush"]
    /\ UNCHANGED <<callVars, open, to>>

WorkerFlushed(sh) ==
    /\ worker[sh] = "flush" /\ Len(from[sh]) <= SocketBuffer[sh]
    /\ worker' = [worker EXCEPT ![sh] = "receive"]
    /\ UNCHANGED <<callVars, open, to, from, hand>>

\* Mutant of WorkerExit: only a failing receive ends the loop.
WorkerExitOnReceive(sh) ==
    /\ ~ open
    /\ worker[sh] = "receive" /\ to[sh] = << >>
    /\ worker' = [worker EXCEPT ![sh] = "gone"]
    /\ UNCHANGED <<callVars, open, to, from, hand>>

\* Any transport error ends the loop: the router has closed its end.
WorkerExit(sh) ==
    /\ ~ open
    /\ \/ worker[sh] = "receive" /\ to[sh] = << >>
       \/ worker[sh] \in {"reply", "flush"}
    /\ worker' = [worker EXCEPT ![sh] = "gone"]
    /\ hand' = [hand EXCEPT ![sh] = {}]
    /\ UNCHANGED <<callVars, open, to, from>>

\* ChaosScript's SIGKILL.  A reply that is not written to its end is cut short
\* and will never be received; one that is stays readable.
Kill(sh) ==
    /\ sh \in Victims /\ ~ Gone(sh) /\ open
    /\ from' = [from EXCEPT ![sh] =
          IF worker[sh] = "flush" /\ Len(@) > SocketBuffer[sh]
          THEN SubSeq(@, 1, Len(@) - 1) ELSE @]
    /\ worker' = [worker EXCEPT ![sh] = "gone"]
    /\ hand' = [hand EXCEPT ![sh] = {}]
    /\ UNCHANGED <<callVars, open, to>>

-----------------------------------------------------------------------------
RouterStep ==
    \/ Scattered \/ ScatterThrows \/ Gather \/ GatherThrows
    \/ Reassemble \/ ReassembleThrows
    \/ GroupSent \/ ReceiveGroup \/ TolerantReturn
    \/ \E sh \in Shards : \/ Scatter(sh) \/ SkipUnhealthy(sh)
                          \/ SendGroup(sh) \/ ShardFails(sh)

WorkerStep(sh) ==
    WorkerReceive(sh) \/ WorkerReply(sh) \/ WorkerFlushed(sh) \/ WorkerExit(sh)

Next ==
    \/ \E m \in Methods : \E b \in Batches[m] : Call(m, b)
    \/ RouterStep
    \/ Close
    \/ \E sh \in Shards : WorkerStep(sh) \/ Kill(sh)

Spec == Init /\ [][Next]_vars

\* The router's thread and every living worker process keep running.
FairSpec ==
    Spec /\ WF_vars(RouterStep) /\ \A sh \in Shards : WF_vars(WorkerStep(sh))

-----------------------------------------------------------------------------
(* Safety *)

TokenMessage == [token_id : (1..MaxCalls) \X Nat, pos : Nat]
ResultMessage == [token_id : (1..MaxCalls) \X Nat, pos : Nat, shard : Shards]

\* Type invariant.
TypeOK ==
    /\ calls \in 0..MaxCalls /\ method \in {"none", "strict", "tolerant"}
    /\ tokens \in (UNION {Batches[m] : m \in Methods}) \cup {<< >>}
    /\ mode \in {"idle", "scatter", "scatter send",
                "next shard", "shard send", "shard receive"}
    /\ todo \in SUBSET Shards /\ sent \in Seq(Shards)
    /\ current \in Shards \cup {NoShard}
    /\ mode \in {"scatter send", "shard send", "shard receive"} => current \in Shards
    /\ flat \in SUBSET ResultMessage /\ DOMAIN ordered = Positions(tokens)
    /\ unhealthy_shards_ \in SUBSET Shards
    /\ outcome \in {"none", "returned", "threw"} /\ open \in BOOLEAN
    /\ to \in [Shards -> Seq(SUBSET TokenMessage)]
    /\ from \in [Shards -> Seq(SUBSET ResultMessage)]
    /\ worker \in [Shards -> {"receive", "reply", "flush", "gone"}]
    /\ hand \in [Shards -> SUBSET ResultMessage]

Returned == outcome = "returned"

\* "Every token gets exactly one RoutedResult back": whatever is killed when,
\* a call that returns has at each position the answer to this call's token
\* there, computed by the shard of its effective expert or marked failed;
\* route_batch never returns a failed one.
OwnAnswers ==
    Returned => \A i \in DOMAIN tokens :
        LET a == ordered[tokens[i].pos]
        IN  /\ a # NoAnswer /\ a.token_id = <<calls, i>>
            /\ a.shard = ShardOf(tokens, i) \/ (a.failed /\ method = "tolerant")

\* A returned result names the expert its token was really assigned to.
ExpertAnnotated ==
    Returned => \A i \in DOMAIN tokens :
        ordered[tokens[i].pos].effective = EffectiveExpert(tokens, i)

\* "Healthy shards in the same batch are unaffected by another shard's
\* failure": only tokens of a shard that really died fail, and only such a
\* shard is taken for unhealthy.
NoFalseFailure ==
    /\ \A sh \in unhealthy_shards_ : Gone(sh)
    /\ Returned => \A i \in DOMAIN tokens :
          ordered[tokens[i].pos].failed => ShardOf(tokens, i) \in unhealthy_shards_

\* A call that returns leaves nothing behind in the sockets and workers of the
\* living shards; otherwise the next call would read this call's answers.
NothingLeftBehind ==
    Returned /\ open => \A sh \in Shards :
        ~ Gone(sh) => to[sh] = << >> /\ from[sh] = << >> /\ hand[sh] = {}

-----------------------------------------------------------------------------
(* The inductive invariant, for a Router that is not used after it threw *)

\* The shards the batch is scattered over.
BatchShards == {ShardOf(tokens, i) : i \in DOMAIN tokens}

\* What a worker makes of its group.
Reply(sh) == {Processed(t, sh) : t \in Request(sh)}

\* Shards whose request has been sent, in part at least, and not been answered.
Engaged ==
    Range(sent) \cup
        (IF mode \in {"scatter send", "shard send", "shard receive"} THEN {current} ELSE {})

\* Where a call is: every shard of the batch is still to be sent to, waited for
\* or done.
CallInv ==
    /\ mode # "idle" => outcome = "none" /\ open /\ calls > 0
    /\ mode \in {"scatter", "scatter send"} => method = "strict"
    /\ mode \in {"next shard", "shard send", "shard receive"} => method = "tolerant"
    /\ IF method = "none" THEN tokens = << >>
                          ELSE method \in Methods /\ tokens \in Batches[method]
    /\ Returned => calls > 0
    /\ outcome # "threw" =>
          /\ Mapped(tokens)
          /\ IsInjective(sent) /\ Range(sent) \cap todo = {}
          /\ todo \cup Range(sent) \subseteq BatchShards
          /\ mode = "idle" => todo = {} /\ sent = << >>
          /\ method = "tolerant" => sent = << >>
          /\ mode \in {"scatter send", "shard send", "shard receive"} => current \in todo

\* At most one message is under way with a shard, and only with one that is
\* engaged: this call's request, or the reply to it.
Flight(sh) ==
    /\ to[sh] # << >> => from[sh] = << >> /\ worker[sh] # "reply"
    /\ from[sh] # << >> => worker[sh] # "reply"
    /\ worker[sh] # "reply" => hand[sh] = {}
    /\ IF sh \in Engaged
       THEN /\ to[sh] \in {<< >>, <<Request(sh)>>}
            /\ from[sh] \in {<< >>, <<Reply(sh)>>}
            /\ worker[sh] = "reply" => hand[sh] = Reply(sh)
       ELSE /\ from[sh] = << >>
            /\ Gone(sh) \/ (to[sh] = << >> /\ worker[sh] # "reply")

FlightInv == open /\ outcome # "threw" => \A sh \in Shards : Flight(sh)

\* The good answer to the token at index i.
Served(i) ==
    [token_id |-> <<calls, i>>, shard |-> ShardOf(tokens, i), failed |-> FALSE,
     effective |-> EffectiveExpert(tokens, i)]

\* What has been gathered so far.
AnswerInv ==
    /\ mode \in {"scatter", "scatter send"} =>
          flat = UNION {Reply(sh) : sh \in BatchShards \ (todo \cup Range(sent))}
    /\ method = "tolerant" /\ outcome # "threw" => \A i \in DOMAIN tokens :
          LET p == tokens[i].pos
              sh == ShardOf(tokens, i)
          IN  IF sh \in todo THEN ordered[p] = NoAnswer
              ELSE \/ ordered[p] = Served(i)
                   \/ ordered[p] = Failure(p) /\ sh \in unhealthy_shards_

\* A batch for route_batch is given in the order of its positions.
StrictInOrder ==
    "strict" \in Methods => \A b \in Batches["strict"] :
        {b[i].pos : i \in DOMAIN b} = Positions(b) => \A i \in DOMAIN b : b[i].pos = i - 1

IInv ==
    /\ TypeOK /\ CallInv /\ FlightInv /\ AnswerInv
    /\ OwnAnswers /\ NoFalseFailure /\ (StrictInOrder => ExpertAnnotated)

-----------------------------------------------------------------------------
(* Progress *)

\* "Must detect the failure within a bounded time, not hang": every call
\* returns or throws.
CallsReturn == mode # "idle" ~> mode = "idle"

\* Once the transports are closed every worker leaves its loop, wherever it
\* is: join_all returns.
WorkersExit == ~ open ~> \A sh \in Shards : Gone(sh)
=============================================================================
