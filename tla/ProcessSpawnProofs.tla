------------------------- MODULE ProcessSpawnProofs -------------------------
(***************************************************************************)
(* Who holds which end of which socket, for every number of shards and of   *)
(* calls of spawn_workers, whatever fails or is killed: IInv of             *)
(* ProcessSpawn is inductive when a group is joined before the next call.   *)
(***************************************************************************)
EXTENDS ProcessSpawn, TLAPS

\* Groups and shards are numbered from 1, so the parent is nobody's child.
LEMMA Names ==
    /\ Parent \in Processes /\ Parent \notin Workers /\ Workers \subseteq Processes
    /\ \A w \in Workers : w[1] \in Groups /\ w[2] \in Shards /\ w = <<w[1], w[2]>>
    /\ \A x \in Ends : x.pair \in Pairs /\ x.pair[1] \in Groups
    /\ \A g \in Groups : PairsOf(g) = {w \in Workers : w[1] = g}
    /\ \A p \in Pairs : RouterEnd(p) \in Ends /\ WorkerEnd(p) \in Ends
    /\ \A x \in Ends : x = RouterEnd(x.pair) \/ x = WorkerEnd(x.pair)
    /\ \A p : RouterEnd(p).side = "router" /\ WorkerEnd(p).side = "worker"
    /\ \A p : RouterEnd(p).pair = p /\ WorkerEnd(p).pair = p
<1> USE DEF Processes, Workers, Pairs, Parent, Groups, Shards, Ends, PairsOf
<1>1. /\ Parent \in Processes /\ Workers \subseteq Processes OBVIOUS
<1>2. Parent \notin Workers BY SpawnAssumption
<1>3. \A w \in Workers : w[1] \in Groups /\ w[2] \in Shards /\ w = <<w[1], w[2]>>
  OBVIOUS
<1>4. \A x \in Ends : x.pair \in Pairs /\ x.pair[1] \in Groups OBVIOUS
<1>5. \A g \in Groups : PairsOf(g) = {w \in Workers : w[1] = g} OBVIOUS
<1>6. \A p \in Pairs : RouterEnd(p) \in Ends /\ WorkerEnd(p) \in Ends
  BY DEF RouterEnd, WorkerEnd
<1>7. \A x \in Ends : x = RouterEnd(x.pair) \/ x = WorkerEnd(x.pair)
  BY DEF RouterEnd, WorkerEnd
<1>8. /\ \A p : RouterEnd(p).side = "router" /\ WorkerEnd(p).side = "worker"
      /\ \A p : RouterEnd(p).pair = p /\ WorkerEnd(p).pair = p
  BY DEF RouterEnd, WorkerEnd
<1> QED BY <1>1, <1>2, <1>3, <1>4, <1>5, <1>6, <1>7, <1>8

\* The invariant holds before the first call.
LEMMA InitInv == Init => IInv
<1> SUFFICES ASSUME Init PROVE IInv OBVIOUS
<1>1. TypeOK BY Names, SpawnAssumption DEF Init, TypeOK
<1>2. OneGroupAtATime BY DEF Init, OneGroupAtATime
<1>3. ParentInv /\ ChildInv BY Names DEF Init, ParentInv, ChildInv
<1> QED BY <1>1, <1>2, <1>3 DEF IInv

\* A call begins when every group before it is over; this is where ~ Overlap is
\* needed.
LEMMA SpawnWorkersInv ==
    ASSUME IInv, ~ Overlap, NEW g \in Groups, SpawnWorkers(g) PROVE IInv'
<1> USE DEF SpawnWorkers
<1>1. TypeOK' BY DEF IInv, TypeOK
<1>2. OneGroupAtATime'
  <2>1. \A h \in Groups : phase'[h] = IF h = g THEN "pairs" ELSE phase[h]
    BY DEF IInv, TypeOK
  <2>2. \A h \in Groups : h < g => Over(h) BY SpawnAssumption DEF Groups
  <2> QED BY <2>1, <2>2 DEF IInv, OneGroupAtATime, Over
<1>3. ParentInv' BY Names DEF IInv, TypeOK, ParentInv
<1>4. ChildInv' BY Names DEF IInv, TypeOK, ChildInv
<1> QED BY <1>1, <1>2, <1>3, <1>4 DEF IInv

\* A pair adds two ends of a group that is being set up to the parent.
LEMMA CreatePairInv ==
    ASSUME IInv, NEW g \in Groups, CreatePair(g) PROVE IInv'
<1> USE DEF CreatePair
<1> DEFINE pair == <<g, next[g]>>
<1>0. next[g] \in Shards /\ next[g] + 1 \in 1..(NumShards + 1)
  BY SpawnAssumption DEF IInv, TypeOK, Shards
<1>1. pair \in Pairs /\ pair[1] = g BY <1>0 DEF Pairs
<1> HIDE DEF pair
<1>2. holds' = [holds EXCEPT ![Parent] = @ \cup {RouterEnd(pair), WorkerEnd(pair)}]
  BY DEF pair
<1>3. TypeOK'
  <2>1. holds' \in [Processes -> SUBSET Ends]
    <3>1. RouterEnd(pair) \in Ends /\ WorkerEnd(pair) \in Ends BY <1>1, Names
    <3>2. holds \in [Processes -> SUBSET Ends] BY DEF IInv, TypeOK
    <3> QED BY <1>2, <3>1, <3>2
  <2>2. \A w \in Workers : holds'[w] = holds[w] BY <1>2, Names DEF IInv, TypeOK
  <2>3. next' \in [Groups -> 1..(NumShards + 1)] BY <1>0 DEF IInv, TypeOK
  <2> QED BY <2>1, <2>2, <2>3 DEF IInv, TypeOK
<1>4. OneGroupAtATime' BY DEF IInv, OneGroupAtATime, Over
<1>5. ParentInv' BY <1>1, <1>2, Names DEF IInv, TypeOK, ParentInv
<1>6. ChildInv' BY <1>2, Names DEF IInv, TypeOK, ChildInv
<1> QED BY <1>3, <1>4, <1>5, <1>6 DEF IInv

\* Going on to the forks changes no descriptor.
LEMMA PairsCreatedInv ==
    ASSUME IInv, NEW g \in Groups, PairsCreated(g) PROVE IInv'
<1> USE DEF PairsCreated
<1>1. TypeOK' BY SpawnAssumption DEF IInv, TypeOK
<1>2. OneGroupAtATime' BY DEF IInv, TypeOK, OneGroupAtATime, Over
<1>3. ParentInv' BY Names DEF IInv, TypeOK, ParentInv
<1>4. ChildInv' BY Names DEF IInv, TypeOK, ChildInv
<1> QED BY <1>1, <1>2, <1>3, <1>4 DEF IInv

\* The child's copy: ends of its own group, and what failed calls left open.
LEMMA ForkInv ==
    ASSUME IInv, NEW g \in Groups, Fork(g) PROVE IInv'
<1> USE DEF Fork
<1> DEFINE w == <<g, next[g]>>
<1>0. next[g] \in Shards /\ next[g] + 1 \in 1..(NumShards + 1)
  BY SpawnAssumption DEF IInv, TypeOK, Shards
<1>1. w \in Workers /\ w[1] = g BY <1>0 DEF Workers, Pairs
<1> HIDE DEF w
<1>2. /\ holds' = [holds EXCEPT ![w] = holds[Parent]]
      /\ proc' = [proc EXCEPT ![w] = "forked"]
  BY DEF w
<1>3. TypeOK'
  <2>1. holds' \in [Processes -> SUBSET Ends]
    <3>1. holds \in [Processes -> SUBSET Ends] /\ Parent \in Processes
      BY Names DEF IInv, TypeOK
    <3> QED BY <1>2, <3>1
  <2>2. next' \in [Groups -> 1..(NumShards + 1)] BY <1>0 DEF IInv, TypeOK
  <2>3. \A v \in Workers : v # w => holds'[v] = holds[v] /\ proc'[v] = proc[v]
    BY <1>1, <1>2, Names DEF IInv, TypeOK
  <2>4. proc'[w] = "forked" BY <1>1, <1>2 DEF IInv, TypeOK
  <2>5. proc' \in [Workers -> {"none", "forked", "running", "zombie", "reaped"}]
    BY <1>1, <1>2 DEF IInv, TypeOK
  <2> QED BY <2>1, <2>2, <2>3, <2>4, <2>5 DEF IInv, TypeOK
<1>4. OneGroupAtATime' BY DEF IInv, OneGroupAtATime, Over
<1>5. holds'[Parent] = holds[Parent] BY <1>1, <1>2, Names DEF IInv, TypeOK
<1>6. ParentInv' BY <1>5 DEF IInv, ParentInv
<1>7. ChildInv'
  <2> SUFFICES ASSUME NEW v \in Workers, NEW x \in holds'[v]
               PROVE  IF x.pair[1] = v[1] THEN proc'[v] = "running" => x = WorkerEnd(v)
                                          ELSE phase[x.pair[1]] = "threw"
    BY DEF ChildInv
  <2>1. CASE v # w
    <3>1. holds'[v] = holds[v] /\ proc'[v] = proc[v]
      BY <2>1, <1>1, <1>2, Names DEF IInv, TypeOK
    <3> QED BY <3>1 DEF IInv, ChildInv
  <2>2. CASE v = w
    <3>1. x \in holds[Parent] /\ proc'[v] = "forked"
      BY <2>2, <1>1, <1>2, Names DEF IInv, TypeOK
    <3>2. x \in Ends /\ x.pair[1] \in Groups BY <3>1, Names DEF IInv, TypeOK
    <3>3. CASE x.pair[1] = g BY <3>1, <3>3, <2>2, <1>1
    <3>4. CASE x.pair[1] # g
      <4> DEFINE h == x.pair[1]
      <4>1. phase[h] \in {"none", "joined", "threw"}
        <5>1. h < g \/ g < h BY <3>2, <3>4, SpawnAssumption DEF Groups
        <5> QED BY <5>1, <3>2 DEF IInv, OneGroupAtATime, Over
      <4>2. phase[h] = "threw" BY <4>1, <3>1 DEF IInv, ParentInv
      <4> QED BY <4>2, <3>4, <2>2, <1>1
    <3> QED BY <3>3, <3>4
  <2> QED BY <2>1, <2>2
<1> QED BY <1>3, <1>4, <1>6, <1>7 DEF IInv

\* A call that fails leaves the ends where they are.
LEMMA SpawnThrowsInv ==
    ASSUME IInv, NEW g \in Groups, SpawnThrows(g) PROVE IInv'
<1> USE DEF SpawnThrows
<1>1. TypeOK' BY DEF IInv, TypeOK
<1>2. OneGroupAtATime' BY DEF IInv, TypeOK, OneGroupAtATime, Over
<1>3. ParentInv' BY Names DEF IInv, TypeOK, ParentInv
<1>4. ChildInv' BY Names DEF IInv, TypeOK, ChildInv
<1> QED BY <1>1, <1>2, <1>3, <1>4 DEF IInv

\* Phase 3 leaves the parent the router's ends.
LEMMA WrapInv ==
    ASSUME IInv, NEW g \in Groups, Wrap(g) PROVE IInv'
<1> USE DEF Wrap
<1>0. holds \in [Processes -> SUBSET Ends] /\ Parent \in Processes
  BY Names DEF IInv, TypeOK
<1>1. \A w \in Workers : holds'[w] = holds[w] BY <1>0, Names
<1>2. holds' \in [Processes -> SUBSET Ends] BY <1>0
<1>3. TypeOK' BY <1>1, <1>2 DEF IInv, TypeOK
<1>4. OneGroupAtATime' BY DEF IInv, TypeOK, OneGroupAtATime, Over
<1>5. ParentInv'
  <2> SUFFICES ASSUME NEW x \in holds'[Parent]
               PROVE  \/ phase'[x.pair[1]] \in {"pairs", "fork", "threw"}
                      \/ phase'[x.pair[1]] = "up" /\ x.side = "router"
    BY DEF ParentInv
  <2>1. x \in holds[Parent] /\ x \notin {WorkerEnd(p) : p \in PairsOf(g)}
    BY <1>0
  <2>2. x \in Ends /\ x.pair \in Workers /\ x.pair[1] \in Groups
    BY <2>1, <1>0, Names DEF Workers
  <2>3. CASE x.pair[1] = g
    <3>1. x # WorkerEnd(x.pair) BY <2>1, <2>2, <2>3, Names
    <3>2. x.side = "router" BY <3>1, <2>2, Names
    <3> QED BY <3>2, <2>3 DEF IInv, TypeOK
  <2>4. CASE x.pair[1] # g
    BY <2>1, <2>2, <2>4 DEF IInv, TypeOK, ParentInv
  <2> QED BY <2>3, <2>4
<1>6. ChildInv' BY <1>1, <1>0, Names DEF IInv, TypeOK, ChildInv
<1> QED BY <1>3, <1>4, <1>5, <1>6 DEF IInv

\* The child keeps its own end of its own group.
LEMMA ChildClosesInv ==
    ASSUME IInv, NEW w \in Workers, ChildCloses(w) PROVE IInv'
<1> USE DEF ChildCloses
<1>0. /\ holds \in [Processes -> SUBSET Ends] /\ Parent \in Processes
      /\ w \in Processes /\ w # Parent
      /\ proc \in [Workers -> {"none", "forked", "running", "zombie", "reaped"}]
  BY Names DEF IInv, TypeOK
<1>1. /\ \A p \in Processes : p # w => holds'[p] = holds[p]
      /\ holds'[w] = {x \in holds[w] : x = WorkerEnd(w) \/ x.pair \notin PairsOf(w[1])}
      /\ \A v \in Workers : v # w => proc'[v] = proc[v]
      /\ proc'[w] = "running"
  BY <1>0
<1>2. TypeOK'
  <2>1. holds' \in [Processes -> SUBSET Ends] BY <1>0
  <2>2. proc' \in [Workers -> {"none", "forked", "running", "zombie", "reaped"}]
    BY <1>0
  <2> QED BY <2>1, <2>2, <1>1, Names DEF IInv, TypeOK
<1>3. OneGroupAtATime' BY DEF IInv, OneGroupAtATime, Over
<1>4. ParentInv' BY <1>0, <1>1 DEF IInv, ParentInv
<1>5. ChildInv'
  <2> SUFFICES ASSUME NEW v \in Workers, NEW x \in holds'[v]
               PROVE  IF x.pair[1] = v[1] THEN proc'[v] = "running" => x = WorkerEnd(v)
                                          ELSE phase[x.pair[1]] = "threw"
    BY DEF ChildInv
  <2>1. CASE v # w BY <2>1, <1>1, Names DEF IInv, ChildInv
  <2>2. CASE v = w
    <3>1. x \in holds[w] /\ (x = WorkerEnd(w) \/ x.pair \notin PairsOf(w[1]))
      BY <2>2, <1>1
    <3>2. x.pair \in Workers BY <3>1, <1>0, Names DEF Workers
    <3>3. x = WorkerEnd(w) \/ x.pair[1] # w[1] BY <3>1, <3>2, Names
    <3> QED BY <3>1, <3>3, <2>2 DEF IInv, ChildInv
  <2> QED BY <2>1, <2>2
<1> QED BY <1>2, <1>3, <1>4, <1>5 DEF IInv

\* A process that ends holds nothing any more.
LEMMA ExitInv ==
    ASSUME IInv, NEW w \in Workers, Exit(w), kills' \subseteq Workers
    PROVE  IInv'
<1> USE DEF Exit
<1>0. /\ holds \in [Processes -> SUBSET Ends] /\ Parent \in Processes
      /\ w \in Processes /\ w # Parent
      /\ proc \in [Workers -> {"none", "forked", "running", "zombie", "reaped"}]
  BY Names DEF IInv, TypeOK
<1>1. /\ \A p \in Processes : p # w => holds'[p] = holds[p]
      /\ holds'[w] = {}
      /\ \A v \in Workers : v # w => proc'[v] = proc[v]
  BY <1>0
<1>2. TypeOK'
  <2>1. holds' \in [Processes -> SUBSET Ends] BY <1>0
  <2>2. proc' \in [Workers -> {"none", "forked", "running", "zombie", "reaped"}]
    BY <1>0
  <2> QED BY <2>1, <2>2, <1>1, Names DEF IInv, TypeOK
<1>3. OneGroupAtATime' BY DEF IInv, OneGroupAtATime, Over
<1>4. ParentInv' BY <1>0, <1>1 DEF IInv, ParentInv
<1>5. ChildInv' BY <1>1, Names DEF IInv, ChildInv
<1> QED BY <1>2, <1>3, <1>4, <1>5 DEF IInv

\* Destroying the transports leaves the parent no end of the group.
LEMMA CloseTransportsInv ==
    ASSUME IInv, NEW g \in Groups, CloseTransports(g) PROVE IInv'
<1> USE DEF CloseTransports
<1>0. holds \in [Processes -> SUBSET Ends] /\ Parent \in Processes
  BY Names DEF IInv, TypeOK
<1>1. \A w \in Workers : holds'[w] = holds[w] BY <1>0, Names
<1>2. holds' \in [Processes -> SUBSET Ends] BY <1>0
<1>3. TypeOK' BY <1>1, <1>2 DEF IInv, TypeOK
<1>4. OneGroupAtATime' BY DEF IInv, TypeOK, OneGroupAtATime, Over
<1>5. ParentInv'
  <2> SUFFICES ASSUME NEW x \in holds'[Parent]
               PROVE  \/ phase'[x.pair[1]] \in {"pairs", "fork", "threw"}
                      \/ phase'[x.pair[1]] = "up" /\ x.side = "router"
    BY DEF ParentInv
  <2>1. x \in holds[Parent] /\ x \notin {RouterEnd(p) : p \in PairsOf(g)}
    BY <1>0
  <2>2. x \in Ends /\ x.pair \in Workers /\ x.pair[1] \in Groups
    BY <2>1, <1>0, Names DEF Workers
  <2>3. x.pair[1] # g
    <3> SUFFICES ASSUME x.pair[1] = g PROVE FALSE OBVIOUS
    <3>1. x # RouterEnd(x.pair) BY <2>1, <2>2, Names
    <3>2. x.side = "worker" BY <3>1, <2>2, Names
    <3> QED BY <3>2, <2>1 DEF IInv, ParentInv
  <2> QED BY <2>1, <2>2, <2>3 DEF IInv, TypeOK, ParentInv
<1>6. ChildInv' BY <1>1, <1>0, Names DEF IInv, TypeOK, ChildInv
<1> QED BY <1>3, <1>4, <1>5, <1>6 DEF IInv

\* join_all is called for a group without transports.
LEMMA JoinAllInv ==
    ASSUME IInv, NEW g \in Groups, JoinAll(g) PROVE IInv'
<1> USE DEF JoinAll, ChaosJoined
<1>1. TypeOK' BY SpawnAssumption DEF IInv, TypeOK
<1>2. OneGroupAtATime' BY DEF IInv, TypeOK, OneGroupAtATime, Over
<1>3. ParentInv' BY Names DEF IInv, TypeOK, ParentInv
<1>4. ChildInv' BY Names DEF IInv, TypeOK, ChildInv
<1> QED BY <1>1, <1>2, <1>3, <1>4 DEF IInv

\* A child is reaped once it has ended, so it holds nothing.
LEMMA WaitPidInv ==
    ASSUME IInv, NEW g \in Groups, WaitPid(g) PROVE IInv'
<1> USE DEF WaitPid
<1> DEFINE w == <<g, next[g]>>
<1>0. next[g] \in Shards /\ next[g] + 1 \in 1..(NumShards + 1)
  BY SpawnAssumption DEF IInv, TypeOK, Shards
<1>1. w \in Workers BY <1>0 DEF Workers, Pairs
<1> HIDE DEF w
<1>2. proc[w] = "zombie" /\ proc' = [proc EXCEPT ![w] = "reaped"] BY DEF w
<1>3. TypeOK'
  <2>1. next' \in [Groups -> 1..(NumShards + 1)] BY <1>0 DEF IInv, TypeOK
  <2> QED BY <2>1, <1>1, <1>2 DEF IInv, TypeOK
<1>4. OneGroupAtATime' BY DEF IInv, OneGroupAtATime, Over
<1>5. ParentInv' BY DEF IInv, ParentInv
<1>6. ChildInv' BY <1>1, <1>2 DEF IInv, TypeOK, ChildInv
<1> QED BY <1>3, <1>4, <1>5, <1>6 DEF IInv

\* The group is over, and the parent holds no end of it.
LEMMA JoinedInv ==
    ASSUME IInv, NEW g \in Groups, Joined(g) PROVE IInv'
<1> USE DEF Joined
<1>1. TypeOK' BY DEF IInv, TypeOK
<1>2. OneGroupAtATime' BY DEF IInv, TypeOK, OneGroupAtATime, Over
<1>3. ParentInv' BY Names DEF IInv, TypeOK, ParentInv
<1>4. ChildInv' BY Names DEF IInv, TypeOK, ChildInv
<1> QED BY <1>1, <1>2, <1>3, <1>4 DEF IInv

\* A step that leaves the processes and the parent's progress alone.
LEMMA KillsInv ==
    ASSUME IInv, UNCHANGED <<holds, proc, phase, next>>, kills' \subseteq Workers
    PROVE  IInv'
BY DEF IInv, TypeOK, OneGroupAtATime, ParentInv, ChildInv, Over

\* Every step keeps the invariant.
LEMMA NextInv == ~ Overlap /\ IInv /\ [Next]_vars => IInv'
<1> SUFFICES ASSUME ~ Overlap, IInv, [Next]_vars PROVE IInv' OBVIOUS
<1>0. kills \subseteq Workers BY DEF IInv, TypeOK
<1>1. CASE \E g \in Groups : \/ SpawnWorkers(g) \/ ParentStep(g) \/ SpawnThrows(g)
                              \/ CloseTransports(g) \/ JoinAll(g)
  BY <1>1, SpawnWorkersInv, CreatePairInv, PairsCreatedInv, ForkInv, WrapInv,
     WaitPidInv, JoinedInv, SpawnThrowsInv, CloseTransportsInv, JoinAllInv
     DEF ParentStep
<1>2. CASE \E w \in Workers : WorkerStep(w) \/ WorkerThrows(w)
  BY <1>0, <1>2, ChildClosesInv, ExitInv DEF WorkerStep, WorkerReturns, WorkerThrows
<1>3. CASE \E w \in Workers : ScheduleKill(w)
  BY <1>0, <1>3, KillsInv DEF ScheduleKill
<1>4. CASE \E w \in Workers : Kill(w)
  BY <1>0, <1>4, ExitInv, KillsInv DEF Kill
<1>5. CASE UNCHANGED vars BY <1>0, <1>5, KillsInv DEF vars
<1> QED BY <1>1, <1>2, <1>3, <1>4, <1>5 DEF Next

\* The inductive invariant holds throughout.
THEOREM InvariantHolds == ~ Overlap => (Spec => []IInv)
<1> SUFFICES ASSUME ~ Overlap PROVE Spec => []IInv OBVIOUS
<1>1. IInv /\ [Next]_vars => IInv' BY NextInv
<1> QED BY <1>1, InitInv, PTL DEF Spec

\* Everything keeps its type, and only a living process holds anything.
THEOREM TypeCorrect == ~ Overlap => (Spec => []TypeOK)
<1>1. IInv => TypeOK BY DEF IInv
<1> QED BY <1>1, InvariantHolds, PTL

\* "Having each child close every fd except its own one, avoids the whole
\* problem": for any number of shards and calls, with calls that fail half way
\* in between, nobody but the parent keeps a router's end of a group that
\* spawn_workers returned, and nobody but a worker its own end.
THEOREM NoInheritedEnds == ~ Overlap => (Spec => []NoForeignDescriptor)
<1>1. ASSUME IInv PROVE NoForeignDescriptor
  <2> SUFFICES ASSUME NEW g \in Groups,
                      phase[g] \in {"up", "closed", "join", "joined"},
                      NEW pair \in PairsOf(g), NEW p \in Processes,
                      p = Parent \/ proc[p] = "running"
               PROVE  /\ RouterEnd(pair) \in holds[p] => p = Parent /\ phase[g] = "up"
                      /\ WorkerEnd(pair) \in holds[p] => p = pair
    BY DEF NoForeignDescriptor
  <2>1. pair[1] = g /\ pair \in Workers BY Names
  <2>2. CASE p = Parent
    BY <1>1, <2>1, <2>2, Names DEF IInv, ParentInv
  <2>3. CASE p # Parent
    <3>1. p \in Workers /\ proc[p] = "running" BY <2>3 DEF Processes
    <3>2. ASSUME NEW x \in holds[p], x.pair = pair
          PROVE  x = WorkerEnd(p) /\ p = pair
      BY <1>1, <2>1, <3>1, <3>2, Names DEF IInv, ChildInv
    <3> QED BY <3>2, Names
  <2> QED BY <2>2, <2>3
<1> QED BY <1>1, InvariantHolds, PTL
=============================================================================
