---------------------------- MODULE ProcessSpawn ----------------------------
(***************************************************************************)
(* The worker processes of src/src/orchestration/process_spawn.hpp and the  *)
(* kills of chaos.hpp: which process holds which end of which socket over   *)
(* fork, failing calls, closing, SIGKILL and join_all.  A process sees end  *)
(* of file on its end of a pair once nobody holds the other end.            *)
(*                                                                         *)
(* Group g is the g-th call of spawn_workers; worker <<g, i>> is the child  *)
(* forked for the i-th shard id and pair <<g, i>> the socketpair made for   *)
(* it.  What the workers send and receive is in Router and Framing.         *)
(***************************************************************************)
EXTENDS Integers, FiniteSets

CONSTANTS NumShards,   \* shard ids per call
          MaxGroups,   \* bound: calls of spawn_workers
          Overlap      \* whether a call may come before the last group is joined

ASSUME SpawnAssumption ==
    /\ NumShards \in Nat \ {0} /\ MaxGroups \in Nat
    /\ Overlap \in BOOLEAN

Groups == 1..MaxGroups
Shards == 1..NumShards
Pairs == Groups \X Shards
Workers == Pairs
Parent == <<0, 0>>
Processes == Workers \cup {Parent}

RouterEnd(pair) == [pair |-> pair, side |-> "router"]
WorkerEnd(pair) == [pair |-> pair, side |-> "worker"]
Ends == [pair : Pairs, side : {"router", "worker"}]

VARIABLES holds,   \* per process: the ends it has open
          proc,    \* per worker: none, forked, running, zombie, reaped
          phase,   \* per group: where the parent is with it
          next,    \* per group: the shard its current loop is at
          kills    \* ChaosScript: workers a pending thread will kill

vars == <<holds, proc, phase, next, kills>>

Init ==
    /\ holds = [p \in Processes |-> {}]
    /\ proc = [w \in Workers |-> "none"]
    /\ phase = [g \in Groups |-> "none"]
    /\ next = [g \in Groups |-> 1]
    /\ kills = {}

-----------------------------------------------------------------------------
(* spawn_workers *)

Over(g) == phase[g] \in {"joined", "threw"}

\* The caller's single thread is not inside spawn_workers or join_all.
Free == \A g \in Groups : phase[g] \notin {"pairs", "fork", "join"}

SpawnWorkers(g) ==
    /\ Free /\ phase[g] = "none"
    /\ \A h \in 1..(g - 1) : Over(h) \/ (Overlap /\ phase[h] # "none")
    /\ phase' = [phase EXCEPT ![g] = "pairs"]
    /\ UNCHANGED <<holds, proc, next, kills>>

\* Phase 1: one iteration of the loop of socketpair() calls.
CreatePair(g) ==
    /\ phase[g] = "pairs" /\ next[g] <= NumShards
    /\ LET pair == <<g, next[g]>>
       IN  holds' = [holds EXCEPT ![Parent] = @ \cup {RouterEnd(pair), WorkerEnd(pair)}]
    /\ next' = [next EXCEPT ![g] = @ + 1]
    /\ UNCHANGED <<proc, phase, kills>>

PairsCreated(g) ==
    /\ phase[g] = "pairs" /\ next[g] > NumShards
    /\ phase' = [phase EXCEPT ![g] = "fork"]
    /\ next' = [next EXCEPT ![g] = 1]
    /\ UNCHANGED <<holds, proc, kills>>

\* Phase 2: the child starts with every end the parent has open; the parent
\* records its pid.
Fork(g) ==
    /\ phase[g] = "fork" /\ next[g] <= NumShards
    /\ LET w == <<g, next[g]>>
       IN  /\ holds' = [holds EXCEPT ![w] = holds[Parent]]
           /\ proc' = [proc EXCEPT ![w] = "forked"]
    /\ next' = [next EXCEPT ![g] = @ + 1]
    /\ UNCHANGED <<phase, kills>>

\* socketpair() or fork() fails: the ends made so far stay open in the parent,
\* the children forked so far stay, and nobody has their pids.
SpawnThrows(g) ==
    /\ phase[g] \in {"pairs", "fork"} /\ next[g] <= NumShards
    /\ phase' = [phase EXCEPT ![g] = "threw"]
    /\ UNCHANGED <<holds, proc, next, kills>>

PairsOf(g) == {g} \X Shards

\* Mutant of Wrap: the parent keeps the worker ends.
WrapOnly(g) ==
    /\ phase[g] = "fork" /\ next[g] > NumShards
    /\ phase' = [phase EXCEPT ![g] = "up"]
    /\ UNCHANGED <<holds, proc, next, kills>>

\* Phase 3: the parent closes the worker ends, wraps its own and returns.
Wrap(g) ==
    /\ phase[g] = "fork" /\ next[g] > NumShards
    /\ holds' = [holds EXCEPT ![Parent] = @ \ {WorkerEnd(p) : p \in PairsOf(g)}]
    /\ phase' = [phase EXCEPT ![g] = "up"]
    /\ UNCHANGED <<proc, next, kills>>

-----------------------------------------------------------------------------
(* A child *)

\* Mutants of ChildCloses: only its own pair is cleaned up; the router's end
\* of its own pair is forgotten.
ChildClosesOwn(w) ==
    /\ proc[w] = "forked"
    /\ holds' = [holds EXCEPT ![w] = @ \ {RouterEnd(w)}]
    /\ proc' = [proc EXCEPT ![w] = "running"]
    /\ UNCHANGED <<phase, next, kills>>
ChildClosesOthers(w) ==
    /\ proc[w] = "forked"
    /\ holds' = [holds EXCEPT ![w] = {e \in @ : e.pair = w \/ e.pair[1] # w[1]}]
    /\ proc' = [proc EXCEPT ![w] = "running"]
    /\ UNCHANGED <<phase, next, kills>>

\* It closes both ends of every pair of its group but its own worker end.
ChildCloses(w) ==
    /\ proc[w] = "forked"
    /\ holds' = [holds EXCEPT ![w] =
                    {e \in @ : e = WorkerEnd(w) \/ e.pair \notin PairsOf(w[1])}]
    /\ proc' = [proc EXCEPT ![w] = "running"]
    /\ UNCHANGED <<phase, next, kills>>

\* The process ends and the system closes what it has open.
Exit(w) ==
    /\ holds' = [holds EXCEPT ![w] = {}]
    /\ proc' = [proc EXCEPT ![w] = "zombie"]
    /\ UNCHANGED <<phase, next>>

AtEof(w) == \A p \in Processes : RouterEnd(w) \notin holds[p]

\* worker_fn sees the end of file, returns, and _exit(rc) follows.
WorkerReturns(w) ==
    /\ proc[w] = "running" /\ AtEof(w)
    /\ Exit(w)
    /\ UNCHANGED kills

\* worker_fn gives up by itself or throws: rc is 1.
WorkerThrows(w) ==
    /\ proc[w] = "running"
    /\ Exit(w)
    /\ UNCHANGED kills

-----------------------------------------------------------------------------
(* The caller of a group that spawn_workers returned *)

\* The transports are destroyed.
CloseTransports(g) ==
    /\ Free /\ phase[g] = "up"
    /\ holds' = [holds EXCEPT ![Parent] = @ \ {RouterEnd(p) : p \in PairsOf(g)}]
    /\ phase' = [phase EXCEPT ![g] = "closed"]
    /\ UNCHANGED <<proc, next, kills>>

\* schedule_kill finds the shard's pid and starts a thread.
ScheduleKill(w) ==
    /\ Free /\ phase[w[1]] \in {"up", "closed"}
    /\ kills' = kills \cup {w}
    /\ UNCHANGED <<holds, proc, phase, next>>

\* The thread wakes up and sends SIGKILL, which a zombie ignores.
Kill(w) ==
    /\ w \in kills
    /\ kills' = kills \ {w}
    /\ IF proc[w] \in {"forked", "running"} THEN Exit(w)
                                            ELSE UNCHANGED <<holds, proc, phase, next>>

\* ChaosScript's join_all (or its destructor) returns.
ChaosJoined(g) == phase[g] = "closed" /\ kills \cap PairsOf(g) = {}

\* The caller's order: transports, ChaosScript, then SpawnedWorkers::join_all.
JoinAll(g) ==
    /\ Free /\ ChaosJoined(g)
    /\ phase' = [phase EXCEPT ![g] = "join"]
    /\ next' = [next EXCEPT ![g] = 1]
    /\ UNCHANGED <<holds, proc, kills>>

\* waitpid returns for one child after the other, in the order of child_pids.
WaitPid(g) ==
    /\ phase[g] = "join" /\ next[g] <= NumShards
    /\ proc[<<g, next[g]>>] = "zombie"
    /\ proc' = [proc EXCEPT ![<<g, next[g]>>] = "reaped"]
    /\ next' = [next EXCEPT ![g] = @ + 1]
    /\ UNCHANGED <<holds, phase, kills>>

Joined(g) ==
    /\ phase[g] = "join" /\ next[g] > NumShards
    /\ phase' = [phase EXCEPT ![g] = "joined"]
    /\ UNCHANGED <<holds, proc, next, kills>>

-----------------------------------------------------------------------------
\* What runs by itself once called or forked.
ParentStep(g) ==
    CreatePair(g) \/ PairsCreated(g) \/ Fork(g) \/ Wrap(g) \/ WaitPid(g) \/ Joined(g)
WorkerStep(w) == ChildCloses(w) \/ WorkerReturns(w)

Next ==
    \/ \E g \in Groups : \/ SpawnWorkers(g) \/ ParentStep(g) \/ SpawnThrows(g)
                         \/ CloseTransports(g) \/ JoinAll(g)
    \/ \E w \in Workers : \/ WorkerStep(w) \/ WorkerThrows(w)
                          \/ ScheduleKill(w) \/ Kill(w)

Spec == Init /\ [][Next]_vars

\* Processes are scheduled.  Nobody has to call, kill or fail.
FairSpec ==
    /\ Spec
    /\ \A g \in Groups : WF_vars(ParentStep(g))
    /\ \A w \in Workers : WF_vars(WorkerStep(w))

-----------------------------------------------------------------------------
(* Properties *)

\* Type invariant; only a living process holds anything.
TypeOK ==
    /\ holds \in [Processes -> SUBSET Ends]
    /\ proc \in [Workers -> {"none", "forked", "running", "zombie", "reaped"}]
    /\ phase \in [Groups -> {"none", "pairs", "fork", "up", "closed", "join",
                             "joined", "threw"}]
    /\ next \in [Groups -> 1..(NumShards + 1)]
    /\ kills \subseteq Workers
    /\ \A w \in Workers : proc[w] \in {"none", "zombie", "reaped"} => holds[w] = {}

\* "Having each child close every fd except its own one, avoids the whole
\* problem": of a group that spawn_workers returned, the router's ends are open
\* in the parent only and each worker's end in that worker only, whatever died
\* in between; a child that has not got around to closing is the exception.
NoForeignDescriptor ==
    \A g \in Groups : phase[g] \in {"up", "closed", "join", "joined"} =>
        \A pair \in PairsOf(g), p \in Processes :
            p = Parent \/ proc[p] = "running" =>
                /\ RouterEnd(pair) \in holds[p] => p = Parent /\ phase[g] = "up"
                /\ WorkerEnd(pair) \in holds[p] => p = pair

\* "Waits for every child to exit": closing the transports ends the workers, so
\* join_all returns, also if an earlier spawn_workers threw half way.
JoinReturns == \A g \in Groups : phase[g] = "join" ~> phase[g] = "joined"

\* A worker that dies, of whatever, gives the router an end of file on its
\* socket, so that a receive from it ends.
DeathSeen ==
    \A w \in Workers :
        (proc[w] = "zombie" /\ phase[w[1]] = "up")
            ~> (\A p \in Processes : WorkerEnd(w) \notin holds[p])

-----------------------------------------------------------------------------
(* The inductive invariant behind the theorems of ProcessSpawnProofs; it needs *)
(* that no call comes before the last group is joined.                         *)

OneGroupAtATime ==
    \A g, h \in Groups : h < g /\ phase[g] # "none" => Over(h)

\* Of a group that was not begun, or whose transports are destroyed, the parent
\* holds no end, of one that is up no worker's end.
ParentInv ==
    \A x \in holds[Parent] :
        \/ phase[x.pair[1]] \in {"pairs", "fork", "threw"}
        \/ phase[x.pair[1]] = "up" /\ x.side = "router"

\* What a child got of other groups is what a failed call left behind; of its
\* own group it keeps its own end.
ChildInv ==
    \A w \in Workers : \A x \in holds[w] :
        IF x.pair[1] = w[1] THEN proc[w] = "running" => x = WorkerEnd(w)
                            ELSE phase[x.pair[1]] = "threw"

IInv == TypeOK /\ OneGroupAtATime /\ ParentInv /\ ChildInv
=============================================================================
