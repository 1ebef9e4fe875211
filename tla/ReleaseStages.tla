----------------------------- MODULE ReleaseStages -----------------------------
(***************************************************************************)
(* The stage scheduler of the release verification                         *)
(* (scripts/_release_stages.py): run_stages executes a graph of stages on   *)
(* threads that share worker permits and named resources.  A stage may run  *)
(* a graph of its own; it lends its permit to it meanwhile.                *)
(*                                                                         *)
(* A stage is a script of operations, and an operation a record: what it    *)
(* reads, makes, drops, holds and leaves, whether it needs the network, and *)
(* whether it is a run of stages.  A run is named by the stage it belongs   *)
(* to, the outer one is Outer.  With one job run_stages takes the stages in *)
(* the order of the graph, which is what taking the first ready one gives.  *)
(***************************************************************************)
EXTENDS Integers, Sequences, FiniteSets

CONSTANTS
    GraphOrder,   \* every stage, those of one run in the order of its list
    GraphDeps,    \* of each stage: the stages it waits for
    GraphRun,     \* of each stage: the run it belongs to
    GraphScript,  \* of each stage: its operations
    GraphRank,    \* of each stage: its place in topological_order
    Outer,        \* the run that belongs to no stage
    JobChoices,   \* numbers of jobs
    MaxFailures   \* bound: operations that fail

(* The graph is one value all along.                                        *)
Order == GraphOrder
Deps == GraphDeps
RunOf == GraphRun
Script == GraphScript
Rank == GraphRank

Stages == {Order[i] : i \in DOMAIN Order}
Runs == {RunOf[s] : s \in Stages}
Position == [s \in Stages |-> CHOOSE i \in DOMAIN Order : Order[i] = s]

(* What _validate_graph accepts, and a run comes after the stage it belongs *)
(* to: neither the dependencies nor the nesting have a cycle.              *)
Follows(s, t) == t \in Stages /\ Rank[t] \in Nat /\ Rank[t] < Rank[s]
ValidGraph ==
    /\ \A i, j \in DOMAIN Order : Order[i] = Order[j] => i = j
    /\ \A s \in Stages : /\ Rank[s] \in Nat
                         /\ RunOf[s] # Outer => Follows(s, RunOf[s])
                         /\ \A d \in Deps[s] : RunOf[d] = RunOf[s] /\ Follows(s, d)
ASSUME GraphIsValid == ValidGraph
ASSUME OrderIsFinite == Len(Order) \in Nat /\ DOMAIN Order = 1..Len(Order)
ASSUME NoStageIsCalled == Outer \notin Stages /\ "free" \notin Stages

ASSUME JobsArePositive == JobChoices \subseteq Nat \ {0} /\ MaxFailures \in Nat
(* A stage still works on what its own run returned, and does not run it    *)
(* under resource("network").                                              *)
ASSUME RunIsNotLast ==
    \A s \in Stages : /\ Len(Script[s]) \in Nat \ {0}
                     /\ Script[s][Len(Script[s])].stages = FALSE
                     /\ \A i \in 1..Len(Script[s]) :
                           ~(Script[s][i].stages /\ Script[s][i].network)

VARIABLES
    jobs,       \* what run_stages is given
    outer,      \* the outer run: "idle", "on" or "over"
    stage,      \* of each stage: where its thread is, and its operation
    permits,    \* the value of _WORKER_PERMITS
    network,    \* the stage that holds resource("network"), or "free"
    made        \* what exists: <<place, part>>

schedule == <<jobs, outer, stage, permits, network, made>>

InitStages ==
    /\ jobs \in JobChoices /\ outer = "idle" /\ permits = 0 /\ network = "free"
    /\ stage = [s \in Stages |-> [at |-> "waiting", step |-> 0]]

Doing(s) == Script[s][stage[s].step]
InRun(r) == {s \in Stages : RunOf[s] = r}
At(S) == {s \in Stages : stage[s].at \in S}
Busy == At({"queued", "working", "networking", "lending"})
InFlight(r) == InRun(r) \cap Busy
Failed(r) == InRun(r) \cap At({"failed"})
Ready(r) == {s \in InRun(r) \cap At({"waiting"}) : Deps[s] \subseteq At({"collected"})}
IsOn(r) == IF r = Outer THEN outer = "on" ELSE stage[r].at = "lending"

(* The coordinator leaves only when nothing of its run is in flight: work   *)
(* that was submitted is drained after a failure.                          *)
LeavesAtOnce(r) == Ready(r) = {} \/ Failed(r) # {}             \* a defect of RunOver
RunOver(r) == InFlight(r) = {} /\ (Ready(r) = {} \/ Failed(r) # {})

Goes(s, where, step) == stage' = [stage EXCEPT ![s] = [at |-> where, step |-> step]]
Enters(s, step) ==
    Goes(s, IF Script[s][step].network THEN "networking" ELSE "working", step)

RunStages ==
    /\ outer = "idle" /\ outer' = "on" /\ permits' = jobs
    /\ UNCHANGED <<jobs, stage, network, made>>

RunEnds ==
    /\ outer = "on" /\ RunOver(Outer) /\ outer' = "over"
    /\ UNCHANGED <<jobs, stage, permits, network, made>>

(* The coordinator of a run collects what has ended before it submits: a    *)
(* late collection is a late Submit.                                       *)
Submit(s) ==
    LET r == RunOf[s]
    IN /\ stage[s].at = "waiting" /\ IsOn(r) /\ s \in Ready(r) /\ Failed(r) = {}
       /\ Cardinality(InFlight(r)) < jobs
       /\ \A t \in Ready(r) : Position[s] <= Position[t]
       /\ Goes(s, "queued", 0) /\ UNCHANGED <<jobs, outer, permits, network, made>>

(* The thread of a stage                                                   *)
Start(s) ==
    /\ stage[s].at = "queued" /\ permits > 0
    /\ permits' = permits - 1 /\ Enters(s, 1)
    /\ UNCHANGED <<jobs, outer, network, made>>

MayEnter(s) == stage[s].at = "networking" /\ network = "free"
Acquire(s) ==
    /\ MayEnter(s) /\ network' = s
    /\ Goes(s, "working", stage[s].step) /\ UNCHANGED <<jobs, outer, permits, made>>

Releases(s) == network' = IF network = s THEN "free" ELSE network
Completes(s) ==
    /\ stage[s].at = "working" /\ ~Doing(s).stages /\ Releases(s)
    /\ made' = (made \ Doing(s).drops) \cup Doing(s).makes \cup Doing(s).leaves
    /\ UNCHANGED <<jobs, outer>>

Proceed(s) ==
    /\ Completes(s) /\ stage[s].step < Len(Script[s])
    /\ Enters(s, stage[s].step + 1) /\ UNCHANGED permits

Finish(s) ==
    /\ Completes(s) /\ stage[s].step = Len(Script[s])
    /\ permits' = permits + 1 /\ Goes(s, "collected", 0)

(* An operation that fails may leave its work; what it cleans up in a       *)
(* finally clause stays if the cleanup fails as well.                      *)
Fail(s) ==
    /\ stage[s].at = "working" /\ ~Doing(s).stages
    /\ Cardinality(At({"failed"})) < MaxFailures
    /\ permits' = permits + 1 /\ Goes(s, "failed", 0) /\ Releases(s)
    /\ made' \in {made, made \ Doing(s).cleans}
    /\ UNCHANGED <<jobs, outer>>

(* A nested run borrows the permit of its stage, which must get one back    *)
(* before it goes on, or fails.                                            *)
KeepsIt == permits                                              \* a defect of Lent
Lent == permits + 1
Lend(s) ==
    /\ stage[s].at = "working" /\ Doing(s).stages
    /\ permits' = Lent /\ Goes(s, "lending", stage[s].step)
    /\ UNCHANGED <<jobs, outer, network, made>>

Resume(s) ==
    /\ stage[s].at = "lending" /\ RunOver(s) /\ permits > 0 /\ Failed(s) = {}
    /\ permits' = permits - 1 /\ Enters(s, stage[s].step + 1)
    /\ UNCHANGED <<jobs, outer, network, made>>

(* It takes the permit back, and returns it with the failure.              *)
RunFails(s) ==
    /\ stage[s].at = "lending" /\ RunOver(s) /\ permits > 0 /\ Failed(s) # {}
    /\ Goes(s, "failed", 0) /\ UNCHANGED <<jobs, outer, permits, network, made>>

Thread(s) ==
    \/ Start(s) \/ Acquire(s) \/ Proceed(s) \/ Finish(s) \/ Fail(s)
    \/ Lend(s) \/ Resume(s) \/ RunFails(s)

NextStages == RunStages \/ RunEnds \/ \E s \in Stages : Submit(s) \/ Thread(s)

----------------------------------------------------------------------------
Holders == At({"working", "networking"})

(* Every permit is free or with a thread that works, the network is with a  *)
(* thread that works on it, and a run is as wide as its jobs.               *)
PermitsAccounted ==
    /\ outer # "idle" => permits = jobs - Cardinality(Holders) /\ permits \in 0..jobs
    /\ network # "free" => network \in At({"working"}) /\ Doing(network).network
    /\ \A s \in At({"working"}) : Doing(s).network => network = s
    /\ \A r \in Runs : Cardinality(InFlight(r)) <= jobs

(* While a run is on, some thread or coordinator can go on: a stage that     *)
(* waits for its own run does not keep the permit that the run needs.        *)
SomeoneGoesOn ==
    outer = "on" =>
        \/ At({"working"}) # {}
        \/ \E s \in At({"networking"}) : network = "free"
        \/ permits > 0 /\ \E s \in At({"queued", "lending"}) : s \in At({"queued"}) \/ RunOver(s)
        \/ \E r \in Runs : IsOn(r) /\ Failed(r) = {} /\ Ready(r) # {}
                             /\ Cardinality(InFlight(r)) < jobs
        \/ RunOver(Outer)

(* The permits are accounted for, and suffice for every run.               *)
PermitsAreSound == PermitsAccounted /\ SomeoneGoesOn

(* A run that returned has left no thread behind it: what it worked in is   *)
(* about to be removed.                                                    *)
Drained ==
    \A s \in Busy : IsOn(RunOf[s])
=============================================================================
