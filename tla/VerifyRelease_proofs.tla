------------------------ MODULE VerifyRelease_proofs ------------------------
(***************************************************************************)
(* For any graph of stages that _validate_graph accepts, nested to any      *)
(* depth, any scripts, any number of jobs and of failures: the permits of   *)
(* the scheduler are accounted for and suffice, a run that returned has     *)
(* left no thread behind, and what verify_release promotes was verified as  *)
(* it is committed, however often the repository is edited or another       *)
(* commit checked out.                                                      *)
(*                                                                         *)
(* The permits are counted by the threads that hold one, the network by its *)
(* one owner.  That somebody can always go on is shown from the innermost   *)
(* of the stages that wait for a run of their own; that nobody is left, and *)
(* that everything was collected, from the first stage, in the order of     *)
(* the graph, of which it would not be true.                                *)
(***************************************************************************)
EXTENDS VerifyRelease, FiniteSetTheorems, WellFoundedInduction, TLAPS

----------------------------------------------------------------------------
(* Where the threads and the runs are.                                     *)
Ats == {"waiting", "queued", "working", "networking", "lending", "collected", "failed"}
Threads == [at : Ats, step : Nat]
ScheduleTypes ==
    /\ jobs \in JobChoices /\ outer \in {"idle", "on", "over"} /\ permits \in Int
    /\ stage \in [Stages -> Threads]
InScripts ==
    \A s \in Stages :
        /\ stage[s].at \in {"working", "networking", "lending"} => stage[s].step \in 1..Len(Script[s])
        /\ stage[s].at = "networking" => Doing(s).network
        /\ stage[s].at = "lending" => Doing(s).stages
OuterRun ==
    /\ outer = "idle" => \A s \in Stages : stage[s].at = "waiting"
    /\ outer = "over" => RunOver(Outer)
RunsInv == ScheduleTypes /\ InScripts /\ PermitsAccounted /\ Drained /\ OuterRun

----------------------------------------------------------------------------
(* Numbers and finite sets                                                 *)
LEMMA Least ==
    ASSUME NEW S \in SUBSET Nat, NEW x \in S
    PROVE  \E m \in S : \A n \in S : m <= n
<1> DEFINE R == OpToRel(<, Nat)
<1>1. IsWellFoundedOn(R, Nat)
    BY NatLessThanWellFounded
<1>2. \A a, b \in Nat : a < b => <<a, b>> \in R
    BY ZenonT(20) DEF OpToRel
<1> HIDE DEF R
<1>3. PICK m \in S : \A y \in S : ~(<<y, m>> \in R)
    BY <1>1, WFMin
<1>4. ASSUME NEW n \in S PROVE m <= n
  <2>1. m \in Nat /\ n \in Nat
    OBVIOUS
  <2>2. ~(n < m)
    BY <1>2, <1>3, <2>1, Zenon
  <2>3. QED
    BY <2>1, <2>2
<1>5. QED
    BY <1>4

(* Of some stages, one comes first in topological_order.                   *)
LEMMA FirstOfSome ==
    ASSUME NEW S \in SUBSET Stages, NEW x \in S
    PROVE  \E s \in S : \A t \in S : Rank[s] <= Rank[t]
<1> DEFINE ranks == {Rank[s] : s \in S}
<1>1. ranks \in SUBSET Nat /\ Rank[x] \in ranks
    BY GraphIsValid DEF ValidGraph
<1>2. PICK m \in ranks : \A n \in ranks : m <= n
    BY <1>1, Least
<1>3. QED
    BY <1>2

LEMMA StagesAreFinite == IsFiniteSet(Stages)
<1>1. IsFiniteSet(DOMAIN Order)
    BY OrderIsFinite, FS_Interval
<1> DEFINE f == [i \in DOMAIN Order |-> Order[i]]
<1>2. f \in Surjection(DOMAIN Order, Stages)
    BY DEF Stages, Surjection
<1>3. QED
    BY <1>1, <1>2, FS_Surjection

LEMMA Sets ==
    ASSUME NEW S
    PROVE  At(S) \subseteq Stages /\ IsFiniteSet(At(S)) /\ Cardinality(At(S)) \in Nat
BY StagesAreFinite, FS_Subset, FS_CardinalityType DEF At

LEMMA FlightsAreFinite ==
    ASSUME NEW r
    PROVE  IsFiniteSet(InFlight(r)) /\ Cardinality(InFlight(r)) \in Nat
BY Sets, FS_Subset, FS_CardinalityType DEF InFlight, Busy

LEMMA Graph ==
    ASSUME NEW s \in Stages
    PROVE  /\ Rank[s] \in Nat /\ RunOf[s] # s
           /\ RunOf[s] # Outer => /\ RunOf[s] \in Stages /\ Rank[RunOf[s]] \in Nat
                                  /\ Rank[RunOf[s]] < Rank[s]
           /\ \A d \in Deps[s] : /\ d \in Stages /\ RunOf[d] = RunOf[s]
                                 /\ Rank[d] \in Nat /\ Rank[d] < Rank[s]
           /\ Len(Script[s]) \in Nat \ {0} /\ Script[s][Len(Script[s])].stages = FALSE
           /\ \A i \in 1..Len(Script[s]) : ~(Script[s][i].stages /\ Script[s][i].network)
           /\ Outer \notin Stages /\ RunOf[s] \in Runs
BY GraphIsValid, RunIsNotLast, NoStageIsCalled DEF ValidGraph, Follows, Runs

----------------------------------------------------------------------------
(* One thread moves                                                        *)
LEMMA Moved ==
    ASSUME ScheduleTypes, NEW s \in Stages, NEW where \in Ats, NEW step \in Nat,
           Goes(s, where, step)
    PROVE  /\ stage' \in [Stages -> Threads] /\ stage'[s] = [at |-> where, step |-> step]
           /\ \A t \in Stages \ {s} : stage'[t] = stage[t]
           /\ \A S : At(S)' = IF where \in S THEN At(S) \cup {s} ELSE At(S) \ {s}
<1>1. stage' = [stage EXCEPT ![s] = [at |-> where, step |-> step]]
    BY DEF Goes
<1>2. /\ stage' \in [Stages -> Threads] /\ stage'[s] = [at |-> where, step |-> step]
      /\ \A t \in Stages \ {s} : stage'[t] = stage[t]
    BY <1>1 DEF ScheduleTypes, Threads
<1>3. \A S : At(S)' = IF where \in S THEN At(S) \cup {s} ELSE At(S) \ {s}
    BY <1>2 DEF At
<1>4. QED
    BY <1>2, <1>3

BusyAts == {"queued", "working", "networking", "lending"}

(* The outer run that is over does not see what the stages of others do.   *)
LEMMA OuterRests ==
    ASSUME RunsInv, outer = "over", NEW s \in Stages, RunOf[s] # Outer,
           \A t \in Stages \ {s} : stage'[t] = stage[t]
    PROVE  RunOver(Outer)'
<1>1. \A t \in InRun(Outer) : t \in Stages /\ stage'[t] = stage[t] /\ \A d \in Deps[t] : d \in InRun(Outer)
    BY Graph DEF InRun
<1>2. Failed(Outer)' = Failed(Outer) /\ InFlight(Outer)' = InFlight(Outer)
    BY <1>1 DEF Failed, InFlight, Busy, At, InRun
<1>3. Ready(Outer)' = Ready(Outer)
  <2>1. ASSUME NEW t \in InRun(Outer)
        PROVE  (Deps[t] \subseteq At({"collected"}))' <=> Deps[t] \subseteq At({"collected"})
    <3>1. \A d \in Deps[t] : d \in Stages /\ stage'[d] = stage[d]
      BY <1>1
    <3>2. QED
      BY <3>1 DEF At
  <2>2. ASSUME NEW t \in InRun(Outer)
        PROVE  t \in At({"waiting"})' <=> t \in At({"waiting"})
    BY <1>1 DEF At
  <2>3. InRun(Outer)' = InRun(Outer)
    BY DEF InRun
  <2>4. QED
    BY <2>1, <2>2, <2>3 DEF Ready
<1>4. QED
    BY <1>2, <1>3 DEF RunsInv, OuterRun, RunOver

(* A thread that is at work, or waits for it, moves on or ends: runs get   *)
(* no wider, and only its own run can be over by it.                       *)
LEMMA OneThread ==
    ASSUME RunsInv, NEW s \in Stages, NEW where \in Ats \ {"waiting"}, NEW step \in Nat,
           Goes(s, where, step), stage[s].at \in BusyAts, UNCHANGED <<jobs, outer>>,
           stage[s].at = "lending" => where = "lending" \/ InFlight(s) = {}
    PROVE  /\ \A r \in Runs : Cardinality(InFlight(r)') <= jobs
           /\ Drained' /\ OuterRun'
<1>1. /\ stage' \in [Stages -> Threads] /\ stage'[s] = [at |-> where, step |-> step]
      /\ \A t \in Stages \ {s} : stage'[t] = stage[t]
      /\ \A S : At(S)' = IF where \in S THEN At(S) \cup {s} ELSE At(S) \ {s}
    BY Moved DEF RunsInv
<1>2. Busy' \subseteq Busy /\ s \in Busy
    BY <1>1 DEF Busy, BusyAts, At
<1>3. \A r : InFlight(r)' \subseteq InFlight(r)
    BY <1>2 DEF InFlight, InRun
<1>4. ASSUME NEW r \in Runs PROVE Cardinality(InFlight(r)') <= jobs
  <2>1. IsFiniteSet(InFlight(r)) /\ Cardinality(InFlight(r)) \in Nat
    BY FlightsAreFinite
  <2>2. Cardinality(InFlight(r)') \in Nat /\ Cardinality(InFlight(r)') <= Cardinality(InFlight(r))
    BY <1>3, <2>1, FS_Subset, FS_CardinalityType
  <2>3. Cardinality(InFlight(r)) <= jobs /\ jobs \in Nat
    BY JobsArePositive DEF RunsInv, PermitsAccounted, ScheduleTypes
  <2>4. QED
    BY <2>1, <2>2, <2>3
<1>5. \A t \in Busy : t \in Stages /\ IsOn(RunOf[t])
    BY DEF RunsInv, Drained, Busy, At
<1>6. Drained'
  <2>1. SUFFICES ASSUME NEW t \in Busy' PROVE IsOn(RunOf[t])'
    BY DEF Drained
  <2>2. t \in Busy /\ t \in Stages /\ IsOn(RunOf[t])
    BY <1>2, <1>5, <2>1
  <2>3. CASE RunOf[t] = Outer
    BY <2>2, <2>3 DEF IsOn
  <2>4. CASE RunOf[t] # Outer
    <3>1. RunOf[t] \in Stages /\ stage[RunOf[t]].at = "lending"
      BY <2>2, <2>4, Graph DEF IsOn
    <3>2. RunOf[t] = s => where = "lending"
      <4>1. SUFFICES ASSUME RunOf[t] = s PROVE where = "lending"
        OBVIOUS
      <4>2. t \in InFlight(s)
        BY <2>2, <4>1 DEF InFlight, InRun
      <4>3. QED
        BY <3>1, <4>1, <4>2
    <3>3. stage'[RunOf[t]].at = "lending"
      BY <1>1, <3>1, <3>2
    <3>4. QED
      BY <2>4, <3>3 DEF IsOn
  <2>5. QED
    BY <2>3, <2>4
<1>7. OuterRun'
  <2>1. outer # "idle"
    BY DEF RunsInv, OuterRun, BusyAts
  <2>2. CASE outer = "over"
    <3>1. RunOf[s] # Outer
      <4>1. InFlight(Outer) = {}
        BY <2>2 DEF RunsInv, OuterRun, RunOver
      <4>2. QED
        BY <1>2, <4>1 DEF InFlight, InRun
    <3>2. RunOver(Outer)'
      BY <1>1, <2>2, <3>1, OuterRests
    <3>3. QED
      BY <2>1, <3>2 DEF OuterRun
  <2>3. QED
    BY <2>1, <2>2 DEF OuterRun
<1>8. QED
    BY <1>4, <1>6, <1>7

----------------------------------------------------------------------------
(* The permits and the network                                             *)
PermitCount == outer # "idle" => permits = jobs - Cardinality(Holders) /\ permits \in 0..jobs
NetworkOwned ==
    /\ network # "free" => network \in At({"working"}) /\ Doing(network).network
    /\ \A s \in At({"working"}) : Doing(s).network => network = s

LEMMA PermitIsTaken ==
    ASSUME RunsInv, NEW s \in Stages \ Holders, Holders' = Holders \cup {s},
           permits > 0, permits' = permits - 1, UNCHANGED <<jobs, outer>>
    PROVE  PermitCount'
<1>1. IsFiniteSet(Holders) /\ Cardinality(Holders) \in Nat /\ jobs \in Nat
    BY Sets, JobsArePositive DEF Holders, RunsInv, ScheduleTypes
<1>2. Cardinality(Holders \cup {s}) = Cardinality(Holders) + 1
    BY <1>1, FS_AddElement
<1>3. QED
    BY <1>1, <1>2 DEF RunsInv, PermitsAccounted, PermitCount

LEMMA PermitIsReturned ==
    ASSUME RunsInv, NEW s \in Holders, Holders' = Holders \ {s},
           permits' = permits + 1, UNCHANGED <<jobs, outer>>
    PROVE  PermitCount'
<1>1. IsFiniteSet(Holders) /\ Cardinality(Holders) \in Nat /\ jobs \in Nat
    BY Sets, JobsArePositive DEF Holders, RunsInv, ScheduleTypes
<1>2. Cardinality(Holders \ {s}) = Cardinality(Holders) - 1 /\ Cardinality(Holders \ {s}) \in Nat
    BY <1>1, FS_RemoveElement, FS_CardinalityType
<1>3. QED
    BY <1>1, <1>2 DEF RunsInv, PermitsAccounted, PermitCount

LEMMA PermitsRest ==
    ASSUME RunsInv, Holders' = Holders, UNCHANGED <<jobs, outer, permits>>
    PROVE  PermitCount'
BY DEF RunsInv, PermitsAccounted, PermitCount

(* Whoever moves on, or ends, has not the network any more.                *)
LEMMA NetworkMoves ==
    ASSUME RunsInv, NEW s \in Stages, \A t \in Stages \ {s} : stage'[t] = stage[t],
           Releases(s), stage'[s].at = "working" => ~Script[s][stage'[s].step].network
    PROVE  NetworkOwned'
<1>1. \A t \in At({"working"})' : t \in Stages /\ (t # s => t \in At({"working"}) /\ Doing(t)' = Doing(t))
    BY DEF At, Doing
<1>2. \A t \in At({"working"}) : t \in Stages /\ (t # s => t \in At({"working"})' /\ Doing(t)' = Doing(t))
    BY DEF At, Doing
<1>3. network' # "free" => network' # s /\ network' = network
    BY DEF Releases
<1>4. network' # "free" => network' \in At({"working"})' /\ (Doing(network).network)'
    BY <1>2, <1>3 DEF RunsInv, PermitsAccounted
<1>5. ASSUME NEW t \in At({"working"})', Doing(t)'.network PROVE network' = t
  <2>1. t # s
    BY <1>5 DEF At, Doing
  <2>2. network = t
    BY <1>1, <1>5, <2>1 DEF RunsInv, PermitsAccounted
  <2>3. QED
    BY <2>1, <2>2 DEF Releases
<1>6. QED
    BY <1>4, <1>5 DEF NetworkOwned

LEMMA NotTheOwner ==
    ASSUME RunsInv, NEW s \in Stages, ~(stage[s].at = "working" /\ Doing(s).network), UNCHANGED network
    PROVE  Releases(s)
<1>1. network # s \/ network = "free"
    BY DEF RunsInv, PermitsAccounted, At
<1>2. QED
    BY <1>1, NoStageIsCalled DEF Releases

LEMMA ScriptsMove ==
    ASSUME RunsInv, NEW s \in Stages, \A t \in Stages \ {s} : stage'[t] = stage[t],
           stage'[s].at \in {"working", "networking", "lending"} => stage'[s].step \in 1..Len(Script[s]),
           stage'[s].at = "networking" => Script[s][stage'[s].step].network,
           stage'[s].at = "lending" => Script[s][stage'[s].step].stages
    PROVE  InScripts'
BY DEF RunsInv, InScripts, Doing

(* Where an operation begins: the thread works, or waits for the network.  *)
LEMMA EnterMoves ==
    ASSUME RunsInv, NEW s \in Stages, NEW step \in 1..Len(Script[s]), Enters(s, step),
           stage[s].at \in BusyAts, UNCHANGED <<jobs, outer>>,
           stage[s].at = "lending" => InFlight(s) = {}
    PROVE  /\ stage' \in [Stages -> Threads] /\ \A t \in Stages \ {s} : stage'[t] = stage[t]
           /\ Holders' = Holders \cup {s} /\ InScripts'
           /\ stage'[s].at = "working" => ~Script[s][stage'[s].step].network
           /\ (\A r \in Runs : Cardinality(InFlight(r)') <= jobs) /\ Drained' /\ OuterRun'
<1> DEFINE where == IF Script[s][step].network THEN "networking" ELSE "working"
<1>1. Goes(s, where, step)
    BY DEF Enters
<1>2. /\ where \in Ats \ {"waiting"} /\ where \in Ats
      /\ where \in {"working", "networking"} /\ step \in Nat
    BY Graph DEF Ats
<1>3. /\ where = "networking" => Script[s][step].network
      /\ where = "working" => ~Script[s][step].network
    OBVIOUS
<1> HIDE DEF where
<1>4. /\ stage' \in [Stages -> Threads] /\ stage'[s] = [at |-> where, step |-> step]
      /\ \A t \in Stages \ {s} : stage'[t] = stage[t]
      /\ \A S : At(S)' = IF where \in S THEN At(S) \cup {s} ELSE At(S) \ {s}
    BY <1>1, <1>2, Moved DEF RunsInv
<1>5. InScripts'
    BY <1>2, <1>3, <1>4, ScriptsMove
<1>6. Holders' = Holders \cup {s}
    BY <1>2, <1>4 DEF Holders
<1>7. (\A r \in Runs : Cardinality(InFlight(r)') <= jobs) /\ Drained' /\ OuterRun'
    BY <1>1, <1>2, OneThread
<1>8. QED
    BY <1>3, <1>4, <1>5, <1>6, <1>7

(* What is to be shown of a step of one thread                             *)
LEMMA Altogether ==
    ASSUME RunsInv, stage' \in [Stages -> Threads], permits' \in Int, UNCHANGED <<jobs, outer>>,
           InScripts', PermitCount', NetworkOwned',
           \A r \in Runs : Cardinality(InFlight(r)') <= jobs, Drained', OuterRun'
    PROVE  RunsInv'
<1>1. ScheduleTypes'
    BY DEF RunsInv, ScheduleTypes
<1>2. PermitsAccounted'
    BY DEF PermitsAccounted, PermitCount, NetworkOwned
<1>3. QED
    BY <1>1, <1>2 DEF RunsInv

----------------------------------------------------------------------------
(* Each step of a thread                                                   *)
LEMMA StartStep ==
    ASSUME RunsInv, NEW s \in Stages, Start(s)
    PROVE  RunsInv'
<1>1. /\ stage[s].at = "queued" /\ permits > 0 /\ permits' = permits - 1 /\ Enters(s, 1)
      /\ UNCHANGED <<jobs, outer, network, made>> /\ permits \in Int
    BY DEF Start, RunsInv, ScheduleTypes
<1>2. 1 \in 1..Len(Script[s])
  <2>1. Len(Script[s]) \in Nat \ {0}
    BY Graph
  <2>2. QED
    BY <2>1
<1>3. stage[s].at \in BusyAts /\ stage[s].at # "lending"
    BY <1>1 DEF BusyAts
<1>4. /\ stage' \in [Stages -> Threads] /\ \A t \in Stages \ {s} : stage'[t] = stage[t]
      /\ Holders' = Holders \cup {s} /\ InScripts'
      /\ stage'[s].at = "working" => ~Script[s][stage'[s].step].network
      /\ (\A r \in Runs : Cardinality(InFlight(r)') <= jobs) /\ Drained' /\ OuterRun'
    BY <1>1, <1>2, <1>3, EnterMoves
<1>5. PermitCount'
  <2>1. s \notin Holders
    BY <1>1 DEF Holders, At
  <2>2. QED
    BY <1>1, <1>4, <2>1, PermitIsTaken
<1>6. NetworkOwned'
    BY <1>1, <1>4, NotTheOwner, NetworkMoves
<1>7. QED
    BY <1>1, <1>4, <1>5, <1>6, Altogether

LEMMA AcquireStep ==
    ASSUME RunsInv, NEW s \in Stages, Acquire(s)
    PROVE  RunsInv'
<1>1. /\ stage[s].at = "networking" /\ network = "free" /\ network' = s
      /\ Goes(s, "working", stage[s].step) /\ UNCHANGED <<jobs, outer, permits, made>>
      /\ stage[s].step \in 1..Len(Script[s]) /\ Script[s][stage[s].step].network
      /\ permits \in Int /\ stage[s].step \in Nat
    BY DEF Acquire, MayEnter, RunsInv, InScripts, Doing, ScheduleTypes, Threads
<1>2. /\ stage' \in [Stages -> Threads] /\ stage'[s] = [at |-> "working", step |-> stage[s].step]
      /\ \A t \in Stages \ {s} : stage'[t] = stage[t]
      /\ \A S : At(S)' = IF "working" \in S THEN At(S) \cup {s} ELSE At(S) \ {s}
    BY <1>1, Moved DEF RunsInv, Ats
<1>3. InScripts'
    BY <1>1, <1>2, ScriptsMove
<1>4. PermitCount'
  <2>1. Holders' = Holders
    BY <1>1, <1>2 DEF Holders, At
  <2>2. QED
    BY <1>1, <2>1, PermitsRest
<1>5. NetworkOwned'
  <2>1. s \in At({"working"})' /\ Doing(s)'.network
    BY <1>1, <1>2 DEF Doing, At
  <2>2. ASSUME NEW t \in At({"working"})', t # s PROVE ~Doing(t)'.network
    <3>1. t \in At({"working"}) /\ Doing(t)' = Doing(t) /\ t \in Stages
      BY <1>2, <2>2 DEF At, Doing
    <3>2. network # t
      BY <1>1, <3>1, NoStageIsCalled
    <3>3. QED
      BY <3>1, <3>2 DEF RunsInv, PermitsAccounted
  <2>3. (Doing(network).network)'
    BY <1>1, <2>1 DEF Doing
  <2>4. QED
    BY <1>1, <2>1, <2>2, <2>3 DEF NetworkOwned
<1>6. (\A r \in Runs : Cardinality(InFlight(r)') <= jobs) /\ Drained' /\ OuterRun'
    BY <1>1, OneThread DEF BusyAts, Ats
<1>7. QED
    BY <1>1, <1>2, <1>3, <1>4, <1>5, <1>6, Altogether

LEMMA ProceedStep ==
    ASSUME RunsInv, NEW s \in Stages, Proceed(s)
    PROVE  RunsInv'
<1> DEFINE next == stage[s].step + 1
<1>1. /\ stage[s].at = "working" /\ Releases(s) /\ stage[s].step < Len(Script[s])
      /\ Enters(s, next) /\ UNCHANGED <<jobs, outer, permits>> /\ permits \in Int
    BY DEF Proceed, Completes, RunsInv, ScheduleTypes
<1>2. next \in 1..Len(Script[s])
  <2>1. stage[s].step \in 1..Len(Script[s]) /\ Len(Script[s]) \in Nat
    BY <1>1, Graph DEF RunsInv, InScripts
  <2>2. QED
    BY <1>1, <2>1
<1> HIDE DEF next
<1>3. stage[s].at \in BusyAts /\ stage[s].at # "lending"
    BY <1>1 DEF BusyAts
<1>4. /\ stage' \in [Stages -> Threads] /\ \A t \in Stages \ {s} : stage'[t] = stage[t]
      /\ Holders' = Holders \cup {s} /\ InScripts'
      /\ stage'[s].at = "working" => ~Script[s][stage'[s].step].network
      /\ (\A r \in Runs : Cardinality(InFlight(r)') <= jobs) /\ Drained' /\ OuterRun'
    BY <1>1, <1>2, <1>3, EnterMoves
<1>5. PermitCount'
  <2>1. s \in Holders
    BY <1>1 DEF Holders, At
  <2>2. QED
    BY <1>1, <1>4, <2>1, PermitsRest
<1>6. NetworkOwned'
    BY <1>1, <1>4, NetworkMoves
<1>7. QED
    BY <1>1, <1>4, <1>5, <1>6, Altogether

(* The end of a thread, however it comes                                   *)
LEMMA ThreadEnds ==
    ASSUME RunsInv, NEW s \in Stages, NEW where \in {"collected", "failed"}, Goes(s, where, 0),
           stage[s].at = "working", Releases(s), permits' = permits + 1, UNCHANGED <<jobs, outer>>
    PROVE  RunsInv'
<1>1. /\ stage' \in [Stages -> Threads] /\ stage'[s] = [at |-> where, step |-> 0]
      /\ \A t \in Stages \ {s} : stage'[t] = stage[t]
      /\ \A S : At(S)' = IF where \in S THEN At(S) \cup {s} ELSE At(S) \ {s}
    BY Moved DEF RunsInv, Ats
<1>2. InScripts'
    BY <1>1, ScriptsMove
<1>3. PermitCount'
  <2>1. Holders' = Holders \ {s} /\ s \in Holders
    BY <1>1 DEF Holders, At
  <2>2. QED
    BY <2>1, PermitIsReturned
<1>4. NetworkOwned'
    BY <1>1, NetworkMoves
<1>5. (\A r \in Runs : Cardinality(InFlight(r)') <= jobs) /\ Drained' /\ OuterRun'
    BY OneThread DEF BusyAts, Ats
<1>6. permits' \in Int
    BY DEF RunsInv, ScheduleTypes
<1>7. QED
    BY <1>1, <1>2, <1>3, <1>4, <1>5, <1>6, Altogether

LEMMA FinishStep ==
    ASSUME RunsInv, NEW s \in Stages, Finish(s)
    PROVE  RunsInv'
BY ThreadEnds DEF Finish, Completes

LEMMA FailStep ==
    ASSUME RunsInv, NEW s \in Stages, Fail(s)
    PROVE  RunsInv'
BY ThreadEnds DEF Fail

LEMMA LendStep ==
    ASSUME RunsInv, NEW s \in Stages, Lend(s)
    PROVE  RunsInv'
<1>1. /\ stage[s].at = "working" /\ Doing(s).stages /\ permits' = permits + 1
      /\ Goes(s, "lending", stage[s].step) /\ UNCHANGED <<jobs, outer, network, made>>
      /\ stage[s].step \in 1..Len(Script[s]) /\ stage[s].step \in Nat
      /\ permits \in Int
    BY DEF Lend, Lent, RunsInv, ScheduleTypes, InScripts, Threads
<1>2. ~Doing(s).network
    BY <1>1, Graph DEF Doing
<1>3. /\ stage' \in [Stages -> Threads] /\ stage'[s] = [at |-> "lending", step |-> stage[s].step]
      /\ \A t \in Stages \ {s} : stage'[t] = stage[t]
      /\ \A S : At(S)' = IF "lending" \in S THEN At(S) \cup {s} ELSE At(S) \ {s}
    BY <1>1, Moved DEF RunsInv, Ats
<1>4. InScripts'
    BY <1>1, <1>3, ScriptsMove DEF Doing
<1>5. PermitCount'
  <2>1. Holders' = Holders \ {s} /\ s \in Holders
    BY <1>1, <1>3 DEF Holders, At
  <2>2. QED
    BY <1>1, <2>1, PermitIsReturned
<1>6. NetworkOwned'
    BY <1>1, <1>2, <1>3, NotTheOwner, NetworkMoves
<1>7. (\A r \in Runs : Cardinality(InFlight(r)') <= jobs) /\ Drained' /\ OuterRun'
    BY <1>1, OneThread DEF BusyAts, Ats
<1>8. QED
    BY <1>1, <1>3, <1>4, <1>5, <1>6, <1>7, Altogether

LEMMA ResumeStep ==
    ASSUME RunsInv, NEW s \in Stages, Resume(s)
    PROVE  RunsInv'
<1> DEFINE next == stage[s].step + 1
<1>1. /\ stage[s].at = "lending" /\ InFlight(s) = {} /\ permits > 0 /\ permits' = permits - 1
      /\ Enters(s, next) /\ UNCHANGED <<jobs, outer, network, made>> /\ permits \in Int
    BY DEF Resume, RunOver, RunsInv, ScheduleTypes
<1>2. next \in 1..Len(Script[s])
  <2>1. /\ stage[s].step \in 1..Len(Script[s]) /\ Script[s][stage[s].step].stages
        /\ Len(Script[s]) \in Nat
    BY <1>1, Graph DEF RunsInv, InScripts, Doing
  <2>2. stage[s].step # Len(Script[s])
    BY <2>1, Graph
  <2>3. QED
    BY <2>1, <2>2
<1> HIDE DEF next
<1>3. stage[s].at \in BusyAts
    BY <1>1 DEF BusyAts
<1>4. /\ stage' \in [Stages -> Threads] /\ \A t \in Stages \ {s} : stage'[t] = stage[t]
      /\ Holders' = Holders \cup {s} /\ InScripts'
      /\ stage'[s].at = "working" => ~Script[s][stage'[s].step].network
      /\ (\A r \in Runs : Cardinality(InFlight(r)') <= jobs) /\ Drained' /\ OuterRun'
    BY <1>1, <1>2, <1>3, EnterMoves
<1>5. PermitCount'
  <2>1. s \notin Holders
    BY <1>1 DEF Holders, At
  <2>2. QED
    BY <1>1, <1>4, <2>1, PermitIsTaken
<1>6. NetworkOwned'
    BY <1>1, <1>4, NotTheOwner, NetworkMoves
<1>7. QED
    BY <1>1, <1>4, <1>5, <1>6, Altogether

LEMMA RunFailsStep ==
    ASSUME RunsInv, NEW s \in Stages, RunFails(s)
    PROVE  RunsInv'
<1>1. /\ stage[s].at = "lending" /\ InFlight(s) = {} /\ Goes(s, "failed", 0)
      /\ UNCHANGED <<jobs, outer, permits, network, made>> /\ permits \in Int
    BY DEF RunFails, RunOver, RunsInv, ScheduleTypes
<1>2. /\ stage' \in [Stages -> Threads] /\ stage'[s] = [at |-> "failed", step |-> 0]
      /\ \A t \in Stages \ {s} : stage'[t] = stage[t]
      /\ \A S : At(S)' = IF "failed" \in S THEN At(S) \cup {s} ELSE At(S) \ {s}
    BY <1>1, Moved DEF RunsInv, Ats
<1>3. InScripts'
    BY <1>2, ScriptsMove
<1>4. PermitCount'
  <2>1. Holders' = Holders
    BY <1>1, <1>2 DEF Holders, At
  <2>2. QED
    BY <1>1, <2>1, PermitsRest
<1>5. NetworkOwned'
    BY <1>1, <1>2, NotTheOwner, NetworkMoves
<1>6. (\A r \in Runs : Cardinality(InFlight(r)') <= jobs) /\ Drained' /\ OuterRun'
    BY <1>1, OneThread DEF BusyAts, Ats
<1>7. QED
    BY <1>1, <1>2, <1>3, <1>4, <1>5, <1>6, Altogether

----------------------------------------------------------------------------
(* The steps of the coordinators                                           *)
LEMMA SubmitStep ==
    ASSUME RunsInv, NEW s \in Stages, Submit(s)
    PROVE  RunsInv'
<1> DEFINE r == RunOf[s]
<1>1. /\ stage[s].at = "waiting" /\ IsOn(r) /\ Cardinality(InFlight(r)) < jobs
      /\ Goes(s, "queued", 0) /\ UNCHANGED <<jobs, outer, permits, network, made>>
      /\ permits \in Int /\ jobs \in Nat
    BY JobsArePositive DEF Submit, RunsInv, ScheduleTypes
<1>2. /\ stage' \in [Stages -> Threads] /\ stage'[s] = [at |-> "queued", step |-> 0]
      /\ \A t \in Stages \ {s} : stage'[t] = stage[t]
      /\ \A S : At(S)' = IF "queued" \in S THEN At(S) \cup {s} ELSE At(S) \ {s}
    BY <1>1, Moved DEF RunsInv, Ats
<1>3. r # s /\ (r # Outer => r \in Stages)
    BY Graph
<1>4. IsOn(r)'
    BY <1>1, <1>2, <1>3 DEF IsOn
<1>5. InScripts'
    BY <1>2, ScriptsMove
<1>6. PermitCount'
  <2>1. Holders' = Holders
    BY <1>1, <1>2 DEF Holders, At
  <2>2. QED
    BY <1>1, <2>1, PermitsRest
<1>7. NetworkOwned'
    BY <1>1, <1>2, NotTheOwner, NetworkMoves
<1>8. Busy' = Busy \cup {s} /\ s \notin Busy
    BY <1>1, <1>2 DEF Busy, At
<1>9. ASSUME NEW q \in Runs PROVE Cardinality(InFlight(q)') <= jobs
  <2>1. IsFiniteSet(InFlight(q)) /\ Cardinality(InFlight(q)) \in Nat /\ Cardinality(InFlight(q)) <= jobs
    BY FlightsAreFinite DEF RunsInv, PermitsAccounted
  <2>2. CASE q = r
    <3>1. InFlight(q)' = InFlight(q) \cup {s} /\ s \notin InFlight(q)
      BY <1>8, <2>2 DEF InFlight, InRun
    <3>2. Cardinality(InFlight(q)') = Cardinality(InFlight(q)) + 1
      BY <2>1, <3>1, FS_AddElement
    <3>3. QED
      BY <1>1, <2>1, <2>2, <3>2
  <2>3. CASE q # r
    <3>1. InFlight(q)' = InFlight(q)
      BY <1>8, <2>3 DEF InFlight, InRun
    <3>2. QED
      BY <2>1, <3>1
  <2>4. QED
    BY <2>2, <2>3
<1>10. Drained'
  <2>1. SUFFICES ASSUME NEW t \in Busy' PROVE IsOn(RunOf[t])'
    BY DEF Drained
  <2>2. CASE t = s
    BY <1>4, <2>2
  <2>3. CASE t # s
    <3>1. t \in Busy /\ t \in Stages /\ IsOn(RunOf[t])
      BY <1>8, <2>1, <2>3 DEF RunsInv, Drained, Busy, At
    <3>2. CASE RunOf[t] = Outer
      BY <1>1, <3>1, <3>2 DEF IsOn
    <3>3. CASE RunOf[t] # Outer
      <4>1. RunOf[t] \in Stages /\ stage[RunOf[t]].at = "lending"
        BY <3>1, <3>3, Graph DEF IsOn
      <4>2. stage'[RunOf[t]].at = "lending"
        BY <1>1, <1>2, <4>1
      <4>3. QED
        BY <3>3, <4>2 DEF IsOn
    <3>4. QED
      BY <3>2, <3>3
  <2>4. QED
    BY <2>2, <2>3
<1>11. OuterRun'
  <2>1. outer # "idle"
    BY <1>1, <1>3 DEF RunsInv, OuterRun, IsOn
  <2>2. outer = "over" => RunOver(Outer)'
    <3>1. SUFFICES ASSUME outer = "over" PROVE RunOver(Outer)'
      OBVIOUS
    <3>2. r # Outer
      BY <1>1, <3>1 DEF IsOn
    <3>3. QED
      BY <1>2, <3>1, <3>2, OuterRests
  <2>3. QED
    BY <1>1, <2>1, <2>2 DEF OuterRun
<1>12. QED
    BY <1>1, <1>2, <1>5, <1>6, <1>7, <1>9, <1>10, <1>11, Altogether

LEMMA RunStagesStep ==
    ASSUME RunsInv, RunStages
    PROVE  RunsInv'
<1>1. /\ outer = "idle" /\ outer' = "on" /\ permits' = jobs /\ jobs \in Nat
      /\ UNCHANGED <<jobs, stage, network, made>> /\ \A s \in Stages : stage[s].at = "waiting"
    BY JobsArePositive DEF RunStages, RunsInv, ScheduleTypes, OuterRun
<1>2. ScheduleTypes'
    BY <1>1 DEF RunsInv, ScheduleTypes
<1>3. InScripts'
    BY <1>1 DEF InScripts
<1>4. PermitCount'
  <2>1. Holders' = {}
    BY <1>1 DEF Holders, At
  <2>2. QED
    BY <1>1, <2>1, FS_EmptySet DEF PermitCount
<1>5. NetworkOwned'
    BY <1>1 DEF RunsInv, PermitsAccounted, NetworkOwned, At, Doing
<1>6. \A r \in Runs : Cardinality(InFlight(r)') <= jobs'
    BY <1>1 DEF RunsInv, PermitsAccounted, InFlight, InRun, Busy, At
<1>7. Drained'
    BY <1>1 DEF Drained, Busy, At
<1>8. OuterRun'
    BY <1>1 DEF OuterRun
<1>9. QED
    BY <1>2, <1>3, <1>4, <1>5, <1>6, <1>7, <1>8 DEF RunsInv, PermitsAccounted, PermitCount, NetworkOwned

LEMMA RunEndsStep ==
    ASSUME RunsInv, RunEnds
    PROVE  RunsInv'
<1>1. /\ outer = "on" /\ RunOver(Outer) /\ outer' = "over" /\ InFlight(Outer) = {}
      /\ UNCHANGED <<jobs, stage, permits, network, made>>
    BY DEF RunEnds, RunOver
<1>2. Busy' = Busy /\ Busy \subseteq Stages
    BY <1>1 DEF Busy, At
<1>3. Drained'
  <2>1. SUFFICES ASSUME NEW t \in Busy PROVE IsOn(RunOf[t])'
    BY <1>2 DEF Drained
  <2>2. RunOf[t] # Outer
    BY <1>1, <1>2, <2>1 DEF InFlight, InRun
  <2>3. IsOn(RunOf[t])
    BY <2>1 DEF RunsInv, Drained
  <2>4. QED
    BY <1>1, <2>2, <2>3 DEF IsOn
<1>4. OuterRun'
    BY <1>1 DEF OuterRun, RunOver, InFlight, InRun, Ready, Failed, Busy, At
<1>5. ScheduleTypes' /\ InScripts'
    BY <1>1 DEF RunsInv, ScheduleTypes, InScripts, Doing
<1>6. PermitsAccounted'
    BY <1>1 DEF RunsInv, PermitsAccounted, Holders, At, Doing, InFlight, InRun, Busy
<1>7. QED
    BY <1>3, <1>4, <1>5, <1>6 DEF RunsInv

LEMMA NextStagesStep ==
    ASSUME RunsInv, NextStages
    PROVE  RunsInv'
<1>1. CASE RunStages
    BY <1>1, RunStagesStep
<1>2. CASE RunEnds
    BY <1>2, RunEndsStep
<1>3. ASSUME NEW s \in Stages, Submit(s) PROVE RunsInv'
    BY <1>3, SubmitStep
<1>4. ASSUME NEW s \in Stages, Thread(s) PROVE RunsInv'
    BY <1>4, StartStep, AcquireStep, ProceedStep, FinishStep, FailStep, LendStep, ResumeStep,
       RunFailsStep DEF Thread
<1>5. QED
    BY <1>1, <1>2, <1>3, <1>4 DEF NextStages

(* The rest of verify_release does not touch the schedule.                 *)
LEMMA ScheduleRests ==
    ASSUME RunsInv, UNCHANGED <<jobs, outer, stage, permits, network>>
    PROVE  RunsInv'
<1>1. ScheduleTypes' /\ InScripts'
    BY DEF RunsInv, ScheduleTypes, InScripts, Doing
<1>2. PermitsAccounted'
    BY DEF RunsInv, PermitsAccounted, Holders, At, Doing, InFlight, InRun, Busy
<1>3. Drained'
    BY DEF RunsInv, Drained, Busy, At, IsOn
<1>4. OuterRun'
    BY DEF RunsInv, OuterRun, RunOver, InFlight, InRun, Ready, Failed, Busy, At
<1>5. QED
    BY <1>1, <1>2, <1>3, <1>4 DEF RunsInv

LEMMA ScheduleBegins ==
    ASSUME InitStages
    PROVE  RunsInv
<1>1. /\ jobs \in JobChoices /\ outer = "idle" /\ permits = 0 /\ network = "free"
      /\ stage \in [Stages -> Threads] /\ \A s \in Stages : stage[s].at = "waiting"
      /\ jobs \in Nat
    BY JobsArePositive DEF InitStages, Threads, Ats
<1>2. ScheduleTypes /\ InScripts /\ OuterRun
    BY <1>1 DEF ScheduleTypes, InScripts, OuterRun
<1>3. \A S : "waiting" \notin S => At(S) = {}
    BY <1>1 DEF At
<1>4. PermitsAccounted
  <2>1. \A r : InFlight(r) = {}
    BY <1>3 DEF InFlight, Busy
  <2>2. Cardinality({}) = 0
    BY FS_EmptySet
  <2>3. QED
    BY <1>1, <1>3, <2>1, <2>2 DEF PermitsAccounted
<1>5. Drained
    BY <1>3 DEF Drained, Busy
<1>6. QED
    BY <1>2, <1>4, <1>5 DEF RunsInv

----------------------------------------------------------------------------
(* Whoever waits for a run waits for somebody who can go on.               *)
Above(s) == {t \in Stages : Rank[t] > Rank[s]}

(* Of some stages, one has none of them inside.                            *)
LEMMA InnermostOfSome ==
    ASSUME NEW S \in SUBSET Stages, NEW x \in S
    PROVE  \E s \in S : \A t \in S : RunOf[t] # s
<1>1. \A s : IsFiniteSet(Above(s)) /\ Cardinality(Above(s)) \in Nat
    BY StagesAreFinite, FS_Subset, FS_CardinalityType DEF Above
<1> DEFINE sizes == {Cardinality(Above(s)) : s \in S}
<1>2. sizes \in SUBSET Nat /\ Cardinality(Above(x)) \in sizes
    BY <1>1
<1>3. PICK m \in sizes : \A n \in sizes : m <= n
    BY <1>2, Least
<1>4. PICK s \in S : Cardinality(Above(s)) = m
    OBVIOUS
<1>5. ASSUME NEW t \in S, RunOf[t] = s PROVE FALSE
  <2>1. /\ s \in Stages /\ t \in Stages /\ Rank[s] \in Nat /\ Rank[t] \in Nat /\ Rank[s] < Rank[t]
    BY <1>5, Graph, NoStageIsCalled
  <2>2. Above(t) \subseteq Above(s)
    <3>1. \A u \in Stages : Rank[u] \in Nat
      BY Graph
    <3>2. QED
      BY <2>1, <3>1 DEF Above
  <2>3. t \in Above(s) /\ t \notin Above(t)
    BY <2>1 DEF Above
  <2>4. Cardinality(Above(t)) < Cardinality(Above(s))
    <3>1. Cardinality(Above(t)) <= Cardinality(Above(s))
      BY <1>1, <2>2, FS_Subset
    <3>2. Cardinality(Above(t)) # Cardinality(Above(s))
      BY <1>1, <2>2, <2>3, FS_Subset
    <3>3. QED
      BY <1>1, <3>1, <3>2
  <2>5. m <= Cardinality(Above(t))
    BY <1>3
  <2>6. QED
    BY <1>1, <1>4, <2>4, <2>5
<1>6. QED
    BY <1>5

LEMMA GoingOn ==
    ASSUME RunsInv
    PROVE  SomeoneGoesOn
<1>1. SUFFICES ASSUME outer = "on", At({"working"}) = {},
                      ~(\E s \in At({"networking"}) : network = "free"),
                      ~(permits > 0 /\ At({"queued"}) # {})
               PROVE  \/ permits > 0 /\ \E s \in At({"lending"}) : RunOver(s)
                      \/ \E r \in Runs : IsOn(r) /\ Failed(r) = {} /\ Ready(r) # {}
                                           /\ Cardinality(InFlight(r)) < jobs
                      \/ RunOver(Outer)
    BY DEF SomeoneGoesOn, At
<1>2. At({"networking"}) = {}
    BY <1>1 DEF RunsInv, PermitsAccounted
<1>3. Holders = {}
    BY <1>1, <1>2 DEF Holders, At
<1>4. permits = jobs /\ jobs \in Nat \ {0}
    BY <1>1, <1>3, FS_EmptySet, JobsArePositive DEF RunsInv, PermitsAccounted, ScheduleTypes
<1>5. Busy = At({"lending"}) /\ Busy \in SUBSET Stages
    BY <1>1, <1>2, <1>4 DEF Busy, At
<1>6. ASSUME NEW r, InFlight(r) = {}, ~RunOver(r), IsOn(r)
      PROVE  \E q \in Runs : IsOn(q) /\ Failed(q) = {} /\ Ready(q) # {}
                               /\ Cardinality(InFlight(q)) < jobs
  <2>1. Ready(r) # {} /\ Failed(r) = {}
    BY <1>6 DEF RunOver
  <2>2. r \in Runs
    BY <2>1 DEF Ready, InRun, Runs
  <2>3. Cardinality(InFlight(r)) < jobs
    BY <1>4, <1>6, FS_EmptySet
  <2>4. QED
    BY <1>6, <2>1, <2>2, <2>3
<1>7. CASE Busy = {}
  <2>1. InFlight(Outer) = {} /\ IsOn(Outer)
    BY <1>1, <1>7 DEF InFlight, IsOn
  <2>2. QED
    BY <1>6, <2>1
<1>8. CASE Busy # {}
  <2>1. PICK s \in Busy : \A t \in Busy : RunOf[t] # s
    BY <1>5, <1>8, InnermostOfSome
  <2>2. InFlight(s) = {}
    BY <2>1 DEF InFlight, InRun
  <2>3. IsOn(s) /\ s \in At({"lending"})
    BY <1>5, <2>1, NoStageIsCalled DEF IsOn, At
  <2>4. QED
    BY <1>4, <1>6, <2>2, <2>3
<1>9. QED
    BY <1>7, <1>8

----------------------------------------------------------------------------
(* Before the outer run, and after it                                     *)
LEMMA NobodyLeft ==
    ASSUME RunsInv, outer # "on"
    PROVE  Busy = {}
<1>1. SUFFICES ASSUME NEW x \in Busy PROVE FALSE
    OBVIOUS
<1>2. Busy \in SUBSET Stages
    BY DEF Busy, At
<1>3. PICK s \in Busy : \A t \in Busy : Rank[s] <= Rank[t]
    BY <1>1, <1>2, FirstOfSome
<1>4. s \in Stages /\ IsOn(RunOf[s])
    BY <1>2, <1>3 DEF RunsInv, Drained
<1>5. RunOf[s] # Outer
    BY <1>4 DEF IsOn
<1>6. /\ RunOf[s] \in Stages /\ Rank[RunOf[s]] \in Nat /\ Rank[s] \in Nat /\ Rank[RunOf[s]] < Rank[s]
      /\ stage[RunOf[s]].at = "lending"
    BY <1>4, <1>5, Graph DEF IsOn
<1>7. RunOf[s] \in Busy
    BY <1>6 DEF Busy, At
<1>8. QED
    BY <1>3, <1>6, <1>7

LEMMA AllCollected ==
    ASSUME RunsInv, outer = "over", Failed(Outer) = {}
    PROVE  InRun(Outer) \subseteq At({"collected"})
<1> DEFINE S == InRun(Outer) \ At({"collected"})
<1>1. SUFFICES ASSUME NEW x \in S PROVE FALSE
    OBVIOUS
<1>2. S \in SUBSET Stages
    BY DEF InRun
<1>3. PICK s \in S : \A t \in S : Rank[s] <= Rank[t]
    BY <1>1, <1>2, FirstOfSome
<1>4. s \in Stages /\ stage[s] \in Threads /\ s \in InRun(Outer)
    BY <1>2, <1>3 DEF RunsInv, ScheduleTypes
<1>5. InFlight(Outer) = {} /\ Ready(Outer) = {}
    BY DEF RunsInv, OuterRun, RunOver
<1>6. s \in At({"waiting"})
  <2>1. s \notin At({"collected"}) /\ s \notin At({"failed"})
    BY <1>3, <1>4 DEF Failed
  <2>2. s \notin Busy
    BY <1>4, <1>5 DEF InFlight
  <2>3. QED
    BY <1>4, <2>1, <2>2 DEF At, Busy, Threads, Ats
<1>7. Deps[s] \subseteq At({"collected"})
  <2>1. SUFFICES ASSUME NEW d \in Deps[s], d \notin At({"collected"}) PROVE FALSE
    OBVIOUS
  <2>2. d \in Stages /\ RunOf[d] = RunOf[s] /\ Rank[d] \in Nat /\ Rank[d] < Rank[s] /\ Rank[s] \in Nat
    BY <1>4, Graph
  <2>3. d \in S
    BY <1>4, <2>1, <2>2 DEF InRun
  <2>4. QED
    BY <1>3, <2>2, <2>3
<1>8. QED
    BY <1>4, <1>5, <1>6, <1>7 DEF Ready

----------------------------------------------------------------------------
(* What verify_release has made sure of                                    *)
Early == {"policy", "reset", "first", "digest"}
Committed == {"find", "pythons", "before", "stages", "after", "guard", "promote", "site", "scan",
              "rescan", "report", "inspect", "last", "passed"}
Checked == Committed \ {"find"}
AfterStages == {"after", "guard", "promote", "site", "scan", "rescan", "report", "inspect", "last",
                "passed"}
Guarded == {"promote", "site", "scan", "rescan", "report", "inspect", "last", "passed"}
InputsInv ==
    /\ tree \in Nat /\ digest \in 0..tree /\ clean \in 0..tree /\ seen \subseteq digest..tree
    /\ phase \in Early => seen = {} /\ outer = "idle"
    /\ phase \in Committed => digest <= clean
    /\ phase \in Checked => digest = clean
    /\ phase \in AfterStages => outer = "over" /\ Failed(Outer) = {}
    /\ phase \in Guarded => seen \subseteq {clean}
ReleaseInv == RunsInv /\ InputsInv

LEMMA FailuresRest ==
    ASSUME UNCHANGED stage
    PROVE  UNCHANGED Failed(Outer)
BY DEF Failed, InRun, At

(* A step of verify_release itself, after the digest or before it          *)
LEMMA PhaseStep ==
    ASSUME InputsInv, Alone, UNCHANGED <<digest, clean>>,
           phase' \in Early => phase \in Early,
           phase' \in Committed => digest <= clean,
           phase' \in Checked => digest = clean,
           phase' \in AfterStages => outer = "over" /\ Failed(Outer) = {},
           phase' \in Guarded => seen \subseteq {clean}
    PROVE  InputsInv'
<1>1. UNCHANGED <<outer, stage, tree, seen, Failed(Outer)>>
    BY FailuresRest DEF Alone
<1>2. QED
    BY <1>1 DEF InputsInv

(* What is digested is what the stages will read, or it is noticed: they     *)
(* have read nothing yet.                                                  *)
LEMMA DigestInputs ==
    ASSUME InputsInv, Digest
    PROVE  InputsInv'
<1>1. /\ phase = "digest" /\ phase' = "clean" /\ digest' = tree /\ UNCHANGED clean
      /\ UNCHANGED <<outer, stage, tree, seen>>
    BY DEF Digest, From, Alone
<1>2. seen = {}
    BY <1>1 DEF InputsInv, Early
<1>3. phase' \notin Early \cup Committed \cup Checked \cup AfterStages \cup Guarded
    BY <1>1 DEF Early, Committed, Checked, AfterStages, Guarded
<1>4. QED
    BY <1>1, <1>2, <1>3 DEF InputsInv

(* The commit that the worktree is a copy of is not older than the digest.   *)
LEMMA CleanInputs ==
    ASSUME InputsInv, RequireClean
    PROVE  InputsInv'
<1>1. /\ phase' = "find" /\ clean' = tree /\ UNCHANGED digest
      /\ UNCHANGED <<outer, stage, tree, seen>>
    BY DEF RequireClean, IsClean, From, Alone
<1>2. phase' \notin Early \cup Checked \cup AfterStages \cup Guarded
    BY <1>1 DEF Early, Checked, AfterStages, Guarded
<1>3. QED
    BY <1>1, <1>2 DEF InputsInv

(* The version that was digested is still there, so nothing was between.     *)
LEMMA GuardFoundInputs ==
    ASSUME InputsInv, GuardFound
    PROVE  InputsInv'
<1>1. /\ phase = "find" /\ phase' = "pythons" /\ tree = digest /\ Alone
      /\ UNCHANGED <<digest, clean>>
    BY DEF GuardFound, Guard, From, Unchanged, Untouched, Makes
<1>2. digest <= clean /\ clean \in 0..tree /\ tree \in Nat
    BY <1>1 DEF InputsInv, Committed
<1>3. digest = clean
    BY <1>1, <1>2
<1>4. phase' \notin Early \cup AfterStages \cup Guarded
    BY <1>1 DEF Early, AfterStages, Guarded
<1>5. QED
    BY <1>1, <1>2, <1>3, <1>4, PhaseStep

LEMMA StageStepInputs ==
    ASSUME InputsInv, StageStep
    PROVE  InputsInv'
<1>1. /\ phase = "stages" /\ UNCHANGED <<phase, tree, digest, clean>>
      /\ seen' \subseteq seen \cup {tree}
    BY DEF StageStep, Sees
<1>2. phase \notin Early \cup AfterStages \cup Guarded
    BY <1>1 DEF Early, AfterStages, Guarded
<1>3. QED
    BY <1>1, <1>2 DEF InputsInv

LEMMA EditInputs ==
    ASSUME ReleaseInv, Edit
    PROVE  InputsInv'
<1>1. /\ tree' = tree + 1 /\ seen' \subseteq seen \cup {tree'}
      /\ UNCHANGED <<phase, digest, clean, outer, stage>>
    BY DEF Edit, schedule
<1>2. UNCHANGED Failed(Outer)
    BY <1>1, FailuresRest
<1>3. phase \in Early \cup Guarded => seen' = seen
  <2>1. SUFFICES ASSUME phase \in Early \cup Guarded PROVE seen' = seen
    OBVIOUS
  <2>2. outer # "on"
    BY <2>1 DEF ReleaseInv, InputsInv, Early, Guarded, AfterStages
  <2>3. At({"working"}) = {}
    BY <2>2, NobodyLeft DEF ReleaseInv, Busy, At
  <2>4. QED
    BY <2>3 DEF Edit
<1>4. QED
    BY <1>1, <1>2, <1>3 DEF ReleaseInv, InputsInv

LEMMA CommitInputs ==
    ASSUME InputsInv, CommitEdit
    PROVE  InputsInv'
<1>1. UNCHANGED <<phase, tree, digest, clean, seen, outer, stage>>
    BY DEF CommitEdit, schedule
<1>2. UNCHANGED Failed(Outer)
    BY <1>1, FailuresRest
<1>3. QED
    BY <1>1, <1>2 DEF InputsInv

LEMMA GuardAfterInputs ==
    ASSUME InputsInv, GuardAfter
    PROVE  InputsInv'
<1>1. /\ phase = "guard" /\ phase' = "promote" /\ tree = digest /\ Alone
      /\ UNCHANGED <<digest, clean>>
    BY DEF GuardAfter, Guard, From, Unchanged, Untouched, Makes
<1>2. digest = clean /\ clean \in Nat /\ outer = "over" /\ Failed(Outer) = {}
    BY <1>1 DEF InputsInv, Committed, Checked, AfterStages
<1>3. seen \subseteq {clean}
    BY <1>1, <1>2 DEF InputsInv
<1>4. phase' \notin Early /\ digest <= clean
    BY <1>1, <1>2 DEF Early
<1>5. QED
    BY <1>1, <1>2, <1>3, <1>4, PhaseStep

LEMMA ReleaseNext ==
    ASSUME ReleaseInv, [Next]_vars
    PROVE  ReleaseInv'
<1>1. RunsInv'
  <2>1. CASE UNCHANGED <<jobs, outer, stage, permits, network>>
    BY <2>1, ScheduleRests DEF ReleaseInv
  <2>2. CASE StageStep
    BY <2>2, NextStagesStep DEF ReleaseInv, StageStep
  <2>3. CASE Edit \/ CommitEdit \/ UNCHANGED vars
    BY <2>1, <2>3 DEF Edit, CommitEdit, vars, schedule
  <2>4. CASE Work /\ ~StageStep
    <3>1. UNCHANGED <<jobs, outer, stage, permits, network>>
      BY <2>4 DEF Work, LoadPolicy, Reset, ScanFirst, Digest, RequireClean, GuardFound, FindPythons,
         GuardBefore, StagesPass, Sweep, GuardAfter, PromoteArtifacts, PromoteSite, ScanWorktree,
         GuardPromoted, WriteFinalReports, InspectReports, GuardLast, Fails, Guard, Alone, Makes,
         Untouched
    <3>2. QED
      BY <2>1, <3>1
  <2>5. QED
    BY <2>1, <2>2, <2>3, <2>4 DEF Next
<1>2. InputsInv'
  <2>1. CASE UNCHANGED vars
    BY <2>1, FailuresRest DEF ReleaseInv, InputsInv, vars, schedule
  <2>2. CASE LoadPolicy \/ Reset \/ ScanFirst
    <3>1. phase \in Early /\ phase' \in Early /\ UNCHANGED <<digest, clean>> /\ Alone
      BY <2>2 DEF LoadPolicy, Reset, ScanFirst, From, Untouched, Makes, Early
    <3>2. phase' \notin Committed \cup Checked \cup AfterStages \cup Guarded
      BY <3>1 DEF Early, Committed, Checked, AfterStages, Guarded
    <3>3. QED
      BY <3>1, <3>2, PhaseStep DEF ReleaseInv
  <2>3. CASE Digest
    BY <2>3, DigestInputs DEF ReleaseInv
  <2>4. CASE RequireClean
    BY <2>4, CleanInputs DEF ReleaseInv
  <2>5. CASE GuardFound
    BY <2>5, GuardFoundInputs DEF ReleaseInv
  <2>6. CASE StageStep
    BY <2>6, StageStepInputs DEF ReleaseInv
  <2>7. CASE FindPythons \/ GuardBefore \/ StagesPass
    <3>1. /\ phase \in {"pythons", "before", "stages"} /\ phase' \in {"before", "stages", "after"}
          /\ phase' = "after" => outer = "over" /\ Failed(Outer) = {}
          /\ UNCHANGED <<digest, clean>> /\ Alone
      BY <2>7 DEF FindPythons, GuardBefore, StagesPass, Guard, From, Untouched, Makes
    <3>2. digest = clean /\ digest <= clean
      BY <3>1 DEF ReleaseInv, InputsInv, Committed, Checked
    <3>3. /\ phase' \notin Early \cup Guarded
          /\ phase' \in AfterStages => phase' = "after"
      BY <3>1 DEF Early, AfterStages, Guarded
    <3>4. QED
      BY <3>1, <3>2, <3>3, PhaseStep DEF ReleaseInv
  <2>8. CASE Sweep
    <3>1. phase = "after" /\ phase' = "guard" /\ UNCHANGED <<digest, clean>> /\ Alone
      BY <2>8 DEF Sweep, From, Makes
    <3>2. /\ digest = clean /\ digest <= clean
          /\ outer = "over" /\ Failed(Outer) = {}
      BY <3>1 DEF ReleaseInv, InputsInv, Committed, Checked, AfterStages
    <3>3. phase' \notin Early \cup Guarded
      BY <3>1 DEF Early, Guarded
    <3>4. QED
      BY <3>1, <3>2, <3>3, PhaseStep DEF ReleaseInv
  <2>9. CASE GuardAfter
    BY <2>9, GuardAfterInputs DEF ReleaseInv
  <2>10. CASE \/ PromoteArtifacts \/ PromoteSite \/ ScanWorktree \/ GuardPromoted
              \/ WriteFinalReports \/ InspectReports \/ GuardLast
    <3>1. phase \in Guarded /\ phase' \in Guarded /\ UNCHANGED <<digest, clean>> /\ Alone
      BY <2>10 DEF PromoteArtifacts, PromoteSite, ScanWorktree, GuardPromoted, WriteFinalReports,
         InspectReports, GuardLast, Guard, From, Untouched, Makes, Guarded
    <3>2. phase \in Committed /\ phase \in Checked /\ phase \in AfterStages /\ phase' \notin Early
      BY <3>1 DEF Guarded, Committed, Checked, AfterStages, Early
    <3>3. /\ digest = clean /\ digest <= clean
          /\ outer = "over" /\ Failed(Outer) = {} /\ seen \subseteq {clean}
      BY <3>1, <3>2 DEF ReleaseInv, InputsInv
    <3>4. QED
      BY <3>1, <3>2, <3>3, PhaseStep DEF ReleaseInv
  <2>11. CASE Fails
    <3>1. phase' = "failed" /\ UNCHANGED <<digest, clean>> /\ Alone
      BY <2>11 DEF Fails, Untouched, Makes
    <3>2. phase' \notin Early \cup Committed \cup Checked \cup AfterStages \cup Guarded
      BY <3>1 DEF Early, Committed, Checked, AfterStages, Guarded
    <3>3. QED
      BY <3>1, <3>2, PhaseStep DEF ReleaseInv
  <2>12. CASE Edit
    BY <2>12, EditInputs
  <2>13. CASE CommitEdit
    BY <2>13, CommitInputs DEF ReleaseInv
  <2>14. QED
    BY <2>1, <2>2, <2>3, <2>4, <2>5, <2>6, <2>7, <2>8, <2>9, <2>10, <2>11, <2>12, <2>13 DEF Next, Work
<1>3. QED
    BY <1>1, <1>2 DEF ReleaseInv

(* The scheduler's invariant, and what each phase of verify_release has made *)
(* sure of, hold in every state.                                           *)
THEOREM Invariant == Spec => []ReleaseInv
<1>1. Init => ReleaseInv
  <2>1. SUFFICES ASSUME Init PROVE ReleaseInv
    OBVIOUS
  <2>2. RunsInv
    BY <2>1, ScheduleBegins DEF Init
  <2>3. InputsInv
    BY <2>1 DEF Init, InitStages, InputsInv, Early, Committed, Checked, AfterStages, Guarded
  <2>4. QED
    BY <2>2, <2>3 DEF ReleaseInv
<1>2. ReleaseInv /\ [Next]_vars => ReleaseInv'
    BY ReleaseNext
<1>3. QED
    BY <1>1, <1>2, PTL DEF Spec

(* Permits and network are with whom they should be, runs are as wide as    *)
(* their jobs, and while a run is on some thread or coordinator can go on.  *)
THEOREM PermitsSuffice == Spec => []PermitsAreSound
<1>1. ReleaseInv => PermitsAreSound
    BY GoingOn DEF ReleaseInv, RunsInv, PermitsAreSound
<1>2. QED
    BY <1>1, Invariant, PTL

(* _run_stages returns only after its threads: whoever is at work belongs to *)
(* a run that is on.                                                       *)
THEOREM RunsDrain == Spec => []Drained
<1>1. ReleaseInv => Drained
    BY DEF ReleaseInv, RunsInv
<1>2. QED
    BY <1>1, Invariant, PTL

(* Stages that were all collected made what is promoted, and read it from    *)
(* one commit, that the worktree was a clean copy of before they began.      *)
THEOREM Promoted == Spec => []PromotedIsVerified
<1>1. ReleaseInv => PromotedIsVerified
  <2>1. SUFFICES ASSUME ReleaseInv, phase \in {"scan", "rescan", "report", "inspect", "last", "passed"}
                 PROVE  seen \subseteq {clean} /\ InRun(Outer) \subseteq At({"collected"})
    BY DEF PromotedIsVerified
  <2>2. phase \in Guarded /\ phase \in AfterStages
    BY <2>1 DEF Guarded, AfterStages
  <2>3. seen \subseteq {clean} /\ outer = "over" /\ Failed(Outer) = {}
    BY <2>1, <2>2 DEF ReleaseInv, InputsInv
  <2>4. QED
    BY <2>1, <2>3, AllCollected DEF ReleaseInv
<1>2. QED
    BY <1>1, Invariant, PTL
=============================================================================
