------------------------------ MODULE TaskGraph ------------------------------
(***************************************************************************)
(* TaskGraph (src/scheduler/graph.cpp): threads add stages to one graph,   *)
(* validate it and run it, over a stream pool that others use too.         *)
(*                                                                         *)
(* add_stage, validate and wait hold mtx_ within one step.  run reads the  *)
(* atomic validated_ and calls validate before it takes mtx_ for the whole *)
(* execution; inside it each stage is a stream acquired, a kernel launched *)
(* and a sync, between which other threads use the pool.                   *)
(*                                                                         *)
(* Launch and sync succeed or fail as the platform pleases.                *)
(***************************************************************************)
EXTENDS Integers, FiniteSets, Sequences, Maps

CONSTANTS Threads, NoThread,
          Names, NoStage,   \* stage names
          Contracts,        \* the contracts stages are added with
          Classes,          \* {"Compute", "Dma"}
          PoolSize,         \* class -> streams in the pool
          MaxRuns           \* bound: calls of run by each thread

(* The fields of a StageContract the scheduler reads: the upstream stages  *)
(* as listed, the stream class the module's name selects, and whether the  *)
(* SM footprint passes the comparison with the device's.                   *)
ContractType == [depends_on : Seq(Names), klass : Classes,
                 sm_fits : BOOLEAN]

ASSUME TaskGraphAssumption ==
    /\ NoThread \notin Threads /\ NoStage \notin Names
    /\ IsFiniteSet(Names)
    /\ \A c \in Contracts : c \in ContractType
    /\ PoolSize \in [Classes -> Nat] /\ MaxRuns \in Nat

States == {"Pending", "Running", "Completed", "Failed"}
Statuses == {"Ok", "InvalidArgument", "ContractViolation", "OutOfMemory", "DriverError"}

VARIABLES nodes,      \* nodes_: name -> contract
          state,      \* name -> StageState
          validated,  \* validated_
          lock,       \* mtx_
          pool,       \* class -> free streams of the micro-kernel
          others,     \* class -> streams other users of the context have
          pc, cur,    \* per thread: where run is, the stage it executes
          result,     \* per thread: what its last run returned
          runs        \* per thread: calls of run so far

vars == <<nodes, state, validated, lock, pool, others, pc, cur, result, runs>>

TypeOK ==
    /\ DOMAIN nodes \subseteq Names /\ nodes \in [DOMAIN nodes -> Contracts]
    /\ state \in [DOMAIN nodes -> States]
    /\ validated \in BOOLEAN
    /\ lock \in Threads \cup {NoThread}
    /\ pool \in [Classes -> Nat] /\ others \in [Classes -> Nat]
    /\ pc \in [Threads -> {"idle", "validate", "lock", "pick", "launch", "sync"}]
    /\ cur \in [Threads -> Names \cup {NoStage}]
    /\ result \in [Threads -> Statuses]
    /\ runs \in [Threads -> 0 .. MaxRuns]

Init ==
    /\ nodes = EmptyMap /\ state = EmptyMap
    /\ validated = FALSE
    /\ lock = NoThread
    /\ pool = PoolSize /\ others = [k \in Classes |-> 0]
    /\ pc = [t \in Threads |-> "idle"]
    /\ cur = [t \in Threads |-> NoStage]
    /\ result = [t \in Threads |-> "Ok"]
    /\ runs = [t \in Threads |-> 0]

-----------------------------------------------------------------------------
(* validate.                                                               *)
Listed(n) == {nodes[n].depends_on[i] : i \in DOMAIN nodes[n].depends_on}

DependenciesExist == \A n \in DOMAIN nodes : Listed(n) \subseteq DOMAIN nodes

(* Fault: a stage is unblocked by any one of its dependencies.             *)
UnblockedByAny(n, visited) == Listed(n) = {} \/ Listed(n) \cap visited # {}

Unblocked(n, visited) == Len(nodes[n].depends_on) = Cardinality(Listed(n) \cap visited)

(* Kahn's algorithm, by rounds.  indeg[n] starts at the number of entries  *)
(* of depends_on and drops by one for each visited stage found among them, *)
(* so an entry that is there twice is counted twice and taken off once.    *)
Rounds[i \in 0 .. Cardinality(Names)] ==
    IF i = 0 THEN {} ELSE {n \in DOMAIN nodes : Unblocked(n, Rounds[i - 1])}

Visited == Rounds[Cardinality(Names)]

(* Fault: the footprints are not compared.                                 *)
ValidateShape ==
    IF ~DependenciesExist \/ Visited # DOMAIN nodes THEN "InvalidArgument" ELSE "Ok"

ValidateStatus ==
    IF ~DependenciesExist \/ Visited # DOMAIN nodes THEN "InvalidArgument"
    ELSE IF \E n \in DOMAIN nodes : ~nodes[n].sm_fits THEN "ContractViolation"
    ELSE "Ok"

Validate(t) ==
    /\ pc[t] = "idle" /\ lock = NoThread
    /\ validated' = (validated \/ ValidateStatus = "Ok")
    /\ UNCHANGED <<nodes, state, lock, pool, others, pc, cur, result, runs>>

(* add_stage: a name that is taken is refused.                             *)
AddStage(t, n, c) ==
    /\ pc[t] = "idle" /\ lock = NoThread
    /\ n \notin DOMAIN nodes
    /\ nodes' = Put(nodes, n, c)
    /\ state' = Put(state, n, "Pending")
    /\ validated' = FALSE
    /\ UNCHANGED <<lock, pool, others, pc, cur, result, runs>>

-----------------------------------------------------------------------------
(* Faults: a dependency that has failed counts as done; a stage that has   *)
(* failed is taken up again.                                               *)
ReadyAfterFailed(n) ==
    /\ state[n] = "Pending"
    /\ \A d \in Listed(n) : d \in DOMAIN nodes /\ state[d] # "Pending"

ReadyAgain(n) ==
    /\ state[n] \in {"Pending", "Failed"}
    /\ \A d \in Listed(n) : d \in DOMAIN nodes /\ state[d] = "Completed"

ReadyToRun(n) ==
    /\ state[n] = "Pending"
    /\ \A d \in Listed(n) : d \in DOMAIN nodes /\ state[d] = "Completed"

Goto(t, from, to) == pc[t] = from /\ pc' = [pc EXCEPT ![t] = to]

(* Fault: the mutex is not released.                                       *)
UnlockNothing(t) == UNCHANGED lock

Unlock(t) == lock' = IF lock = t THEN NoThread ELSE lock

Return(t, status) ==
    /\ pc' = [pc EXCEPT ![t] = "idle"]
    /\ cur' = [cur EXCEPT ![t] = NoStage]
    /\ result' = [result EXCEPT ![t] = status]
    /\ Unlock(t)

(* run: validated_ is read before anything is locked.                      *)
Run(t) ==
    /\ runs[t] < MaxRuns
    /\ Goto(t, "idle", IF validated THEN "lock" ELSE "validate")
    /\ runs' = [runs EXCEPT ![t] = @ + 1]
    /\ UNCHANGED <<nodes, state, validated, lock, pool, others, cur, result>>

RunValidate(t) ==
    /\ pc[t] = "validate" /\ lock = NoThread
    /\ IF ValidateStatus = "Ok"
       THEN Goto(t, "validate", "lock") /\ validated' = TRUE /\ UNCHANGED <<lock, cur, result>>
       ELSE Return(t, ValidateStatus) /\ UNCHANGED validated
    /\ UNCHANGED <<nodes, state, pool, others, runs>>

RunLock(t) ==
    /\ lock = NoThread
    /\ Goto(t, "lock", "pick")
    /\ lock' = t
    /\ UNCHANGED <<nodes, state, validated, pool, others, cur, result, runs>>

(* Fault: run takes it that a pass leaves nothing ready.                   *)
NoneReadyAssumed == TRUE

Empty(k)  == pool[k] = 0
NoneReady == \A n \in DOMAIN nodes : ~ReadyToRun(n)

(* The passes over the hash map launch ready stages in any order ...       *)
Acquire(t, n) ==
    /\ pc[t] = "pick"
    /\ ReadyToRun(n)
    /\ LET k == nodes[n].klass
       IN  IF Empty(k)
           THEN Return(t, "OutOfMemory") /\ UNCHANGED <<state, pool>>
           ELSE /\ Goto(t, "pick", "launch")
                /\ cur' = [cur EXCEPT ![t] = n]
                /\ state' = [state EXCEPT ![n] = "Running"]
                /\ pool' = [pool EXCEPT ![k] = @ - 1]
                /\ UNCHANGED <<lock, result>>
    /\ UNCHANGED <<nodes, validated, others, runs>>

(* ... until a pass finds none.                                            *)
Finish(t) ==
    /\ pc[t] = "pick"
    /\ NoneReady
    /\ Return(t, "Ok")
    /\ UNCHANGED <<nodes, state, validated, pool, others, runs>>

(* Fault: the stream does not go back.                                     *)
GiveBackNothing(t) == UNCHANGED pool

GiveBack(t) == pool' = [pool EXCEPT ![nodes[cur[t]].klass] = @ + 1]

(* A launch or a sync that fails marks the stage and ends the run.         *)
Fail(t) ==
    /\ state' = [state EXCEPT ![cur[t]] = "Failed"]
    /\ GiveBack(t)
    /\ Return(t, "DriverError")

Launch(t) ==
    /\ pc[t] = "launch"
    /\ \/ Goto(t, "launch", "sync") /\ UNCHANGED <<state, pool, cur, result, lock>>
       \/ Fail(t)
    /\ UNCHANGED <<nodes, validated, others, runs>>

Complete(t) ==
    /\ state' = [state EXCEPT ![cur[t]] = "Completed"]
    /\ GiveBack(t)
    /\ Goto(t, "sync", "pick")
    /\ cur' = [cur EXCEPT ![t] = NoStage]
    /\ UNCHANGED <<result, lock>>

Sync(t) ==
    /\ pc[t] = "sync"
    /\ Complete(t) \/ Fail(t)
    /\ UNCHANGED <<nodes, validated, others, runs>>

(* Other users of the context acquire and release streams.                 *)
OtherAcquires(k) ==
    /\ pool[k] > 0
    /\ pool' = [pool EXCEPT ![k] = @ - 1]
    /\ others' = [others EXCEPT ![k] = @ + 1]
    /\ UNCHANGED <<nodes, state, validated, lock, pc, cur, result, runs>>

OtherReleases(k) ==
    /\ others[k] > 0
    /\ pool' = [pool EXCEPT ![k] = @ + 1]
    /\ others' = [others EXCEPT ![k] = @ - 1]
    /\ UNCHANGED <<nodes, state, validated, lock, pc, cur, result, runs>>

Step(t) ==
    \/ RunValidate(t) \/ RunLock(t)
    \/ \E n \in DOMAIN nodes : Acquire(t, n)
    \/ Finish(t) \/ Launch(t) \/ Sync(t)

Next ==
    \/ \E t \in Threads, n \in Names, c \in Contracts : AddStage(t, n, c)
    \/ \E t \in Threads : Validate(t) \/ Run(t) \/ Step(t)
    \/ \E k \in Classes : OtherAcquires(k) \/ OtherReleases(k)

(* A run under way keeps running; a kernel ends, well or badly.            *)
Fairness == \A t \in Threads : WF_vars(Step(t))

Spec == Init /\ [][Next]_vars /\ Fairness

-----------------------------------------------------------------------------
(* A stage that was launched, whatever came of it, has all the stages it   *)
(* depends on completed, also when stages are added, validated and run by  *)
(* several threads at once.                                                *)
DependenciesFirst ==
    \A n \in DOMAIN nodes : state[n] # "Pending" =>
        \A d \in Listed(n) : d \in DOMAIN nodes /\ state[d] = "Completed"

(* No stream is lost or handed out twice: those in the pool, those others  *)
(* have and the one of the stage under way make up the pool.               *)
Using(k) == {t \in Threads : cur[t] # NoStage /\ nodes[cur[t]].klass = k}

StreamsConserved ==
    \A k \in Classes : pool[k] + others[k] + Cardinality(Using(k)) = PoolSize[k]

(* The running stage is that of the one thread that holds the mutex; two   *)
(* concurrent runs never execute together.                                 *)
RunningIsLocked ==
    \A n \in DOMAIN nodes : state[n] = "Running" <=> \E t \in Threads : lock = t /\ cur[t] = n

(* A stage is launched at most once in the life of a graph: it leaves      *)
(* Pending for Running, Running for its end, and stays there.              *)
LaunchedOnce ==
    [][\A n \in DOMAIN nodes :
         /\ n \in DOMAIN nodes' /\ nodes'[n] = nodes[n]
         /\ state'[n] # state[n] =>
               \/ state[n] = "Pending" /\ state'[n] = "Running"
               \/ state[n] = "Running" /\ state'[n] \in {"Completed", "Failed"}]_vars

(* The graph has no cycle: every set of stages has one that depends on     *)
(* none of them.                                                           *)
Acyclic ==
    \A S \in SUBSET DOMAIN nodes : S # {} => \E n \in S : Listed(n) \cap S = {}

ListedOnce == \A n \in DOMAIN nodes : Cardinality(Listed(n)) = Len(nodes[n].depends_on)

(* validate accepts exactly the graphs its comment says it does, provided  *)
(* no stage lists a dependency twice.                                      *)
KahnFindsCycles ==
    /\ Visited = DOMAIN nodes => Acyclic
    /\ (DependenciesExist /\ ListedOnce /\ Acyclic) => Visited = DOMAIN nodes

Returns(t, status) == pc[t] # "idle" /\ pc'[t] = "idle" /\ result'[t] = status

(* On a graph validate accepts, a run that returns Ok leaves no stage      *)
(* behind unless one has failed.                                           *)
OkCompletesValidGraph ==
    [][\A t \in Threads :
         (Returns(t, "Ok") /\ ValidateStatus = "Ok" /\ \A n \in DOMAIN nodes : state[n] # "Failed")
            => \A n \in DOMAIN nodes : state[n] = "Completed"]_vars

(* What architecture.md says of contracts: they are enforced before        *)
(* launching, so a stage whose SM footprint does not fit never runs.       *)
LaunchedFits == \A n \in DOMAIN nodes : state[n] # "Pending" => nodes[n].sm_fits
=============================================================================
