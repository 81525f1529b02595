--------------------------- MODULE TaskGraphProofs ---------------------------
(***************************************************************************)
(* Theorems about TaskGraph, for any number of threads, stages, contracts  *)
(* and streams, and about the Pipeline that builds and runs one.           *)
(*                                                                         *)
(* The argument: run holds the mutex from its first pick to its return, so *)
(* at most one thread is between pick and return; the stage that thread is *)
(* on is the only one that is Running.  A dependency that has Completed    *)
(* can therefore not be the stage a launch or sync is failing, and stays   *)
(* Completed.                                                              *)
(***************************************************************************)
EXTENDS Pipeline, FiniteSetTheorems, TLAPS

(* Where a thread is says whether it has the mutex and a stage.            *)
Executing(t) == pc[t] \in {"pick", "launch", "sync"}

MutexInv ==
    \A t \in Threads :
        /\ Executing(t) <=> lock = t
        /\ pc[t] \in {"launch", "sync"} <=> cur[t] # NoStage
        /\ cur[t] # NoStage => cur[t] \in DOMAIN nodes

IInv == TypeOK /\ MutexInv /\ RunningIsLocked /\ DependenciesFirst

-----------------------------------------------------------------------------
(* The initial graph is empty and nobody runs it.                          *)
LEMMA InitIInv == Init => IInv
<1> SUFFICES ASSUME Init PROVE IInv
  OBVIOUS
<1>1. DOMAIN nodes = {} /\ DOMAIN state = {}
  BY DEF Init, EmptyMap
<1>2. nodes \in [DOMAIN nodes -> Contracts] /\ state \in [DOMAIN nodes -> States]
  BY <1>1 DEF Init, EmptyMap
<1>3. runs \in [Threads -> 0 .. MaxRuns] /\ others \in [Classes -> Nat]
  BY TaskGraphAssumption DEF Init
<1>4. result \in [Threads -> Statuses]
  BY DEF Init, Statuses
<1>5. TypeOK
  BY <1>1, <1>2, <1>3, <1>4, TaskGraphAssumption DEF Init, TypeOK
<1>6. MutexInv /\ RunningIsLocked /\ DependenciesFirst
  BY <1>1, TaskGraphAssumption
  DEF Init, MutexInv, Executing, RunningIsLocked, DependenciesFirst
<1> QED
  BY <1>5, <1>6 DEF IInv

(* Every step of every thread, and of the other users of the stream pool,  *)
(* preserves the types.                                                    *)
LEMMA NextTypeOK == IInv /\ [Next]_vars => TypeOK'
<1> SUFFICES ASSUME IInv, [Next]_vars PROVE TypeOK'
  OBVIOUS
<1> USE TaskGraphAssumption DEF IInv
<1>1. ASSUME NEW t \in Threads, NEW n \in Names, NEW c \in Contracts, AddStage(t, n, c)
      PROVE  TypeOK'
  BY <1>1 DEF TypeOK, AddStage, Put, States
<1>2. ASSUME NEW t \in Threads, Validate(t) PROVE TypeOK'
  BY <1>2 DEF TypeOK, Validate
<1>3. ASSUME NEW t \in Threads, Run(t) PROVE TypeOK'
  BY <1>3 DEF TypeOK, Run, Goto
<1>4. ASSUME NEW t \in Threads, RunValidate(t) PROVE TypeOK'
  BY <1>4 DEF TypeOK, RunValidate, Goto, Return, Unlock, ValidateStatus, Statuses
<1>5. ASSUME NEW t \in Threads, RunLock(t) PROVE TypeOK'
  BY <1>5 DEF TypeOK, RunLock, Goto
<1>6. ASSUME NEW t \in Threads, NEW n \in DOMAIN nodes, Acquire(t, n) PROVE TypeOK'
  <2>1. nodes[n] \in Contracts /\ nodes[n].klass \in Classes /\ n \in Names
    BY DEF TypeOK, ContractType
  <2>2. CASE Empty(nodes[n].klass)
    BY <1>6, <2>1, <2>2 DEF TypeOK, Acquire, Goto, Return, Unlock, Statuses
  <2>3. CASE ~Empty(nodes[n].klass)
    <3>1. /\ UNCHANGED <<nodes, validated, lock, others, result, runs>>
          /\ pc' = [pc EXCEPT ![t] = "launch"]
          /\ cur' = [cur EXCEPT ![t] = n]
          /\ state' = [state EXCEPT ![n] = "Running"]
          /\ pool' = [pool EXCEPT ![nodes[n].klass] = @ - 1]
      BY <1>6, <2>3 DEF Acquire, Goto
    <3>2. pool[nodes[n].klass] \in Nat \ {0}
      BY <2>1, <2>3 DEF TypeOK, Empty
    <3>3. pool' \in [Classes -> Nat]
      BY <2>1, <3>1, <3>2 DEF TypeOK
    <3> QED
      BY <2>1, <3>1, <3>3 DEF TypeOK, States
  <2> QED
    BY <2>2, <2>3
<1>7. ASSUME NEW t \in Threads, Finish(t) PROVE TypeOK'
  BY <1>7 DEF TypeOK, Finish, Return, Unlock, Statuses
<1>8. ASSUME NEW t \in Threads, Fail(t) \/ Complete(t),
             pc[t] \in {"launch", "sync"},
             UNCHANGED <<nodes, validated, others, runs>>
      PROVE  TypeOK'
  <2>1. cur[t] \in DOMAIN nodes
    BY <1>8 DEF MutexInv
  <2>2. nodes[cur[t]] \in Contracts /\ nodes[cur[t]].klass \in Classes
    BY <2>1 DEF TypeOK, ContractType
  <2>3. pool' \in [Classes -> Nat]
    BY <1>8, <2>2 DEF TypeOK, Fail, Complete, GiveBack
  <2> QED
    BY <1>8, <2>1, <2>3 DEF TypeOK, Fail, Complete, Goto, Return, Unlock, States, Statuses
<1>9. ASSUME NEW t \in Threads, Launch(t) PROVE TypeOK'
  <2>1. CASE Fail(t)
    BY <1>8, <1>9, <2>1 DEF Launch
  <2>2. CASE Goto(t, "launch", "sync") /\ UNCHANGED <<state, pool, cur, result, lock>>
    BY <1>9, <2>2 DEF TypeOK, Launch, Goto
  <2> QED
    BY <1>9, <2>1, <2>2 DEF Launch
<1>10. ASSUME NEW t \in Threads, Sync(t) PROVE TypeOK'
  BY <1>8, <1>10 DEF Sync
<1>11. ASSUME NEW k \in Classes, OtherAcquires(k) \/ OtherReleases(k) PROVE TypeOK'
  <2>1. pool[k] \in Nat /\ others[k] \in Nat
    BY DEF TypeOK
  <2> QED
    BY <1>11, <2>1 DEF TypeOK, OtherAcquires, OtherReleases
<1>12. CASE UNCHANGED vars
  BY <1>12 DEF TypeOK, vars
<1> QED
  BY <1>1, <1>2, <1>3, <1>4, <1>5, <1>6, <1>7, <1>9, <1>10, <1>11, <1>12 DEF Next, Step

(* The mutex is taken before the first pick and released on return, and a  *)
(* thread that does not execute has no stage.                              *)
LEMMA NextMutexInv == IInv /\ [Next]_vars => MutexInv'
<1> SUFFICES ASSUME IInv, [Next]_vars PROVE MutexInv'
  OBVIOUS
<1> USE TaskGraphAssumption DEF IInv
<1>0. /\ pc \in [Threads -> {"idle", "validate", "lock", "pick", "launch", "sync"}]
      /\ cur \in [Threads -> Names \cup {NoStage}]
      /\ lock \in Threads \cup {NoThread}
      /\ DOMAIN nodes \subseteq Names /\ NoThread \notin Threads /\ NoStage \notin Names
  BY DEF TypeOK
<1>1. ASSUME NEW t \in Threads, NEW n \in Names, NEW c \in Contracts, AddStage(t, n, c)
      PROVE  MutexInv'
  BY <1>0, <1>1 DEF MutexInv, Executing, AddStage, Put
<1>2. ASSUME NEW t \in Threads, Validate(t) PROVE MutexInv'
  BY <1>2 DEF MutexInv, Executing, Validate
<1>3. ASSUME NEW t \in Threads, Run(t) PROVE MutexInv'
  BY <1>0, <1>3 DEF MutexInv, Executing, Run, Goto
<1>4. ASSUME NEW t \in Threads, RunValidate(t) PROVE MutexInv'
  BY <1>0, <1>4 DEF MutexInv, Executing, RunValidate, Goto, Return, Unlock
<1>5. ASSUME NEW t \in Threads, RunLock(t) PROVE MutexInv'
  BY <1>0, <1>5 DEF MutexInv, Executing, RunLock, Goto
<1>6. ASSUME NEW t \in Threads, NEW n \in DOMAIN nodes, Acquire(t, n) PROVE MutexInv'
  <2>1. CASE Empty(nodes[n].klass)
    BY <1>0, <1>6, <2>1 DEF MutexInv, Executing, Acquire, Goto, Return, Unlock
  <2>2. CASE ~Empty(nodes[n].klass)
    <3>1. /\ UNCHANGED <<nodes, lock>>
          /\ pc[t] = "pick" /\ pc' = [pc EXCEPT ![t] = "launch"]
          /\ cur' = [cur EXCEPT ![t] = n]
      BY <1>6, <2>2 DEF Acquire, Goto
    <3> QED
      BY <1>0, <3>1 DEF MutexInv, Executing
  <2> QED
    BY <2>1, <2>2
<1>7. ASSUME NEW t \in Threads, Finish(t) PROVE MutexInv'
  BY <1>0, <1>7 DEF MutexInv, Executing, Finish, Return, Unlock
<1>8. ASSUME NEW t \in Threads, Launch(t) PROVE MutexInv'
  BY <1>0, <1>8 DEF MutexInv, Executing, Launch, Fail, Goto, Return, Unlock
<1>9. ASSUME NEW t \in Threads, Sync(t) PROVE MutexInv'
  <2>1. CASE Complete(t)
    BY <1>0, <1>9, <2>1 DEF MutexInv, Executing, Sync, Complete, Goto
  <2>2. CASE Fail(t)
    BY <1>0, <1>9, <2>2 DEF MutexInv, Executing, Sync, Fail, Return, Unlock
  <2> QED
    BY <1>9, <2>1, <2>2 DEF Sync
<1>10. ASSUME NEW k \in Classes, OtherAcquires(k) \/ OtherReleases(k) PROVE MutexInv'
  BY <1>10 DEF MutexInv, Executing, OtherAcquires, OtherReleases
<1>11. CASE UNCHANGED vars
  BY <1>11 DEF MutexInv, Executing, vars
<1> QED
  BY <1>1, <1>2, <1>3, <1>4, <1>5, <1>6, <1>7, <1>8, <1>9, <1>10, <1>11 DEF Next, Step

(* The steps of run that touch a stage, and what they do to the states:    *)
(* the one thread with the mutex starts a Pending stage whose dependencies *)
(* have completed, or ends the Running one it is on.                       *)
Starts(t, n) ==
    /\ lock = t /\ cur[t] = NoStage /\ n \in DOMAIN nodes /\ ReadyToRun(n)
    /\ state' = [state EXCEPT ![n] = "Running"]
    /\ cur' = [cur EXCEPT ![t] = n] /\ lock' = lock

Ends(t) ==
    /\ lock = t /\ cur[t] \in DOMAIN nodes /\ cur' = [cur EXCEPT ![t] = NoStage]
    /\ \E s \in {"Completed", "Failed"} : state' = [state EXCEPT ![cur[t]] = s]
    /\ lock' \in {t, NoThread}

(* Apart from those, a step leaves the states alone, and the stage of the  *)
(* thread that has the mutex.                                              *)
Quiet ==
    /\ state' = state
    /\ \A t \in Threads, n \in Names : (lock = t /\ cur[t] = n) <=> (lock' = t /\ cur'[t] = n)

Starting == \E t \in Threads, n \in Names : Starts(t, n)
Ending   == \E t \in Threads : Ends(t)
Adds   == \E t \in Threads, n \in Names, c \in Contracts : AddStage(t, n, c)

(* Every step adds a stage, starts one, ends one or is quiet.              *)
LEMMA StepKinds ==
    ASSUME IInv, [Next]_vars
    PROVE  Adds \/ (nodes' = nodes /\ (Starting \/ Ending \/ Quiet))
<1> DEFINE Goal == nodes' = nodes /\ (Starting \/ Ending \/ Quiet)
<1> USE TaskGraphAssumption DEF IInv
<1>0. /\ pc \in [Threads -> {"idle", "validate", "lock", "pick", "launch", "sync"}]
      /\ cur \in [Threads -> Names \cup {NoStage}]
      /\ lock \in Threads \cup {NoThread}
      /\ DOMAIN nodes \subseteq Names /\ NoThread \notin Threads /\ NoStage \notin Names
  BY DEF TypeOK
<1>1. ASSUME NEW t \in Threads, Validate(t) PROVE Quiet /\ nodes' = nodes
  BY <1>1 DEF Quiet, Validate
<1>2. ASSUME NEW t \in Threads, Run(t) PROVE Quiet /\ nodes' = nodes
  BY <1>2 DEF Quiet, Run
<1>3. ASSUME NEW t \in Threads, RunValidate(t) PROVE Quiet /\ nodes' = nodes
  BY <1>0, <1>3 DEF Quiet, RunValidate, Goto, Return, Unlock, MutexInv, Executing
<1>4. ASSUME NEW t \in Threads, RunLock(t) PROVE Quiet /\ nodes' = nodes
  BY <1>0, <1>4 DEF Quiet, RunLock, Goto, MutexInv, Executing
<1>5. ASSUME NEW t \in Threads, NEW n \in DOMAIN nodes, Acquire(t, n) PROVE Goal
  <2>1. nodes' = nodes /\ lock = t /\ cur[t] = NoStage /\ ReadyToRun(n) /\ n \in Names
    BY <1>0, <1>5 DEF Acquire, MutexInv, Executing
  <2>2. CASE Empty(nodes[n].klass)
    <3>1. state' = state /\ Return(t, "OutOfMemory")
      BY <1>5, <2>2 DEF Acquire
    <3>2. Quiet
      BY <1>0, <2>1, <3>1 DEF Quiet, Return, Unlock
    <3> QED
      BY <2>1, <3>2
  <2>3. CASE ~Empty(nodes[n].klass)
    <3>1. /\ state' = [state EXCEPT ![n] = "Running"] /\ lock' = lock
          /\ cur' = [cur EXCEPT ![t] = n]
      BY <1>5, <2>3 DEF Acquire
    <3>2. Starts(t, n)
      BY <2>1, <3>1 DEF Starts
    <3> QED
      BY <2>1, <3>2 DEF Starting
  <2> QED
    BY <2>2, <2>3
<1>6. ASSUME NEW t \in Threads, Finish(t) PROVE Quiet /\ nodes' = nodes
  BY <1>0, <1>6 DEF Quiet, Finish, Return, Unlock, MutexInv, Executing
<1>7. ASSUME NEW t \in Threads, Launch(t) PROVE Goal
  <2>1. nodes' = nodes /\ lock = t /\ cur[t] \in DOMAIN nodes
    BY <1>7 DEF Launch, MutexInv, Executing
  <2>2. CASE Fail(t)
    <3>1. Ends(t)
      BY <2>1, <2>2 DEF Ends, Fail, Return, Unlock
    <3> QED
      BY <2>1, <3>1 DEF Ending
  <2>3. CASE UNCHANGED <<state, pool, cur, result, lock>>
    BY <2>1, <2>3 DEF Quiet
  <2> QED
    BY <1>7, <2>2, <2>3 DEF Launch
<1>8. ASSUME NEW t \in Threads, Sync(t) PROVE Ends(t) /\ nodes' = nodes
  <2>1. nodes' = nodes /\ lock = t /\ cur[t] \in DOMAIN nodes
    BY <1>8 DEF Sync, MutexInv, Executing
  <2> QED
    BY <1>8, <2>1 DEF Sync, Ends, Fail, Complete, Return, Unlock
<1>9. ASSUME NEW k \in Classes, OtherAcquires(k) \/ OtherReleases(k)
      PROVE  Quiet /\ nodes' = nodes
  BY <1>9 DEF Quiet, OtherAcquires, OtherReleases
<1>10. CASE UNCHANGED vars
  BY <1>10 DEF Quiet, vars
<1> QED
  BY <1>1, <1>2, <1>3, <1>4, <1>5, <1>6, <1>7, <1>8, <1>9, <1>10
  DEF Next, Step, Adds, Ending

(* What adding a stage does to the nodes that are there: nothing.          *)
LEMMA AddingKeeps ==
    ASSUME IInv, NEW t \in Threads, NEW n \in Names, NEW c \in Contracts, AddStage(t, n, c)
    PROVE  /\ n \notin DOMAIN nodes /\ DOMAIN nodes' = DOMAIN nodes \cup {n}
           /\ nodes'[n] = c /\ state'[n] = "Pending"
           /\ \A m \in DOMAIN nodes : nodes'[m] = nodes[m] /\ state'[m] = state[m]
           /\ lock' = lock /\ cur' = cur
  BY DEF IInv, TypeOK, AddStage, Put

(* The mutex holder is the only thread with a stage, and its stage the     *)
(* only one that is Running.                                               *)
LEMMA NextRunningIsLocked == IInv /\ [Next]_vars => RunningIsLocked'
<1> SUFFICES ASSUME IInv, [Next]_vars PROVE RunningIsLocked'
  OBVIOUS
<1>0. /\ cur \in [Threads -> Names \cup {NoStage}]
      /\ state \in [DOMAIN nodes -> States]
      /\ DOMAIN nodes \subseteq Names /\ NoThread \notin Threads /\ NoStage \notin Names
      /\ RunningIsLocked /\ MutexInv
  BY TaskGraphAssumption DEF IInv, TypeOK
<1>1. CASE Adds
  <2>1. PICK t \in Threads, n \in Names, c \in Contracts : AddStage(t, n, c)
    BY <1>1 DEF Adds
  <2>2. /\ DOMAIN nodes' = DOMAIN nodes \cup {n} /\ state'[n] = "Pending"
        /\ \A m \in DOMAIN nodes : state'[m] = state[m]
        /\ lock' = lock /\ cur' = cur
    BY <2>1, AddingKeeps
  <2>3. \A m \in DOMAIN nodes' : state'[m] = "Running" => m \in DOMAIN nodes /\ state[m] = "Running"
    BY <2>2
  <2>4. \A u \in Threads : cur[u] # n
    BY <1>0, <2>1, AddingKeeps DEF MutexInv
  <2> QED
    BY <1>0, <2>2, <2>3, <2>4 DEF RunningIsLocked
<1>2. ASSUME nodes' = nodes, NEW t \in Threads, NEW n \in Names, Starts(t, n)
      PROVE  RunningIsLocked'
  <2>1. \A m \in DOMAIN nodes : state[m] # "Running"
    BY <1>0, <1>2 DEF Starts, RunningIsLocked
  <2> QED
    BY <1>0, <1>2, <2>1 DEF Starts, RunningIsLocked
<1>3. ASSUME nodes' = nodes, NEW t \in Threads, Ends(t) PROVE RunningIsLocked'
  <2>1. \A m \in DOMAIN nodes : m # cur[t] => state[m] # "Running"
    BY <1>0, <1>3 DEF Ends, RunningIsLocked
  <2>2. \A m \in DOMAIN nodes : state'[m] # "Running"
    BY <1>0, <1>3, <2>1 DEF Ends
  <2>3. \A u \in Threads : lock' = u => cur'[u] = NoStage
    BY <1>0, <1>3 DEF Ends
  <2> QED
    BY <1>0, <1>3, <2>2, <2>3 DEF RunningIsLocked
<1>4. CASE nodes' = nodes /\ Quiet
  BY <1>0, <1>4 DEF Quiet, RunningIsLocked
<1> QED
  BY <1>1, <1>2, <1>3, <1>4, StepKinds DEF Starting, Ending

(* A stage leaves Pending only when its dependencies have completed, and a *)
(* completed stage is not the Running one, so it stays completed.          *)
LEMMA NextDependenciesFirst == IInv /\ [Next]_vars => DependenciesFirst'
<1> SUFFICES ASSUME IInv, [Next]_vars PROVE DependenciesFirst'
  OBVIOUS
<1>0. /\ state \in [DOMAIN nodes -> States]
      /\ RunningIsLocked /\ DependenciesFirst
  BY DEF IInv, TypeOK
<1>1. CASE Adds
  <2>1. PICK t \in Threads, n \in Names, c \in Contracts : AddStage(t, n, c)
    BY <1>1 DEF Adds
  <2>2. /\ DOMAIN nodes' = DOMAIN nodes \cup {n} /\ state'[n] = "Pending"
        /\ \A m \in DOMAIN nodes : nodes'[m] = nodes[m] /\ state'[m] = state[m]
    BY <2>1, AddingKeeps
  <2>3. \A m \in DOMAIN nodes' : state'[m] # "Pending" => m \in DOMAIN nodes /\ state[m] # "Pending"
    BY <2>2
  <2>4. \A m \in DOMAIN nodes : Listed(m)' = Listed(m)
    BY <2>2 DEF Listed
  <2> QED
    BY <1>0, <2>2, <2>3, <2>4 DEF DependenciesFirst
<1>2. ASSUME nodes' = nodes, NEW t \in Threads, NEW n \in Names, Starts(t, n)
      PROVE  DependenciesFirst'
  <2>1. \A m \in DOMAIN nodes : state[m] = "Completed" => state'[m] = "Completed"
    BY <1>0, <1>2 DEF Starts, ReadyToRun
  <2>2. \A m \in DOMAIN nodes : state'[m] # "Pending" => m = n \/ state[m] # "Pending"
    BY <1>0, <1>2 DEF Starts
  <2>3. \A d \in Listed(n) : d \in DOMAIN nodes /\ state[d] = "Completed"
    BY <1>2 DEF Starts, ReadyToRun
  <2> QED
    BY <1>0, <1>2, <2>1, <2>2, <2>3 DEF DependenciesFirst, Listed
<1>3. ASSUME nodes' = nodes, NEW t \in Threads, Ends(t) PROVE DependenciesFirst'
  <2>1. state[cur[t]] = "Running"
    BY <1>0, <1>3 DEF Ends, RunningIsLocked
  <2>2. \A m \in DOMAIN nodes : state[m] = "Completed" => state'[m] = "Completed"
    BY <1>0, <1>3, <2>1 DEF Ends
  <2>3. \A m \in DOMAIN nodes : state'[m] # "Pending" => state[m] # "Pending"
    BY <1>0, <1>3, <2>1 DEF Ends
  <2> QED
    BY <1>0, <1>3, <2>2, <2>3 DEF DependenciesFirst, Listed
<1>4. CASE nodes' = nodes /\ Quiet
  BY <1>0, <1>4 DEF Quiet, DependenciesFirst, Listed
<1> QED
  BY <1>1, <1>2, <1>3, <1>4, StepKinds DEF Starting, Ending

(* A step moves a stage from Pending to Running or from Running to its     *)
(* end, and no stage is taken out or given another contract.               *)
LEMMA NextLaunchedOnce ==
    ASSUME IInv, [Next]_vars
    PROVE  \A n \in DOMAIN nodes :
             /\ n \in DOMAIN nodes' /\ nodes'[n] = nodes[n]
             /\ state'[n] # state[n] =>
                   \/ state[n] = "Pending" /\ state'[n] = "Running"
                   \/ state[n] = "Running" /\ state'[n] \in {"Completed", "Failed"}
<1>0. /\ state \in [DOMAIN nodes -> States] /\ RunningIsLocked
  BY DEF IInv, TypeOK
<1> SUFFICES ASSUME NEW n \in DOMAIN nodes
             PROVE  /\ n \in DOMAIN nodes' /\ nodes'[n] = nodes[n]
                    /\ state'[n] # state[n] =>
                          \/ state[n] = "Pending" /\ state'[n] = "Running"
                          \/ state[n] = "Running" /\ state'[n] \in {"Completed", "Failed"}
  OBVIOUS
<1>1. CASE Adds
  BY <1>1, AddingKeeps DEF Adds
<1>2. CASE nodes' = nodes /\ Starting
  BY <1>0, <1>2 DEF Starting, Starts, ReadyToRun
<1>3. CASE nodes' = nodes /\ Ending
  BY <1>0, <1>3 DEF Ending, Ends, RunningIsLocked
<1>4. CASE nodes' = nodes /\ Quiet
  BY <1>4 DEF Quiet
<1> QED
  BY <1>1, <1>2, <1>3, <1>4, StepKinds

(* The threads on a stage of class k are one or none: the holder of the    *)
(* mutex, if it is on one.                                                 *)
Occupied(k) == \E t \in Threads : cur[t] # NoStage /\ nodes[cur[t]].klass = k

StreamsInv ==
    \A k \in Classes : pool[k] + others[k] + (IF Occupied(k) THEN 1 ELSE 0) = PoolSize[k]

(* With StreamsInv the count of StreamsConserved is a count of at most one *)
(* thread.                                                                 *)
LEMMA UsingIsOne == IInv /\ StreamsInv => StreamsConserved
<1> SUFFICES ASSUME IInv, StreamsInv, NEW k \in Classes
             PROVE  pool[k] + others[k] + Cardinality(Using(k)) = PoolSize[k]
  BY DEF StreamsConserved
<1>0. MutexInv
  BY DEF IInv
<1>1. CASE Occupied(k)
  <2>1. PICK t \in Threads : cur[t] # NoStage /\ nodes[cur[t]].klass = k
    BY <1>1 DEF Occupied
  <2>2. \A u \in Threads : cur[u] # NoStage => u = t
    BY <1>0, <2>1 DEF MutexInv, Executing
  <2>3. Using(k) = {t}
    BY <2>1, <2>2 DEF Using
  <2> QED
    BY <1>1, <2>3, FS_Singleton DEF StreamsInv
<1>2. CASE ~Occupied(k)
  <2>1. Using(k) = {}
    BY <1>2 DEF Using, Occupied
  <2> QED
    BY <1>2, <2>1, FS_EmptySet DEF StreamsInv
<1> QED
  BY <1>1, <1>2

(* A stage takes one stream of its class when it starts and returns it     *)
(* when it ends, well or badly.                                            *)
LEMMA NextStreamsInv ==
    ASSUME IInv, StreamsInv, [Next]_vars
    PROVE  StreamsInv'
<1> USE TaskGraphAssumption
<1>0. /\ pc \in [Threads -> {"idle", "validate", "lock", "pick", "launch", "sync"}]
      /\ cur \in [Threads -> Names \cup {NoStage}]
      /\ pool \in [Classes -> Nat] /\ others \in [Classes -> Nat]
      /\ DOMAIN nodes \subseteq Names /\ NoStage \notin Names
      /\ MutexInv
  BY DEF IInv, TypeOK
<1>a. \A n \in DOMAIN nodes : nodes[n].klass \in Classes
  BY DEF IInv, TypeOK, ContractType
<1>b. ASSUME NEW t \in Threads, NEW n \in Names, NEW c \in Contracts, AddStage(t, n, c)
      PROVE  StreamsInv'
  <2>1. \A m \in DOMAIN nodes : nodes'[m] = nodes[m]
    BY <1>b, AddingKeeps
  <2>2. pool' = pool /\ others' = others /\ cur' = cur
    BY <1>b DEF AddStage
  <2>3. \A k \in Classes : Occupied(k)' <=> Occupied(k)
    BY <1>0, <2>1, <2>2 DEF Occupied, MutexInv
  <2> QED
    BY <2>2, <2>3 DEF StreamsInv
<1>c. ASSUME nodes' = nodes, pool' = pool, others' = others, cur' = cur
      PROVE  StreamsInv'
  BY <1>c DEF StreamsInv, Occupied
<1>d. ASSUME NEW t \in Threads, nodes' = nodes, pool' = pool, others' = others,
             pc[t] \in {"validate", "pick"}, cur' = [cur EXCEPT ![t] = NoStage]
      PROVE  StreamsInv'
  BY <1>0, <1>c, <1>d DEF MutexInv
<1>e. ASSUME NEW t \in Threads, nodes' = nodes, others' = others,
             pc[t] \in {"launch", "sync"}, GiveBack(t), cur' = [cur EXCEPT ![t] = NoStage]
      PROVE  StreamsInv'
  <2>1. cur[t] # NoStage /\ cur[t] \in DOMAIN nodes /\ nodes[cur[t]].klass \in Classes
    BY <1>0, <1>a, <1>e DEF MutexInv
  <2>2. \A u \in Threads : cur[u] # NoStage => u = t
    BY <1>0, <2>1 DEF MutexInv, Executing
  <2>3. \A k \in Classes : /\ Occupied(k) <=> k = nodes[cur[t]].klass
                           /\ ~Occupied(k)'
    BY <1>0, <1>e, <2>1, <2>2 DEF Occupied
  <2>4. \A k \in Classes :
           pool'[k] = IF k = nodes[cur[t]].klass THEN pool[k] + 1 ELSE pool[k]
    BY <1>0, <1>e, <2>1 DEF GiveBack
  <2> QED
    BY <1>0, <1>e, <2>3, <2>4 DEF StreamsInv
<1>1. ASSUME NEW t \in Threads, Validate(t) \/ Run(t) \/ RunLock(t) PROVE StreamsInv'
  BY <1>1, <1>c DEF Validate, Run, RunLock
<1>2. ASSUME NEW t \in Threads, RunValidate(t) PROVE StreamsInv'
  BY <1>2, <1>c, <1>d DEF RunValidate, Return
<1>3. ASSUME NEW t \in Threads, NEW n \in DOMAIN nodes, Acquire(t, n) PROVE StreamsInv'
  <2>1. CASE Empty(nodes[n].klass)
    BY <1>3, <1>d, <2>1 DEF Acquire, Return
  <2>2. CASE ~Empty(nodes[n].klass)
    <3>1. /\ nodes' = nodes /\ others' = others /\ cur' = [cur EXCEPT ![t] = n]
          /\ pool' = [pool EXCEPT ![nodes[n].klass] = @ - 1]
      BY <1>3, <2>2 DEF Acquire
    <3>2. \A u \in Threads : cur[u] = NoStage
      BY <1>0, <1>3 DEF Acquire, MutexInv, Executing
    <3>3. \A k \in Classes : /\ ~Occupied(k)
                             /\ Occupied(k)' <=> k = nodes[n].klass
      BY <1>0, <3>1, <3>2 DEF Occupied
    <3>4. \A k \in Classes :
             pool'[k] = IF k = nodes[n].klass THEN pool[k] - 1 ELSE pool[k]
      BY <1>0, <3>1
    <3> QED
      BY <1>0, <3>1, <3>3, <3>4 DEF StreamsInv
  <2> QED
    BY <2>1, <2>2
<1>4. ASSUME NEW t \in Threads, Finish(t) PROVE StreamsInv'
  BY <1>4, <1>d DEF Finish, Return
<1>5. ASSUME NEW t \in Threads, Launch(t) PROVE StreamsInv'
  BY <1>5, <1>c, <1>e DEF Launch, Fail, Return
<1>6. ASSUME NEW t \in Threads, Sync(t) PROVE StreamsInv'
  BY <1>6, <1>e DEF Sync, Fail, Complete, Return
<1>7. ASSUME NEW j \in Classes, OtherAcquires(j) \/ OtherReleases(j) PROVE StreamsInv'
  <2>1. \A k \in Classes : Occupied(k)' <=> Occupied(k)
    BY <1>7 DEF OtherAcquires, OtherReleases, Occupied
  <2>2. \A k \in Classes : pool'[k] + others'[k] = pool[k] + others[k]
    BY <1>0, <1>7 DEF OtherAcquires, OtherReleases
  <2>3. pool' \in [Classes -> Int] /\ others' \in [Classes -> Int]
    BY <1>0, <1>7 DEF OtherAcquires, OtherReleases
  <2> QED
    BY <1>0, <2>1, <2>2, <2>3 DEF StreamsInv
<1>8. CASE UNCHANGED vars
  BY <1>8, <1>c DEF vars
<1> QED
  BY <1>b, <1>1, <1>2, <1>3, <1>4, <1>5, <1>6, <1>7, <1>8 DEF Next, Step

-----------------------------------------------------------------------------
(* IInv holds throughout: the mutex of run, the Running stage and the      *)
(* order of the launches, under any interleaving of add_stage, validate    *)
(* and run.                                                                *)
THEOREM Invariance == Spec => []IInv
<1>1. IInv /\ [Next]_vars => IInv'
  BY NextTypeOK, NextMutexInv, NextRunningIsLocked, NextDependenciesFirst DEF IInv
<1> QED
  BY <1>1, InitIInv, PTL DEF Spec

(* The graph's variables keep their types, the free streams of the pool    *)
(* never drop below zero.                                                  *)
THEOREM TypeCorrect == Spec => []TypeOK
<1>1. IInv => TypeOK
  BY DEF IInv
<1> QED
  BY <1>1, Invariance, PTL

(* run launches a stage only after every stage it depends on has           *)
(* completed, and none of those is ever taken back.                        *)
THEOREM LaunchesInOrder == Spec => []DependenciesFirst
<1>1. IInv => DependenciesFirst
  BY DEF IInv
<1> QED
  BY <1>1, Invariance, PTL

(* The Running stage is the one the holder of mtx_ is on.                  *)
THEOREM RunsAlone == Spec => []RunningIsLocked
<1>1. IInv => RunningIsLocked
  BY DEF IInv
<1> QED
  BY <1>1, Invariance, PTL

(* run launches each stage at most once in the life of the graph, however  *)
(* often and from however many threads it is called.                       *)
THEOREM LaunchesOnce == Spec => LaunchedOnce
<1>1. IInv /\ [Next]_vars =>
        [\A n \in DOMAIN nodes :
           /\ n \in DOMAIN nodes' /\ nodes'[n] = nodes[n]
           /\ state'[n] # state[n] =>
                 \/ state[n] = "Pending" /\ state'[n] = "Running"
                 \/ state[n] = "Running" /\ state'[n] \in {"Completed", "Failed"}]_vars
  BY NextLaunchedOnce
<1> QED
  BY <1>1, Invariance, PTL DEF Spec, LaunchedOnce

(* No stream is lost or handed out twice, whatever other users of the pool *)
(* do between the steps of a run and however its stages end.               *)
THEOREM ConservesStreams == Spec => []StreamsConserved
<1>1. Init => StreamsInv
  BY TaskGraphAssumption DEF Init, StreamsInv, Occupied
<1>2. IInv /\ StreamsInv /\ [Next]_vars => StreamsInv'
  BY NextStreamsInv
<1> QED
  BY <1>1, <1>2, Invariance, UsingIsOne, PTL DEF Spec

-----------------------------------------------------------------------------
(* Induction, in the form the provers can use: a set of natural numbers    *)
(* has a least element.                                                    *)
LEMMA LeastNat ==
  ASSUME NEW T, T \subseteq Nat, T # {}
  PROVE  \E x \in T : \A y \in T : x <= y
<1>1. PICK x \in T : \A y \in T : <<y, x>> \notin OpToRel(<, Nat)
  BY NatLessThanWellFounded, WFMin
<1>2. \A y \in T : ~(y < x)
  BY <1>1 DEF OpToRel
<1> QED
  BY <1>2

LEMMA Upwards ==
  ASSUME NEW N \in Nat, NEW P, 0 \in P, \A i \in 1 .. N : i - 1 \in P => i \in P
  PROVE  0 .. N \subseteq P
<1> DEFINE Bad == {i \in 0 .. N : i \notin P}
<1>1. SUFFICES ASSUME Bad # {} PROVE FALSE
  OBVIOUS
<1>2. Bad \subseteq Nat
  OBVIOUS
<1>3. PICK i \in Bad : \A j \in Bad : i <= j
  <2> HIDE DEF Bad
  <2> QED
    BY <1>1, <1>2, LeastNat
<1>4. i \in 1 .. N /\ i - 1 \in 0 .. N /\ ~(i <= i - 1)
  BY <1>3
<1>5. i - 1 \in P
  BY <1>3, <1>4
<1> QED
  BY <1>3, <1>4, <1>5

Iterates(f, z, G, N) == f[0] = z /\ \A i \in 1 .. N : f[i] = G[f[i - 1]]

(* A function can be iterated any number of times.                         *)
LEMMA Iterated ==
  ASSUME NEW S, NEW z \in S, NEW G \in [S -> S], NEW N \in Nat
  PROVE  \E f \in [0 .. N -> S] : Iterates(f, z, G, N)
<1> USE DEF Iterates
<1> DEFINE Bad == {n \in Nat : ~ \E f \in [0 .. n -> S] : Iterates(f, z, G, n)}
<1>1. SUFFICES ASSUME Bad # {} PROVE FALSE
  OBVIOUS
<1>2. PICK m \in Bad : \A n \in Bad : m <= n
  BY <1>1, LeastNat
<1>3. m # 0
  <2>1. Iterates([i \in 0 .. 0 |-> z], z, G, 0)
    OBVIOUS
  <2> QED
    BY <1>2, <2>1
<1>4. m - 1 \in Nat /\ m - 1 \notin Bad
  <2>1. m \in Nat
    BY <1>2
  <2> HIDE DEF Bad
  <2> QED
    BY <1>2, <1>3, <2>1
<1>5. PICK f \in [0 .. m - 1 -> S] : Iterates(f, z, G, m - 1)
  BY <1>4
<1>6. f[m - 1] \in S
  BY <1>4
<1> DEFINE g == [i \in 0 .. m |-> IF i = m THEN G[f[m - 1]] ELSE f[i]]
<1>7. g \in [0 .. m -> S]
  BY <1>2, <1>4, <1>6
<1>8. Iterates(g, z, G, m)
  BY <1>2, <1>3, <1>5
<1> QED
  BY <1>2, <1>7, <1>8

(* The rounds of the traversal are what their recursive definition says.   *)
LEMMA RoundsAre ==
  /\ Cardinality(Names) \in Nat
  /\ Rounds[0] = {}
  /\ \A i \in 1 .. Cardinality(Names) :
        Rounds[i] = {n \in DOMAIN nodes : Unblocked(n, Rounds[i - 1])}
<1> DEFINE N == Cardinality(Names)
           D == DOMAIN nodes
           Is(f) == f = [i \in 0 .. N |-> IF i = 0 THEN {} ELSE {n \in D : Unblocked(n, f[i - 1])}]
           G == [V \in SUBSET D |-> {n \in D : Unblocked(n, V)}]
<1>1. N \in Nat
  BY TaskGraphAssumption, FS_CardinalityType
<1> HIDE DEF N, D
<1>2. PICK f \in [0 .. N -> SUBSET D] : Iterates(f, {}, G, N)
  <2> DEFINE S == SUBSET D
  <2>1. G \in [S -> S] /\ {} \in S
    OBVIOUS
  <2> HIDE DEF G, S
  <2>2. \E f \in [0 .. N -> S] : Iterates(f, {}, G, N)
    BY <1>1, <2>1, Iterated
  <2> QED
    BY <2>2 DEF S
<1>3. Is(f)
  <2>1. \A i \in 0 .. N : i # 0 => i \in 1 .. N /\ i - 1 \in 0 .. N
    BY <1>1
  <2>2. \A i \in 1 .. N : f[i - 1] \in SUBSET D
    BY <1>1
  <2>3. \A i \in 1 .. N : f[i] = {n \in D : Unblocked(n, f[i - 1])}
    BY <1>2, <2>2 DEF Iterates
  <2>4. \A i \in 0 .. N : f[i] = IF i = 0 THEN {} ELSE {n \in D : Unblocked(n, f[i - 1])}
    BY <1>2, <2>1, <2>3 DEF Iterates
  <2> QED
    BY <2>4
<1>4. Rounds = CHOOSE g : Is(g)
  BY DEF Rounds, N, D
<1> HIDE DEF Is
<1>5. Is(Rounds)
  BY <1>3, <1>4, Zenon
<1>6. \A i \in 0 .. N : Rounds[i] = IF i = 0 THEN {} ELSE {n \in D : Unblocked(n, Rounds[i - 1])}
  BY <1>5, Zenon DEF Is
<1>7. 0 \in 0 .. N /\ \A i \in 1 .. N : i \in 0 .. N /\ i # 0
  BY <1>1
<1>8. Rounds[0] = {} /\ \A i \in 1 .. N : Rounds[i] = {n \in D : Unblocked(n, Rounds[i - 1])}
  BY <1>6, <1>7, Zenon
<1> QED
  BY <1>1, <1>8 DEF N, D

(* A stage is unblocked only when all it lists has been visited, and then  *)
(* for sure if it lists nothing twice.                                     *)
LEMMA UnblockedMeans ==
  ASSUME TypeOK, NEW n \in DOMAIN nodes, NEW V
  PROVE  /\ Unblocked(n, V) => Listed(n) \subseteq V
         /\ Cardinality(Listed(n)) = Len(nodes[n].depends_on) =>
               (Listed(n) \subseteq V => Unblocked(n, V))
<1> DEFINE s == nodes[n].depends_on
<1>1. s \in Seq(Names) /\ Len(s) \in Nat /\ DOMAIN s = 1 .. Len(s)
  BY TaskGraphAssumption DEF TypeOK, ContractType
<1>2. Listed(n) \subseteq Names
  BY <1>1 DEF Listed
<1>3. IsFiniteSet(Listed(n)) /\ Cardinality(Listed(n)) \in Nat
  BY <1>2, TaskGraphAssumption, FS_Subset, FS_CardinalityType
<1>4. Cardinality(Listed(n)) <= Len(s)
  <2>1. s \in Surjection(1 .. Len(s), Listed(n))
    BY <1>1 DEF Listed, Surjection
  <2>2. ExistsSurjection(1 .. Len(s), Listed(n))
    BY <2>1 DEF ExistsSurjection
  <2> QED
    BY <1>1, <2>2, FS_SurjCardinalityBound
<1>5. ASSUME Unblocked(n, V) PROVE Listed(n) \subseteq V
  <2> DEFINE W == Listed(n) \cap V
  <2>1. IsFiniteSet(W) /\ Cardinality(W) <= Cardinality(Listed(n)) /\ Cardinality(W) \in Nat
    BY <1>3, FS_Intersection, FS_CardinalityType
  <2>2. Cardinality(W) = Len(s)
    BY <1>5 DEF Unblocked
  <2>3. Cardinality(Listed(n)) = Cardinality(W)
    BY <1>1, <1>3, <1>4, <2>1, <2>2
  <2>4. W \in SUBSET Listed(n)
    OBVIOUS
  <2>5. Listed(n) = W
    BY <1>3, <2>3, <2>4, FS_Subset
  <2> QED
    BY <2>5
<1>6. ASSUME Cardinality(Listed(n)) = Len(s), Listed(n) \subseteq V PROVE Unblocked(n, V)
  <2>1. Listed(n) \cap V = Listed(n)
    BY <1>6
  <2> QED
    BY <1>6, <2>1 DEF Unblocked
<1> QED
  BY <1>5, <1>6

(* A traversal that visits every stage proves that there is no cycle: of   *)
(* any set of stages, one that is visited first depends on no other.       *)
LEMMA VisitedIsAcyclic == ASSUME TypeOK, Visited = DOMAIN nodes PROVE Acyclic
<1> DEFINE N == Cardinality(Names)
<1> SUFFICES ASSUME NEW S \in SUBSET DOMAIN nodes, S # {}
             PROVE  \E n \in S : Listed(n) \cap S = {}
  BY DEF Acyclic
<1>1. /\ N \in Nat /\ Rounds[0] = {}
      /\ \A i \in 1 .. N : Rounds[i] = {n \in DOMAIN nodes : Unblocked(n, Rounds[i - 1])}
  BY RoundsAre
<1> HIDE DEF N
<1> DEFINE T == {i \in 0 .. N : Rounds[i] \cap S # {}}
<1>2. N \in T
  BY <1>1 DEF Visited, N
<1>3. PICK i \in T : \A j \in T : i <= j
  <2>1. T \subseteq Nat /\ T # {}
    BY <1>1, <1>2
  <2> HIDE DEF T
  <2> QED
    BY <2>1, LeastNat
<1>4. i \in 1 .. N /\ i - 1 \in 0 .. N /\ i - 1 \notin T
  <2>1. i \in 0 .. N /\ i # 0
    BY <1>1, <1>3
  <2>2. ~(i <= i - 1)
    BY <1>1, <2>1
  <2> HIDE DEF T
  <2> QED
    BY <1>1, <1>3, <2>1, <2>2
<1>5. PICK n \in S : n \in Rounds[i]
  BY <1>3
<1>6. n \in DOMAIN nodes /\ Unblocked(n, Rounds[i - 1])
  BY <1>1, <1>4, <1>5
<1>7. Listed(n) \subseteq Rounds[i - 1]
  BY <1>6, UnblockedMeans
<1>8. Rounds[i - 1] \cap S = {}
  BY <1>4
<1> QED
  BY <1>7, <1>8

(* Where there is no cycle and nothing is listed twice, each round visits  *)
(* one more stage at least, until all are visited.                         *)
LEMMA AcyclicIsVisited ==
  ASSUME TypeOK, DependenciesExist, ListedOnce, Acyclic
  PROVE  Visited = DOMAIN nodes
<1> DEFINE N == Cardinality(Names)
           D == DOMAIN nodes
<1>1. /\ N \in Nat /\ Rounds[0] = {}
      /\ \A i \in 1 .. N : Rounds[i] = {n \in D : Unblocked(n, Rounds[i - 1])}
  BY RoundsAre
<1>2. \A n \in D : \A V : Unblocked(n, V) <=> Listed(n) \subseteq V
  BY UnblockedMeans DEF ListedOnce
<1>3. D \subseteq Names /\ IsFiniteSet(Names) /\ IsFiniteSet(D)
  BY TaskGraphAssumption, FS_Subset DEF TypeOK
<1>4. \A n \in D : Listed(n) \subseteq D
  BY DEF DependenciesExist
<1>5. \A S \in SUBSET D : S # {} => \E n \in S : Listed(n) \cap S = {}
  BY DEF Acyclic
<1>6. Visited = Rounds[N]
  BY DEF Visited
<1> HIDE DEF N, D
<1>7. \A i \in 1 .. N : Rounds[i] = {n \in D : Listed(n) \subseteq Rounds[i - 1]}
  BY <1>1, <1>2
<1>8. \A i \in 0 .. N : Rounds[i] \subseteq D
  BY <1>1, <1>7
<1>9. \A i \in 1 .. N : Rounds[i - 1] \subseteq Rounds[i]
  <2> DEFINE P == {i \in 0 .. N : i = 0 \/ Rounds[i - 1] \subseteq Rounds[i]}
  <2>1. 0 \in P
    BY <1>1
  <2>2. ASSUME NEW i \in 1 .. N, i - 1 \in P PROVE i \in P
    <3>1. CASE i = 1
      BY <1>1, <3>1
    <3>2. CASE i # 1
      <4>1. i - 1 \in 1 .. N /\ (i - 1) - 1 \in 0 .. N
        BY <1>1, <3>2
      <4>2. Rounds[(i - 1) - 1] \subseteq Rounds[i - 1]
        BY <2>2, <4>1
      <4>3. /\ Rounds[i] = {n \in D : Listed(n) \subseteq Rounds[i - 1]}
            /\ Rounds[i - 1] = {n \in D : Listed(n) \subseteq Rounds[(i - 1) - 1]}
        BY <1>7, <4>1
      <4> QED
        BY <1>1, <4>2, <4>3
    <3> QED
      BY <3>1, <3>2
  <2>3. 0 .. N \subseteq P
    <3> HIDE DEF P
    <3> QED
      BY <1>1, <2>1, <2>2, Upwards
  <2> QED
    BY <1>1, <2>3
<1>10. \A i \in 0 .. N : IsFiniteSet(Rounds[i]) /\ Cardinality(Rounds[i]) \in Nat
  BY <1>3, <1>8, FS_Subset, FS_CardinalityType
<1>11. \A i \in 0 .. N : Rounds[i] = D \/ Cardinality(Rounds[i]) >= i
  <2> DEFINE P == {i \in 0 .. N : Rounds[i] = D \/ Cardinality(Rounds[i]) >= i}
  <2>1. 0 \in P
    BY <1>1, <1>10
  <2>2. ASSUME NEW i \in 1 .. N, i - 1 \in P PROVE i \in P
    <3>1. i \in 0 .. N /\ i - 1 \in 0 .. N /\ i \in Nat
      BY <1>1
    <3>2. CASE Rounds[i - 1] = D
      BY <1>8, <1>9, <3>1, <3>2
    <3>3. CASE Rounds[i - 1] # D
      <4>1. PICK n \in D \ Rounds[i - 1] : Listed(n) \cap (D \ Rounds[i - 1]) = {}
        BY <1>5, <1>8, <3>1, <3>3
      <4>2. Listed(n) \subseteq Rounds[i - 1]
        BY <1>4, <4>1
      <4>3. n \in Rounds[i]
        BY <1>7, <4>1, <4>2
      <4> DEFINE R == Rounds[i - 1]
      <4>4. Cardinality(R \cup {n}) = Cardinality(R) + 1 /\ IsFiniteSet(R \cup {n})
        BY <1>10, <3>1, <4>1, FS_AddElement
      <4>5. R \cup {n} \in SUBSET Rounds[i]
        BY <1>9, <4>3
      <4>6. Cardinality(R \cup {n}) <= Cardinality(Rounds[i])
        BY <1>10, <3>1, <4>5, FS_Subset
      <4>7. Cardinality(R) >= i - 1
        BY <2>2, <3>3
      <4>8. Cardinality(R) \in Nat /\ Cardinality(Rounds[i]) \in Nat
        BY <1>10, <3>1
      <4>9. Cardinality(Rounds[i]) >= i
        <5> HIDE DEF R
        <5> QED
          BY <3>1, <4>4, <4>6, <4>7, <4>8
      <4> QED
        BY <3>1, <4>9
    <3> QED
      BY <3>2, <3>3
  <2>3. 0 .. N \subseteq P
    <3> HIDE DEF P
    <3> QED
      BY <1>1, <2>1, <2>2, Upwards
  <2> QED
    BY <2>3
<1>12. CASE Rounds[N] = D
  BY <1>6, <1>12 DEF D
<1>13. CASE Rounds[N] # D
  <2>1. N \in 0 .. N
    BY <1>1
  <2>2. Cardinality(Rounds[N]) >= N /\ Rounds[N] \subseteq D
    BY <1>8, <1>11, <1>13, <2>1
  <2>3. Rounds[N] \in SUBSET Names
    BY <1>3, <2>2
  <2>4. Cardinality(Rounds[N]) <= N /\ Cardinality(Rounds[N]) \in Nat
    BY <1>3, <1>10, <2>1, <2>3, FS_Subset DEF N
  <2>5. Cardinality(Rounds[N]) = N
    BY <1>1, <2>2, <2>4
  <2>6. Rounds[N] = Names
    BY <1>3, <2>3, <2>5, FS_Subset DEF N
  <2> QED
    BY <1>3, <1>13, <2>2, <2>6
<1> QED
  BY <1>12, <1>13

(* validate accepts only graphs whose dependencies exist and which have no *)
(* cycle.                                                                  *)
LEMMA OkIsAcyclic ==
  ASSUME TypeOK, ValidateStatus = "Ok"
  PROVE  /\ DependenciesExist /\ Acyclic
         /\ \A n \in DOMAIN nodes : nodes[n].sm_fits
<1>1. DependenciesExist /\ Visited = DOMAIN nodes /\ \A n \in DOMAIN nodes : nodes[n].sm_fits
  BY DEF ValidateStatus
<1> QED
  BY <1>1, VisitedIsAcyclic

(* A run that finds nothing ready has nothing left but what depends on a   *)
(* failed stage: of the Pending ones, one depends on no other.             *)
LEMMA FinishCompletes ==
  ASSUME IInv, NEW t \in Threads, Finish(t), ValidateStatus = "Ok",
         \A n \in DOMAIN nodes : state[n] # "Failed"
  PROVE  \A n \in DOMAIN nodes : state[n] = "Completed"
<1> DEFINE S == {n \in DOMAIN nodes : state[n] = "Pending"}
<1>1. /\ state \in [DOMAIN nodes -> States] /\ MutexInv /\ RunningIsLocked /\ TypeOK
      /\ DOMAIN nodes \subseteq Names /\ NoStage \notin Names
  BY TaskGraphAssumption DEF IInv, TypeOK
<1>2. DependenciesExist /\ Acyclic
  BY <1>1, OkIsAcyclic
<1>3. lock = t /\ cur[t] = NoStage
  BY <1>1 DEF Finish, MutexInv, Executing
<1>4. \A n \in DOMAIN nodes : state[n] # "Running"
  BY <1>1, <1>3 DEF RunningIsLocked
<1>5. \A n \in DOMAIN nodes : state[n] \in {"Pending", "Completed"}
  BY <1>1, <1>4 DEF States
<1>6. CASE S = {}
  BY <1>5, <1>6
<1>7. CASE S # {}
  <2>1. PICK n \in S : Listed(n) \cap S = {}
    BY <1>2, <1>7 DEF Acyclic
  <2>2. \A d \in Listed(n) : d \in DOMAIN nodes /\ state[d] = "Completed"
    BY <1>2, <1>5, <2>1 DEF DependenciesExist
  <2>3. ReadyToRun(n)
    BY <2>1, <2>2 DEF ReadyToRun
  <2> QED
    BY <2>1, <2>3 DEF Finish, NoneReady
<1> QED
  BY <1>6, <1>7

(* On such a graph, only Finish returns Ok.                                *)
LEMMA OkIsFinish ==
  ASSUME IInv, NEW t \in Threads, [Next]_vars, Returns(t, "Ok"), ValidateStatus = "Ok"
  PROVE  Finish(t)
<1> USE DEF Returns
<1>1. pc \in [Threads -> {"idle", "validate", "lock", "pick", "launch", "sync"}]
      /\ result \in [Threads -> Statuses]
  BY DEF IInv, TypeOK
<1>2. CASE \E u \in Threads, n \in Names, c \in Contracts : AddStage(u, n, c)
  BY <1>2 DEF AddStage
<1>3. CASE \E u \in Threads : Validate(u)
  BY <1>3 DEF Validate
<1>4. CASE \E u \in Threads : Run(u) \/ RunLock(u)
  BY <1>1, <1>4 DEF Run, RunLock, Goto
<1>5. CASE \E u \in Threads : RunValidate(u)
  BY <1>1, <1>5 DEF RunValidate, Goto
<1>6. CASE \E u \in Threads, n \in DOMAIN nodes : Acquire(u, n)
  <2>1. PICK u \in Threads, n \in DOMAIN nodes : Acquire(u, n)
    BY <1>6
  <2>2. CASE Empty(nodes[n].klass)
    BY <1>1, <2>1, <2>2 DEF Acquire, Return
  <2>3. CASE ~Empty(nodes[n].klass)
    BY <1>1, <2>1, <2>3 DEF Acquire, Goto
  <2> QED
    BY <2>2, <2>3
<1>7. CASE \E u \in Threads : Launch(u) \/ Sync(u)
  BY <1>1, <1>7 DEF Launch, Sync, Complete, Fail, Return, Goto
<1>8. CASE \E u \in Threads : Finish(u)
  BY <1>1, <1>8 DEF Finish, Return
<1>9. CASE \E k \in Classes : OtherAcquires(k) \/ OtherReleases(k)
  BY <1>9 DEF OtherAcquires, OtherReleases
<1>10. CASE UNCHANGED vars
  BY <1>10 DEF vars
<1> QED
  BY <1>2, <1>3, <1>4, <1>5, <1>6, <1>7, <1>8, <1>9, <1>10 DEF Next, Step

(* validate accepts no graph with a cycle, and every graph without one     *)
(* whose dependencies exist and are listed once, of any size.              *)
THEOREM FindsCycles == Spec => []KahnFindsCycles
<1>1. IInv => KahnFindsCycles
  BY VisitedIsAcyclic, AcyclicIsVisited DEF KahnFindsCycles, IInv
<1> QED
  BY <1>1, Invariance, PTL

(* On a graph that validate accepts, a run that returns Ok has left no     *)
(* stage behind unless one has failed.                                     *)
THEOREM OkCompletes == Spec => OkCompletesValidGraph
<1>1. IInv /\ [Next]_vars =>
        [\A t \in Threads :
           (Returns(t, "Ok") /\ ValidateStatus = "Ok"
              /\ \A n \in DOMAIN nodes : state[n] # "Failed")
             => \A n \in DOMAIN nodes : state[n] = "Completed"]_vars
  BY OkIsFinish, FinishCompletes
<1> QED
  BY <1>1, Invariance, PTL DEF Spec, OkCompletesValidGraph

-----------------------------------------------------------------------------
(* Pipeline.  The names of the stages tell how far a build is: the thread  *)
(* that added the first is the only one that can add the next, and by the  *)
(* time it sets built_ all four are there.                                 *)
Building(t) == at[t] \in {"train", "infer", "postprocess", "validate", "built"}

BuildInv ==
    \A t \in Threads :
        /\ at[t] = "train" => DOMAIN nodes = {"preprocess"}
        /\ at[t] = "infer" => DOMAIN nodes = {"preprocess", "train"}
        /\ at[t] = "postprocess" => DOMAIN nodes = {"preprocess", "train", "infer"}
        /\ at[t] \in {"validate", "built"} => DOMAIN nodes = Names
        /\ at[t] = "built" => validated /\ ValidateStatus = "Ok"
        /\ at[t] \in {"dry", "run", "graph"} => built
        /\ at[t] = "graph" <=> pc[t] # "idle"

BuiltInv ==
    built => /\ DOMAIN nodes = Names /\ validated /\ ValidateStatus = "Ok"
             /\ \A t \in Threads : ~Building(t)

StagesInv ==
    /\ "preprocess" \notin DOMAIN nodes => DOMAIN nodes = {} /\ \A t \in Threads : ~Building(t)
    /\ \A n \in DOMAIN nodes : nodes[n] = Stage(n, smem)
    /\ \A n \in DOMAIN nodes : state[n] # "Pending" => built

(* OneBuilder, with the stages by name.                                    *)
BuildsAlone == \A t, u \in Threads : Building(t) /\ Building(u) => t = u

PInv == PTypeOK /\ BuildsAlone /\ BuildInv /\ BuiltInv /\ StagesInv

(* What a validate of the same graph answers does not depend on who asks.  *)
LEMMA SameStatus == ASSUME nodes' = nodes PROVE ValidateStatus' = ValidateStatus
BY DEF ValidateStatus, Visited, Rounds, Unblocked, Listed, DependenciesExist

LEMMA OrderIs ==
  /\ Len(Order) = 4 /\ Adding = 1 .. 4 /\ DOMAIN Order = 1 .. 4
  /\ Order[1] = "preprocess" /\ Order[2] = "train"
  /\ Order[3] = "infer" /\ Order[4] = "postprocess"
  /\ Names = {"preprocess", "train", "infer", "postprocess"}
<1>1. /\ Len(Order) = 4 /\ Adding = 1 .. 4 /\ DOMAIN Order = 1 .. 4
      /\ Order[1] = "preprocess" /\ Order[2] = "train"
      /\ Order[3] = "infer" /\ Order[4] = "postprocess"
  BY DEF Order, Adding
<1> HIDE DEF Order, Adding
<1> QED
  BY <1>1, PipelineAssumption

LEMMA FollowingIs ==
  /\ Following("preprocess") = "train" /\ Following("train") = "infer"
  /\ Following("infer") = "postprocess" /\ Following("postprocess") = "validate"
<1>1. ASSUME NEW i \in 1 .. 4
      PROVE  Following(Order[i]) = IF i = 4 THEN "validate" ELSE Order[i + 1]
  <2>1. \A j \in Adding : Order[j] = Order[i] <=> j = i
    BY OrderIs
  <2>2. (CHOOSE j \in Adding : Order[j] = Order[i]) = i
    BY <2>1, OrderIs
  <2> QED
    BY <2>2, OrderIs DEF Following
<1> QED
  BY <1>1, OrderIs

(* Every step of the pipeline is a step of its graph, or leaves it alone.  *)
LEMMA StepIsGraphStep == smem \in SmemSizes /\ [PNext]_pvars => [Next]_vars
<1> SUFFICES ASSUME smem \in SmemSizes, [PNext]_pvars PROVE [Next]_vars
  OBVIOUS
<1>1. CASE \E t \in Threads : Call(t) \/ SetBuilt(t) \/ DryReturn(t)
  BY <1>1 DEF Call, SetBuilt, DryReturn
<1>2. ASSUME NEW t \in Threads, NEW n \in Names, BuildStage(t, n) PROVE [Next]_vars
  <2>1. Stage(n, smem) \in Contracts
    BY PipelineAssumption
  <2> QED
    BY <1>2, <2>1 DEF BuildStage, Next
<1>3. CASE \E t \in Threads : BuildValidate(t)
  BY <1>3 DEF BuildValidate, Next
<1>4. CASE \E t \in Threads : RunGraph(t)
  BY <1>4 DEF RunGraph, Next
<1>5. CASE \E t \in Threads : GraphStep(t)
  BY <1>5 DEF GraphStep, Next
<1>6. CASE \E k \in Classes : OtherAcquires(k) \/ OtherReleases(k)
  BY <1>6 DEF Next
<1>7. CASE UNCHANGED pvars
  BY <1>7 DEF pvars
<1> QED
  BY <1>1, <1>2, <1>3, <1>4, <1>5, <1>6, <1>7 DEF PNext, PStep

LEMMA InitPInv == PInit => PInv
<1> SUFFICES ASSUME PInit PROVE PInv
  OBVIOUS
<1>1. TypeOK
  BY InitIInv DEF PInit, IInv
<1>2. DOMAIN nodes = {}
  BY DEF PInit, Init, EmptyMap
<1>3. \A t \in Threads : at[t] = "out" /\ pc[t] = "idle"
  BY DEF PInit, Init
<1>4. PTypeOK
  BY <1>1 DEF PTypeOK, PInit, Statuses
<1>5. \A t \in Threads : ~Building(t)
  BY <1>3 DEF Building
<1> QED
  BY <1>2, <1>3, <1>4, <1>5, OrderIs
  DEF PInv, PInit, BuildsAlone, Building, BuildInv, BuiltInv, StagesInv

(* A step of a run moves no other thread and does not change the graph.    *)
LEMMA StepLocal ==
  ASSUME TypeOK, NEW t \in Threads, Step(t)
  PROVE  /\ nodes' = nodes /\ (validated => validated')
         /\ \A u \in Threads : u # t => pc'[u] = pc[u]
<1>1. pc \in [Threads -> {"idle", "validate", "lock", "pick", "launch", "sync"}]
  BY DEF TypeOK
<1>2. CASE RunValidate(t)
  BY <1>1, <1>2 DEF RunValidate, Goto, Return
<1>3. CASE RunLock(t)
  BY <1>1, <1>3 DEF RunLock, Goto
<1>4. CASE \E n \in DOMAIN nodes : Acquire(t, n)
  <2>1. PICK n \in DOMAIN nodes : Acquire(t, n)
    BY <1>4
  <2>2. CASE Empty(nodes[n].klass)
    BY <1>1, <2>1, <2>2 DEF Acquire, Return
  <2>3. CASE ~Empty(nodes[n].klass)
    BY <1>1, <2>1, <2>3 DEF Acquire, Goto
  <2> QED
    BY <2>2, <2>3
<1>5. CASE Finish(t)
  BY <1>1, <1>5 DEF Finish, Return
<1>6. CASE Launch(t) \/ Sync(t)
  BY <1>1, <1>6 DEF Launch, Sync, Complete, Fail, Return, Goto
<1> QED
  BY <1>2, <1>3, <1>4, <1>5, <1>6 DEF Step

(* The places of run and build.                                            *)
Places == {"out", "validate", "built", "dry", "run", "graph",
           "preprocess", "train", "infer", "postprocess"}

LEMMA PlacesAre ==
  /\ {"out", "validate", "built", "dry", "run", "graph"} \cup {Order[i] : i \in Adding} = Places
  /\ \A t : Building(t) <=>
        at[t] \in {Order[i] : i \in 2 .. Len(Order)} \cup {"validate", "built"}
<1>1. 1 .. 4 = {1, 2, 3, 4} /\ 2 .. 4 = {2, 3, 4}
  OBVIOUS
<1>2. /\ {Order[i] : i \in {1, 2, 3, 4}} = {"preprocess", "train", "infer", "postprocess"}
      /\ {Order[i] : i \in {2, 3, 4}} = {"train", "infer", "postprocess"}
  BY OrderIs
<1> QED
  BY <1>1, <1>2, OrderIs DEF Places, Building

(* The next stage of a build whose last stage is n.                        *)
Next4(n) == CASE n = "preprocess" -> "train" [] n = "train" -> "infer"
              [] n = "infer" -> "postprocess" [] n = "postprocess" -> "validate"

LEMMA NextPInv ==
  ASSUME IInv, PInv, [PNext]_pvars
  PROVE  PInv'
<1>1. /\ TypeOK /\ smem \in SmemSizes /\ dry \in BOOLEAN /\ built \in BOOLEAN
      /\ at \in [Threads -> Places] /\ answer \in [Threads -> Statuses]
      /\ pc \in [Threads -> {"idle", "validate", "lock", "pick", "launch", "sync"}]
      /\ result \in [Threads -> Statuses]
      /\ state \in [DOMAIN nodes -> States]
  BY PlacesAre DEF PInv, PTypeOK, TypeOK
<1>2. TypeOK'
  BY <1>1, StepIsGraphStep, NextTypeOK
<1>3. /\ BuildsAlone /\ BuildInv /\ BuiltInv /\ StagesInv
  BY DEF PInv
<1>4. {"out", "validate", "built", "dry", "run", "graph"} \cup {Order[i] : i \in Adding} = Places
      /\ Names = {"preprocess", "train", "infer", "postprocess"}
      /\ Order[1] = "preprocess" /\ Order[1] \in Places
  BY PlacesAre, OrderIs DEF Places
<1>5. ASSUME smem' \in SmemSizes, dry' \in BOOLEAN, built' \in BOOLEAN,
             at' \in [Threads -> Places], answer' \in [Threads -> Statuses]
      PROVE  PTypeOK'
  BY <1>2, <1>4, <1>5 DEF PTypeOK
<1>6. ASSUME nodes' = nodes PROVE ValidateStatus' = ValidateStatus
  BY <1>6, SameStatus
<1> USE DEF BuildsAlone, BuildInv, BuiltInv, StagesInv, Building
<1>7. ASSUME NEW t \in Threads, Call(t) PROVE PInv'
  <2>1. /\ at' = [at EXCEPT ![t] = IF built THEN AfterBuild ELSE "preprocess"] /\ at[t] = "out"
        /\ AfterBuild \in {"dry", "run"}
        /\ UNCHANGED <<nodes, state, validated, pc, smem, dry, built, answer>>
    BY <1>4, <1>7 DEF Call, Go, vars, AfterBuild
  <2>2. PTypeOK'
    BY <1>1, <1>5, <2>1 DEF Places
  <2>3. ValidateStatus' = ValidateStatus
    BY <1>6, <2>1
  <2>4. BuildsAlone' /\ StagesInv' /\ BuiltInv'
    BY <1>1, <1>3, <2>1, <2>3
  <2>5. BuildInv'
    BY <1>1, <1>3, <2>1, <2>3
  <2> QED
    BY <2>2, <2>4, <2>5 DEF PInv
<1>8. ASSUME NEW t \in Threads, NEW n \in Names, BuildStage(t, n) PROVE PInv'
  <2>1. CASE lock = NoThread /\ n \in DOMAIN nodes /\ Refused(t, n) /\ UNCHANGED vars
    <3>1. /\ at' = [at EXCEPT ![t] = "out"] /\ at[t] = n /\ n \in Places /\ n # "graph"
          /\ answer' = [answer EXCEPT ![t] = "InvalidArgument"]
          /\ UNCHANGED <<nodes, state, validated, pc, smem, dry, built>>
      BY <1>4, <1>8, <2>1 DEF BuildStage, Refused, Answer, vars, Places
    <3>2. PTypeOK'
      BY <1>1, <1>5, <3>1 DEF Places, Statuses
    <3>3. ValidateStatus' = ValidateStatus
      BY <1>6, <3>1
    <3>4. BuildsAlone' /\ StagesInv' /\ BuiltInv'
      BY <1>1, <1>3, <3>1, <3>3
    <3>5. BuildInv'
      BY <1>1, <1>3, <3>1, <3>3
    <3> QED
      BY <3>2, <3>4, <3>5 DEF PInv
  <2>2. CASE AddStage(t, n, Stage(n, smem)) /\ Go(t, n, Following(n)) /\ UNCHANGED answer
    <3>1. /\ at[t] = n /\ at' = [at EXCEPT ![t] = Next4(n)] /\ Next4(n) \in Places /\ n # "graph"
          /\ Next4(n) \in {"train", "infer", "postprocess", "validate"}
          /\ UNCHANGED <<pc, smem, dry, built, answer>>
      BY <1>4, <1>8, <2>2, FollowingIs DEF BuildStage, Go, AddStage, Places, Next4
    <3>2. /\ n \notin DOMAIN nodes /\ DOMAIN nodes' = DOMAIN nodes \cup {n}
          /\ nodes'[n] = Stage(n, smem) /\ state'[n] = "Pending"
          /\ \A m \in DOMAIN nodes : nodes'[m] = nodes[m] /\ state'[m] = state[m]
      BY <1>1, <2>2 DEF AddStage, Put
    <3>3. PTypeOK'
      BY <1>1, <1>5, <3>1
    <3>4. ~built
      BY <1>3, <1>4, <3>2
    <3>5. \A u \in Threads : Building(u) => u = t
      <4>1. CASE n = "preprocess"
        BY <1>3, <3>2, <4>1
      <4>2. CASE n # "preprocess"
        BY <1>3, <1>4, <3>1, <4>2
      <4> QED
        BY <4>1, <4>2
    <3>6. /\ n = "preprocess" => DOMAIN nodes' = {"preprocess"}
          /\ n = "train" => DOMAIN nodes' = {"preprocess", "train"}
          /\ n = "infer" => DOMAIN nodes' = {"preprocess", "train", "infer"}
          /\ n = "postprocess" => DOMAIN nodes' = Names
      BY <1>3, <1>4, <3>1, <3>2
    <3>7. BuildsAlone' /\ BuiltInv'
      BY <1>1, <3>1, <3>4, <3>5
    <3>8. BuildInv'
      BY <1>1, <1>3, <1>4, <3>1, <3>4, <3>5, <3>6 DEF Next4
    <3>9. StagesInv'
      BY <1>3, <1>4, <3>1, <3>2, <3>6
    <3> QED
      BY <3>3, <3>7, <3>8, <3>9 DEF PInv
  <2> QED
    BY <1>8, <2>1, <2>2 DEF BuildStage
<1>9. ASSUME NEW t \in Threads, BuildValidate(t) PROVE PInv'
  <2>1. /\ at[t] = "validate" /\ pc[t] = "idle"
        /\ validated' = (validated \/ ValidateStatus = "Ok")
        /\ UNCHANGED <<nodes, state, pc, smem, dry, built>>
    BY <1>9 DEF BuildValidate, Validate
  <2>2. ValidateStatus' = ValidateStatus /\ ValidateStatus \in Statuses
    BY <1>6, <2>1 DEF ValidateStatus, Statuses
  <2>3. \/ at' = [at EXCEPT ![t] = "built"] /\ answer' = answer /\ ValidateStatus = "Ok"
        \/ at' = [at EXCEPT ![t] = "out"] /\ answer' = [answer EXCEPT ![t] = ValidateStatus]
    BY <1>9 DEF BuildValidate, ValidStatuses, Go, Answer
  <2>4. PTypeOK'
    BY <1>1, <1>5, <2>1, <2>2, <2>3 DEF Places
  <2>5. BuildsAlone' /\ StagesInv' /\ BuiltInv'
    BY <1>1, <1>3, <2>1, <2>2, <2>3
  <2>6. BuildInv'
    BY <1>1, <1>3, <2>1, <2>2, <2>3
  <2> QED
    BY <2>4, <2>5, <2>6 DEF PInv
<1>10. ASSUME NEW t \in Threads, SetBuilt(t) PROVE PInv'
  <2>1. /\ at' = [at EXCEPT ![t] = AfterBuild] /\ at[t] = "built" /\ built' = TRUE
        /\ AfterBuild \in {"dry", "run"}
        /\ UNCHANGED <<nodes, state, validated, pc, smem, dry, answer>>
    BY <1>10 DEF SetBuilt, Go, vars, AfterBuild
  <2>2. PTypeOK'
    BY <1>1, <1>5, <2>1 DEF Places
  <2>3. ValidateStatus' = ValidateStatus
    BY <1>6, <2>1
  <2>4. BuildsAlone' /\ StagesInv' /\ BuiltInv'
    BY <1>1, <1>3, <1>4, <2>1, <2>3
  <2>5. BuildInv'
    BY <1>1, <1>3, <2>1, <2>3
  <2> QED
    BY <2>2, <2>4, <2>5 DEF PInv
<1>11. ASSUME NEW t \in Threads, DryReturn(t) PROVE PInv'
  <2>1. /\ at' = [at EXCEPT ![t] = "out"] /\ at[t] = "dry"
        /\ answer' = [answer EXCEPT ![t] = "Ok"]
        /\ UNCHANGED <<nodes, state, validated, pc, smem, dry, built>>
    BY <1>11 DEF DryReturn, Answer, vars
  <2>2. PTypeOK'
    BY <1>1, <1>5, <2>1 DEF Places, Statuses
  <2>3. ValidateStatus' = ValidateStatus
    BY <1>6, <2>1
  <2>4. BuildsAlone' /\ StagesInv' /\ BuiltInv'
    BY <1>1, <1>3, <2>1, <2>3
  <2>5. BuildInv'
    BY <1>1, <1>3, <2>1, <2>3
  <2> QED
    BY <2>2, <2>4, <2>5 DEF PInv
<1>12. ASSUME NEW t \in Threads, RunGraph(t) PROVE PInv'
  <2>1. /\ at' = [at EXCEPT ![t] = "graph"] /\ at[t] = "run"
        /\ pc'[t] # "idle" /\ \A u \in Threads : u # t => pc'[u] = pc[u]
        /\ UNCHANGED <<nodes, state, validated, smem, dry, built, answer>>
    BY <1>1, <1>12 DEF RunGraph, Go, Run, Goto
  <2>2. PTypeOK'
    BY <1>1, <1>5, <2>1 DEF Places
  <2>3. ValidateStatus' = ValidateStatus
    BY <1>6, <2>1
  <2>4. BuildsAlone' /\ StagesInv' /\ BuiltInv'
    BY <1>1, <1>3, <2>1, <2>3
  <2>5. BuildInv'
    BY <1>1, <1>3, <2>1, <2>3
  <2> QED
    BY <2>2, <2>4, <2>5 DEF PInv
<1>13. ASSUME NEW t \in Threads, GraphStep(t) PROVE PInv'
  <2>1. /\ nodes' = nodes /\ (validated => validated')
        /\ \A u \in Threads : u # t => pc'[u] = pc[u]
    BY <1>1, <1>13, StepLocal DEF GraphStep
  <2>2. /\ at[t] = "graph" /\ UNCHANGED <<smem, dry, built>>
        /\ \/ /\ pc'[t] = "idle" /\ at' = [at EXCEPT ![t] = "out"]
              /\ answer' = [answer EXCEPT ![t] = result'[t]]
           \/ pc'[t] # "idle" /\ at' = at /\ answer' = answer
    BY <1>13 DEF GraphStep, Answer
  <2>3. result' \in [Threads -> Statuses]
    BY <1>2 DEF TypeOK
  <2>4. PTypeOK'
    BY <1>1, <1>5, <2>2, <2>3 DEF Places
  <2>5. ValidateStatus' = ValidateStatus
    BY <1>6, <2>1
  <2>6. built /\ built' /\ DOMAIN nodes = Names /\ validated' /\ ValidateStatus = "Ok"
        /\ \A u \in Threads : ~Building(u)
    BY <1>3, <2>1, <2>2
  <2>7. \A u \in Threads : ~Building(u)'
    BY <1>1, <2>2, <2>6
  <2>8. BuildsAlone' /\ StagesInv' /\ BuiltInv'
    BY <1>3, <1>4, <2>1, <2>2, <2>5, <2>6, <2>7
  <2>9. BuildInv'
    BY <1>1, <1>3, <2>1, <2>2, <2>5, <2>6, <2>7
  <2> QED
    BY <2>4, <2>8, <2>9 DEF PInv
<1>14. ASSUME UNCHANGED <<nodes, state, validated, pc, smem, dry, built, at, answer>> PROVE PInv'
  <2>1. PTypeOK'
    BY <1>1, <1>5, <1>14
  <2>2. ValidateStatus' = ValidateStatus
    BY <1>6, <1>14
  <2>3. BuildsAlone' /\ StagesInv' /\ BuiltInv' /\ BuildInv'
    BY <1>3, <1>14, <2>2
  <2> QED
    BY <2>1, <2>3 DEF PInv
<1>15. CASE /\ \E k \in Classes : OtherAcquires(k) \/ OtherReleases(k)
            /\ UNCHANGED <<smem, dry, built, at, answer>>
  BY <1>14, <1>15 DEF OtherAcquires, OtherReleases
<1>16. CASE UNCHANGED pvars
  BY <1>14, <1>16 DEF pvars, vars
<1> QED
  BY <1>7, <1>8, <1>9, <1>10, <1>11, <1>12, <1>13, <1>15, <1>16 DEF PNext, PStep

PipelineInv == IInv /\ PInv

(* The pipeline's invariant, together with that of the graph it drives.    *)
THEOREM PipelineInvariance == PSpec => []PipelineInv
<1>1. PInit => PipelineInv
  BY InitPInv, InitIInv DEF PInit, PipelineInv
<1>2. PipelineInv /\ [PNext]_pvars => PipelineInv'
  <2> SUFFICES ASSUME PipelineInv, [PNext]_pvars PROVE PipelineInv'
    OBVIOUS
  <2>1. [Next]_vars
    BY StepIsGraphStep DEF PipelineInv, PInv, PTypeOK
  <2>2. IInv'
    BY <2>1, NextTypeOK, NextMutexInv, NextRunningIsLocked, NextDependenciesFirst
    DEF PipelineInv, IInv
  <2> QED
    BY <2>2, NextPInv DEF PipelineInv
<1> QED
  BY <1>1, <1>2, PTL DEF PSpec

(* What Pipeline does to its graph is what TaskGraph allows its clients:   *)
(* whatever is proved of every step of the graph holds in the pipeline.    *)
THEOREM PipelineUsesGraph == PSpec => Init /\ [][Next]_vars
<1>1. PInit => Init
  BY DEF PInit
<1>2. PipelineInv /\ [PNext]_pvars => [Next]_vars
  BY StepIsGraphStep DEF PipelineInv, PInv, PTypeOK
<1> QED
  BY <1>1, <1>2, PipelineInvariance, PTL DEF PSpec

(* run builds without a mutex, from any number of threads at once; who     *)
(* finds built_ set finds all four stages, validated, and no build under   *)
(* way that would add to them.                                             *)
THEOREM FindsItWhole == PSpec => []BuiltIsWhole
<1>1. PipelineInv => BuiltIsWhole
  BY DEF PipelineInv, PInv, BuildInv, BuiltInv, BuiltIsWhole
<1> QED
  BY <1>1, PipelineInvariance, PTL

(* Past its first stage, no build runs beside another.                     *)
THEOREM BuildersAlone == PSpec => []OneBuilder
<1>1. PipelineInv => OneBuilder
  BY PlacesAre DEF PipelineInv, PInv, BuildsAlone, OneBuilder
<1> QED
  BY <1>1, PipelineInvariance, PTL

(* A device that is too small for one stage never runs any, however often  *)
(* run is called: the build fails each time and leaves built_ unset.       *)
THEOREM UnfitStaysPending == PSpec => []UnfitNeverLaunches
<1>1. PipelineInv => UnfitNeverLaunches
  <2> SUFFICES ASSUME PipelineInv, NEW n \in DOMAIN nodes, state[n] # "Pending"
               PROVE  \A m \in Names : ~(Footprint[m] > smem)
    BY DEF UnfitNeverLaunches
  <2>1. TypeOK /\ DOMAIN nodes = Names /\ ValidateStatus = "Ok"
        /\ smem \in SmemSizes /\ \A m \in Names : nodes[m] = Stage(m, smem)
    BY DEF PipelineInv, PInv, PTypeOK, StagesInv, BuiltInv
  <2>2. \A m \in Names : nodes[m].sm_fits
    BY <2>1, OkIsAcyclic
  <2>3. \A m \in Names : Footprint[m] <= smem
    <3>1. \A m \in Names : Stage(m, smem).sm_fits
      BY <2>1, <2>2, Zenon
    <3> QED
      BY <3>1, Zenon DEF Stage
  <2>4. \A m \in {"preprocess", "train", "infer", "postprocess"} : Footprint[m] \in Nat
    BY DEF Footprint
  <2>5. smem \in Nat
    BY <2>1, PipelineAssumption
  <2> QED
    BY <2>3, <2>4, <2>5, OrderIs
<1> QED
  BY <1>1, PipelineInvariance, PTL

(* A call of run that answers Ok has completed all four stages, unless one *)
(* of them has failed for an earlier call.                                 *)
THEOREM OkLeavesNothing == PSpec => RunOkLeavesNothing
<1>1. ASSUME PipelineInv, PNext, NEW t \in Threads,
             at[t] = "graph", at'[t] = "out", answer'[t] = "Ok",
             \A n \in Names : WaitStatus(n) # "Aborted"
      PROVE  \A n \in Names : n \in DOMAIN nodes /\ WaitStatus(n) = "Ok"
  <2>1. /\ IInv /\ [Next]_vars
        /\ at \in [Threads -> Places] /\ answer \in [Threads -> Statuses]
        /\ DOMAIN nodes = Names /\ ValidateStatus = "Ok" /\ pc[t] # "idle"
    BY <1>1, StepIsGraphStep, PlacesAre
    DEF PipelineInv, PInv, PTypeOK, BuildInv, BuiltInv
  <2>2. GraphStep(t)
    <3>1. \A u \in Threads : Call(u) => at[u] = "out" /\ at' = [at EXCEPT ![u] = at'[u]]
      BY <2>1 DEF Call, Go
    <3>2. \A u \in Threads, n \in Names : BuildStage(u, n) => at[u] = n /\ at' = [at EXCEPT ![u] = at'[u]]
      BY <2>1 DEF BuildStage, Go, Refused, Answer
    <3>3. \A u \in Threads : BuildValidate(u) => at[u] = "validate" /\ at' = [at EXCEPT ![u] = at'[u]]
      BY <2>1 DEF BuildValidate, Go, Answer
    <3>4. \A u \in Threads : SetBuilt(u) \/ DryReturn(u) \/ RunGraph(u) =>
             at[u] \in {"built", "dry", "run"} /\ at' = [at EXCEPT ![u] = at'[u]]
      BY <2>1 DEF SetBuilt, DryReturn, RunGraph, Go, Answer
    <3>5. \A u \in Threads : GraphStep(u) => u = t \/ at'[t] = at[t]
      BY <2>1 DEF GraphStep, Answer
    <3>6. "graph" \notin Names
      BY OrderIs
    <3> QED
      BY <1>1, <2>1, <3>1, <3>2, <3>3, <3>4, <3>5, <3>6 DEF PNext, PStep
  <2>3. Returns(t, "Ok")
    BY <1>1, <2>1, <2>2 DEF GraphStep, Answer, Returns
  <2>4. Finish(t)
    BY <2>1, <2>3, OkIsFinish
  <2>5. \A n \in DOMAIN nodes : state[n] # "Failed"
    BY <1>1, <2>1 DEF WaitStatus
  <2>6. \A n \in DOMAIN nodes : state[n] = "Completed"
    BY <2>1, <2>4, <2>5, FinishCompletes
  <2> QED
    BY <2>1, <2>6 DEF WaitStatus
<1>2. PipelineInv /\ [PNext]_pvars =>
        [\A t \in Threads :
           (at[t] = "graph" /\ at'[t] = "out" /\ answer'[t] = "Ok") =>
              (\E n \in Names : WaitStatus(n) = "Aborted")
                \/ \A n \in Names : n \in DOMAIN nodes /\ WaitStatus(n) = "Ok"]_pvars
  BY <1>1
<1> QED
  BY <1>2, PipelineInvariance, PTL DEF PSpec, RunOkLeavesNothing
=============================================================================
