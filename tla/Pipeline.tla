------------------------------ MODULE Pipeline ------------------------------
(***************************************************************************)
(* Pipeline (src/pipeline/orchestrator.cpp) over its TaskGraph: threads    *)
(* call run, which builds the four stages the first time and then runs the *)
(* graph.                                                                  *)
(*                                                                         *)
(* Pipeline has no mutex: built_ is read and written bare, and build is a  *)
(* sequence of add_stage calls that other threads' calls interleave with.  *)
(* Every step of the graph is TaskGraph's.                                 *)
(***************************************************************************)
EXTENDS TaskGraph

CONSTANT SmemSizes  \* smem_per_sm_bytes / 1024 of the devices

(* The stages in the order build adds them.                                *)
Order == <<"preprocess", "train", "infer", "postprocess">>

Upstream == [preprocess |-> << >>, train |-> <<"preprocess">>,
             infer |-> <<"preprocess">>, postprocess |-> <<"infer">>]

Footprint == [preprocess |-> 32, train |-> 128, infer |-> 64, postprocess |-> 16]

(* No module's name has "dma" or "gds" in it.                              *)
Stage(n, smem) ==
    [depends_on |-> Upstream[n], klass |-> "Compute", sm_fits |-> Footprint[n] <= smem]

ASSUME PipelineAssumption ==
    /\ Names = {Order[i] : i \in DOMAIN Order}
    /\ SmemSizes \subseteq Nat
    /\ \A n \in Names, smem \in SmemSizes : Stage(n, smem) \in Contracts

VARIABLES smem,    \* of the device, always the same
          dry,     \* cfg_.dry_run, always the same
          built,   \* built_
          at,      \* per thread: where run or build is
          answer   \* per thread: what its last call returned

pvars == <<vars, smem, dry, built, at, answer>>

(* 1 .. 4: the stage build adds next.                                      *)
Adding == 1 .. Len(Order)

PTypeOK ==
    /\ TypeOK
    /\ smem \in SmemSizes /\ dry \in BOOLEAN /\ built \in BOOLEAN
    /\ at \in [Threads -> {"out", "validate", "built", "dry", "run", "graph"} \cup
                             {Order[i] : i \in Adding}]
    /\ answer \in [Threads -> Statuses]

PInit ==
    /\ Init
    /\ smem \in SmemSizes /\ dry \in BOOLEAN /\ built = FALSE
    /\ at = [t \in Threads |-> "out"]
    /\ answer = [t \in Threads |-> "Ok"]

Go(t, from, to) == at[t] = from /\ at' = [at EXCEPT ![t] = to]

Answer(t, status) ==
    /\ at' = [at EXCEPT ![t] = "out"]
    /\ answer' = [answer EXCEPT ![t] = status]

-----------------------------------------------------------------------------
AfterBuild == IF dry THEN "dry" ELSE "run"

(* Pipeline::run.                                                          *)
Call(t) ==
    /\ runs[t] < MaxRuns
    /\ Go(t, "out", IF built THEN AfterBuild ELSE Order[1])
    /\ UNCHANGED <<vars, smem, dry, built, answer>>

Following(n) ==
    LET i == CHOOSE j \in Adding : Order[j] = n
    IN  IF i = Len(Order) THEN "validate" ELSE Order[i + 1]

Refused(t, n) == Answer(t, "InvalidArgument")

(* Fault: build takes a contract violation for success.                    *)
ValidStatusesAll == {"Ok", "ContractViolation"}

ValidStatuses == {"Ok"}

(* build adds a stage at a time ...                                        *)
BuildStage(t, n) ==
    /\ at[t] = n
    /\ \/ AddStage(t, n, Stage(n, smem)) /\ Go(t, n, Following(n)) /\ UNCHANGED answer
       \/ /\ lock = NoThread /\ n \in DOMAIN nodes
          /\ Refused(t, n)
          /\ UNCHANGED vars
    /\ UNCHANGED <<smem, dry, built>>

(* ... and validates the graph ...                                         *)
BuildValidate(t) ==
    /\ at[t] = "validate"
    /\ Validate(t)
    /\ IF ValidateStatus \in ValidStatuses
       THEN Go(t, "validate", "built") /\ UNCHANGED answer
       ELSE Answer(t, ValidateStatus)
    /\ UNCHANGED <<smem, dry, built>>

(* ... before it sets built_.                                              *)
SetBuilt(t) ==
    /\ Go(t, "built", AfterBuild)
    /\ built' = TRUE
    /\ UNCHANGED <<vars, smem, dry, answer>>

DryReturn(t) ==
    /\ at[t] = "dry"
    /\ Answer(t, "Ok")
    /\ UNCHANGED <<vars, smem, dry, built>>

(* graph_.run().                                                           *)
RunGraph(t) ==
    /\ Go(t, "run", "graph")
    /\ Run(t)
    /\ UNCHANGED <<smem, dry, built, answer>>

GraphStep(t) ==
    /\ at[t] = "graph"
    /\ Step(t)
    /\ IF pc'[t] = "idle" THEN Answer(t, result'[t]) ELSE UNCHANGED <<at, answer>>
    /\ UNCHANGED <<smem, dry, built>>

PStep(t) ==
    \/ \E n \in Names : BuildStage(t, n)
    \/ BuildValidate(t) \/ SetBuilt(t) \/ DryReturn(t) \/ RunGraph(t) \/ GraphStep(t)

PNext ==
    \/ \E t \in Threads : Call(t) \/ PStep(t)
    \/ /\ \E k \in Classes : OtherAcquires(k) \/ OtherReleases(k)
       /\ UNCHANGED <<smem, dry, built, at, answer>>

(* A call under way goes on; a kernel ends, well or badly.                 *)
PFairness == \A t \in Threads : WF_pvars(PStep(t))

PSpec == PInit /\ [][PNext]_pvars /\ PFairness

-----------------------------------------------------------------------------
(* Past its first stage a build is alone: the name that is taken is all    *)
(* that keeps two threads from building at once.                           *)
OneBuilder ==
    \A t, u \in Threads :
        (at[t] \in {Order[i] : i \in 2 .. Len(Order)} \cup {"validate", "built"}
         /\ at[u] \in {Order[i] : i \in 2 .. Len(Order)} \cup {"validate", "built"})
            => t = u

(* Whoever finds built_ set finds the whole graph, validated, with nothing *)
(* more to come.                                                           *)
BuiltIsWhole ==
    (built \/ \E t \in Threads : at[t] = "built") =>
        DOMAIN nodes = Names /\ validated /\ ValidateStatus = "Ok"

(* On a device that one of the stages does not fit, none of them is ever   *)
(* launched, however often and from however many threads run is called.    *)
UnfitNeverLaunches ==
    (\E n \in Names : Footprint[n] > smem) => \A n \in DOMAIN nodes : state[n] = "Pending"

(* TaskGraph::wait, once a stage has been run.                             *)
WaitStatus(n) ==
    CASE state[n] = "Completed" -> "Ok"
      [] state[n] = "Failed" -> "Aborted"
      [] OTHER -> "Timeout"

(* A run that returns Ok has not left a stage out that wait would time out *)
(* on, unless one it depends on has failed.                                *)
RunOkLeavesNothing ==
    [][\A t \in Threads :
         (at[t] = "graph" /\ at'[t] = "out" /\ answer'[t] = "Ok") =>
            (\E n \in Names : WaitStatus(n) = "Aborted")
              \/ \A n \in Names : n \in DOMAIN nodes /\ WaitStatus(n) = "Ok"]_pvars

(* Every call of run returns.                                              *)
CallsReturn == \A t \in Threads : at[t] # "out" ~> at[t] = "out"
=============================================================================
