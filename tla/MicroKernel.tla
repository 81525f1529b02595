----------------------------- MODULE MicroKernel -----------------------------
(***************************************************************************)
(* The stream pool and module table of MicroKernel                         *)
(* (src/firmware/microkernel.cpp) through the life of a context: threads   *)
(* that submit work, one that waits on the barrier, and one that shuts the *)
(* context down, all through the handle registry (src/firmware/context.cpp)*)
(* and the C ABI.                                                          *)
(*                                                                         *)
(* Each call holds a shared_ptr to the context from its lookup to its      *)
(* return: a thread that is not idle has one, and the registry has one     *)
(* while the handle is registered.  The context is destroyed by whoever    *)
(* drops the last.  mtx_ is held within single steps only.                 *)
(***************************************************************************)
EXTENDS Integers, FiniteSets, Sequences

CONSTANTS Threads, NoStream,
          NCompute, NDma,      \* stream pool sizes (BootOptions)
          FillsFunctions,      \* does the platform's load_module fill in
                               \* KernelModule::functions?
          MaxSubmits           \* bound: task_submit calls of each thread

ASSUME MicroKernelAssumption ==
    /\ NCompute \in Nat /\ NDma \in Nat /\ MaxSubmits \in Nat
    /\ FillsFunctions \in BOOLEAN
    /\ NoStream \notin 1 .. NCompute + NDma + 1

Classes == {"Compute", "Dma", "Fence"}

(* spawn_stream_pool numbers the streams in the order it creates them: the *)
(* compute ones, the dma ones and one for fences.  boot runs it before the *)
(* handle is registered.                                                   *)
Streams == 1 .. NCompute + NDma + 1

Klass(s) == IF s <= NCompute THEN "Compute"
            ELSE IF s <= NCompute + NDma THEN "Dma" ELSE "Fence"

Spawned == [k \in Classes |->
              CASE k = "Compute" -> [i \in 1 .. NCompute |-> i]
                [] k = "Dma"     -> [i \in 1 .. NDma |-> NCompute + i]
                [] k = "Fence"   -> <<NCompute + NDma + 1>>]

VARIABLES registered,  \* is the handle in the registry?
          destroyed,   \* has the context's destructor run?
          free,        \* free_compute_, free_dma_, free_fence_
          modules,     \* is the kernel's module in modules_?
          streams,     \* the platform's streams: created, not destroyed
          busy,        \* those with a kernel the GPU has not finished
          pc, mine,    \* per thread: where it is, the stream it acquired
          status,      \* per thread: the status its task_submit will return
          submits      \* per thread: task_submit calls made so far

vars == <<registered, destroyed, free, modules, streams, busy, pc, mine, status, submits>>

SubmitSteps   == {"acquire", "find", "launch", "sync", "release"}
ShutdownSteps == {"drain", "teardown"}

Statuses == {"Ok", "OutOfMemory", "InvalidArgument", "DriverError"}

TypeOK ==
    /\ registered \in BOOLEAN /\ destroyed \in BOOLEAN /\ modules \in BOOLEAN
    /\ \A k \in Classes : \A i \in DOMAIN free[k] : free[k][i] \in Streams
    /\ streams \subseteq Streams /\ busy \subseteq Streams
    /\ pc \in [Threads -> {"idle", "barrier", "drop"} \cup SubmitSteps \cup ShutdownSteps]
    /\ mine \in [Threads -> Streams \cup {NoStream}]
    /\ status \in [Threads -> Statuses]
    /\ submits \in [Threads -> 0 .. MaxSubmits]

Init ==
    /\ registered = TRUE /\ destroyed = FALSE
    /\ free = Spawned
    /\ modules \in BOOLEAN
    /\ streams = Streams /\ busy = {}
    /\ pc = [t \in Threads |-> "idle"]
    /\ mine = [t \in Threads |-> NoStream]
    /\ status = [t \in Threads |-> "Ok"]
    /\ submits = [t \in Threads |-> 0]

Goto(t, from, to) == pc[t] = from /\ pc' = [pc EXCEPT ![t] = to]

FreeStreams == UNION {{free[k][i] : i \in DOMAIN free[k]} : k \in Classes}

-----------------------------------------------------------------------------
(* nexusrt_firmware_task_submit.  With the handle gone it is refused.      *)
Submit(t) ==
    /\ registered /\ submits[t] < MaxSubmits
    /\ Goto(t, "idle", "acquire")
    /\ submits' = [submits EXCEPT ![t] = @ + 1]
    /\ UNCHANGED <<registered, destroyed, free, modules, streams, busy, mine, status>>

(* acquire_stream pops the last free stream of the class.  There is none   *)
(* when the class is Control or its list is empty: OutOfMemory.            *)
Acquire(t, k) ==
    /\ IF k = "Control" \/ free[k] = << >>
       THEN /\ Goto(t, "acquire", "drop")
            /\ status' = [status EXCEPT ![t] = "OutOfMemory"]
            /\ UNCHANGED <<free, mine>>
       ELSE /\ Goto(t, "acquire", "find")
            /\ mine' = [mine EXCEPT ![t] = free[k][Len(free[k])]]
            /\ free' = [free EXCEPT ![k] = SubSeq(@, 1, Len(@) - 1)]
            /\ UNCHANGED status
    /\ UNCHANGED <<registered, destroyed, modules, streams, busy, submits>>

(* launch: find_module hands out a pointer into modules_ and unlocks ...   *)
FindModule(t) ==
    /\ Goto(t, "find", IF modules THEN "launch" ELSE "release")
    /\ status' = [status EXCEPT ![t] = IF modules THEN @ ELSE "InvalidArgument"]
    /\ UNCHANGED <<registered, destroyed, free, modules, streams, busy, mine, submits>>

(* ... which launch reads: a function the module does not list is refused, *)
(* a listed one is started or refused by the driver.  A module that a drain*)
(* has freed by now may read as either.                                    *)
Refusals == IF ~modules THEN {"InvalidArgument", "DriverError"}
            ELSE IF FillsFunctions THEN {"DriverError"} ELSE {"InvalidArgument"}

Launch(t) ==
    /\ \/ /\ FillsFunctions \/ ~modules
          /\ Goto(t, "launch", "sync")
          /\ busy' = busy \cup {mine[t]}
          /\ UNCHANGED status
       \/ /\ Goto(t, "launch", "release")
          /\ \E s \in Refusals : status' = [status EXCEPT ![t] = s]
          /\ UNCHANGED busy
    /\ UNCHANGED <<registered, destroyed, free, modules, streams, mine, submits>>

(* Fault: the sync returns with the kernel still running.                  *)
SyncedAtOnce(s) == TRUE

(* sync_stream of the platform returns when the stream has no work left.   *)
Synced(s) == s \notin busy

Sync(t) ==
    /\ Synced(mine[t])
    /\ Goto(t, "sync", "release")      \* whatever the status
    /\ UNCHANGED <<registered, destroyed, free, modules, streams, busy, mine, status, submits>>

(* release_stream pushes the handle back, whether or not the pool has been *)
(* drained.                                                                *)
Release(t) ==
    /\ Goto(t, "release", "drop")
    /\ free' = [free EXCEPT ![Klass(mine[t])] = Append(@, mine[t])]
    /\ mine' = [mine EXCEPT ![t] = NoStream]
    /\ UNCHANGED <<registered, destroyed, modules, streams, busy, status, submits>>

LoadModule(t) ==
    /\ registered /\ pc[t] = "idle"
    /\ modules' = TRUE
    /\ UNCHANGED <<registered, destroyed, free, streams, busy, pc, mine, status, submits>>

-----------------------------------------------------------------------------
(* nexusrt_wait_barrier: sync_all waits, under mtx_, for each free stream. *)
Barrier(t) ==
    /\ registered
    /\ Goto(t, "idle", "barrier")
    /\ UNCHANGED <<registered, destroyed, free, modules, streams, busy, mine, status, submits>>

(* Fault: the barrier waits until every stream is back in the pool.        *)
SyncAllWholePool(t) ==
    /\ FreeStreams = Streams
    /\ Goto(t, "barrier", "drop")
    /\ UNCHANGED <<registered, destroyed, free, modules, streams, busy, mine, status, submits>>

SyncAll(t) ==
    /\ \A s \in FreeStreams : Synced(s)
    /\ Goto(t, "barrier", "drop")
    /\ UNCHANGED <<registered, destroyed, free, modules, streams, busy, mine, status, submits>>

-----------------------------------------------------------------------------
(* Faults: the lists keep the handles of the streams that are destroyed;   *)
(* the streams are not destroyed.                                          *)
DrainedKeepsHandles ==
    /\ streams' = streams \ FreeStreams
    /\ free' = free
    /\ modules' = FALSE

DrainedKeepsStreams ==
    /\ free' = [k \in Classes |-> << >>]
    /\ UNCHANGED streams
    /\ modules' = FALSE

(* drain_streams destroys the free streams and empties the lists.          *)
Drained ==
    /\ streams' = streams \ FreeStreams
    /\ free' = [k \in Classes |-> << >>]
    /\ modules' = FALSE

(* nexusrt_firmware_shutdown: take_handle, then firmware::shutdown.        *)
TakeHandle(t) ==
    /\ registered
    /\ Goto(t, "idle", "drain")
    /\ registered' = FALSE
    /\ UNCHANGED <<destroyed, free, modules, streams, busy, mine, status, submits>>

Drain(t) ==
    /\ Goto(t, "drain", "teardown")
    /\ Drained
    /\ UNCHANGED <<registered, destroyed, busy, mine, status, submits>>

(* dma, ilc and the VA range go down: no state of this module.             *)
Teardown(t) ==
    /\ Goto(t, "teardown", "drop")
    /\ UNCHANGED <<registered, destroyed, free, modules, streams, busy, mine, status, submits>>

(* Faults: the calls under way hold no reference; the call that returns    *)
(* counts itself among the users.                                          *)
LastRefUncounted(t)  == ~registered
LastRefCountsSelf(t) == ~registered /\ \A u \in Threads : pc[u] = "idle"

(* The call returns and its shared_ptr goes.  The last one to go takes the *)
(* context along, and ~MicroKernel drains once more.                       *)
LastRef(t) == ~registered /\ \A u \in Threads \ {t} : pc[u] = "idle"

Drop(t) ==
    /\ Goto(t, "drop", "idle")
    /\ status' = [status EXCEPT ![t] = "Ok"]
    /\ IF LastRef(t)
       THEN Drained /\ destroyed' = TRUE
       ELSE UNCHANGED <<free, modules, streams, destroyed>>
    /\ UNCHANGED <<registered, busy, mine, submits>>

(* The GPU finishes a kernel.                                              *)
Complete(s) ==
    /\ s \in busy
    /\ busy' = busy \ {s}
    /\ UNCHANGED <<registered, destroyed, free, modules, streams, pc, mine, status, submits>>

Step(t) ==
    \/ \E k \in Classes \cup {"Control"} : Acquire(t, k)
    \/ FindModule(t) \/ Launch(t) \/ Sync(t) \/ Release(t)
    \/ SyncAll(t) \/ Drain(t) \/ Teardown(t) \/ Drop(t)

Next ==
    \/ \E t \in Threads : Submit(t) \/ LoadModule(t) \/ Barrier(t) \/ TakeHandle(t) \/ Step(t)
    \/ \E s \in Streams : Complete(s)

(* A call under way keeps running, and the GPU finishes what it is given.  *)
Fairness ==
    /\ \A t \in Threads : WF_vars(Step(t))
    /\ \A s \in Streams : WF_vars(Complete(s))

Spec == Init /\ [][Next]_vars /\ Fairness

-----------------------------------------------------------------------------
FreeCount(s) == Cardinality({ki \in Classes \X (1 .. Cardinality(Streams)) :
                               ki[2] \in DOMAIN free[ki[1]] /\ free[ki[1]][ki[2]] = s})
UserCount(s) == Cardinality({t \in Threads : mine[t] = s})

(* A stream is in the pool once or in the hands of one thread, never both  *)
(* and never neither, until a drain destroys it; a destroyed stream is     *)
(* nowhere, so nobody launches on it or syncs it, before shutdown, during  *)
(* it or after it.  One in the pool has no work on it: acquire_stream      *)
(* gives out idle streams, and sync_all never waits with the mutex held.   *)
OneOwner ==
    /\ \A s \in Streams : FreeCount(s) + UserCount(s) = IF s \in streams THEN 1 ELSE 0
    /\ FreeStreams \cap busy = {}

(* The context is destroyed only after its last user has let go of it, and *)
(* with it every stream of its pool, even one a late task_submit put back  *)
(* after shutdown had drained the pool.                                    *)
DestroyedIsDone ==
    destroyed => streams = {} /\ busy = {} /\ \A t \in Threads : pc[t] = "idle"

(* Every call returns: no lock, stream or reference cycle blocks it ...    *)
CallsReturn == \A t \in Threads : pc[t] # "idle" ~> pc[t] = "idle"

(* ... and taking the handle leads to the destruction of the context,      *)
(* however the calls under way interleave with shutdown.                   *)
ShutdownDestroys == ~registered ~> destroyed

CallsEnd == CallsReturn /\ ShutdownDestroys

(* What boot.hpp says of shutdown: it releases all firmware-equivalent     *)
(* resources, so when it has returned no stream is left.                   *)
ShutdownReleases ==
    [][\A t \in Threads : (pc[t] = "teardown" /\ pc'[t] = "drop") => streams' = {}]_vars
=============================================================================
