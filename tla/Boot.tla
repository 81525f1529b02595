-------------------------------- MODULE Boot --------------------------------
(***************************************************************************)
(* The life of a FirmwareContext: nexusrt_firmware_init boots it phase by  *)
(* phase and registers its handle, C calls look the handle up and use the  *)
(* subsystems, nexusrt_firmware_shutdown takes the handle back, and        *)
(* whoever drops the last shared_ptr runs the destructors - also after a   *)
(* boot that failed half way, and at the exit of the process               *)
(* (src/firmware/boot.cpp, context.cpp, context.hpp and what the shims do  *)
(* at each phase).                                                         *)
(*                                                                         *)
(* A context is a number, given in order of construction; its handle is    *)
(* its address, which the heap gives to a later context once it is gone.   *)
(* `held` is the driver's side: what it has made for a context and not     *)
(* taken back.  What the driver is asked to make it may refuse; what it is *)
(* asked to take back it takes.                                            *)
(***************************************************************************)
EXTENDS Integers, FiniteSets, Sequences, Maps

CONSTANTS Threads, NoThread, NoContext,
          Addresses,    \* where the heap puts FirmwareContexts
          Devices,      \* what describe_device may report
          NStreams,     \* streams of a pool: compute, dma and fence
          EarlyCalls,   \* do callers make C calls before the first boot?
          MaxBoots,     \* bound: contexts made
          MaxCalls      \* bound: calls on a handle by each thread

ASSUME BootAssumption ==
    /\ NoThread \notin Threads /\ IsFiniteSet(Threads)
    /\ Devices \subseteq [vendor : {"Nvidia", "Apple"}, vmm : BOOLEAN,
                          gds : BOOLEAN, grdma : BOOLEAN, ilc : BOOLEAN]
    /\ NStreams \in Nat \ {0} /\ MaxBoots \in Nat /\ MaxCalls \in Nat
    /\ EarlyCalls \in BOOLEAN
    /\ NoContext \notin 1 .. MaxBoots

Contexts == 1 .. MaxBoots

(* CUDA: every device has GDS, Hopper has ILC, Pascal and Turing boot      *)
(* without the VMM pool.  Metal has none of them.                          *)
ASSUME DeviceAssumption ==
    \A d \in Devices : IF d.vendor = "Apple"
                       THEN ~d.vmm /\ ~d.gds /\ ~d.grdma /\ ~d.ilc
                       ELSE d.gds

VARIABLES device,     \* what describe_device reports, always the same
          statics,    \* function-local statics, in order of construction
          registry,   \* registry(): handle -> context
          mutex,      \* registry_mutex()
          states,     \* the keys of the shim's states()
          inited,     \* gds_inited, grdma_inited of those
          current,    \* threads with the CUDA context current
          contexts,   \* live contexts -> their address
          members,    \* per context: its subsystems
          enabled,    \* gds_enabled_, grdma_enabled_ of its DmaEngine
          streams,    \* per context: streams created and not destroyed
          held,       \* <<what, context>>: what else the driver has made
          phase,      \* per context: has its handle been given out, taken?
          pc, my,     \* per thread: where it is, the context it refers to
          calls,      \* per thread: calls on a handle so far
          boots,      \* contexts made so far
          exiting     \* has main returned?

platVars == <<device, states, inited, current>>
ctxVars  == <<contexts, members, enabled, streams, held, phase>>
procVars == <<statics, registry, mutex, exiting>>
vars == <<platVars, ctxVars, procVars, pc, my, calls, boots>>

Subsystems == {"mk", "dma", "faults", "ilc", "mem"}
Flags      == {"gds", "grdma"}
Statics    == {"dispatch", "states", "registry"}
Made       == {"VaRange", "Pool", "Mapping", "FaultBuffer", "Poller", "Buffers"}

BootSteps     == {"clock", "reserve", "map", "dma", "spawn", "faults", "ilc", "register"}
CallSteps     == {"call", "memory", "alloc", "stream"}
ShutdownSteps == {"uninstall", "drain", "fini", "release"}

TypeOK ==
    /\ device \in Devices
    /\ \A i \in DOMAIN statics : statics[i] \in Statics
    /\ registry \in [DOMAIN registry -> Contexts] /\ DOMAIN registry \subseteq Addresses
    /\ mutex \in Threads \cup {NoThread}
    /\ states \subseteq Addresses /\ inited \subseteq Flags \X Addresses
    /\ current \subseteq Threads
    /\ contexts \in [DOMAIN contexts -> Addresses] /\ DOMAIN contexts \subseteq 1 .. boots
    /\ members \in [Contexts -> SUBSET Subsystems]
    /\ enabled \subseteq Flags \X Contexts
    /\ streams \in [Contexts -> 0 .. NStreams]
    /\ held \subseteq Made \X Contexts
    /\ phase \in [Contexts -> {"boot", "ready", "shut"}]
    /\ pc \in [Threads -> {"idle", "drop", "destroy", "exit"}
                             \cup BootSteps \cup CallSteps \cup ShutdownSteps]
    /\ my \in [Threads -> Contexts \cup {NoContext}]
    /\ calls \in [Threads -> 0 .. MaxCalls]
    /\ boots \in 0 .. MaxBoots
    /\ exiting \in BOOLEAN

Init ==
    /\ device \in Devices
    /\ statics = <<"dispatch">>      \* by the shims' AutoRegister, before main
    /\ registry = EmptyMap /\ mutex = NoThread
    /\ states = {} /\ inited = {} /\ current = {}
    /\ contexts = EmptyMap
    /\ members = [c \in Contexts |-> {}]
    /\ enabled = {} /\ streams = [c \in Contexts |-> 0] /\ held = {}
    /\ phase = [c \in Contexts |-> "boot"]
    /\ pc = [t \in Threads |-> "idle"] /\ my = [t \in Threads |-> NoContext]
    /\ calls = [t \in Threads |-> 0] /\ boots = 0 /\ exiting = FALSE

Goto(t, from, to) == pc[t] = from /\ pc' = [pc EXCEPT ![t] = to]

Alive == {statics[i] : i \in DOMAIN statics}

(* A function-local static is constructed at its first use.                *)
Constructed(s) == IF s \in Alive THEN statics ELSE Append(statics, s)

Nvidia == device.vendor = "Nvidia"

-----------------------------------------------------------------------------
(* state(): a key that is new gets an entry, if the driver lets the shim   *)
(* retain its context, and that context is made current on this thread; a  *)
(* key that is there gets the entry, whichever thread made it.             *)
Found(a, made) == a \in states \/ made

State(t, a, made) ==
    /\ statics' = Constructed("states")
    /\ IF a \in states \/ ~made
       THEN UNCHANGED <<states, current>>
       ELSE states' = states \cup {a} /\ current' = current \cup {t}

(* The driver makes streams and buffers only on a thread with a context.   *)
CanCreate(t) == Nvidia => t \in current

Fail(t) == pc' = [pc EXCEPT ![t] = "drop"]

(* nexusrt_firmware_init.  A probe that fails returns before anything is   *)
(* made.                                                                   *)
Construct(t) ==
    /\ ~exiting /\ boots < MaxBoots
    /\ Goto(t, "idle", "clock")
    /\ boots' = boots + 1
    /\ my' = [my EXCEPT ![t] = boots + 1]
    /\ \E a \in Addresses \ {contexts[c] : c \in DOMAIN contexts} :
          contexts' = Put(contexts, boots + 1, a)
    /\ UNCHANGED <<platVars, procVars, members, enabled, streams, held, phase, calls>>

(* Its status does not matter.                                             *)
LockClocks(t) ==
    /\ Goto(t, "clock", "reserve")
    /\ IF Nvidia THEN \E made \in BOOLEAN : State(t, contexts[my[t]], made)
       ELSE UNCHANGED <<statics, states, current>>
    /\ UNCHANGED <<device, inited, registry, mutex, exiting, ctxVars, my, calls, boots>>

(* init_hbm: reserve_vaddress ...                                          *)
Reserve(t) ==
    /\ pc[t] = "reserve"
    /\ IF ~Nvidia
       THEN Goto(t, "reserve", "dma") /\ UNCHANGED <<statics, states, current, held>>
       ELSE \E made, granted \in BOOLEAN :
              /\ State(t, contexts[my[t]], made)
              /\ IF ~Found(contexts[my[t]], made) \/ (device.vmm /\ ~granted)
                 THEN Fail(t) /\ UNCHANGED held
                 ELSE IF ~device.vmm
                 THEN Goto(t, "reserve", "dma") /\ UNCHANGED held
                 ELSE Goto(t, "reserve", "map") /\ held' = held \cup {<<"VaRange", my[t]>>}
    /\ UNCHANGED <<device, inited, registry, mutex, exiting, contexts, members,
                   enabled, streams, phase, my, calls, boots>>

(* ... and map_hbm_pool: the physical handle, its mapping, the access.  A  *)
(* refused mapping gives the handle back; nothing else ever does.          *)
MapPool(t) ==
    /\ pc[t] = "map"
    /\ \/ Fail(t) /\ UNCHANGED held
       \/ /\ Goto(t, "map", "dma") \/ Fail(t)
          /\ held' = held \cup {<<"Pool", my[t]>>, <<"Mapping", my[t]>>}
    /\ UNCHANGED <<platVars, procVars, contexts, members, enabled, streams, phase,
                   my, calls, boots>>

(* register_dma, with the shim's gds_init and grdma_init, which only set a *)
(* flag.                                                                   *)
FlagsOf(d) == {f \in Flags : d[f]}

RegisterDma(t) ==
    /\ Goto(t, "dma", "spawn")
    /\ members' = [members EXCEPT ![my[t]] = @ \cup {"dma"}]
    /\ enabled' = enabled \cup (FlagsOf(device) \X {my[t]})
    /\ inited'  = inited \cup (FlagsOf(device) \X {contexts[my[t]]})
    /\ UNCHANGED <<device, states, current, procVars, contexts, streams, held, phase,
                   my, calls, boots>>

LastStream(c) == streams[c] + 1 = NStreams

(* spawn_stream_pool, a stream at a time; the first refusal ends it.       *)
Spawn(t) ==
    /\ pc[t] = "spawn"
    /\ members' = [members EXCEPT ![my[t]] = @ \cup {"mk"}]
    /\ \/ /\ CanCreate(t)
          /\ streams' = [streams EXCEPT ![my[t]] = @ + 1]
          /\ pc' = [pc EXCEPT ![t] = IF LastStream(my[t]) THEN "faults" ELSE @]
          /\ IF Nvidia THEN UNCHANGED <<statics, states, current>>
             ELSE State(t, contexts[my[t]], TRUE)
       \/ Fail(t) /\ UNCHANGED <<streams, statics, states, current>>
    /\ UNCHANGED <<device, inited, registry, mutex, exiting, contexts, enabled, held,
                   phase, my, calls, boots>>

(* install does nothing on CUDA; on Metal it needs a buffer and starts the *)
(* poller.                                                                 *)
AttachFaults(t) ==
    /\ pc[t] = "faults"
    /\ members' = [members EXCEPT ![my[t]] = @ \cup {"faults"}]
    /\ \/ /\ Goto(t, "faults", "ilc")
          /\ held' = IF Nvidia THEN held
                     ELSE held \cup {<<"FaultBuffer", my[t]>>, <<"Poller", my[t]>>}
       \/ ~Nvidia /\ Fail(t) /\ UNCHANGED held
    /\ UNCHANGED <<platVars, procVars, contexts, enabled, streams, phase, my, calls, boots>>

InitIlc(t) ==
    /\ Goto(t, "ilc", "register")
    /\ members' = [members EXCEPT ![my[t]] = IF device.ilc THEN @ \cup {"ilc"} ELSE @]
    /\ UNCHANGED <<platVars, procVars, contexts, enabled, streams, held, phase, my, calls, boots>>

Register(t) ==
    /\ Goto(t, "register", "drop")
    /\ mutex = NoThread
    /\ registry' = Put(registry, contexts[my[t]], my[t])
    /\ phase' = [phase EXCEPT ![my[t]] = "ready"]
    /\ statics' = Constructed("registry")
    /\ UNCHANGED <<platVars, mutex, exiting, contexts, members, enabled, streams, held,
                   my, calls, boots>>

-----------------------------------------------------------------------------
(* A C call: lookup_handle, and a subsystem used through the shared_ptr.   *)
LookupMisses(t) ==
    /\ EarlyCalls \/ "states" \in Alive
    /\ ~exiting /\ pc[t] = "idle" /\ mutex = NoThread
    /\ statics' = Constructed("registry")
    /\ UNCHANGED <<platVars, ctxVars, registry, mutex, exiting, pc, my, calls, boots>>

Lookup(t, a) ==
    /\ ~exiting /\ calls[t] < MaxCalls
    /\ Goto(t, "idle", "call") /\ mutex = NoThread
    /\ a \in DOMAIN registry
    /\ my' = [my EXCEPT ![t] = registry[a]]
    /\ calls' = [calls EXCEPT ![t] = @ + 1]
    /\ UNCHANGED <<platVars, ctxVars, procVars, boots>>

(* memory() takes the registry's mutex ...                                 *)
MemoryLock(t) ==
    /\ Goto(t, "call", "memory")
    /\ mutex = NoThread /\ mutex' = t
    /\ UNCHANGED <<platVars, ctxVars, statics, registry, exiting, my, calls, boots>>

(* Fault: memory() leaves the mutex locked.                                *)
UnlockForgotten == UNCHANGED mutex

Unlock == mutex' = NoThread

(* ... and makes the manager if there is none.                             *)
MemoryMake(t) ==
    /\ Goto(t, "memory", "alloc")
    /\ members' = [members EXCEPT ![my[t]] = @ \cup {"mem"}]
    /\ Unlock
    /\ UNCHANGED <<platVars, contexts, enabled, streams, held, phase, statics, registry,
                   exiting, my, calls, boots>>

Alloc(t) ==
    /\ Goto(t, "alloc", "drop")
    /\ \/ CanCreate(t) /\ held' = held \cup {<<"Buffers", my[t]>>}
       \/ UNCHANGED held
    /\ UNCHANGED <<platVars, contexts, members, enabled, streams, phase, procVars,
                   my, calls, boots>>

(* The streams of c nobody is using.                                       *)
Idle(c) == streams[c] - Cardinality({t \in Threads : pc[t] = "stream" /\ my[t] = c})

(* acquire_stream ... release_stream, or a call that needs neither.        *)
TakeStream(t) ==
    /\ Goto(t, "call", "stream") /\ Idle(my[t]) > 0
    /\ UNCHANGED <<platVars, ctxVars, procVars, my, calls, boots>>

EndCall(t) ==
    /\ \/ Goto(t, "stream", "drop")
       \/ Goto(t, "call", "drop")
    /\ UNCHANGED <<platVars, ctxVars, procVars, my, calls, boots>>

-----------------------------------------------------------------------------
(* What the subsystems give back, in shutdown or in their destructors:     *)
(* drain_streams, FaultHandler::uninstall, DmaEngine::shutdown.  Each does *)
(* nothing the second time.                                                *)
Drained(c) == [streams EXCEPT ![c] = @ - Idle(c)]

Uninstalled(c) == held \ {<<"FaultBuffer", c>>, <<"Poller", c>>}

(* Fault: shutdown leaves the shim's flags.                                *)
FinishedHalf(c) ==
    /\ enabled' = enabled \ (Flags \X {c})
    /\ UNCHANGED inited

Finished(c) ==
    /\ enabled' = enabled \ (Flags \X {c})
    /\ inited'  = inited \ {<<f, contexts[c]>> : f \in {g \in Flags : <<g, c>> \in enabled}}

(* nexusrt_firmware_shutdown: take_handle, then firmware::shutdown.        *)
TakeHandle(t, a) ==
    /\ ~exiting /\ calls[t] < MaxCalls
    /\ Goto(t, "idle", "uninstall") /\ mutex = NoThread
    /\ a \in DOMAIN registry
    /\ my' = [my EXCEPT ![t] = registry[a]]
    /\ registry' = Remove(registry, a)
    /\ phase' = [phase EXCEPT ![registry[a]] = "shut"]
    /\ calls' = [calls EXCEPT ![t] = @ + 1]
    /\ UNCHANGED <<platVars, contexts, members, enabled, streams, held, statics, mutex,
                   exiting, boots>>

Uninstall(t) ==
    /\ Goto(t, "uninstall", "drain")
    /\ held' = Uninstalled(my[t])
    /\ UNCHANGED <<platVars, contexts, members, enabled, streams, phase, procVars,
                   my, calls, boots>>

DrainStreams(t) ==
    /\ Goto(t, "drain", "fini")
    /\ streams' = Drained(my[t])
    /\ UNCHANGED <<platVars, contexts, members, enabled, held, phase, procVars,
                   my, calls, boots>>

(* IlcManager::disable, which follows, only drops tags.                    *)
ShutdownDma(t) ==
    /\ Goto(t, "fini", "release")
    /\ Finished(my[t])
    /\ UNCHANGED <<device, states, current, contexts, members, streams, held, phase,
                   procVars, my, calls, boots>>

(* release_vaddress unmaps the range and frees it.                         *)
RangeReleased(c) == held \ {<<"VaRange", c>>, <<"Mapping", c>>}

ReleaseVaddress(t) ==
    /\ Goto(t, "release", "drop")
    /\ held' = RangeReleased(my[t])
    /\ UNCHANGED <<platVars, contexts, members, enabled, streams, phase, procVars,
                   my, calls, boots>>

-----------------------------------------------------------------------------
(* Faults: only the registry's reference counts; the caller's own counts.  *)
LastRefRegistered(t) == \A a \in DOMAIN registry : registry[a] # my[t]
LastRefWithOwn(t)    == \A u \in Threads : my[u] # my[t]

(* The shared_ptr of the call goes, and with the last one the context.     *)
LastRef(t) ==
    /\ \A a \in DOMAIN registry : registry[a] # my[t]
    /\ \A u \in Threads \ {t} : my[u] # my[t]

Drop(t) ==
    /\ pc[t] = "drop"
    /\ IF LastRef(t)
       THEN Goto(t, "drop", "destroy") /\ UNCHANGED my
       ELSE Goto(t, "drop", "idle") /\ my' = [my EXCEPT ![t] = NoContext]
    /\ UNCHANGED <<platVars, ctxVars, procVars, calls, boots>>

(* Fault: mem_ is declared before ilc_.                                    *)
DeclarationMemFirst == <<"mk", "dma", "faults", "mem", "ilc">>

(* The order of declaration: the members are destroyed in its reverse.     *)
Declaration == <<"mk", "dma", "faults", "ilc", "mem">>

NextMember(c) ==
    LET last == CHOOSE i \in DOMAIN Declaration :
                  /\ Declaration[i] \in members[c]
                  /\ \A j \in DOMAIN Declaration : Declaration[j] \in members[c] => j <= i
    IN  Declaration[last]

(* Fault: ~FaultHandler leaves the poller and its buffer.                  *)
DestroyedNoJoin(c, m) ==
    /\ held' = IF m = "mem" THEN held \ {<<"Buffers", c>>} ELSE held
    /\ streams' = IF m = "mk" THEN Drained(c) ELSE streams
    /\ IF m = "dma" THEN Finished(c) ELSE UNCHANGED <<enabled, inited>>

(* The destructors of the members.                                         *)
Destroyed(c, m) ==
    /\ held' = CASE m = "mem" -> held \ {<<"Buffers", c>>}
                 [] m = "faults" -> Uninstalled(c)
                 [] OTHER -> held
    /\ streams' = IF m = "mk" THEN Drained(c) ELSE streams
    /\ IF m = "dma" THEN Finished(c) ELSE UNCHANGED <<enabled, inited>>

DestroyMember(t) ==
    /\ pc[t] = "destroy" /\ members[my[t]] # {}
    /\ Destroyed(my[t], NextMember(my[t]))
    /\ members' = [members EXCEPT ![my[t]] = @ \ {NextMember(my[t])}]
    /\ UNCHANGED <<device, states, current, contexts, phase, procVars, pc, my, calls, boots>>

FreeContext(t) ==
    /\ Goto(t, "destroy", IF exiting THEN "exit" ELSE "idle")
    /\ members[my[t]] = {}
    /\ contexts' = Remove(contexts, my[t])
    /\ my' = [my EXCEPT ![t] = NoContext]
    /\ UNCHANGED <<platVars, members, enabled, streams, held, phase, procVars, calls, boots>>

-----------------------------------------------------------------------------
(* main returns: the statics are destroyed in reverse order of             *)
(* construction, and the registry takes along the contexts nobody has shut *)
(* down.                                                                   *)
BeginExit(t) ==
    /\ ~exiting /\ \A u \in Threads : pc[u] = "idle"
    /\ Goto(t, "idle", "exit")
    /\ exiting' = TRUE
    /\ UNCHANGED <<platVars, ctxVars, statics, registry, mutex, my, calls, boots>>

LastStatic == statics[Len(statics)]

ExitEntry(t, a) ==
    /\ statics # << >> /\ LastStatic = "registry"
    /\ a \in DOMAIN registry
    /\ Goto(t, "exit", "destroy")
    /\ my' = [my EXCEPT ![t] = registry[a]]
    /\ registry' = Remove(registry, a)
    /\ UNCHANGED <<platVars, ctxVars, statics, mutex, exiting, calls, boots>>

ExitStatic(t) ==
    /\ pc[t] = "exit" /\ statics # << >>
    /\ LastStatic = "registry" => registry = EmptyMap
    /\ statics' = SubSeq(statics, 1, Len(statics) - 1)
    /\ states' = IF LastStatic = "states" THEN {} ELSE states
    /\ inited' = IF LastStatic = "states" THEN {} ELSE inited
    /\ UNCHANGED <<device, current, ctxVars, registry, mutex, exiting, pc, my, calls, boots>>

Step(t) ==
    \/ LockClocks(t) \/ Reserve(t) \/ MapPool(t) \/ RegisterDma(t) \/ Spawn(t)
    \/ AttachFaults(t) \/ InitIlc(t) \/ Register(t)
    \/ MemoryLock(t) \/ MemoryMake(t) \/ Alloc(t) \/ TakeStream(t) \/ EndCall(t)
    \/ Uninstall(t) \/ DrainStreams(t) \/ ShutdownDma(t) \/ ReleaseVaddress(t)
    \/ Drop(t) \/ DestroyMember(t) \/ FreeContext(t)
    \/ ExitStatic(t) \/ \E a \in Addresses : ExitEntry(t, a)

Next ==
    \E t \in Threads :
        \/ Construct(t) \/ LookupMisses(t) \/ BeginExit(t) \/ Step(t)
        \/ \E a \in Addresses : Lookup(t, a) \/ TakeHandle(t, a)

(* A call, a destructor, an exit under way goes on.                        *)
Fairness == \A t \in Threads : WF_vars(Step(t))

Spec == Init /\ [][Next]_vars /\ Fairness

-----------------------------------------------------------------------------
Gone == (1 .. boots) \ DOMAIN contexts

(* Whichever way a context went - a boot that failed after any of its      *)
(* phases, a shutdown with calls still under way, the exit of the process  *)
(* - its destructors have left no stream, no fault buffer, no poller and   *)
(* no buffer of its memory manager; and a shutdown has also returned the   *)
(* address range boot reserved.                                            *)
DestructorsRelease ==
    \A c \in Gone :
        /\ streams[c] = 0
        /\ held \cap ({"FaultBuffer", "Poller", "Buffers"} \X {c}) = {}
        /\ phase[c] = "shut" => held \cap ({"VaRange", "Mapping"} \X {c}) = {}

(* The registry only has contexts that are booted to the end, nobody's     *)
(* reference dangles, no two contexts have the same handle, and a poller   *)
(* runs on a live FaultHandler with its buffer.                            *)
ReferencesAreLive ==
    /\ \A a \in DOMAIN registry :
          /\ registry[a] \in DOMAIN contexts /\ contexts[registry[a]] = a
          /\ {"mk", "dma", "faults"} \subseteq members[registry[a]]
    /\ \A t \in Threads : my[t] # NoContext =>
          my[t] \in DOMAIN contexts /\ (pc[t] = "destroy" => \A u \in Threads \ {t} : my[u] # my[t])
    /\ \A c, d \in DOMAIN contexts : contexts[c] = contexts[d] => c = d
    /\ \A c \in Contexts : <<"Poller", c>> \in held =>
          /\ c \in DOMAIN contexts /\ "faults" \in members[c]
          /\ <<"FaultBuffer", c>> \in held

(* The shim keeps its state by address and never erases it: still the      *)
(* flags it has are those of the engine of the context that lives there    *)
(* now, and a context at a used address does not start with old ones.      *)
FlagsMatchEngines ==
    "states" \in Alive =>
        inited = {<<fc[1], contexts[fc[2]]>> : fc \in {e \in enabled : e[2] \in DOMAIN contexts}}

(* What the destructor of m calls: the platform, its state for CUDA's      *)
(* flags and for Metal's buffers, and the IlcManager.                      *)
StaticsOf(c, m) ==
    IF \/ m = "dma" /\ (Flags \X {c}) \cap enabled # {}
       \/ ~Nvidia /\ m \in {"mem", "faults"}
    THEN {"dispatch", "states"} ELSE {"dispatch"}

MembersOf(m) == IF m = "mem" /\ device.ilc THEN {"ilc"} ELSE {}

(* Every destructor finds what it calls: the members of the context that   *)
(* outlive its own, and - also in the exit of the process - the platform.  *)
DestructorsFindPlatform ==
    \A t \in Threads : pc[t] = "destroy" /\ members[my[t]] # {} =>
        LET m == NextMember(my[t])
        IN  StaticsOf(my[t], m) \subseteq Alive /\ MembersOf(m) \subseteq members[my[t]]

(* Every call returns, whether the boot fails or not, an exit ends ...     *)
CallsReturn ==
    \A t \in Threads : pc[t] # "idle" ~> (pc[t] = "idle" \/ (exiting /\ statics = << >>))

(* ... and a context whose handle has been taken back is destroyed.        *)
ShutdownDestroys == \A c \in Contexts : phase[c] = "shut" ~> c \notin DOMAIN contexts

CallsEnd == CallsReturn /\ ShutdownDestroys

(* What context.hpp says: destruction releases all GPU resources.          *)
GoneHoldsNothing == \A c \in Gone : held \cap (Made \X {c}) = {}
=============================================================================
