----------------------------- MODULE BootProofs -----------------------------
(***************************************************************************)
(* Theorems about Boot, for any finite number of threads, any heap, any    *)
(* devices and any number of contexts and calls.                           *)
(*                                                                         *)
(* The argument.  A context is booted and destroyed by a thread that alone *)
(* refers to it, the registry included; a call finds what a boot has       *)
(* completed.  What the driver holds for a context, but for the address    *)
(* range, is held for a member that is there, so that a context without    *)
(* members holds nothing; a thread that destroys a context finds none of   *)
(* its streams in use.  The shim's flags are those of live engines, as no  *)
(* two live contexts have an address in common.  And what a destructor     *)
(* needs of the shim's table has been constructed before the context was   *)
(* in the registry, so that the exit of the process destroys it later.     *)
(***************************************************************************)
EXTENDS Boot, FiniteSetTheorems, SequenceTheorems, TLAPS

Booted == {"mk", "dma", "faults"}

Types ==
    /\ device \in Devices
    /\ statics \in Seq(Statics)
    /\ registry \in [DOMAIN registry -> Contexts]
    /\ inited \subseteq Flags \X Addresses
    /\ contexts \in [DOMAIN contexts -> Addresses] /\ DOMAIN contexts \subseteq 1 .. boots
    /\ members \in [Contexts -> SUBSET Subsystems]
    /\ enabled \subseteq Flags \X Contexts
    /\ streams \in [Contexts -> Int]
    /\ held \subseteq Made \X Contexts
    /\ phase \in [Contexts -> {"boot", "ready", "shut"}]
    /\ pc \in [Threads -> {"idle", "drop", "destroy", "exit"}
                             \cup BootSteps \cup CallSteps \cup ShutdownSteps]
    /\ my \in [Threads -> Contexts \cup {NoContext}]
    /\ boots \in 0 .. MaxBoots
    /\ exiting \in BOOLEAN

(* References.  A thread has one to a context from the lookup of its       *)
(* handle, or its construction, to its drop; nobody else has one while a   *)
(* context is booted or destroyed.                                         *)
Alone(t) ==
    /\ \A u \in Threads \ {t} : my[u] # my[t]
    /\ \A a \in DOMAIN registry : registry[a] # my[t]

RefInv ==
    /\ \A t \in Threads :
          /\ my[t] = NoContext <=> pc[t] \in {"idle", "exit"}
          /\ my[t] # NoContext => my[t] \in DOMAIN contexts
          /\ pc[t] \in BootSteps \cup {"destroy"} => Alone(t)
    /\ \A a \in DOMAIN registry :
          registry[a] \in DOMAIN contexts /\ contexts[registry[a]] = a /\ phase[registry[a]] = "ready"
    /\ \A c, d \in DOMAIN contexts : contexts[c] = contexts[d] => c = d

PhaseInv ==
    /\ \A t \in Threads :
          /\ pc[t] \in BootSteps => phase[my[t]] = "boot"
          /\ pc[t] \in CallSteps => phase[my[t]] # "boot"
          /\ pc[t] \in ShutdownSteps => phase[my[t]] = "shut"
    /\ \A c \in Contexts : c > boots => phase[c] = "boot"

(* Once the process exits only one thread is left.                         *)
ExitInv ==
    /\ exiting => /\ \A t \in Threads : pc[t] \in {"idle", "exit", "destroy"}
                  /\ \A t, u \in Threads : pc[t] # "idle" /\ pc[u] # "idle" => t = u
                  /\ \A t \in Threads : pc[t] = "destroy" => statics # << >> /\ LastStatic = "registry"
    /\ ~exiting => \A t \in Threads : pc[t] # "exit"

(* What a context has, by how far its boot has got; a call finds all of    *)
(* it.                                                                     *)
Complete(c) == Booted \subseteq members[c] /\ (device.ilc => "ilc" \in members[c])

MembersInv ==
    /\ \A c \in Contexts \ DOMAIN contexts : members[c] = {}
    /\ \A c \in DOMAIN contexts :
          phase[c] # "boot" /\ (\A t \in Threads : pc[t] = "destroy" => my[t] # c) => Complete(c)
    /\ \A t \in Threads :
          /\ pc[t] = "faults" => {"mk", "dma"} \subseteq members[my[t]]
          /\ pc[t] \in {"ilc", "register"} => Booted \subseteq members[my[t]]
          /\ pc[t] = "spawn" => "dma" \in members[my[t]]
          /\ pc[t] = "register" => Complete(my[t])
          /\ pc[t] = "alloc" => "mem" \in members[my[t]]
    /\ \A c \in Contexts : "mem" \in members[c] /\ device.ilc => "ilc" \in members[c]

(* What the driver has made for a context, a member will give back, and    *)
(* the address range a shutdown.                                           *)
HeldOf(c) ==
    /\ streams[c] # 0 => "mk" \in members[c]
    /\ <<"FaultBuffer", c>> \in held => "faults" \in members[c]
    /\ <<"Poller", c>> \in held => <<"FaultBuffer", c>> \in held
    /\ <<"Buffers", c>> \in held => "mem" \in members[c]
    /\ \A f \in Flags : <<f, c>> \in enabled => "dma" \in members[c]

RangeOf(c) ==
    phase[c] = "shut" /\ (<<"VaRange", c>> \in held \/ <<"Mapping", c>> \in held) =>
        \E t \in Threads : my[t] = c /\ pc[t] \in ShutdownSteps

HeldInv == \A c \in Contexts : HeldOf(c) /\ RangeOf(c)

FlagInv ==
    ~exiting \/ "states" \in Alive =>
        \A f \in Flags, a \in Addresses :
            <<f, a>> \in inited <=>
                \E c \in DOMAIN contexts : contexts[c] = a /\ <<f, c>> \in enabled

(* The statics stay until the exit, and the shim's table is constructed    *)
(* before whatever needs it.                                               *)
NeedsStates(c) ==
    \/ \E f \in Flags : <<f, c>> \in enabled
    \/ ~Nvidia /\ members[c] \cap {"mem", "faults"} # {}

StaticInv ==
    /\ ~exiting => statics # << >>
    /\ statics # << >> => statics[1] = "dispatch"
    /\ \A i, j \in DOMAIN statics : statics[i] = statics[j] => i = j
    /\ ~EarlyCalls => \A i \in DOMAIN statics : statics[i] = "registry" =>
                         \E j \in 1 .. i - 1 : statics[j] = "states"
    /\ ~exiting => \A c \in Contexts : NeedsStates(c) => "states" \in Alive
    /\ \A t \in Threads :
          /\ pc[t] \in BootSteps \ {"clock"} /\ Nvidia => "states" \in Alive
          /\ pc[t] \in {"faults", "ilc", "register"} => "states" \in Alive

IInv ==
    /\ Types /\ RefInv /\ PhaseInv /\ ExitInv /\ MembersInv /\ HeldInv /\ FlagInv /\ StaticInv

-----------------------------------------------------------------------------
(* A static that is used for the first time goes last.                     *)
LEMMA ConstructedIs ==
  ASSUME statics \in Seq(Statics), NEW s \in {"states", "registry"}
  PROVE  /\ Constructed(s) \in Seq(Statics)
         /\ Len(Constructed(s)) >= Len(statics)
         /\ \A i \in DOMAIN statics : i \in DOMAIN Constructed(s) /\ Constructed(s)[i] = statics[i]
         /\ \A i \in DOMAIN Constructed(s) \ DOMAIN statics :
               i = Len(statics) + 1 /\ Constructed(s)[i] = s
         /\ \E i \in DOMAIN Constructed(s) : Constructed(s)[i] = s
         /\ s \in Alive => Constructed(s) = statics
<1>1. s \in Statics
  BY DEF Statics
<1>2. CASE s \in Alive
  BY <1>2 DEF Constructed, Alive
<1>3. CASE s \notin Alive
  <2>1. Constructed(s) = Append(statics, s)
    BY <1>3 DEF Constructed
  <2> QED
    BY <1>1, <1>3, <2>1
<1> QED
  BY <1>2, <1>3

LEMMA ConstructedKeeps ==
  ASSUME Types, StaticInv, NEW s \in {"states", "registry"}, statics' = Constructed(s),
         s = "registry" /\ ~EarlyCalls => "states" \in Alive, statics # << >>
  PROVE  /\ statics' \in Seq(Statics) /\ statics' # << >> /\ statics'[1] = "dispatch"
         /\ Alive \subseteq Alive' /\ s \in Alive'
         /\ \A i, j \in DOMAIN statics' : statics'[i] = statics'[j] => i = j
         /\ ~EarlyCalls => \A i \in DOMAIN statics' : statics'[i] = "registry" =>
                              \E j \in 1 .. i - 1 : statics'[j] = "states"
<1>1. /\ statics \in Seq(Statics) /\ Len(statics) \in Nat \ {0} /\ DOMAIN statics = 1 .. Len(statics)
      /\ statics[1] = "dispatch"
  BY DEF Types, StaticInv
<1>2. /\ statics' \in Seq(Statics) /\ Len(statics') \in Nat /\ Len(statics') >= Len(statics)
      /\ DOMAIN statics' = 1 .. Len(statics')
      /\ \A i \in DOMAIN statics : i \in DOMAIN statics' /\ statics'[i] = statics[i]
      /\ \A i \in DOMAIN statics' \ DOMAIN statics : i = Len(statics) + 1 /\ statics'[i] = s
      /\ \E i \in DOMAIN statics' : statics'[i] = s
  BY <1>1, ConstructedIs
<1>3. statics' # << >> /\ statics'[1] = "dispatch"
  BY <1>1, <1>2
<1>4. Alive \subseteq Alive' /\ s \in Alive'
  BY <1>2 DEF Alive
<1>5. ASSUME ~EarlyCalls, NEW i \in DOMAIN statics', statics'[i] = "registry"
      PROVE  \E j \in 1 .. i - 1 : statics'[j] = "states"
  <2>1. CASE i \in DOMAIN statics
    <3>1. PICK j \in 1 .. i - 1 : statics[j] = "states"
      BY <1>2, <1>5, <2>1 DEF StaticInv
    <3>2. j \in DOMAIN statics
      BY <1>1, <2>1
    <3> QED
      BY <1>2, <3>1, <3>2
  <2>2. CASE i \notin DOMAIN statics
    <3>1. i = Len(statics) + 1 /\ s = "registry"
      BY <1>2, <1>5, <2>2
    <3>2. PICK j \in DOMAIN statics : statics[j] = "states"
      BY <1>5, <3>1 DEF Alive
    <3> QED
      BY <1>1, <1>2, <3>1, <3>2
  <2> QED
    BY <2>1, <2>2
<1>6. ASSUME NEW i \in DOMAIN statics', NEW j \in DOMAIN statics', statics'[i] = statics'[j]
      PROVE  i = j
  <2>1. CASE s \in Alive
    BY <1>6, <2>1, <1>1, ConstructedIs DEF StaticInv
  <2>2. CASE s \notin Alive
    <3>1. \A k \in DOMAIN statics : statics[k] # s
      BY <2>2 DEF Alive
    <3> QED
      BY <1>1, <1>2, <1>6, <3>1 DEF StaticInv
  <2> QED
    BY <2>1, <2>2
<1> QED
  BY <1>2, <1>3, <1>4, <1>5, <1>6

LEMMA InitIInv == Init => IInv
<1> SUFFICES ASSUME Init PROVE IInv
  OBVIOUS
<1> USE DEF Init, EmptyMap
<1>1. Types
  <2>1. boots \in 0 .. MaxBoots /\ DOMAIN contexts = {} /\ DOMAIN registry = {}
    BY BootAssumption
  <2>2. statics \in Seq(Statics)
    BY DEF Statics
  <2>3. registry \in [DOMAIN registry -> Contexts] /\ contexts \in [DOMAIN contexts -> Addresses]
    BY <2>1
  <2>4. /\ members \in [Contexts -> SUBSET Subsystems] /\ streams \in [Contexts -> Int]
        /\ phase \in [Contexts -> {"boot", "ready", "shut"}]
    OBVIOUS
  <2>5. /\ pc \in [Threads -> {"idle", "drop", "destroy", "exit"}
                               \cup BootSteps \cup CallSteps \cup ShutdownSteps]
        /\ my \in [Threads -> Contexts \cup {NoContext}]
    OBVIOUS
  <2> QED
    BY <2>1, <2>2, <2>3, <2>4, <2>5 DEF Types
<1>2. \A t \in Threads : pc[t] = "idle" /\ my[t] = NoContext
  OBVIOUS
<1>3. RefInv /\ PhaseInv /\ ExitInv
  BY <1>2 DEF RefInv, PhaseInv, ExitInv, BootSteps, CallSteps, ShutdownSteps
<1>4. MembersInv /\ HeldInv /\ FlagInv
  BY <1>2 DEF MembersInv, HeldInv, HeldOf, RangeOf, FlagInv
<1>5. StaticInv
  <2>1. statics = <<"dispatch">> /\ DOMAIN statics = {1} /\ statics[1] = "dispatch"
    OBVIOUS
  <2>2. \A c \in Contexts : ~NeedsStates(c)
    BY DEF NeedsStates
  <2> QED
    BY <1>2, <2>1, <2>2 DEF StaticInv, BootSteps
<1> QED
  BY <1>1, <1>3, <1>4, <1>5 DEF IInv

-----------------------------------------------------------------------------
(* Streams in use are counted.                                             *)
LEMMA InUseIsNat ==
  ASSUME NEW c PROVE Cardinality({t \in Threads : pc[t] = "stream" /\ my[t] = c}) \in Nat
BY BootAssumption, FS_Subset, FS_CardinalityType

LEMMA DrainedType ==
  ASSUME Types, NEW c \in Contexts
  PROVE  /\ Drained(c) \in [Contexts -> Int]
         /\ \A d \in Contexts \ {c} : Drained(c)[d] = streams[d]
         /\ (\A t \in Threads : pc[t] = "stream" => my[t] # c) => Drained(c)[c] = 0
<1> DEFINE used == Cardinality({t \in Threads : pc[t] = "stream" /\ my[t] = c})
<1>1. used \in Nat
  BY InUseIsNat
<1>2. Drained(c) = [streams EXCEPT ![c] = streams[c] - (streams[c] - used)]
  BY DEF Drained, Idle
<1>3. ASSUME \A t \in Threads : pc[t] = "stream" => my[t] # c PROVE used = 0
  <2>1. {t \in Threads : pc[t] = "stream" /\ my[t] = c} = {}
    BY <1>3
  <2> QED
    BY <2>1, FS_EmptySet
<1> HIDE DEF used
<1> QED
  BY <1>1, <1>2, <1>3 DEF Types

(* A step in the middle of something: a boot, a call, a shutdown, an end.  *)
Within(t) ==
    /\ pc[t] \notin {"idle", "exit"} /\ pc'[t] \notin {"idle", "exit"}
    /\ \A u \in Threads \ {t} : pc'[u] = pc[u]
    /\ pc' \in [Threads -> {"idle", "drop", "destroy", "exit"}
                              \cup BootSteps \cup CallSteps \cup ShutdownSteps]
    /\ pc'[t] \in BootSteps => pc[t] \in BootSteps
    /\ pc'[t] \in CallSteps => pc[t] \in CallSteps
    /\ pc'[t] \in ShutdownSteps => pc[t] \in ShutdownSteps
    /\ pc'[t] = "destroy" => pc[t] = "destroy" \/ Alone(t)
    /\ pc[t] = "destroy" => pc'[t] = "destroy" /\ UNCHANGED statics
    /\ UNCHANGED <<device, registry, contexts, phase, my, boots, exiting>>

LEMMA WithinSteps ==
  ASSUME IInv, NEW t \in Threads
  PROVE  /\ LockClocks(t) \/ Reserve(t) \/ MapPool(t) \/ RegisterDma(t) => Within(t)
         /\ Spawn(t) \/ AttachFaults(t) \/ InitIlc(t) => Within(t)
         /\ MemoryLock(t) \/ MemoryMake(t) \/ Alloc(t) \/ TakeStream(t) \/ EndCall(t) => Within(t)
         /\ Uninstall(t) \/ DrainStreams(t) \/ ShutdownDma(t) \/ ReleaseVaddress(t) => Within(t)
         /\ Drop(t) /\ LastRef(t) => Within(t)
         /\ DestroyMember(t) => Within(t)
<1> USE DEF Goto, Fail, platVars, ctxVars, procVars, BootSteps, CallSteps, ShutdownSteps
<1>1. pc \in [Threads -> {"idle", "drop", "destroy", "exit"}
                            \cup BootSteps \cup CallSteps \cup ShutdownSteps]
  BY DEF IInv, Types
<1>2. ASSUME NEW from, NEW to, pc[t] = from, pc' = [pc EXCEPT ![t] = to],
             UNCHANGED <<device, registry, contexts, phase, my, boots, exiting>>,
             \/ from \in BootSteps /\ to \in BootSteps \cup {"drop"}
             \/ from \in CallSteps /\ to \in CallSteps \cup {"drop"}
             \/ from \in ShutdownSteps /\ to \in ShutdownSteps \cup {"drop"}
      PROVE  Within(t)
  BY <1>1, <1>2 DEF Within
<1>3. LockClocks(t) => Within(t)
  BY <1>2 DEF LockClocks
<1>4. Reserve(t) => Within(t)
  BY <1>2 DEF Reserve
<1>5. MapPool(t) => Within(t)
  BY <1>2 DEF MapPool
<1>6. RegisterDma(t) => Within(t)
  BY <1>2 DEF RegisterDma
<1>7. ASSUME Spawn(t) PROVE Within(t)
  <2>1. UNCHANGED <<device, registry, contexts, phase, my, boots, exiting>> /\ pc[t] = "spawn"
    BY <1>7 DEF Spawn
  <2>2. pc' = [pc EXCEPT ![t] = "faults"] \/ pc' = [pc EXCEPT ![t] = "spawn"]
          \/ pc' = [pc EXCEPT ![t] = "drop"]
    BY <1>7 DEF Spawn
  <2> QED
    BY <1>2, <2>1, <2>2
<1>8. AttachFaults(t) => Within(t)
  BY <1>2 DEF AttachFaults
<1>9. InitIlc(t) => Within(t)
  BY <1>2 DEF InitIlc
<1>10. MemoryLock(t) \/ MemoryMake(t) \/ Alloc(t) => Within(t)
  BY <1>2 DEF MemoryLock, MemoryMake, Alloc
<1>11. TakeStream(t) \/ EndCall(t) => Within(t)
  BY <1>2 DEF TakeStream, EndCall
<1>12. Uninstall(t) \/ DrainStreams(t) \/ ShutdownDma(t) \/ ReleaseVaddress(t) => Within(t)
  BY <1>2 DEF Uninstall, DrainStreams, ShutdownDma, ReleaseVaddress
<1>13. Drop(t) /\ LastRef(t) => Within(t)
  BY <1>1 DEF Drop, LastRef, Within, Alone
<1>14. DestroyMember(t) => Within(t)
  BY <1>1 DEF DestroyMember, Within, Alone
<1> QED
  BY <1>3, <1>4, <1>5, <1>6, <1>7, <1>8, <1>9, <1>10, <1>11, <1>12, <1>13, <1>14

-----------------------------------------------------------------------------
(* A step within a call leaves the references as they are.                 *)
LEMMA WithinKeeps ==
  ASSUME IInv, NEW t \in Threads, Within(t)
  PROVE  RefInv' /\ PhaseInv' /\ ExitInv'
<1>1. RefInv'
  BY DEF IInv, RefInv, Within, Alone
<1>2. PhaseInv'
  BY DEF IInv, PhaseInv, Within
<1>3. ExitInv'
  BY DEF IInv, ExitInv, Within, LastStatic, BootSteps, CallSteps, ShutdownSteps
<1> QED
  BY <1>1, <1>2, <1>3

(* The other steps take a reference, or let one go.                        *)
LEMMA ConstructKeeps ==
  ASSUME IInv, NEW t \in Threads, Construct(t) PROVE RefInv' /\ PhaseInv' /\ ExitInv'
<1>1. /\ pc[t] = "idle" /\ pc' = [pc EXCEPT ![t] = "clock"] /\ ~exiting /\ boots < MaxBoots
      /\ my' = [my EXCEPT ![t] = boots + 1] /\ boots' = boots + 1
      /\ UNCHANGED <<registry, phase, exiting, statics>>
  BY DEF Construct, Goto, ctxVars, procVars
<1>2. PICK a \in Addresses : /\ contexts' = Put(contexts, boots + 1, a)
                             /\ \A c \in DOMAIN contexts : contexts[c] # a
  BY DEF Construct
<1>3. /\ boots \in Nat /\ boots + 1 \in Contexts /\ boots + 1 \notin DOMAIN contexts
      /\ boots + 1 # NoContext
  BY <1>1, BootAssumption DEF IInv, Types, Contexts
<1>4. /\ DOMAIN contexts' = DOMAIN contexts \cup {boots + 1} /\ contexts'[boots + 1] = a
      /\ \A c \in DOMAIN contexts : contexts'[c] = contexts[c]
  BY <1>2, <1>3 DEF Put
<1>5. /\ pc'[t] = "clock" /\ my'[t] = boots + 1
      /\ \A u \in Threads \ {t} : pc'[u] = pc[u] /\ my'[u] = my[u] /\ my[u] # boots + 1
      /\ \A b \in DOMAIN registry : registry[b] # boots + 1
  BY <1>1, <1>3 DEF IInv, Types, RefInv
<1>6. RefInv'
  <2>1. Alone(t)'
    BY <1>1, <1>5 DEF Alone
  <2>2. \A u \in Threads \ {t} : pc[u] \in BootSteps \cup {"destroy"} => Alone(u)'
    BY <1>1, <1>5 DEF IInv, RefInv, Alone
  <2>3. \A c, d \in DOMAIN contexts' : contexts'[c] = contexts'[d] => c = d
    BY <1>2, <1>4 DEF IInv, RefInv
  <2> QED
    BY <1>1, <1>3, <1>4, <1>5, <2>1, <2>2, <2>3 DEF IInv, RefInv, BootSteps
<1>7. PhaseInv'
  <2>1. phase[boots + 1] = "boot"
    BY <1>3 DEF IInv, PhaseInv
  <2>2. \A c \in Contexts : c > boots + 1 => c > boots
    BY <1>3 DEF Contexts
  <2> QED
    BY <1>1, <1>5, <2>1, <2>2 DEF IInv, PhaseInv, BootSteps, CallSteps, ShutdownSteps
<1>8. ExitInv'
  BY <1>1, <1>5 DEF IInv, ExitInv
<1> QED
  BY <1>6, <1>7, <1>8

LEMMA RegisterKeeps ==
  ASSUME IInv, NEW t \in Threads, Register(t) PROVE RefInv' /\ PhaseInv' /\ ExitInv'
<1> DEFINE c == my[t]
<1>1. /\ pc[t] = "register" /\ pc' = [pc EXCEPT ![t] = "drop"]
      /\ registry' = Put(registry, contexts[c], c) /\ phase' = [phase EXCEPT ![c] = "ready"]
      /\ UNCHANGED <<contexts, my, boots, exiting>>
  BY DEF Register, Goto
<1>2. /\ c \in DOMAIN contexts /\ c # NoContext /\ c \in Contexts /\ Alone(t) /\ ~exiting
      /\ c <= boots /\ boots \in Nat
  BY <1>1, BootAssumption DEF IInv, Types, RefInv, ExitInv, BootSteps, Contexts
<1>3. pc'[t] = "drop" /\ \A u \in Threads \ {t} : pc'[u] = pc[u] /\ my[u] # c
  BY <1>1, <1>2 DEF IInv, Types, Alone
<1>4. /\ DOMAIN registry' = DOMAIN registry \cup {contexts[c]} /\ registry'[contexts[c]] = c
      /\ \A a \in DOMAIN registry \ {contexts[c]} : registry'[a] = registry[a]
  BY <1>1 DEF Put
<1>5. /\ phase'[c] = "ready" /\ phase' \in [Contexts -> {"boot", "ready", "shut"}]
      /\ \A d \in Contexts \ {c} : phase'[d] = phase[d]
  BY <1>1, <1>2 DEF IInv, Types
<1>6. RefInv'
  <2>1. \A u \in Threads : pc'[u] \in BootSteps \cup {"destroy"} => Alone(u)'
    BY <1>1, <1>2, <1>3, <1>4 DEF IInv, RefInv, Alone, BootSteps
  <2>2. ASSUME NEW a \in DOMAIN registry'
        PROVE  /\ registry'[a] \in DOMAIN contexts /\ contexts[registry'[a]] = a
               /\ phase'[registry'[a]] = "ready"
    <3>1. CASE a = contexts[c]
      BY <1>2, <1>4, <1>5, <3>1
    <3>2. CASE a # contexts[c]
      <4>1. a \in DOMAIN registry /\ registry'[a] = registry[a] /\ registry[a] \in Contexts
        BY <1>4, <3>2 DEF IInv, Types
      <4> QED
        BY <1>5, <4>1 DEF IInv, RefInv
    <3> QED
      BY <3>1, <3>2
  <2> QED
    BY <1>1, <1>2, <1>3, <2>1, <2>2 DEF IInv, RefInv
<1>7. PhaseInv'
  <2>1. ASSUME NEW u \in Threads, u # t PROVE my[u] \in Contexts => phase'[my[u]] = phase[my[u]]
    BY <1>3, <1>5, <2>1
  <2>2. \A u \in Threads : pc[u] \in BootSteps \cup CallSteps \cup ShutdownSteps => my[u] \in Contexts
    BY DEF IInv, Types, RefInv, BootSteps, CallSteps, ShutdownSteps
  <2> QED
    BY <1>1, <1>2, <1>3, <1>5, <2>1, <2>2 DEF IInv, PhaseInv, BootSteps, CallSteps, ShutdownSteps, Contexts
<1>8. ExitInv'
  BY <1>1, <1>2, <1>3 DEF IInv, ExitInv
<1> QED
  BY <1>6, <1>7, <1>8

LEMMA LookupKeeps ==
  ASSUME IInv, NEW t \in Threads, NEW a \in Addresses, Lookup(t, a)
  PROVE  RefInv' /\ PhaseInv' /\ ExitInv'
<1>1. /\ pc[t] = "idle" /\ pc' = [pc EXCEPT ![t] = "call"] /\ ~exiting /\ a \in DOMAIN registry
      /\ my' = [my EXCEPT ![t] = registry[a]]
      /\ UNCHANGED <<registry, contexts, phase, boots, exiting>>
  BY DEF Lookup, Goto, ctxVars, procVars
<1>2. /\ registry[a] \in DOMAIN contexts /\ registry[a] \in Contexts /\ registry[a] # NoContext
      /\ phase[registry[a]] = "ready"
  BY <1>1, BootAssumption DEF IInv, Types, RefInv, Contexts
<1>3. /\ pc'[t] = "call" /\ my'[t] = registry[a]
      /\ \A u \in Threads \ {t} : pc'[u] = pc[u] /\ my'[u] = my[u]
  BY <1>1 DEF IInv, Types
<1>4. RefInv'
  BY <1>1, <1>2, <1>3 DEF IInv, RefInv, Alone, BootSteps
<1>5. PhaseInv'
  BY <1>1, <1>2, <1>3 DEF IInv, PhaseInv, BootSteps, CallSteps, ShutdownSteps
<1>6. ExitInv'
  BY <1>1, <1>3 DEF IInv, ExitInv
<1> QED
  BY <1>4, <1>5, <1>6

LEMMA TakeHandleKeeps ==
  ASSUME IInv, NEW t \in Threads, NEW a \in Addresses, TakeHandle(t, a)
  PROVE  RefInv' /\ PhaseInv' /\ ExitInv'
<1> DEFINE c == registry[a]
<1>1. /\ pc[t] = "idle" /\ pc' = [pc EXCEPT ![t] = "uninstall"] /\ ~exiting /\ a \in DOMAIN registry
      /\ my' = [my EXCEPT ![t] = c]
      /\ registry' = Remove(registry, a) /\ phase' = [phase EXCEPT ![c] = "shut"]
      /\ UNCHANGED <<contexts, boots, exiting>>
  BY DEF TakeHandle, Goto
<1>2. /\ c \in DOMAIN contexts /\ c \in Contexts /\ c # NoContext
      /\ contexts[c] = a /\ phase[c] = "ready" /\ c <= boots /\ boots \in Nat
  BY <1>1, BootAssumption DEF IInv, Types, RefInv, Contexts
<1>3. /\ pc'[t] = "uninstall" /\ my'[t] = c
      /\ \A u \in Threads \ {t} : pc'[u] = pc[u] /\ my'[u] = my[u]
  BY <1>1 DEF IInv, Types
<1>4. /\ DOMAIN registry' = DOMAIN registry \ {a}
      /\ \A b \in DOMAIN registry' : registry'[b] = registry[b] /\ registry[b] # c
  BY <1>1, <1>2 DEF Remove, IInv, RefInv
<1>5. /\ phase'[c] = "shut" /\ phase' \in [Contexts -> {"boot", "ready", "shut"}]
      /\ \A d \in Contexts \ {c} : phase'[d] = phase[d]
  BY <1>1, <1>2 DEF IInv, Types
<1>6. RefInv'
  <2>1. ASSUME NEW u \in Threads, pc'[u] \in BootSteps \cup {"destroy"} PROVE Alone(u)'
    <3>1. u # t /\ Alone(u)
      BY <1>3, <2>1 DEF IInv, RefInv, BootSteps
    <3>2. c # my[u]
      BY <1>1, <3>1 DEF Alone
    <3> QED
      BY <1>3, <1>4, <3>1, <3>2 DEF Alone
  <2>2. \A b \in DOMAIN registry' : registry[b] \in Contexts
    BY <1>4 DEF IInv, Types
  <2> QED
    BY <1>1, <1>2, <1>3, <1>4, <1>5, <2>1, <2>2 DEF IInv, RefInv
<1>7. PhaseInv'
  <2>1. \A u \in Threads : pc[u] \in BootSteps \cup CallSteps \cup ShutdownSteps => my[u] \in Contexts
    BY DEF IInv, Types, RefInv, BootSteps, CallSteps, ShutdownSteps
  <2>2. \A u \in Threads : pc[u] \in BootSteps => my[u] # c
    BY <1>1 DEF IInv, RefInv, Alone
  <2> QED
    BY <1>1, <1>2, <1>3, <1>5, <2>1, <2>2
       DEF IInv, PhaseInv, BootSteps, CallSteps, ShutdownSteps, Contexts
<1>8. ExitInv'
  BY <1>1, <1>3 DEF IInv, ExitInv
<1> QED
  BY <1>6, <1>7, <1>8

(* The reference goes; with the last one the context does.                 *)
LEMMA DropKeeps ==
  ASSUME IInv, NEW t \in Threads, Drop(t), ~LastRef(t) PROVE RefInv' /\ PhaseInv' /\ ExitInv'
<1>1. /\ pc[t] = "drop" /\ pc' = [pc EXCEPT ![t] = "idle"] /\ my' = [my EXCEPT ![t] = NoContext]
      /\ UNCHANGED <<registry, contexts, phase, boots, exiting>>
  BY DEF Drop, Goto, ctxVars, procVars
<1>2. /\ pc'[t] = "idle" /\ my'[t] = NoContext
      /\ \A u \in Threads \ {t} : pc'[u] = pc[u] /\ my'[u] = my[u]
  BY <1>1 DEF IInv, Types
<1>3. RefInv'
  <2>1. ASSUME NEW u \in Threads, pc'[u] \in BootSteps \cup {"destroy"} PROVE Alone(u)'
    <3>1. u # t /\ Alone(u) /\ my[u] # NoContext
      BY <1>2, <2>1 DEF IInv, RefInv, BootSteps
    <3> QED
      BY <1>1, <1>2, <3>1 DEF Alone
  <2> QED
    BY <1>1, <1>2, <2>1 DEF IInv, RefInv
<1>4. PhaseInv' /\ ExitInv'
  BY <1>1, <1>2 DEF IInv, PhaseInv, ExitInv, BootSteps, CallSteps, ShutdownSteps
<1> QED
  BY <1>3, <1>4

LEMMA FreeContextKeeps ==
  ASSUME IInv, NEW t \in Threads, FreeContext(t) PROVE RefInv' /\ PhaseInv' /\ ExitInv'
<1> DEFINE to == IF exiting THEN "exit" ELSE "idle"
<1>1. /\ pc[t] = "destroy" /\ pc' = [pc EXCEPT ![t] = to]
      /\ my' = [my EXCEPT ![t] = NoContext] /\ contexts' = Remove(contexts, my[t])
      /\ UNCHANGED <<registry, phase, boots, exiting, statics>>
  BY DEF FreeContext, Goto, procVars
<1>2. /\ pc'[t] = to /\ my'[t] = NoContext
      /\ \A u \in Threads \ {t} : pc'[u] = pc[u] /\ my'[u] = my[u]
  BY <1>1 DEF IInv, Types
<1>3. Alone(t)
  BY <1>1 DEF IInv, RefInv
<1>4. DOMAIN contexts' = DOMAIN contexts \ {my[t]} /\ \A c \in DOMAIN contexts' : contexts'[c] = contexts[c]
  BY <1>1 DEF Remove
<1>5. RefInv'
  <2>1. ASSUME NEW u \in Threads, pc'[u] \in BootSteps \cup {"destroy"} PROVE Alone(u)'
    <3>1. u # t /\ Alone(u) /\ my[u] # NoContext
      BY <1>2, <2>1 DEF IInv, RefInv, BootSteps
    <3> QED
      BY <1>1, <1>2, <3>1 DEF Alone
  <2> QED
    BY <1>1, <1>2, <1>3, <1>4, <2>1 DEF IInv, RefInv, Alone
<1>6. PhaseInv'
  BY <1>1, <1>2 DEF IInv, PhaseInv, BootSteps, CallSteps, ShutdownSteps
<1>7. ExitInv'
  BY <1>1, <1>2 DEF IInv, ExitInv
<1> QED
  BY <1>5, <1>6, <1>7

LEMMA ExitKeeps ==
  ASSUME IInv, NEW t \in Threads,
         \/ BeginExit(t) \/ ExitStatic(t)
         \/ \E a \in Addresses : ExitEntry(t, a)
  PROVE  RefInv' /\ PhaseInv' /\ ExitInv'
<1> USE DEF ctxVars, procVars, platVars, Goto
<1>1. CASE BeginExit(t)
  <2>1. /\ pc' = [pc EXCEPT ![t] = "exit"] /\ exiting' = TRUE
        /\ \A u \in Threads : pc[u] = "idle" /\ my[u] = NoContext
        /\ UNCHANGED <<registry, contexts, phase, my, boots>>
    BY <1>1 DEF BeginExit, IInv, RefInv
  <2>2. pc'[t] = "exit" /\ \A u \in Threads \ {t} : pc'[u] = "idle"
    BY <2>1 DEF IInv, Types
  <2>3. RefInv' /\ PhaseInv'
    BY <2>1, <2>2 DEF IInv, RefInv, PhaseInv, BootSteps, CallSteps, ShutdownSteps
  <2>4. ExitInv'
    BY <2>1, <2>2 DEF ExitInv
  <2> QED
    BY <2>3, <2>4
<1>2. CASE ExitStatic(t)
  <2>1. pc[t] = "exit" /\ UNCHANGED <<registry, contexts, phase, my, boots, pc, exiting>>
    BY <1>2 DEF ExitStatic
  <2>2. RefInv' /\ PhaseInv'
    BY <2>1 DEF IInv, RefInv, Alone, PhaseInv
  <2>3. ExitInv'
    BY <2>1 DEF IInv, ExitInv
  <2> QED
    BY <2>2, <2>3
<1>3. ASSUME NEW a \in Addresses, ExitEntry(t, a) PROVE RefInv' /\ PhaseInv' /\ ExitInv'
  <2> DEFINE c == registry[a]
  <2>1. /\ pc[t] = "exit" /\ pc' = [pc EXCEPT ![t] = "destroy"] /\ my' = [my EXCEPT ![t] = c]
        /\ registry' = Remove(registry, a) /\ a \in DOMAIN registry
        /\ statics # << >> /\ LastStatic = "registry"
        /\ UNCHANGED <<contexts, phase, boots, exiting, statics>>
    BY <1>3 DEF ExitEntry
  <2>2. /\ c \in DOMAIN contexts /\ c \in Contexts /\ c # NoContext /\ contexts[c] = a
    BY <2>1, BootAssumption DEF IInv, Types, RefInv, Contexts
  <2>3. /\ exiting /\ \A u \in Threads \ {t} : pc[u] = "idle" /\ my[u] = NoContext
    BY <2>1 DEF IInv, ExitInv, RefInv
  <2>4. /\ pc'[t] = "destroy" /\ my'[t] = c
        /\ \A u \in Threads \ {t} : pc'[u] = "idle" /\ my'[u] = NoContext
    BY <2>1, <2>3 DEF IInv, Types
  <2>5. /\ DOMAIN registry' = DOMAIN registry \ {a}
        /\ \A b \in DOMAIN registry' : registry'[b] = registry[b] /\ registry[b] # c
    BY <2>1, <2>2 DEF Remove, IInv, RefInv
  <2>6. RefInv'
    BY <2>1, <2>2, <2>4, <2>5 DEF IInv, RefInv, Alone, BootSteps
  <2>7. PhaseInv'
    BY <2>1, <2>4 DEF IInv, PhaseInv, BootSteps, CallSteps, ShutdownSteps
  <2>8. ExitInv'
    BY <2>1, <2>3, <2>4 DEF ExitInv, LastStatic
  <2> QED
    BY <2>6, <2>7, <2>8
<1> QED
  BY <1>1, <1>2, <1>3

LEMMA NextRefInv == ASSUME IInv, [Next]_vars PROVE RefInv' /\ PhaseInv' /\ ExitInv'
<1>1. CASE UNCHANGED vars \/ \E t \in Threads : LookupMisses(t)
  <2>1. UNCHANGED <<registry, contexts, phase, my, boots, pc, exiting>>
        /\ (exiting => UNCHANGED statics)
    BY <1>1 DEF LookupMisses, vars, platVars, ctxVars, procVars
  <2>2. RefInv' /\ PhaseInv'
    BY <2>1 DEF IInv, RefInv, Alone, PhaseInv
  <2>3. ExitInv'
    BY <2>1 DEF IInv, ExitInv, LastStatic
  <2> QED
    BY <2>2, <2>3
<1>2. ASSUME NEW t \in Threads, Step(t) PROVE RefInv' /\ PhaseInv' /\ ExitInv'
  BY <1>2, WithinSteps, WithinKeeps, RegisterKeeps, DropKeeps, FreeContextKeeps, ExitKeeps DEF Step
<1> QED
  BY <1>1, <1>2, ConstructKeeps, ExitKeeps, LookupKeeps, TakeHandleKeeps DEF Next

-----------------------------------------------------------------------------
(* Types.                                                                  *)
LEMMA StateTypes ==
  ASSUME statics \in Seq(Statics), NEW t, NEW a, NEW made, State(t, a, made)
  PROVE  statics' \in Seq(Statics)
BY ConstructedIs DEF State

LEMMA FinishedTypes ==
  ASSUME Types, NEW c \in Contexts, Finished(c)
  PROVE  enabled' \subseteq Flags \X Contexts /\ inited' \subseteq Flags \X Addresses
BY DEF Finished, Types

(* The members of a context, before and after it destroys one.             *)
LEMMA NextMemberIs ==
  ASSUME NEW c \in Contexts, Types, members[c] # {}
  PROVE  NextMember(c) \in members[c] /\ (NextMember(c) = "ilc" => "mem" \notin members[c])
<1> DEFINE IsLast(i) == /\ i \in DOMAIN Declaration /\ Declaration[i] \in members[c]
                        /\ \A j \in DOMAIN Declaration : Declaration[j] \in members[c] => j <= i
<1>1. /\ DOMAIN Declaration = {1, 2, 3, 4, 5}
      /\ Declaration[1] = "mk" /\ Declaration[2] = "dma" /\ Declaration[3] = "faults"
      /\ Declaration[4] = "ilc" /\ Declaration[5] = "mem"
  BY DEF Declaration
<1>2. members[c] \subseteq {"mk", "dma", "faults", "ilc", "mem"}
  BY DEF Types, Subsystems
<1>3. \E i : IsLast(i)
  <2>1. CASE "mem" \in members[c]
    <3>1. IsLast(5)
      BY <1>1, <2>1
    <3> QED
      BY <3>1
  <2>2. CASE "mem" \notin members[c] /\ "ilc" \in members[c]
    <3>1. IsLast(4)
      BY <1>1, <2>2
    <3> QED
      BY <3>1
  <2>3. CASE members[c] \subseteq {"mk", "dma", "faults"} /\ "faults" \in members[c]
    <3>1. IsLast(3)
      BY <1>1, <2>3
    <3> QED
      BY <3>1
  <2>4. CASE members[c] \subseteq {"mk", "dma"} /\ "dma" \in members[c]
    <3>1. IsLast(2)
      BY <1>1, <2>4
    <3> QED
      BY <3>1
  <2>5. CASE members[c] = {"mk"}
    <3>1. IsLast(1)
      BY <1>1, <2>5
    <3> QED
      BY <3>1
  <2> QED
    BY <1>2, <2>1, <2>2, <2>3, <2>4, <2>5
<1> DEFINE last == CHOOSE i \in DOMAIN Declaration :
                      /\ Declaration[i] \in members[c]
                      /\ \A j \in DOMAIN Declaration : Declaration[j] \in members[c] => j <= i
<1>4. IsLast(last)
  BY <1>3
<1>5. NextMember(c) = Declaration[last]
  BY DEF NextMember
<1> HIDE DEF last
<1> QED
  BY <1>1, <1>4, <1>5

LEMMA BootTypes ==
  ASSUME IInv, NEW t \in Threads, my[t] \in Contexts, contexts[my[t]] \in Addresses,
         LockClocks(t) \/ Reserve(t) \/ MapPool(t) \/ RegisterDma(t) \/ Spawn(t)
         \/ AttachFaults(t) \/ InitIlc(t)
  PROVE  Types'
<1> USE DEF IInv, Types, ctxVars, procVars, platVars
<1>1. Within(t)
  BY WithinSteps
<1>2. /\ pc' \in [Threads -> {"idle", "drop", "destroy", "exit"}
                                 \cup BootSteps \cup CallSteps \cup ShutdownSteps]
      /\ UNCHANGED <<device, registry, contexts, phase, my, boots, exiting>>
  BY <1>1 DEF Within
<1>3. ASSUME NEW what \in {"VaRange", "Pool", "Mapping", "FaultBuffer", "Poller"}
      PROVE  <<what, my[t]>> \in Made \X Contexts
  BY <1>3 DEF Made
<1>4. CASE LockClocks(t)
  <2>1. statics' \in Seq(Statics)
    BY <1>4, StateTypes DEF LockClocks
  <2>2. UNCHANGED <<inited, members, enabled, streams, held>>
    BY <1>4 DEF LockClocks
  <2> QED
    BY <1>2, <2>1, <2>2
<1>5. CASE Reserve(t)
  <2>1. statics' \in Seq(Statics)
    BY <1>5, StateTypes DEF Reserve
  <2>2. UNCHANGED <<inited, members, enabled, streams>>
        /\ (held' = held \/ held' = held \cup {<<"VaRange", my[t]>>})
    BY <1>5 DEF Reserve
  <2>3. held' \subseteq Made \X Contexts
    BY <1>3, <2>2
  <2> QED
    BY <1>2, <2>1, <2>2, <2>3
<1>6. CASE MapPool(t)
  <2>1. UNCHANGED <<inited, members, enabled, streams, statics>>
        /\ (held' = held \/ held' = held \cup {<<"Pool", my[t]>>, <<"Mapping", my[t]>>})
    BY <1>6 DEF MapPool
  <2>2. held' \subseteq Made \X Contexts
    BY <1>3, <2>1
  <2> QED
    BY <1>2, <2>1, <2>2
<1>7. CASE RegisterDma(t)
  <2>1. FlagsOf(device) \subseteq Flags
    BY DEF FlagsOf
  <2>2. /\ members' \in [Contexts -> SUBSET Subsystems]
        /\ enabled' \subseteq Flags \X Contexts /\ inited' \subseteq Flags \X Addresses
    BY <1>7, <2>1 DEF RegisterDma, Subsystems
  <2> QED
    BY <1>2, <1>7, <2>2 DEF RegisterDma
<1>8. CASE Spawn(t)
  <2>1. statics' \in Seq(Statics)
    BY <1>8, StateTypes DEF Spawn
  <2>2. members' \in [Contexts -> SUBSET Subsystems]
    <3>1. members' = [members EXCEPT ![my[t]] = @ \cup {"mk"}]
      BY <1>8 DEF Spawn
    <3> QED
      BY <3>1 DEF Subsystems
  <2>3. streams' \in [Contexts -> Int]
    <3>1. streams' = [streams EXCEPT ![my[t]] = @ + 1] \/ streams' = streams
      BY <1>8 DEF Spawn
    <3> QED
      BY <3>1
  <2>4. UNCHANGED <<inited, enabled, held>>
    BY <1>8 DEF Spawn
  <2> QED
    BY <1>2, <2>1, <2>2, <2>3, <2>4
<1>9. CASE AttachFaults(t)
  <2>1. UNCHANGED <<inited, enabled, streams, statics>>
        /\ (held' = held \/ held' = held \cup {<<"FaultBuffer", my[t]>>, <<"Poller", my[t]>>})
    BY <1>9 DEF AttachFaults
  <2>2. held' \subseteq Made \X Contexts
    BY <1>3, <2>1
  <2>3. members' \in [Contexts -> SUBSET Subsystems]
    BY <1>9 DEF AttachFaults, Subsystems
  <2> QED
    BY <1>2, <2>1, <2>2, <2>3
<1>10. CASE InitIlc(t)
  <2>1. members' \in [Contexts -> SUBSET Subsystems]
    BY <1>10 DEF InitIlc, Subsystems
  <2> QED
    BY <1>2, <1>10, <2>1 DEF InitIlc
<1> QED
  BY <1>4, <1>5, <1>6, <1>7, <1>8, <1>9, <1>10

LEMMA CallTypes ==
  ASSUME IInv, NEW t \in Threads, my[t] \in Contexts,
         MemoryLock(t) \/ MemoryMake(t) \/ Alloc(t) \/ TakeStream(t) \/ EndCall(t)
         \/ Uninstall(t) \/ DrainStreams(t) \/ ShutdownDma(t) \/ ReleaseVaddress(t)
         \/ (Drop(t) /\ LastRef(t)) \/ DestroyMember(t)
  PROVE  Types'
<1> USE DEF IInv, Types, ctxVars, procVars, platVars
<1>1. Within(t)
  BY WithinSteps
<1>2. /\ pc' \in [Threads -> {"idle", "drop", "destroy", "exit"}
                                 \cup BootSteps \cup CallSteps \cup ShutdownSteps]
      /\ UNCHANGED <<device, registry, contexts, phase, my, boots, exiting>>
  BY <1>1 DEF Within
<1>3. CASE MemoryLock(t) \/ TakeStream(t) \/ EndCall(t) \/ (Drop(t) /\ LastRef(t))
  <2>1. UNCHANGED <<statics, inited, members, enabled, streams, held>>
    BY <1>3 DEF MemoryLock, TakeStream, EndCall, Drop
  <2> QED
    BY <1>2, <2>1
<1>4. CASE MemoryMake(t)
  <2>1. members' \in [Contexts -> SUBSET Subsystems]
    BY <1>4 DEF MemoryMake, Subsystems
  <2> QED
    BY <1>2, <1>4, <2>1 DEF MemoryMake
<1>5. CASE Alloc(t)
  <2>1. held' \subseteq Made \X Contexts
    BY <1>5 DEF Alloc, Made
  <2> QED
    BY <1>2, <1>5, <2>1 DEF Alloc
<1>6. CASE Uninstall(t) \/ ReleaseVaddress(t)
  <2>1. held' \subseteq Made \X Contexts
    BY <1>6 DEF Uninstall, ReleaseVaddress, Uninstalled, RangeReleased
  <2> QED
    BY <1>2, <1>6, <2>1 DEF Uninstall, ReleaseVaddress
<1>7. CASE DrainStreams(t)
  <2>1. streams' \in [Contexts -> Int]
    BY <1>7, DrainedType DEF DrainStreams
  <2> QED
    BY <1>2, <1>7, <2>1 DEF DrainStreams
<1>8. CASE ShutdownDma(t)
  <2>1. enabled' \subseteq Flags \X Contexts /\ inited' \subseteq Flags \X Addresses
    BY <1>8, FinishedTypes DEF ShutdownDma
  <2> QED
    BY <1>2, <1>8, <2>1 DEF ShutdownDma
<1>9. CASE DestroyMember(t)
  <2> DEFINE m == NextMember(my[t])
  <2>1. Destroyed(my[t], m) /\ members' = [members EXCEPT ![my[t]] = @ \ {m}] /\ UNCHANGED statics
    BY <1>9 DEF DestroyMember
  <2> HIDE DEF m
  <2>2. members' \in [Contexts -> SUBSET Subsystems]
    BY <2>1
  <2>3. enabled' \subseteq Flags \X Contexts /\ inited' \subseteq Flags \X Addresses
    BY <2>1, FinishedTypes DEF Destroyed
  <2>4. streams' \in [Contexts -> Int]
    BY <2>1, DrainedType DEF Destroyed
  <2>5. held' \subseteq Made \X Contexts
    BY <2>1 DEF Destroyed, Uninstalled
  <2> QED
    BY <1>2, <2>1, <2>2, <2>3, <2>4, <2>5
<1> QED
  BY <1>3, <1>4, <1>5, <1>6, <1>7, <1>8, <1>9

LEMMA NextTypes == ASSUME IInv, [Next]_vars PROVE Types'
<1> USE DEF IInv, Types
<1>1. CASE UNCHANGED vars
  BY <1>1 DEF vars, platVars, ctxVars, procVars
<1>2. ASSUME NEW t \in Threads, pc[t] \notin {"idle", "exit"}
      PROVE  my[t] \in Contexts /\ contexts[my[t]] \in Addresses /\ my[t] \in DOMAIN contexts
  <2>1. my[t] \in DOMAIN contexts /\ my[t] # NoContext
    BY <1>2 DEF RefInv
  <2> QED
    BY <2>1
<1> USE DEF ctxVars, procVars, platVars, Goto
<1>3. ASSUME NEW t \in Threads, Construct(t) PROVE Types'
  <2>1. PICK a \in Addresses : contexts' = Put(contexts, boots + 1, a)
    BY <1>3 DEF Construct
  <2>2. boots \in Nat /\ boots' = boots + 1 /\ boots' \in Contexts /\ boots < MaxBoots
    BY <1>3, BootAssumption DEF Construct, Contexts
  <2>3. /\ contexts' \in [DOMAIN contexts' -> Addresses] /\ DOMAIN contexts' \subseteq 1 .. boots'
    BY <2>1, <2>2 DEF Put
  <2>4. boots' \in 0 .. MaxBoots
    BY <2>2, BootAssumption
  <2>5. pc' = [pc EXCEPT ![t] = "clock"] /\ my' = [my EXCEPT ![t] = boots']
        /\ UNCHANGED <<device, statics, registry, inited, members, enabled, streams, held, phase, exiting>>
    BY <1>3, <2>2 DEF Construct
  <2> QED
    BY <2>2, <2>3, <2>4, <2>5 DEF BootSteps
<1>4. ASSUME NEW t \in Threads, LookupMisses(t) PROVE Types'
  <2>1. statics' \in Seq(Statics)
    BY <1>4, ConstructedIs DEF LookupMisses
  <2> QED
    BY <1>4, <2>1 DEF LookupMisses
<1>5. ASSUME NEW t \in Threads, BeginExit(t) PROVE Types'
  BY <1>5 DEF BeginExit
<1>6. ASSUME NEW t \in Threads, NEW a \in Addresses, Lookup(t, a) PROVE Types'
  BY <1>6 DEF Lookup, CallSteps
<1>7. ASSUME NEW t \in Threads, NEW a \in Addresses, TakeHandle(t, a) PROVE Types'
  <2>1. registry' \in [DOMAIN registry' -> Contexts] /\ registry[a] \in Contexts
    BY <1>7 DEF TakeHandle, Remove
  <2> QED
    BY <1>7, <2>1 DEF TakeHandle, ShutdownSteps
<1>8. ASSUME NEW t \in Threads, Register(t) PROVE Types'
  <2>1. my[t] \in Contexts /\ registry' = Put(registry, contexts[my[t]], my[t])
        /\ phase' = [phase EXCEPT ![my[t]] = "ready"]
    BY <1>2, <1>8 DEF Register
  <2>2. registry' \in [DOMAIN registry' -> Contexts] /\ phase' \in [Contexts -> {"boot", "ready", "shut"}]
    BY <2>1 DEF Put
  <2>3. statics' \in Seq(Statics)
    BY <1>8, ConstructedIs DEF Register
  <2> QED
    BY <1>8, <2>2, <2>3 DEF Register
<1>9. ASSUME NEW t \in Threads, Drop(t) /\ ~LastRef(t) PROVE Types'
  BY <1>9 DEF Drop
<1>10. ASSUME NEW t \in Threads, FreeContext(t) PROVE Types'
  <2>1. contexts' \in [DOMAIN contexts' -> Addresses] /\ DOMAIN contexts' \subseteq 1 .. boots
    BY <1>10 DEF FreeContext, Remove
  <2> QED
    BY <1>10, <2>1 DEF FreeContext
<1>11. ASSUME NEW t \in Threads, ExitStatic(t) PROVE Types'
  <2>1. statics' \in Seq(Statics)
    BY <1>11 DEF ExitStatic
  <2> QED
    BY <1>11, <2>1 DEF ExitStatic
<1>12. ASSUME NEW t \in Threads, NEW a \in Addresses, ExitEntry(t, a) PROVE Types'
  <2>1. registry' \in [DOMAIN registry' -> Contexts] /\ registry[a] \in Contexts
    BY <1>12 DEF ExitEntry, Remove
  <2> QED
    BY <1>12, <2>1 DEF ExitEntry
<1>13. ASSUME NEW t \in Threads, Step(t) PROVE Types'
  <2>1. CASE \/ LockClocks(t) \/ Reserve(t) \/ MapPool(t) \/ RegisterDma(t) \/ Spawn(t)
             \/ AttachFaults(t) \/ InitIlc(t)
    <3>1. Within(t)
      BY <2>1, WithinSteps
    <3> QED
      BY <1>2, <2>1, <3>1, BootTypes DEF Within
  <2>2. CASE \/ MemoryLock(t) \/ MemoryMake(t) \/ Alloc(t) \/ TakeStream(t) \/ EndCall(t)
             \/ Uninstall(t) \/ DrainStreams(t) \/ ShutdownDma(t) \/ ReleaseVaddress(t)
             \/ (Drop(t) /\ LastRef(t)) \/ DestroyMember(t)
    <3>1. Within(t)
      BY <2>2, WithinSteps
    <3> QED
      BY <1>2, <2>2, <3>1, CallTypes DEF Within
  <2> QED
    BY <1>8, <1>9, <1>10, <1>11, <1>12, <1>13, <2>1, <2>2 DEF Step
<1> QED
  BY <1>1, <1>3, <1>4, <1>5, <1>6, <1>7, <1>13 DEF Next

-----------------------------------------------------------------------------
LEMMA LiveContexts == Types => DOMAIN contexts \subseteq Contexts
BY BootAssumption DEF Types, Contexts

(* The members: a boot and the first use of the memory manager add some,   *)
LEMMA MembersGrow ==
  ASSUME IInv, NEW t \in Threads, Within(t), NEW X \in SUBSET Subsystems, pc[t] # "destroy",
         members' = [members EXCEPT ![my[t]] = @ \cup X],
         "mem" \in X => phase[my[t]] # "boot",
         pc'[t] = "spawn" => "dma" \in members'[my[t]],
         pc'[t] = "faults" => {"mk", "dma"} \subseteq members'[my[t]],
         pc'[t] \in {"ilc", "register"} => Booted \subseteq members'[my[t]],
         pc'[t] = "register" /\ device.ilc => "ilc" \in members'[my[t]],
         pc'[t] = "alloc" => "mem" \in members'[my[t]]
  PROVE  MembersInv'
<1>1. /\ members \in [Contexts -> SUBSET Subsystems]
      /\ my[t] \in DOMAIN contexts /\ my[t] \in Contexts /\ my[t] # NoContext
  BY DEF IInv, Types, RefInv, Within
<1>2. /\ members'[my[t]] = members[my[t]] \cup X
      /\ \A c \in Contexts \ {my[t]} : members'[c] = members[c]
  BY <1>1
<1>3. /\ UNCHANGED <<device, contexts, phase, my>>
      /\ \A u \in Threads \ {t} : pc'[u] = pc[u]
  BY DEF Within
<1>4. \A c \in Contexts : members[c] \subseteq members'[c]
  BY <1>2
<1>5. \A c \in Contexts \ DOMAIN contexts' : members'[c] = {}
  BY <1>1, <1>2, <1>3 DEF IInv, MembersInv
<1>6. ASSUME NEW c \in DOMAIN contexts, phase[c] # "boot",
             \A u \in Threads : pc'[u] = "destroy" => my[u] # c
      PROVE  Complete(c)'
  <2>1. \A u \in Threads : pc[u] = "destroy" => my[u] # c
    BY <1>3, <1>6
  <2>2. Complete(c) /\ c \in Contexts
    BY <1>6, <2>1, LiveContexts DEF IInv, MembersInv
  <2> QED
    BY <1>3, <1>4, <2>2 DEF Complete
<1>7. ASSUME NEW u \in Threads
      PROVE  /\ pc'[u] = "faults" => {"mk", "dma"} \subseteq members'[my[u]]
             /\ pc'[u] \in {"ilc", "register"} => Booted \subseteq members'[my[u]]
             /\ pc'[u] = "spawn" => "dma" \in members'[my[u]]
             /\ pc'[u] = "register" => Complete(my[u])'
             /\ pc'[u] = "alloc" => "mem" \in members'[my[u]]
  <2>1. CASE u = t
    BY <1>3, <2>1 DEF Complete
  <2>2. CASE u # t
    <3>1. pc'[u] = pc[u] /\ (pc[u] \notin {"idle", "exit"} => my[u] \in Contexts)
      BY <1>3, <2>2 DEF IInv, RefInv, Types
    <3> QED
      BY <1>3, <1>4, <3>1 DEF IInv, MembersInv, Complete
  <2> QED
    BY <2>1, <2>2
<1>8. ASSUME NEW c \in Contexts, "mem" \in members'[c], device.ilc PROVE "ilc" \in members'[c]
  <2>1. CASE "mem" \in members[c]
    BY <1>4, <1>8, <2>1 DEF IInv, MembersInv
  <2>2. CASE "mem" \notin members[c]
    <3>1. c = my[t] /\ "mem" \in X
      BY <1>2, <1>8, <2>2
    <3>2. \A u \in Threads : pc[u] = "destroy" => my[u] # c
      BY <3>1 DEF IInv, RefInv, Alone
    <3>3. Complete(c)
      BY <1>1, <3>1, <3>2 DEF IInv, MembersInv
    <3> QED
      BY <1>4, <1>8, <3>3 DEF Complete
  <2> QED
    BY <2>1, <2>2
<1> QED
  BY <1>3, <1>5, <1>6, <1>7, <1>8 DEF MembersInv

(* and the rest of a call leaves them.                                     *)
LEMMA MembersSame ==
  ASSUME IInv, NEW t \in Threads, Within(t), UNCHANGED members,
         pc'[t] \notin {"spawn", "faults", "ilc", "register", "alloc"}
  PROVE  MembersInv'
<1>1. /\ UNCHANGED <<device, contexts, phase, my>>
      /\ \A u \in Threads \ {t} : pc'[u] = pc[u]
      /\ pc[t] = "destroy" => pc'[t] = "destroy"
  BY DEF Within
<1>2. ASSUME NEW c \in DOMAIN contexts, phase[c] # "boot",
             \A u \in Threads : pc'[u] = "destroy" => my[u] # c
      PROVE  Complete(c)'
  <2>1. \A u \in Threads : pc[u] = "destroy" => my[u] # c
    BY <1>1, <1>2
  <2> QED
    BY <1>1, <1>2, <2>1 DEF IInv, MembersInv, Complete
<1> QED
  BY <1>1, <1>2 DEF IInv, MembersInv, Complete

LEMMA DestroyMembers ==
  ASSUME IInv, NEW t \in Threads, DestroyMember(t)
  PROVE  MembersInv'
<1> DEFINE m == NextMember(my[t])
<1>1. /\ pc[t] = "destroy" /\ members[my[t]] # {}
      /\ members' = [members EXCEPT ![my[t]] = @ \ {m}]
      /\ UNCHANGED <<device, contexts, phase, my, pc>>
  BY DEF DestroyMember
<1>2. /\ members \in [Contexts -> SUBSET Subsystems] /\ my[t] \in Contexts
      /\ Alone(t) /\ my[t] \in DOMAIN contexts
  BY <1>1 DEF IInv, Types, RefInv
<1>3. m \in members[my[t]] /\ (m = "ilc" => "mem" \notin members[my[t]])
  BY <1>1, <1>2, NextMemberIs DEF IInv
<1> HIDE DEF m
<1>4. /\ members'[my[t]] = members[my[t]] \ {m}
      /\ \A c \in Contexts \ {my[t]} : members'[c] = members[c]
  BY <1>1, <1>2
<1>5. \A c \in Contexts \ DOMAIN contexts' : members'[c] = {}
  BY <1>1, <1>2, <1>4 DEF IInv, MembersInv
<1>6. ASSUME NEW c \in DOMAIN contexts, phase[c] # "boot",
             \A u \in Threads : pc[u] = "destroy" => my[u] # c
      PROVE  Complete(c)'
  <2>1. c # my[t] /\ c \in Contexts
    BY <1>1, <1>6, LiveContexts DEF IInv
  <2> QED
    BY <1>1, <1>4, <1>6, <2>1 DEF IInv, MembersInv, Complete
<1>7. ASSUME NEW u \in Threads, pc[u] \notin {"idle", "exit", "destroy"}
      PROVE  members'[my[u]] = members[my[u]] /\ (Complete(my[u]) => Complete(my[u])')
  <2>1. my[u] # my[t] /\ my[u] \in Contexts
    BY <1>1, <1>2, <1>7 DEF IInv, RefInv, Types, Alone
  <2> QED
    BY <1>1, <1>4, <2>1 DEF Complete
<1>8. ASSUME NEW c \in Contexts, "mem" \in members'[c], device.ilc PROVE "ilc" \in members'[c]
  BY <1>3, <1>4, <1>8 DEF IInv, MembersInv
<1> QED
  BY <1>1, <1>5, <1>6, <1>7, <1>8 DEF IInv, MembersInv

LEMMA NextMembersInv == ASSUME IInv, [Next]_vars PROVE MembersInv'
<1> USE DEF Goto, Fail, platVars, ctxVars, procVars
<1>1. ASSUME NEW t \in Threads,
             \/ LockClocks(t) \/ Reserve(t) \/ MapPool(t) \/ MemoryLock(t) \/ Alloc(t)
             \/ TakeStream(t) \/ EndCall(t) \/ Uninstall(t) \/ DrainStreams(t)
             \/ ShutdownDma(t) \/ ReleaseVaddress(t) \/ (Drop(t) /\ LastRef(t))
      PROVE  MembersInv'
  <2>1. Within(t)
    BY <1>1, WithinSteps
  <2>2. UNCHANGED members
    BY <1>1 DEF LockClocks, Reserve, MapPool, MemoryLock, Alloc, TakeStream, EndCall, Uninstall,
                DrainStreams, ShutdownDma, ReleaseVaddress, Drop
  <2>3. \E to : pc' = [pc EXCEPT ![t] = to]
                /\ to \notin {"spawn", "faults", "ilc", "register", "alloc"}
    <3>1. CASE LockClocks(t) \/ Reserve(t) \/ MapPool(t)
      BY <3>1 DEF LockClocks, Reserve, MapPool
    <3>2. CASE \/ MemoryLock(t) \/ Alloc(t) \/ TakeStream(t) \/ EndCall(t) \/ Uninstall(t)
               \/ DrainStreams(t) \/ ShutdownDma(t) \/ ReleaseVaddress(t) \/ (Drop(t) /\ LastRef(t))
      BY <3>2 DEF MemoryLock, Alloc, TakeStream, EndCall, Uninstall, DrainStreams, ShutdownDma,
                  ReleaseVaddress, Drop
    <3> QED
      BY <1>1, <3>1, <3>2
  <2>4. pc'[t] \notin {"spawn", "faults", "ilc", "register", "alloc"}
    BY <2>3 DEF IInv, Types
  <2> QED
    BY <2>1, <2>2, <2>4, MembersSame
<1>2. ASSUME NEW t \in Threads, my[t] \in Contexts,
             RegisterDma(t) \/ Spawn(t) \/ AttachFaults(t) \/ InitIlc(t) \/ MemoryMake(t)
      PROVE  MembersInv'
  <2>1. Within(t) /\ pc[t] # "destroy" /\ members \in [Contexts -> SUBSET Subsystems] /\ t \in DOMAIN pc
    BY <1>2, WithinSteps DEF RegisterDma, Spawn, AttachFaults, InitIlc, MemoryMake, IInv, Types
  <2>2. CASE RegisterDma(t)
    <3>1. pc'[t] = "spawn" /\ members' = [members EXCEPT ![my[t]] = @ \cup {"dma"}]
      BY <2>1, <2>2 DEF RegisterDma
    <3>2. "dma" \in members'[my[t]] /\ {"dma"} \in SUBSET Subsystems
      BY <1>2, <2>1, <3>1 DEF Subsystems
    <3> QED
      BY <2>1, <3>1, <3>2, MembersGrow
  <2>3. CASE Spawn(t)
    <3>1. /\ pc[t] = "spawn" /\ pc'[t] \in {"spawn", "faults", "drop"}
          /\ members' = [members EXCEPT ![my[t]] = @ \cup {"mk"}]
      BY <2>1, <2>3 DEF Spawn
    <3>2. {"mk", "dma"} \subseteq members'[my[t]] /\ {"mk"} \in SUBSET Subsystems
      BY <1>2, <2>1, <3>1 DEF Subsystems, IInv, MembersInv
    <3> QED
      BY <2>1, <3>1, <3>2, MembersGrow
  <2>4. CASE AttachFaults(t)
    <3>1. /\ pc[t] = "faults" /\ pc'[t] \in {"ilc", "drop"}
          /\ members' = [members EXCEPT ![my[t]] = @ \cup {"faults"}]
      BY <2>1, <2>4 DEF AttachFaults
    <3>2. Booted \subseteq members'[my[t]] /\ {"faults"} \in SUBSET Subsystems
      BY <1>2, <2>1, <3>1 DEF Subsystems, IInv, MembersInv, Booted
    <3> QED
      BY <2>1, <3>1, <3>2, MembersGrow
  <2>5. CASE InitIlc(t)
    <3> DEFINE X == IF device.ilc THEN {"ilc"} ELSE {}
    <3>1. /\ pc[t] = "ilc" /\ pc'[t] = "register"
          /\ members' = [members EXCEPT ![my[t]] = @ \cup X]
      BY <2>1, <2>5 DEF InitIlc
    <3>2. /\ Booted \subseteq members'[my[t]] /\ X \in SUBSET Subsystems /\ "mem" \notin X
          /\ device.ilc => "ilc" \in members'[my[t]]
      BY <1>2, <2>1, <3>1 DEF Subsystems, IInv, MembersInv
    <3> HIDE DEF X
    <3> QED
      BY <2>1, <3>1, <3>2, MembersGrow
  <2>6. CASE MemoryMake(t)
    <3>1. /\ pc[t] = "memory" /\ pc'[t] = "alloc"
          /\ members' = [members EXCEPT ![my[t]] = @ \cup {"mem"}]
      BY <2>1, <2>6 DEF MemoryMake
    <3>2. "mem" \in members'[my[t]] /\ {"mem"} \in SUBSET Subsystems
      BY <1>2, <2>1, <3>1 DEF Subsystems
    <3>3. phase[my[t]] # "boot"
      BY <3>1 DEF IInv, PhaseInv, CallSteps
    <3> QED
      BY <2>1, <3>1, <3>2, <3>3, MembersGrow
  <2> QED
    BY <1>2, <2>2, <2>3, <2>4, <2>5, <2>6
<1>3. ASSUME NEW t \in Threads, Construct(t) PROVE MembersInv'
  <2>1. /\ UNCHANGED <<device, members, phase>> /\ boots \in Nat
        /\ pc' = [pc EXCEPT ![t] = "clock"] /\ my' = [my EXCEPT ![t] = boots + 1]
        /\ DOMAIN contexts' = DOMAIN contexts \cup {boots + 1} /\ pc[t] = "idle"
    BY <1>3, BootAssumption DEF Construct, Put, IInv, Types
  <2>2. /\ pc'[t] = "clock"
        /\ \A u \in Threads \ {t} : pc'[u] = pc[u] /\ my'[u] = my[u]
    BY <2>1 DEF IInv, Types
  <2>3. ASSUME NEW c \in DOMAIN contexts', phase[c] # "boot",
               \A u \in Threads : pc'[u] = "destroy" => my'[u] # c
        PROVE  Complete(c)'
    <3>1. boots + 1 \in Contexts => phase[boots + 1] = "boot"
      BY <2>1 DEF IInv, PhaseInv
    <3>2. boots + 1 \in Contexts
      BY <1>3, <2>1, BootAssumption DEF Construct, Contexts
    <3>3. c \in DOMAIN contexts
      BY <2>1, <2>3, <3>1, <3>2
    <3>4. \A u \in Threads : pc[u] = "destroy" => my[u] # c
      BY <2>1, <2>2, <2>3
    <3> QED
      BY <2>1, <2>3, <3>3, <3>4 DEF IInv, MembersInv, Complete
  <2>4. \A u \in Threads : pc'[u] = "register" => Complete(my[u])'
    BY <2>1, <2>2 DEF IInv, MembersInv, Complete
  <2> QED
    BY <2>1, <2>2, <2>3, <2>4 DEF IInv, MembersInv
<1>4. ASSUME NEW t \in Threads, Register(t) PROVE MembersInv'
  <2>1. /\ UNCHANGED <<device, members, contexts, my>> /\ pc[t] = "register"
        /\ pc' = [pc EXCEPT ![t] = "drop"] /\ phase' = [phase EXCEPT ![my[t]] = "ready"]
    BY <1>4 DEF Register
  <2>2. pc'[t] = "drop" /\ \A u \in Threads \ {t} : pc'[u] = pc[u]
    BY <2>1 DEF IInv, Types
  <2>3. Complete(my[t])
    BY <2>1 DEF IInv, MembersInv
  <2>4. ASSUME NEW c \in DOMAIN contexts, phase'[c] # "boot",
               \A u \in Threads : pc'[u] = "destroy" => my[u] # c
        PROVE  Complete(c)
    <3>1. c \in Contexts /\ (c # my[t] => phase'[c] = phase[c])
      BY <2>1, <2>4, LiveContexts DEF IInv, Types
    <3>2. \A u \in Threads : pc[u] = "destroy" => my[u] # c
      BY <2>1, <2>2, <2>4
    <3> QED
      BY <2>3, <2>4, <3>1, <3>2 DEF IInv, MembersInv
  <2> QED
    BY <2>1, <2>2, <2>4 DEF IInv, MembersInv, Complete
<1>5. ASSUME NEW t \in Threads, NEW a \in Addresses, Lookup(t, a) \/ TakeHandle(t, a) PROVE MembersInv'
  <2>1. /\ UNCHANGED <<device, members, contexts>> /\ pc[t] = "idle" /\ a \in DOMAIN registry
        /\ my' = [my EXCEPT ![t] = registry[a]]
        /\ pc' = [pc EXCEPT ![t] = "call"] \/ pc' = [pc EXCEPT ![t] = "uninstall"]
        /\ phase' = phase \/ phase' = [phase EXCEPT ![registry[a]] = "shut"]
    BY <1>5 DEF Lookup, TakeHandle
  <2>2. /\ pc'[t] \in {"call", "uninstall"}
        /\ \A u \in Threads \ {t} : pc'[u] = pc[u] /\ my'[u] = my[u]
        /\ registry[a] \in Contexts /\ phase[registry[a]] = "ready"
    BY <2>1 DEF IInv, Types, RefInv
  <2>3. ASSUME NEW c \in DOMAIN contexts, phase'[c] # "boot",
               \A u \in Threads : pc'[u] = "destroy" => my'[u] # c
        PROVE  Complete(c)
    <3>1. c \in Contexts /\ phase[c] # "boot"
      BY <2>1, <2>2, <2>3, LiveContexts DEF IInv, Types
    <3>2. \A u \in Threads : pc[u] = "destroy" => my[u] # c
      BY <2>1, <2>2, <2>3
    <3> QED
      BY <3>1, <3>2 DEF IInv, MembersInv
  <2>4. \A u \in Threads : pc'[u] = "register" => Complete(my[u])'
    BY <2>1, <2>2 DEF IInv, MembersInv, Complete
  <2> QED
    BY <2>1, <2>2, <2>3, <2>4 DEF IInv, MembersInv, Complete
<1>6. ASSUME NEW t \in Threads, Drop(t), ~LastRef(t) PROVE MembersInv'
  <2>1. /\ UNCHANGED <<device, members, contexts, phase>> /\ pc[t] = "drop"
        /\ my' = [my EXCEPT ![t] = NoContext] /\ pc' = [pc EXCEPT ![t] = "idle"]
    BY <1>6 DEF Drop
  <2>2. /\ pc'[t] = "idle"
        /\ \A u \in Threads \ {t} : pc'[u] = pc[u] /\ my'[u] = my[u]
    BY <2>1 DEF IInv, Types
  <2>3. ASSUME NEW c \in DOMAIN contexts, \A u \in Threads : pc'[u] = "destroy" => my'[u] # c
        PROVE  \A u \in Threads : pc[u] = "destroy" => my[u] # c
    BY <2>1, <2>2, <2>3
  <2> QED
    BY <2>1, <2>2, <2>3 DEF IInv, MembersInv, Complete
<1>7. ASSUME NEW t \in Threads, FreeContext(t) PROVE MembersInv'
  <2>1. /\ UNCHANGED <<device, members, phase>> /\ pc[t] = "destroy" /\ members[my[t]] = {}
        /\ my' = [my EXCEPT ![t] = NoContext]
        /\ pc' = [pc EXCEPT ![t] = "idle"] \/ pc' = [pc EXCEPT ![t] = "exit"]
        /\ DOMAIN contexts' = DOMAIN contexts \ {my[t]}
    BY <1>7 DEF FreeContext, Remove
  <2>2. /\ pc'[t] \in {"idle", "exit"}
        /\ \A u \in Threads \ {t} : pc'[u] = pc[u] /\ my'[u] = my[u]
    BY <2>1 DEF IInv, Types
  <2>3. ASSUME NEW c \in DOMAIN contexts', \A u \in Threads : pc'[u] = "destroy" => my'[u] # c
        PROVE  \A u \in Threads : pc[u] = "destroy" => my[u] # c
    BY <2>1, <2>2, <2>3
  <2> QED
    BY <2>1, <2>2, <2>3 DEF IInv, MembersInv, Complete
<1>8. ASSUME NEW t \in Threads, NEW a \in Addresses, ExitEntry(t, a) PROVE MembersInv'
  <2>1. /\ UNCHANGED <<device, members, contexts, phase>> /\ pc[t] = "exit"
        /\ pc' = [pc EXCEPT ![t] = "destroy"] /\ my' = [my EXCEPT ![t] = registry[a]]
    BY <1>8 DEF ExitEntry
  <2>2. /\ pc'[t] = "destroy"
        /\ \A u \in Threads \ {t} : pc'[u] = pc[u] /\ my'[u] = my[u]
    BY <2>1 DEF IInv, Types
  <2>3. ASSUME NEW c \in DOMAIN contexts, \A u \in Threads : pc'[u] = "destroy" => my'[u] # c
        PROVE  \A u \in Threads : pc[u] = "destroy" => my[u] # c
    BY <2>1, <2>2, <2>3
  <2> QED
    BY <2>1, <2>2, <2>3 DEF IInv, MembersInv, Complete
<1>9. ASSUME NEW t \in Threads, LookupMisses(t) \/ BeginExit(t) \/ ExitStatic(t) PROVE MembersInv'
  <2>1. /\ UNCHANGED <<device, members, contexts, phase, my>>
        /\ pc' = pc \/ (pc' = [pc EXCEPT ![t] = "exit"] /\ pc[t] = "idle")
    BY <1>9 DEF LookupMisses, BeginExit, ExitStatic
  <2>2. \A u \in Threads : pc'[u] = pc[u] \/ (pc'[u] = "exit" /\ pc[u] = "idle")
    BY <2>1 DEF IInv, Types
  <2> QED
    BY <2>1, <2>2 DEF IInv, MembersInv, Complete
<1>10. CASE UNCHANGED vars
  BY <1>10 DEF vars, IInv, MembersInv, Complete
<1>11. ASSUME NEW t \in Threads, Step(t) PROVE MembersInv'
  <2>1. pc[t] \notin {"idle", "exit"} => my[t] \in Contexts
    BY DEF IInv, Types, RefInv
  <2>2. RegisterDma(t) \/ Spawn(t) \/ AttachFaults(t) \/ InitIlc(t) \/ MemoryMake(t) => MembersInv'
    <3>1. RegisterDma(t) \/ Spawn(t) \/ AttachFaults(t) \/ InitIlc(t) \/ MemoryMake(t)
            => pc[t] \notin {"idle", "exit"}
      BY DEF RegisterDma, Spawn, AttachFaults, InitIlc, MemoryMake
    <3> QED
      BY <1>2, <2>1, <3>1
  <2> QED
    BY <1>1, <1>4, <1>6, <1>7, <1>8, <1>9, <1>11, <2>2, DestroyMembers DEF Step
<1> QED
  BY <1>3, <1>5, <1>9, <1>10, <1>11 DEF Next

-----------------------------------------------------------------------------
(* What the driver holds.  The other contexts are as they were.            *)
LEMMA HeldElsewhere ==
  ASSUME IInv, NEW t \in Threads, Within(t), NEW c \in Contexts, c # my[t],
         members'[c] = members[c], streams'[c] = streams[c],
         \A w \in Made : <<w, c>> \in held' <=> <<w, c>> \in held,
         \A f \in Flags : <<f, c>> \in enabled' => <<f, c>> \in enabled
  PROVE  HeldOf(c)' /\ RangeOf(c)'
<1>1. HeldOf(c) /\ RangeOf(c)
  BY DEF IInv, HeldInv
<1>2. HeldOf(c)'
  BY <1>1 DEF HeldOf, Made
<1>3. /\ UNCHANGED <<phase, my>> /\ \A u \in Threads \ {t} : pc'[u] = pc[u]
  BY DEF Within
<1>4. RangeOf(c)'
  BY <1>1, <1>3 DEF RangeOf, Made
<1> QED
  BY <1>2, <1>4

(* A step that makes nothing, or only the address range in a boot, and     *)
(* ends no shutdown.                                                       *)
LEMMA RangeKept ==
  ASSUME IInv, NEW t \in Threads, Within(t), NEW c \in Contexts,
         pc[t] \in ShutdownSteps => pc'[t] \in ShutdownSteps,
         \/ phase[c] = "boot"
         \/ \A w \in {"VaRange", "Mapping"} : <<w, c>> \in held' => <<w, c>> \in held
  PROVE  RangeOf(c)'
<1>1. RangeOf(c)
  BY DEF IInv, HeldInv
<1>2. UNCHANGED <<phase, my>> /\ \A u \in Threads \ {t} : pc'[u] = pc[u]
  BY DEF Within
<1> QED
  BY <1>1, <1>2 DEF RangeOf

LEMMA BootHeld ==
  ASSUME IInv, NEW t \in Threads, NEW c \in Contexts, c = my[t],
         LockClocks(t) \/ Reserve(t) \/ MapPool(t) \/ RegisterDma(t) \/ Spawn(t)
         \/ AttachFaults(t) \/ InitIlc(t)
  PROVE  HeldInv'
<1> USE DEF ctxVars, procVars, platVars, Goto
<1>1. /\ Within(t) /\ pc[t] \in BootSteps /\ phase[c] = "boot"
      /\ members \in [Contexts -> SUBSET Subsystems] /\ streams \in [Contexts -> Int]
  <2>1. Within(t)
    BY WithinSteps
  <2>2. pc[t] \in BootSteps
    BY DEF LockClocks, Reserve, MapPool, RegisterDma, Spawn, AttachFaults, InitIlc, BootSteps
  <2> QED
    BY <2>1, <2>2 DEF IInv, PhaseInv, Types
<1>2. RangeOf(c)'
  BY <1>1, RangeKept DEF BootSteps, ShutdownSteps
<1>3. HeldOf(c)
  BY DEF IInv, HeldInv
<1>4. ASSUME UNCHANGED <<members, streams, enabled>>,
             \/ held' = held \/ held' = held \cup {<<"VaRange", c>>}
             \/ held' = held \cup {<<"Pool", c>>, <<"Mapping", c>>}
      PROVE  HeldInv'
  <2>1. HeldOf(c)'
    BY <1>3, <1>4 DEF HeldOf
  <2>2. ASSUME NEW d \in Contexts, d # c PROVE HeldOf(d)' /\ RangeOf(d)'
    BY <1>1, <1>4, <2>2, HeldElsewhere
  <2> QED
    BY <1>2, <2>1, <2>2 DEF HeldInv
<1>5. CASE LockClocks(t) \/ Reserve(t)
  <2>1. UNCHANGED <<members, streams, enabled>> /\ (held' = held \/ held' = held \cup {<<"VaRange", c>>})
    BY <1>5 DEF LockClocks, Reserve
  <2> QED
    BY <1>4, <2>1
<1>6. CASE MapPool(t)
  <2>1. /\ UNCHANGED <<members, streams, enabled>>
        /\ held' = held \/ held' = held \cup {<<"Pool", c>>, <<"Mapping", c>>}
    BY <1>6 DEF MapPool
  <2> QED
    BY <1>4, <2>1
<1>7. CASE RegisterDma(t)
  <2>1. /\ UNCHANGED <<streams, held>> /\ members' = [members EXCEPT ![c] = @ \cup {"dma"}]
        /\ enabled' = enabled \cup (FlagsOf(device) \X {c})
    BY <1>7 DEF RegisterDma
  <2>2. members'[c] = members[c] \cup {"dma"} /\ \A d \in Contexts \ {c} : members'[d] = members[d]
    BY <1>1, <2>1
  <2>3. HeldOf(c)'
    BY <1>3, <2>1, <2>2 DEF HeldOf
  <2>4. ASSUME NEW d \in Contexts, d # c PROVE HeldOf(d)' /\ RangeOf(d)'
    BY <1>1, <2>1, <2>2, <2>4, HeldElsewhere
  <2> QED
    BY <1>2, <2>3, <2>4 DEF HeldInv
<1>8. CASE Spawn(t)
  <2>1. /\ UNCHANGED <<enabled, held>> /\ members' = [members EXCEPT ![c] = @ \cup {"mk"}]
        /\ streams' = [streams EXCEPT ![c] = @ + 1] \/ streams' = streams
    BY <1>8 DEF Spawn
  <2>2. /\ members'[c] = members[c] \cup {"mk"}
        /\ \A d \in Contexts \ {c} : members'[d] = members[d] /\ streams'[d] = streams[d]
    BY <1>1, <2>1
  <2>3. HeldOf(c)'
    BY <1>3, <2>1, <2>2 DEF HeldOf
  <2>4. ASSUME NEW d \in Contexts, d # c PROVE HeldOf(d)' /\ RangeOf(d)'
    BY <1>1, <2>1, <2>2, <2>4, HeldElsewhere
  <2> QED
    BY <1>2, <2>3, <2>4 DEF HeldInv
<1>9. CASE AttachFaults(t)
  <2>1. /\ UNCHANGED <<enabled, streams>> /\ members' = [members EXCEPT ![c] = @ \cup {"faults"}]
        /\ held' = held \/ held' = held \cup {<<"FaultBuffer", c>>, <<"Poller", c>>}
    BY <1>9 DEF AttachFaults
  <2>2. members'[c] = members[c] \cup {"faults"} /\ \A d \in Contexts \ {c} : members'[d] = members[d]
    BY <1>1, <2>1
  <2>3. HeldOf(c)'
    BY <1>3, <2>1, <2>2 DEF HeldOf
  <2>4. ASSUME NEW d \in Contexts, d # c PROVE HeldOf(d)' /\ RangeOf(d)'
    BY <1>1, <2>1, <2>2, <2>4, HeldElsewhere
  <2> QED
    BY <1>2, <2>3, <2>4 DEF HeldInv
<1>10. CASE InitIlc(t)
  <2>1. /\ UNCHANGED <<enabled, streams, held>>
        /\ \A d \in Contexts : members[d] \subseteq members'[d] /\ (d # c => members'[d] = members[d])
    BY <1>1, <1>10 DEF InitIlc
  <2>2. HeldOf(c)'
    BY <1>3, <2>1 DEF HeldOf
  <2>3. ASSUME NEW d \in Contexts, d # c PROVE HeldOf(d)' /\ RangeOf(d)'
    BY <1>1, <2>1, <2>3, HeldElsewhere
  <2> QED
    BY <1>2, <2>2, <2>3 DEF HeldInv
<1> QED
  BY <1>5, <1>6, <1>7, <1>8, <1>9, <1>10

LEMMA CallHeld ==
  ASSUME IInv, NEW t \in Threads, NEW c \in Contexts, c = my[t],
         MemoryLock(t) \/ MemoryMake(t) \/ Alloc(t) \/ TakeStream(t) \/ EndCall(t)
         \/ Uninstall(t) \/ DrainStreams(t) \/ ShutdownDma(t) \/ ReleaseVaddress(t)
         \/ (Drop(t) /\ LastRef(t))
  PROVE  HeldInv'
<1> USE DEF ctxVars, procVars, platVars, Goto
<1>1. /\ Within(t) /\ HeldOf(c)
      /\ members \in [Contexts -> SUBSET Subsystems] /\ streams \in [Contexts -> Int]
  BY WithinSteps DEF IInv, HeldInv, Types
<1>2. pc \in [Threads -> {"idle", "drop", "destroy", "exit"}
                            \cup BootSteps \cup CallSteps \cup ShutdownSteps]
  BY DEF IInv, Types
<1>3. CASE MemoryLock(t) \/ TakeStream(t) \/ EndCall(t) \/ (Drop(t) /\ LastRef(t))
  <2>1. UNCHANGED <<members, streams, enabled, held>> /\ pc[t] \notin ShutdownSteps
    BY <1>3 DEF MemoryLock, TakeStream, EndCall, Drop, ShutdownSteps
  <2>2. \A d \in Contexts : HeldOf(d)'
    BY <2>1 DEF IInv, HeldInv, HeldOf
  <2>3. \A d \in Contexts : RangeOf(d)'
    BY <1>1, <2>1, RangeKept
  <2> QED
    BY <2>2, <2>3 DEF HeldInv
<1>4. CASE MemoryMake(t)
  <2>1. UNCHANGED <<streams, enabled, held>> /\ pc[t] \notin ShutdownSteps
    BY <1>4 DEF MemoryMake, ShutdownSteps
  <2>2. \A d \in Contexts : members[d] \subseteq members'[d]
    BY <1>1, <1>4 DEF MemoryMake
  <2>3. \A d \in Contexts : HeldOf(d)'
    BY <2>1, <2>2 DEF IInv, HeldInv, HeldOf
  <2>4. \A d \in Contexts : RangeOf(d)'
    BY <1>1, <2>1, RangeKept
  <2> QED
    BY <2>3, <2>4 DEF HeldInv
<1>5. CASE Alloc(t)
  <2>1. /\ UNCHANGED <<members, streams, enabled>> /\ pc[t] \notin ShutdownSteps
        /\ held' = held \/ held' = held \cup {<<"Buffers", c>>}
        /\ "mem" \in members[c]
    BY <1>5 DEF Alloc, ShutdownSteps, IInv, MembersInv
  <2>2. ASSUME NEW d \in Contexts PROVE HeldOf(d)'
    <3>1. HeldOf(d)
      BY DEF IInv, HeldInv
    <3>2. CASE d = c
      BY <2>1, <3>1, <3>2 DEF HeldOf
    <3>3. CASE d # c
      <4>1. \A w \in Made : <<w, d>> \in held' <=> <<w, d>> \in held
        BY <2>1, <3>3
      <4> QED
        BY <2>1, <3>1, <4>1 DEF HeldOf, Made
    <3> QED
      BY <3>2, <3>3
  <2>3. \A d \in Contexts, w \in {"VaRange", "Mapping"} : <<w, d>> \in held' => <<w, d>> \in held
    BY <2>1
  <2>4. \A d \in Contexts : RangeOf(d)'
    BY <1>1, <2>1, <2>3, RangeKept
  <2> QED
    BY <2>2, <2>4 DEF HeldInv
<1>6. CASE Uninstall(t)
  <2>1. /\ UNCHANGED <<members, streams, enabled>> /\ pc'[t] \in ShutdownSteps
        /\ held' = held \ {<<"FaultBuffer", c>>, <<"Poller", c>>}
    BY <1>2, <1>6 DEF Uninstall, ShutdownSteps, Uninstalled
  <2>2. \A d \in Contexts : HeldOf(d)'
    BY <2>1 DEF IInv, HeldInv, HeldOf
  <2>3. \A d \in Contexts : RangeOf(d)'
    BY <1>1, <2>1, RangeKept
  <2> QED
    BY <2>2, <2>3 DEF HeldInv
<1>7. CASE DrainStreams(t)
  <2>1. /\ UNCHANGED <<members, held, enabled>> /\ pc'[t] \in ShutdownSteps
        /\ \A d \in Contexts \ {c} : streams'[d] = streams[d]
        /\ phase[c] = "shut" /\ pc[t] = "drain"
    BY <1>2, <1>7, DrainedType DEF DrainStreams, ShutdownSteps, IInv, PhaseInv
  <2>2. Complete(c)
    <3>1. \A u \in Threads : pc[u] = "destroy" => my[u] # c
      BY <2>1 DEF IInv, RefInv, Alone
    <3>2. c \in DOMAIN contexts
      BY <2>1 DEF IInv, RefInv
    <3> QED
      BY <2>1, <3>1, <3>2 DEF IInv, MembersInv
  <2>3. \A d \in Contexts : HeldOf(d)'
    BY <2>1, <2>2 DEF IInv, HeldInv, HeldOf, Complete, Booted
  <2>4. \A d \in Contexts : RangeOf(d)'
    BY <1>1, <2>1, RangeKept
  <2> QED
    BY <2>3, <2>4 DEF HeldInv
<1>8. CASE ShutdownDma(t)
  <2>1. /\ UNCHANGED <<members, held, streams>> /\ pc'[t] \in ShutdownSteps
        /\ enabled' \subseteq enabled
    BY <1>2, <1>8 DEF ShutdownDma, ShutdownSteps, Finished
  <2>2. \A d \in Contexts : HeldOf(d)'
    BY <2>1 DEF IInv, HeldInv, HeldOf
  <2>3. \A d \in Contexts : RangeOf(d)'
    BY <1>1, <2>1, RangeKept
  <2> QED
    BY <2>2, <2>3 DEF HeldInv
<1>9. CASE ReleaseVaddress(t)
  <2>1. /\ UNCHANGED <<members, streams, enabled>>
        /\ held' = held \ {<<"VaRange", c>>, <<"Mapping", c>>}
    BY <1>9 DEF ReleaseVaddress, RangeReleased
  <2>2. \A d \in Contexts : HeldOf(d)'
    BY <2>1 DEF IInv, HeldInv, HeldOf
  <2>3. RangeOf(c)'
    BY <2>1 DEF RangeOf
  <2>4. ASSUME NEW d \in Contexts, d # c PROVE RangeOf(d)'
    BY <1>1, <2>1, <2>4, HeldElsewhere
  <2> QED
    BY <2>2, <2>3, <2>4 DEF HeldInv
<1> QED
  BY <1>3, <1>4, <1>5, <1>6, <1>7, <1>8, <1>9

(* A destructor gives back all that its member stood for: nobody else has  *)
(* a reference, so no stream is in use.                                    *)
LEMMA DestroyHeld ==
  ASSUME IInv, NEW t \in Threads, NEW c \in Contexts, c = my[t], DestroyMember(t)
  PROVE  HeldInv'
<1> DEFINE m == NextMember(c)
<1>1. /\ Within(t) /\ HeldOf(c) /\ RangeOf(c) /\ pc[t] = "destroy" /\ Alone(t)
      /\ members \in [Contexts -> SUBSET Subsystems] /\ Types
  BY WithinSteps DEF DestroyMember, IInv, HeldInv, RefInv, Types
<1>2. /\ Destroyed(c, m) /\ members' = [members EXCEPT ![c] = @ \ {m}]
      /\ UNCHANGED <<phase, my, pc>>
  BY DEF DestroyMember
<1> HIDE DEF m
<1>3. /\ members'[c] = members[c] \ {m}
      /\ \A d \in Contexts \ {c} : members'[d] = members[d]
  BY <1>1, <1>2
<1>4. /\ Drained(c)[c] = 0 /\ \A d \in Contexts \ {c} : Drained(c)[d] = streams[d]
  BY <1>1, DrainedType DEF Alone
<1>5. /\ held' = CASE m = "mem" -> held \ {<<"Buffers", c>>}
                   [] m = "faults" -> held \ {<<"FaultBuffer", c>>, <<"Poller", c>>}
                   [] OTHER -> held
      /\ streams' = IF m = "mk" THEN Drained(c) ELSE streams
      /\ enabled' = IF m = "dma" THEN enabled \ (Flags \X {c}) ELSE enabled
  BY <1>2 DEF Destroyed, Uninstalled, Finished
<1>6. /\ streams'[c] # 0 => m # "mk" /\ streams[c] # 0
      /\ <<"FaultBuffer", c>> \in held' => m # "faults" /\ <<"FaultBuffer", c>> \in held
      /\ <<"Poller", c>> \in held' => m # "faults" /\ <<"Poller", c>> \in held
      /\ <<"Buffers", c>> \in held' => m # "mem" /\ <<"Buffers", c>> \in held
      /\ <<"FaultBuffer", c>> \in held /\ m # "faults" => <<"FaultBuffer", c>> \in held'
      /\ \A f \in Flags : <<f, c>> \in enabled' => m # "dma" /\ <<f, c>> \in enabled
  BY <1>4, <1>5
<1>7. HeldOf(c)'
  BY <1>1, <1>3, <1>6 DEF HeldOf
<1>8. RangeOf(c)'
  <2>1. \A w \in {"VaRange", "Mapping"} : <<w, c>> \in held' => <<w, c>> \in held
    BY <1>5
  <2> QED
    BY <1>1, <1>2, <2>1, RangeKept DEF ShutdownSteps
<1>9. ASSUME NEW d \in Contexts, d # c PROVE HeldOf(d)' /\ RangeOf(d)'
  <2>1. streams'[d] = streams[d] /\ members'[d] = members[d]
    BY <1>3, <1>4, <1>5, <1>9
  <2>2. /\ \A w \in Made : <<w, d>> \in held' <=> <<w, d>> \in held
        /\ \A f \in Flags : <<f, d>> \in enabled' => <<f, d>> \in enabled
    BY <1>5, <1>9
  <2> QED
    BY <1>1, <1>9, <2>1, <2>2, HeldElsewhere
<1> QED
  BY <1>7, <1>8, <1>9 DEF HeldInv

LEMMA NextHeldInv == ASSUME IInv, [Next]_vars PROVE HeldInv'
<1> USE DEF Goto, platVars, ctxVars, procVars
<1>1. ASSUME UNCHANGED <<members, streams, held, enabled, phase, my, pc>> PROVE HeldInv'
  BY <1>1 DEF IInv, HeldInv, HeldOf, RangeOf
<1>2. ASSUME NEW t \in Threads, UNCHANGED <<members, streams, held, enabled>>,
             pc[t] \notin ShutdownSteps, \A u \in Threads \ {t} : pc'[u] = pc[u] /\ my'[u] = my[u],
             NEW c \in Contexts, phase'[c] = "shut" => phase[c] = "shut"
      PROVE  HeldOf(c)' /\ RangeOf(c)'
  BY <1>2 DEF IInv, HeldInv, HeldOf, RangeOf
<1>3. ASSUME NEW t \in Threads, NEW a \in Addresses,
             \/ Construct(t) \/ Register(t) \/ Lookup(t, a) \/ (Drop(t) /\ ~LastRef(t))
             \/ FreeContext(t) \/ BeginExit(t) \/ ExitEntry(t, a)
      PROVE  HeldInv'
  <2>1. UNCHANGED <<members, streams, held, enabled>> /\ pc[t] \notin ShutdownSteps
    BY <1>3 DEF Construct, Register, Lookup, Drop, FreeContext, BeginExit, ExitEntry, ShutdownSteps
  <2>2. \E p, n : pc' = [pc EXCEPT ![t] = p] /\ (my' = [my EXCEPT ![t] = n] \/ my' = my)
    BY <1>3 DEF Construct, Register, Lookup, Drop, FreeContext, BeginExit, ExitEntry
  <2>3. \A u \in Threads \ {t} : pc'[u] = pc[u] /\ my'[u] = my[u]
    BY <2>2 DEF IInv, Types
  <2>4. phase' = phase \/ phase' = [phase EXCEPT ![my[t]] = "ready"]
    BY <1>3 DEF Construct, Register, Lookup, Drop, FreeContext, BeginExit, ExitEntry
  <2>5. \A c \in Contexts : phase'[c] = "shut" => phase[c] = "shut"
    BY <2>4 DEF IInv, Types
  <2> QED
    BY <1>2, <2>1, <2>3, <2>5 DEF HeldInv
<1>4. ASSUME NEW t \in Threads, NEW a \in Addresses, TakeHandle(t, a) PROVE HeldInv'
  <2>1. /\ UNCHANGED <<members, streams, held, enabled>> /\ pc[t] = "idle" /\ a \in DOMAIN registry
        /\ pc' = [pc EXCEPT ![t] = "uninstall"] /\ my' = [my EXCEPT ![t] = registry[a]]
        /\ phase' = [phase EXCEPT ![registry[a]] = "shut"]
    BY <1>4 DEF TakeHandle
  <2>2. /\ pc'[t] = "uninstall" /\ my'[t] = registry[a]
        /\ \A u \in Threads \ {t} : pc'[u] = pc[u] /\ my'[u] = my[u]
        /\ \A c \in Contexts : c # registry[a] => phase'[c] = phase[c]
    BY <2>1 DEF IInv, Types
  <2>3. ASSUME NEW c \in Contexts, c # registry[a] PROVE HeldOf(c)' /\ RangeOf(c)'
    BY <1>2, <2>1, <2>2, <2>3 DEF ShutdownSteps
  <2>4. ASSUME NEW c \in Contexts, c = registry[a] PROVE HeldOf(c)' /\ RangeOf(c)'
    BY <2>1, <2>2, <2>4 DEF IInv, HeldInv, HeldOf, RangeOf, ShutdownSteps
  <2> QED
    BY <2>3, <2>4 DEF HeldInv
<1>5. ASSUME NEW t \in Threads, Step(t) PROVE HeldInv'
  <2>1. ASSUME Within(t) PROVE my[t] \in Contexts
    BY <2>1 DEF IInv, Types, RefInv, Within
  <2>2. CASE \/ LockClocks(t) \/ Reserve(t) \/ MapPool(t) \/ RegisterDma(t) \/ Spawn(t)
             \/ AttachFaults(t) \/ InitIlc(t)
    BY <2>1, <2>2, WithinSteps, BootHeld
  <2>3. CASE \/ MemoryLock(t) \/ MemoryMake(t) \/ Alloc(t) \/ TakeStream(t) \/ EndCall(t)
             \/ Uninstall(t) \/ DrainStreams(t) \/ ShutdownDma(t) \/ ReleaseVaddress(t)
             \/ (Drop(t) /\ LastRef(t))
    BY <2>1, <2>3, WithinSteps, CallHeld
  <2>4. CASE DestroyMember(t)
    BY <2>1, <2>4, WithinSteps, DestroyHeld
  <2>5. CASE ExitStatic(t)
    BY <1>1, <2>5 DEF ExitStatic
  <2>6. ASSUME Register(t) \/ (Drop(t) /\ ~LastRef(t)) \/ FreeContext(t) PROVE HeldInv'
    <3>1. \E a \in Addresses : TRUE
      <4>1. my[t] \in DOMAIN contexts
        BY <2>6 DEF Register, Drop, FreeContext, IInv, RefInv
      <4> QED
        BY <4>1 DEF IInv, Types
    <3> QED
      BY <1>3, <2>6, <3>1
  <2> QED
    BY <1>3, <1>5, <2>2, <2>3, <2>4, <2>5, <2>6 DEF Step
<1>6. CASE UNCHANGED vars \/ \E t \in Threads : LookupMisses(t)
  BY <1>1, <1>6 DEF LookupMisses, vars
<1>7. ASSUME NEW t \in Threads, Construct(t) PROVE HeldInv'
  BY <1>3, <1>7 DEF Construct
<1>8. ASSUME NEW t \in Threads, BeginExit(t) PROVE HeldInv'
  <2>1. UNCHANGED <<members, streams, held, enabled, phase, my>> /\ pc[t] = "idle"
        /\ pc' = [pc EXCEPT ![t] = "exit"]
    BY <1>8 DEF BeginExit
  <2>2. \A u \in Threads \ {t} : pc'[u] = pc[u]
    BY <2>1 DEF IInv, Types
  <2> QED
    BY <1>2, <2>1, <2>2 DEF HeldInv, ShutdownSteps
<1> QED
  BY <1>3, <1>4, <1>5, <1>6, <1>7, <1>8 DEF Next

-----------------------------------------------------------------------------
(* The shim's flags.                                                       *)
Flagged(f, a) == \E c \in DOMAIN contexts : contexts[c] = a /\ <<f, c>> \in enabled

LEMMA FlagsKept ==
  ASSUME IInv, UNCHANGED <<inited, enabled, contexts>>,
         exiting => exiting' /\ ("states" \in Alive' => "states" \in Alive)
  PROVE  FlagInv'
BY DEF IInv, FlagInv

(* DmaEngine::shutdown drops the flags of its own context alone: no other  *)
(* live context has its address.                                           *)
LEMMA FinishedKeepsFlags ==
  ASSUME IInv, NEW c \in DOMAIN contexts, Finished(c), UNCHANGED <<contexts, exiting, statics>>
  PROVE  FlagInv'
<1> SUFFICES ASSUME ~exiting \/ "states" \in Alive, NEW f \in Flags, NEW a \in Addresses
             PROVE  <<f, a>> \in inited' <=> Flagged(f, a)'
  BY DEF FlagInv, Flagged, Alive
<1>1. <<f, a>> \in inited <=> Flagged(f, a)
  BY DEF IInv, FlagInv, Flagged
<1>2. \A d \in DOMAIN contexts : contexts[d] = contexts[c] => d = c
  BY DEF IInv, RefInv
<1>3. <<f, a>> \in inited' <=> <<f, a>> \in inited /\ ~(a = contexts[c] /\ <<f, c>> \in enabled)
  BY DEF Finished
<1>4. \A d : <<f, d>> \in enabled' <=> <<f, d>> \in enabled /\ d # c
  BY DEF Finished
<1>5. CASE a = contexts[c]
  <2>1. ~Flagged(f, a)'
    BY <1>2, <1>4, <1>5 DEF Flagged
  <2>2. Flagged(f, a) => <<f, c>> \in enabled
    BY <1>2, <1>5 DEF Flagged
  <2> QED
    BY <1>1, <1>3, <1>5, <2>1, <2>2
<1>6. CASE a # contexts[c]
  <2>1. Flagged(f, a)' <=> Flagged(f, a)
    BY <1>4, <1>6 DEF Flagged
  <2> QED
    BY <1>1, <1>3, <1>6, <2>1
<1> QED
  BY <1>5, <1>6

LEMMA RegisterDmaFlags ==
  ASSUME IInv, NEW t \in Threads, NEW c \in DOMAIN contexts, c = my[t], RegisterDma(t)
  PROVE  FlagInv'
<1>1. /\ enabled' = enabled \cup (FlagsOf(device) \X {c}) /\ UNCHANGED <<contexts, exiting, statics>>
      /\ inited' = inited \cup (FlagsOf(device) \X {contexts[c]})
      /\ ~exiting
  BY DEF RegisterDma, procVars, Goto, IInv, ExitInv
<1> SUFFICES ASSUME NEW f \in Flags, NEW a \in Addresses
             PROVE  <<f, a>> \in inited' <=> Flagged(f, a)'
  BY DEF FlagInv, Flagged
<1>2. <<f, a>> \in inited <=> Flagged(f, a)
  BY <1>1 DEF IInv, FlagInv, Flagged
<1>3. <<f, a>> \in inited' <=> <<f, a>> \in inited \/ (a = contexts[c] /\ f \in FlagsOf(device))
  BY <1>1
<1>4. \A d : <<f, d>> \in enabled' <=> <<f, d>> \in enabled \/ (d = c /\ f \in FlagsOf(device))
  BY <1>1
<1>5. Flagged(f, a)' <=> Flagged(f, a) \/ (a = contexts[c] /\ f \in FlagsOf(device))
  BY <1>1, <1>4 DEF Flagged
<1> QED
  BY <1>2, <1>3, <1>5

LEMMA NextFlagInv == ASSUME IInv, [Next]_vars PROVE FlagInv'
<1> USE DEF Goto, platVars, ctxVars, procVars
<1>1. ASSUME NEW t \in Threads, pc[t] \notin {"idle", "exit"}
      PROVE  my[t] \in DOMAIN contexts /\ my[t] \in Contexts
  BY <1>1, LiveContexts DEF IInv, RefInv
<1>2. ASSUME NEW t \in Threads, exiting PROVE pc[t] \in {"idle", "exit", "destroy"}
  BY <1>2 DEF IInv, ExitInv
<1>3. ASSUME NEW t \in Threads, NEW a \in Addresses,
             \/ LockClocks(t) \/ Reserve(t) \/ MapPool(t) \/ Spawn(t) \/ AttachFaults(t)
             \/ InitIlc(t) \/ Register(t) \/ MemoryLock(t) \/ MemoryMake(t) \/ Alloc(t)
             \/ TakeStream(t) \/ EndCall(t) \/ Uninstall(t) \/ DrainStreams(t)
             \/ ReleaseVaddress(t) \/ Drop(t)
             \/ ExitEntry(t, a) \/ Lookup(t, a) \/ TakeHandle(t, a) \/ LookupMisses(t) \/ BeginExit(t)
      PROVE  FlagInv'
  <2>1. UNCHANGED <<inited, enabled, contexts>>
    BY <1>3 DEF LockClocks, Reserve, MapPool, Spawn, AttachFaults, InitIlc, Register, MemoryLock,
                MemoryMake, Alloc, TakeStream, EndCall, Uninstall, DrainStreams,
                ReleaseVaddress, Drop, ExitEntry, Lookup, TakeHandle, LookupMisses, BeginExit
  <2>2. exiting => exiting'
    BY <1>3 DEF LockClocks, Reserve, MapPool, Spawn, AttachFaults, InitIlc, Register, MemoryLock,
                MemoryMake, Alloc, TakeStream, EndCall, Uninstall, DrainStreams,
                ReleaseVaddress, Drop, ExitEntry, Lookup, TakeHandle, LookupMisses, BeginExit
  <2>3. exiting => UNCHANGED statics
    <3>1. exiting => ~(\/ LockClocks(t) \/ Reserve(t) \/ Spawn(t) \/ Register(t) \/ LookupMisses(t))
      BY <1>2 DEF LockClocks, Reserve, Spawn, Register, LookupMisses
    <3> QED
      BY <1>3, <3>1 DEF MapPool, AttachFaults, InitIlc, MemoryLock,
                MemoryMake, Alloc, TakeStream, EndCall, Uninstall, DrainStreams,
                ReleaseVaddress, Drop, ExitEntry, Lookup, TakeHandle, BeginExit
  <2> QED
    BY <2>1, <2>2, <2>3, FlagsKept DEF Alive
<1>4. ASSUME NEW t \in Threads, RegisterDma(t) PROVE FlagInv'
  <2>1. my[t] \in DOMAIN contexts
    BY <1>1, <1>4 DEF RegisterDma
  <2> QED
    BY <1>4, <2>1, RegisterDmaFlags
<1>5. ASSUME NEW t \in Threads, ShutdownDma(t) PROVE FlagInv'
  <2>1. my[t] \in DOMAIN contexts /\ Finished(my[t]) /\ UNCHANGED <<contexts, exiting, statics>>
    BY <1>1, <1>5 DEF ShutdownDma
  <2> QED
    BY <2>1, FinishedKeepsFlags
<1>6. ASSUME NEW t \in Threads, DestroyMember(t) PROVE FlagInv'
  <2>1. /\ my[t] \in DOMAIN contexts /\ UNCHANGED <<contexts, exiting, statics>>
        /\ Finished(my[t]) \/ UNCHANGED <<enabled, inited>>
    BY <1>1, <1>6 DEF DestroyMember, Destroyed
  <2> QED
    BY <2>1, FinishedKeepsFlags, FlagsKept DEF Alive
<1>7. ASSUME NEW t \in Threads, Construct(t) PROVE FlagInv'
  <2>1. PICK a \in Addresses : contexts' = Put(contexts, boots + 1, a)
    BY <1>7 DEF Construct
  <2>2. /\ UNCHANGED <<inited, enabled, exiting>> /\ ~exiting
        /\ boots + 1 \in Contexts \ DOMAIN contexts
    BY <1>7, BootAssumption DEF Construct, Contexts, IInv, Types
  <2>3. /\ DOMAIN contexts' = DOMAIN contexts \cup {boots + 1}
        /\ \A c \in DOMAIN contexts : contexts'[c] = contexts[c]
    BY <2>1, <2>2 DEF Put
  <2>4. \A f \in Flags : <<f, boots + 1>> \notin enabled
    BY <2>2 DEF IInv, MembersInv, HeldInv, HeldOf
  <2>5. \A f \in Flags, b \in Addresses : Flagged(f, b)' <=> Flagged(f, b)
    BY <2>2, <2>3, <2>4 DEF Flagged
  <2> QED
    BY <2>2, <2>5 DEF IInv, FlagInv, Flagged
<1>8. ASSUME NEW t \in Threads, FreeContext(t) PROVE FlagInv'
  <2>1. /\ UNCHANGED <<inited, enabled, exiting, statics>> /\ members[my[t]] = {} /\ my[t] \in Contexts
        /\ DOMAIN contexts' = DOMAIN contexts \ {my[t]}
        /\ \A c \in DOMAIN contexts' : contexts'[c] = contexts[c]
    BY <1>1, <1>8 DEF FreeContext, Remove
  <2>2. \A f \in Flags : <<f, my[t]>> \notin enabled
    BY <2>1 DEF IInv, HeldInv, HeldOf
  <2>3. \A f \in Flags, b \in Addresses : Flagged(f, b)' <=> Flagged(f, b)
    BY <2>1, <2>2 DEF Flagged
  <2> QED
    BY <2>1, <2>3 DEF IInv, FlagInv, Flagged, Alive
<1>9. ASSUME NEW t \in Threads, ExitStatic(t) PROVE FlagInv'
  <2>1. /\ statics # << >> /\ statics' = SubSeq(statics, 1, Len(statics) - 1)
        /\ UNCHANGED <<enabled, contexts, exiting>> /\ exiting
        /\ LastStatic # "states" => UNCHANGED inited
    BY <1>9 DEF ExitStatic, IInv, ExitInv
  <2>2. /\ statics \in Seq(Statics) /\ Len(statics) \in Nat \ {0} /\ DOMAIN statics = 1 .. Len(statics)
        /\ DOMAIN statics' = 1 .. Len(statics) - 1 /\ \A i \in DOMAIN statics' : statics'[i] = statics[i]
    BY <2>1 DEF IInv, Types
  <2>3. LastStatic = "states" => "states" \notin Alive'
    BY <2>2 DEF IInv, StaticInv, LastStatic, Alive
  <2>4. Alive' \subseteq Alive
    BY <2>2 DEF Alive
  <2> QED
    BY <2>1, <2>3, <2>4 DEF IInv, FlagInv
<1>10. CASE UNCHANGED vars
  BY <1>10, FlagsKept DEF vars, Alive
<1>11. ASSUME NEW t \in Threads, Step(t) PROVE FlagInv'
  <2>1. CASE RegisterDma(t) \/ ShutdownDma(t) \/ DestroyMember(t) \/ FreeContext(t) \/ ExitStatic(t)
    BY <1>4, <1>5, <1>6, <1>8, <1>9, <2>1
  <2>2. CASE \/ LockClocks(t) \/ Reserve(t) \/ MapPool(t) \/ Spawn(t) \/ AttachFaults(t)
             \/ InitIlc(t) \/ Register(t) \/ MemoryLock(t) \/ MemoryMake(t) \/ Alloc(t)
             \/ TakeStream(t) \/ EndCall(t) \/ Uninstall(t) \/ DrainStreams(t)
             \/ ReleaseVaddress(t) \/ Drop(t)
    <3>1. \E a \in Addresses : TRUE
      <4>1. my[t] \in DOMAIN contexts
        BY <1>1, <2>2 DEF LockClocks, Reserve, MapPool, Spawn, AttachFaults, InitIlc, Register,
                MemoryLock, MemoryMake, Alloc, TakeStream, EndCall, Uninstall, DrainStreams,
                ReleaseVaddress, Drop
      <4> QED
        BY <4>1 DEF IInv, Types
    <3> QED
      BY <1>3, <2>2, <3>1
  <2>3. ASSUME NEW a \in Addresses, ExitEntry(t, a) PROVE FlagInv'
    BY <1>3, <2>3
  <2> QED
    BY <1>11, <2>1, <2>2, <2>3 DEF Step
<1>12. ASSUME NEW t \in Threads, LookupMisses(t) \/ BeginExit(t) PROVE FlagInv'
  <2>1. UNCHANGED <<inited, enabled, contexts>> /\ (exiting => exiting' /\ UNCHANGED statics)
    BY <1>12 DEF LookupMisses, BeginExit
  <2> QED
    BY <2>1, FlagsKept DEF Alive
<1> QED
  BY <1>3, <1>7, <1>10, <1>11, <1>12 DEF Next

-----------------------------------------------------------------------------
(* The statics, before the exit ...                                        *)
LEMMA StaticsGrow ==
  ASSUME IInv, ~exiting, UNCHANGED <<device, exiting>>,
         \/ UNCHANGED statics
         \/ statics' = Constructed("states")
         \/ statics' = Constructed("registry") /\ (EarlyCalls \/ "states" \in Alive),
         \A c \in Contexts : NeedsStates(c)' => NeedsStates(c) \/ "states" \in Alive',
         \A u \in Threads :
            pc'[u] = pc[u] \/ pc'[u] \notin BootSteps \ {"clock"} \/ "states" \in Alive'
              \/ (~Nvidia /\ pc'[u] \notin {"faults", "ilc", "register"})
  PROVE  StaticInv'
<1>1. statics # << >> /\ StaticInv /\ Types
  BY DEF IInv, StaticInv
<1>2. /\ statics' # << >> /\ statics'[1] = "dispatch"
      /\ Alive \subseteq Alive'
      /\ \A i, j \in DOMAIN statics' : statics'[i] = statics'[j] => i = j
      /\ ~EarlyCalls => \A i \in DOMAIN statics' : statics'[i] = "registry" =>
                           \E j \in 1 .. i - 1 : statics'[j] = "states"
  <2>1. CASE UNCHANGED statics
    BY <1>1, <2>1 DEF StaticInv, Alive
  <2>2. CASE statics' = Constructed("states")
    BY <1>1, <2>2, ConstructedKeeps
  <2>3. CASE statics' = Constructed("registry") /\ (EarlyCalls \/ "states" \in Alive)
    BY <1>1, <2>3, ConstructedKeeps
  <2> QED
    BY <2>1, <2>2, <2>3
<1>3. \A c \in Contexts : NeedsStates(c)' => "states" \in Alive'
  BY <1>1, <1>2 DEF StaticInv
<1>4. Nvidia' <=> Nvidia
  BY DEF Nvidia
<1>5. \A u \in Threads :
          /\ pc'[u] \in BootSteps \ {"clock"} /\ Nvidia => "states" \in Alive'
          /\ pc'[u] \in {"faults", "ilc", "register"} => "states" \in Alive'
  BY <1>1, <1>2 DEF StaticInv, BootSteps
<1> QED
  BY <1>2, <1>3, <1>4, <1>5 DEF StaticInv

(* ... and in it.                                                          *)
LEMMA StaticsShrink ==
  ASSUME IInv, ExitInv', exiting',
         \/ UNCHANGED statics
         \/ statics # << >> /\ statics' = SubSeq(statics, 1, Len(statics) - 1)
  PROVE  StaticInv'
<1>1. statics \in Seq(Statics) /\ StaticInv
  BY DEF IInv, Types
<1>2. CASE UNCHANGED statics
  BY <1>1, <1>2 DEF StaticInv, ExitInv, BootSteps
<1>3. CASE statics # << >> /\ statics' = SubSeq(statics, 1, Len(statics) - 1)
  <2>1. /\ Len(statics) \in Nat \ {0} /\ DOMAIN statics = 1 .. Len(statics)
        /\ DOMAIN statics' = 1 .. Len(statics) - 1 /\ \A i \in DOMAIN statics' : statics'[i] = statics[i]
    BY <1>1, <1>3
  <2>2. statics' # << >> => statics'[1] = "dispatch"
    <3>1. Len(statics) = 1 => statics' = << >>
      BY <1>1, <1>3
    <3>2. statics' # << >> => 1 \in DOMAIN statics'
      BY <2>1, <3>1
    <3> QED
      BY <1>1, <1>3, <2>1, <3>2 DEF StaticInv
  <2>3. \A i, j \in DOMAIN statics' : statics'[i] = statics'[j] => i = j
    BY <1>1, <2>1 DEF StaticInv
  <2>4. ASSUME ~EarlyCalls, NEW i \in DOMAIN statics', statics'[i] = "registry"
        PROVE  \E j \in 1 .. i - 1 : statics'[j] = "states"
    <3>1. PICK j \in 1 .. i - 1 : statics[j] = "states"
      BY <1>1, <2>1, <2>4 DEF StaticInv
    <3> QED
      BY <2>1, <3>1
  <2> QED
    BY <2>2, <2>3, <2>4 DEF StaticInv, ExitInv, BootSteps
<1> QED
  BY <1>2, <1>3

LEMMA NextStaticInv == ASSUME IInv, [Next]_vars PROVE StaticInv'
<1> USE DEF Goto, Fail, platVars, ctxVars, procVars
<1>1. ExitInv' /\ Types /\ StaticInv /\ ExitInv
  BY NextRefInv DEF IInv
<1>2. pc \in [Threads -> {"idle", "drop", "destroy", "exit"}
                            \cup BootSteps \cup CallSteps \cup ShutdownSteps]
  BY <1>1 DEF Types
<1>3. ASSUME NEW t \in Threads, pc[t] \notin {"idle", "exit"}
      PROVE  my[t] \in DOMAIN contexts /\ my[t] \in Contexts
  BY <1>3, LiveContexts DEF IInv, RefInv
<1>4. ASSUME NEW t \in Threads, pc[t] \notin {"idle", "exit", "destroy"} PROVE ~exiting
  BY <1>1, <1>4 DEF ExitInv
<1>5. ASSUME NEW s, statics' = Constructed(s), s \in {"states", "registry"}, ~exiting,
             s = "states" \/ EarlyCalls \/ "states" \in Alive
      PROVE  s \in Alive' /\ Alive \subseteq Alive'
  BY <1>1, <1>5, ConstructedKeeps DEF StaticInv
<1>6. ASSUME NEW t \in Threads, LockClocks(t) \/ Reserve(t) \/ MapPool(t) PROVE StaticInv'
  <2>1. /\ ~exiting /\ UNCHANGED <<device, exiting, members, enabled>>
        /\ \E to : pc' = [pc EXCEPT ![t] = to] /\ to \notin {"faults", "ilc", "register"}
    BY <1>4, <1>6 DEF LockClocks, Reserve, MapPool
  <2>2. UNCHANGED statics \/ statics' = Constructed("states")
    BY <1>6 DEF LockClocks, Reserve, MapPool, State
  <2>3. Nvidia => statics' = Constructed("states") \/ (pc[t] = "map" /\ UNCHANGED statics)
    <3>1. CASE LockClocks(t)
      BY <3>1 DEF LockClocks, State
    <3>2. CASE Reserve(t)
      BY <3>2 DEF Reserve, State
    <3>3. CASE MapPool(t)
      BY <3>3 DEF MapPool
    <3> QED
      BY <1>6, <3>1, <3>2, <3>3
  <2>4. Nvidia => "states" \in Alive'
    BY <1>1, <1>5, <2>1, <2>3 DEF StaticInv, BootSteps, Alive
  <2>5. \A c \in Contexts : NeedsStates(c)' => NeedsStates(c)
    BY <2>1 DEF NeedsStates, Nvidia
  <2>6. pc'[t] \notin {"faults", "ilc", "register"} /\ \A u \in Threads \ {t} : pc'[u] = pc[u]
    BY <1>2, <2>1
  <2> QED
    BY <2>1, <2>2, <2>4, <2>5, <2>6, StaticsGrow
<1>7. ASSUME NEW t \in Threads, RegisterDma(t) PROVE StaticInv'
  <2>1. /\ ~exiting /\ UNCHANGED <<device, exiting, statics>> /\ pc[t] = "dma"
        /\ pc' = [pc EXCEPT ![t] = "spawn"] /\ my[t] \in Contexts
        /\ members' = [members EXCEPT ![my[t]] = @ \cup {"dma"}]
        /\ enabled' = enabled \cup (FlagsOf(device) \X {my[t]})
    BY <1>3, <1>4, <1>7 DEF RegisterDma
  <2>2. Nvidia => "states" \in Alive' /\ "states" \in Alive
    BY <1>1, <2>1 DEF StaticInv, BootSteps, Alive
  <2>3. pc'[t] = "spawn" /\ \A u \in Threads \ {t} : pc'[u] = pc[u]
    BY <1>2, <2>1
  <2>4. ~Nvidia => FlagsOf(device) = {}
    BY <1>1, BootAssumption, DeviceAssumption DEF Types, Nvidia, FlagsOf, Flags
  <2>5. ~Nvidia => UNCHANGED enabled
    BY <2>1, <2>4
  <2>6. \A c \in Contexts : members'[c] \cap {"mem", "faults"} = members[c] \cap {"mem", "faults"}
    BY <1>1, <2>1 DEF Types
  <2>7. \A c \in Contexts : NeedsStates(c)' => NeedsStates(c) \/ "states" \in Alive'
    BY <2>1, <2>2, <2>5, <2>6 DEF NeedsStates, Nvidia
  <2> QED
    BY <2>1, <2>2, <2>3, <2>7, StaticsGrow
<1>8. ASSUME NEW t \in Threads, Spawn(t) PROVE StaticInv'
  <2>1. /\ ~exiting /\ UNCHANGED <<device, exiting, enabled>> /\ pc[t] = "spawn" /\ my[t] \in Contexts
        /\ members' = [members EXCEPT ![my[t]] = @ \cup {"mk"}]
    BY <1>3, <1>4, <1>8 DEF Spawn
  <2>2. UNCHANGED statics \/ statics' = Constructed("states")
    BY <1>8 DEF Spawn, State
  <2>3. /\ pc' = [pc EXCEPT ![t] = "faults"] \/ pc' = [pc EXCEPT ![t] = "spawn"]
             \/ pc' = [pc EXCEPT ![t] = "drop"]
        /\ pc' = [pc EXCEPT ![t] = "faults"] =>
             (Nvidia /\ UNCHANGED statics) \/ statics' = Constructed("states")
    BY <1>2, <1>8 DEF Spawn, State
  <2>4. pc'[t] = "faults" => "states" \in Alive'
    BY <1>1, <1>2, <1>5, <2>1, <2>3 DEF StaticInv, BootSteps, Alive
  <2>5. pc'[t] \in {"spawn", "faults", "drop"} /\ \A u \in Threads \ {t} : pc'[u] = pc[u]
    BY <1>2, <2>3
  <2>6. \A c \in Contexts : members'[c] \cap {"mem", "faults"} = members[c] \cap {"mem", "faults"}
    BY <1>1, <2>1 DEF Types
  <2>7. \A c \in Contexts : NeedsStates(c)' => NeedsStates(c)
    BY <2>1, <2>6 DEF NeedsStates, Nvidia
  <2>8. \A u \in Threads : pc'[u] = pc[u] \/ pc'[u] \notin BootSteps \/ "states" \in Alive'
    BY <2>1, <2>4, <2>5 DEF BootSteps
  <2> QED
    BY <2>1, <2>2, <2>7, <2>8, StaticsGrow
<1>9. ASSUME NEW t \in Threads, AttachFaults(t) \/ InitIlc(t) PROVE StaticInv'
  <2>1. /\ ~exiting /\ UNCHANGED <<device, exiting, statics>>
        /\ \E to : pc' = [pc EXCEPT ![t] = to]
        /\ pc[t] \in {"faults", "ilc"}
    BY <1>4, <1>9 DEF AttachFaults, InitIlc
  <2>2. "states" \in Alive'
    BY <1>1, <2>1 DEF StaticInv, Alive
  <2> QED
    BY <2>1, <2>2, StaticsGrow
<1>10. ASSUME NEW t \in Threads, Register(t) PROVE StaticInv'
  <2>1. /\ ~exiting /\ UNCHANGED <<device, exiting, members, enabled>> /\ pc[t] = "register"
        /\ statics' = Constructed("registry") /\ "states" \in Alive
    BY <1>1, <1>4, <1>10 DEF Register, StaticInv
  <2>2. "states" \in Alive'
    BY <1>5, <2>1
  <2> QED
    BY <2>1, <2>2, StaticsGrow
<1>11. ASSUME NEW t \in Threads,
              \/ MemoryLock(t) \/ Alloc(t) \/ TakeStream(t) \/ EndCall(t)
              \/ Uninstall(t) \/ DrainStreams(t) \/ ReleaseVaddress(t) \/ Drop(t)
              \/ \E a \in Addresses : Lookup(t, a) \/ TakeHandle(t, a)
       PROVE  StaticInv'
  <2>1. /\ UNCHANGED <<device, exiting, members, enabled, statics>>
        /\ \E to : pc' = [pc EXCEPT ![t] = to] /\ to \notin BootSteps
    BY <1>11 DEF MemoryLock, Alloc, TakeStream, EndCall, Uninstall, DrainStreams, ReleaseVaddress,
                 Drop, Lookup, TakeHandle, BootSteps
  <2>2. ~exiting
    BY <1>4, <1>11 DEF MemoryLock, Alloc, TakeStream, EndCall, Uninstall, DrainStreams, ReleaseVaddress,
                 Drop, Lookup, TakeHandle
  <2>3. \A u \in Threads : pc'[u] = pc[u] \/ pc'[u] \notin BootSteps
    BY <1>2, <2>1
  <2>4. \A c \in Contexts : NeedsStates(c)' => NeedsStates(c)
    BY <2>1 DEF NeedsStates, Nvidia
  <2> QED
    BY <2>1, <2>2, <2>3, <2>4, StaticsGrow
<1>12. ASSUME NEW t \in Threads, MemoryMake(t) PROVE StaticInv'
  <2>1. /\ ~exiting /\ UNCHANGED <<device, exiting, enabled, statics>> /\ pc[t] = "memory"
        /\ members' = [members EXCEPT ![my[t]] = @ \cup {"mem"}] /\ my[t] \in Contexts
        /\ my[t] \in DOMAIN contexts /\ pc' = [pc EXCEPT ![t] = "alloc"]
    BY <1>3, <1>4, <1>12 DEF MemoryMake
  <2>2. Complete(my[t])
    <3>1. phase[my[t]] # "boot"
      BY <2>1 DEF IInv, PhaseInv, CallSteps
    <3>2. \A u \in Threads : pc[u] = "destroy" => my[u] # my[t]
      BY <2>1 DEF IInv, RefInv, Alone
    <3> QED
      BY <2>1, <3>1, <3>2 DEF IInv, MembersInv
  <2>3. \A c \in Contexts \ {my[t]} : members'[c] = members[c]
    BY <1>1, <2>1 DEF Types
  <2>4. \A c \in Contexts : NeedsStates(c)' => NeedsStates(c)
    <3>1. ~Nvidia => NeedsStates(my[t])
      BY <2>2 DEF NeedsStates, Complete, Booted
    <3> QED
      BY <2>1, <2>3, <3>1 DEF NeedsStates, Nvidia
  <2>5. \A u \in Threads : pc'[u] = pc[u] \/ pc'[u] \notin BootSteps
    BY <1>2, <2>1 DEF BootSteps
  <2> QED
    BY <2>1, <2>4, <2>5, StaticsGrow
<1>13. ASSUME NEW t \in Threads, ShutdownDma(t) PROVE StaticInv'
  <2>1. /\ ~exiting /\ UNCHANGED <<device, exiting, members, statics>>
        /\ pc' = [pc EXCEPT ![t] = "release"] /\ enabled' \subseteq enabled
    BY <1>4, <1>13 DEF ShutdownDma, Finished
  <2>2. \A u \in Threads : pc'[u] = pc[u] \/ pc'[u] \notin BootSteps
    BY <1>2, <2>1 DEF BootSteps
  <2>3. \A c \in Contexts : NeedsStates(c)' => NeedsStates(c)
    BY <2>1 DEF NeedsStates, Nvidia
  <2> QED
    BY <2>1, <2>2, <2>3, StaticsGrow
<1>14. ASSUME NEW t \in Threads, DestroyMember(t) \/ FreeContext(t) PROVE StaticInv'
  <2>1. /\ UNCHANGED <<device, exiting, statics>> /\ enabled' \subseteq enabled
        /\ pc' = pc \/ pc' = [pc EXCEPT ![t] = "idle"] \/ pc' = [pc EXCEPT ![t] = "exit"]
    BY <1>14 DEF DestroyMember, Destroyed, Finished, FreeContext, BootSteps
  <2>2. \A u \in Threads : pc'[u] = pc[u] \/ pc'[u] \notin BootSteps
    BY <1>2, <2>1 DEF BootSteps
  <2>3. \A c \in Contexts : members'[c] \subseteq members[c]
    BY <1>1, <1>14 DEF DestroyMember, FreeContext, Types
  <2>4. \A c \in Contexts : NeedsStates(c)' => NeedsStates(c)
    BY <2>1, <2>3 DEF NeedsStates, Nvidia
  <2>5. CASE exiting
    BY <1>1, <2>1, <2>5, StaticsShrink
  <2>6. CASE ~exiting
    BY <2>1, <2>2, <2>4, <2>6, StaticsGrow
  <2> QED
    BY <2>5, <2>6
<1>15. ASSUME NEW t \in Threads, Construct(t) \/ LookupMisses(t) PROVE StaticInv'
  <2>1. /\ ~exiting /\ UNCHANGED <<device, exiting, members, enabled>>
        /\ UNCHANGED pc \/ pc' = [pc EXCEPT ![t] = "clock"]
        /\ \/ UNCHANGED statics
           \/ statics' = Constructed("registry") /\ (EarlyCalls \/ "states" \in Alive)
    BY <1>15 DEF Construct, LookupMisses
  <2>2. \A u \in Threads : pc'[u] = pc[u] \/ pc'[u] = "clock"
    BY <1>2, <2>1
  <2>3. \A c \in Contexts : NeedsStates(c)' => NeedsStates(c)
    BY <2>1 DEF NeedsStates, Nvidia
  <2> QED
    BY <2>1, <2>2, <2>3, StaticsGrow
<1>16. ASSUME NEW t \in Threads, BeginExit(t) \/ ExitStatic(t) \/ \E a \in Addresses : ExitEntry(t, a)
       PROVE  StaticInv'
  <2>1. /\ exiting'
        /\ \/ UNCHANGED statics
           \/ statics # << >> /\ statics' = SubSeq(statics, 1, Len(statics) - 1)
    BY <1>1, <1>16 DEF BeginExit, ExitStatic, ExitEntry, ExitInv
  <2> QED
    BY <1>1, <2>1, StaticsShrink
<1>17. CASE UNCHANGED vars
  BY <1>1, <1>17 DEF vars, StaticInv, NeedsStates, Nvidia, Alive
<1>18. ASSUME NEW t \in Threads, Step(t) PROVE StaticInv'
  BY <1>6, <1>7, <1>8, <1>9, <1>10, <1>11, <1>12, <1>13, <1>14, <1>16, <1>18 DEF Step
<1> QED
  BY <1>11, <1>15, <1>16, <1>17, <1>18 DEF Next

-----------------------------------------------------------------------------
LEMMA NextIInv == IInv /\ [Next]_vars => IInv'
BY NextTypes, NextRefInv, NextMembersInv, NextHeldInv, NextFlagInv, NextStaticInv DEF IInv

LEMMA AlwaysIInv == Spec => []IInv
<1>1. Init => IInv
  BY InitIInv
<1>2. IInv /\ [Next]_vars => IInv'
  BY NextIInv
<1> QED
  BY <1>1, <1>2, PTL DEF Spec

(* Whichever way a context went - a boot that failed after any phase, a    *)
(* shutdown with calls under way, the exit of the process - it has left no *)
(* stream, fault buffer, poller or buffer, and after a shutdown no address *)
(* range: the destructors of its members run with nobody else's reference  *)
(* left, and what a member stands for is held only as long as it is there. *)
THEOREM ReleasesAll == Spec => []DestructorsRelease
<1>1. ASSUME IInv PROVE DestructorsRelease
  <2> SUFFICES ASSUME NEW c \in Gone
               PROVE  /\ streams[c] = 0
                      /\ held \cap ({"FaultBuffer", "Poller", "Buffers"} \X {c}) = {}
                      /\ phase[c] = "shut" => held \cap ({"VaRange", "Mapping"} \X {c}) = {}
    BY DEF DestructorsRelease
  <2>1. c \in Contexts /\ c \notin DOMAIN contexts
    BY <1>1, BootAssumption DEF Gone, Contexts, IInv, Types
  <2>2. members[c] = {} /\ HeldOf(c) /\ RangeOf(c)
    BY <1>1, <2>1 DEF IInv, MembersInv, HeldInv
  <2>3. c # NoContext /\ \A t \in Threads : my[t] # c
    BY <1>1, <2>1, BootAssumption DEF IInv, RefInv, Contexts
  <2> QED
    BY <2>2, <2>3 DEF HeldOf, RangeOf
<1> QED
  BY <1>1, AlwaysIInv, PTL

(* A context in the registry has booted to the end and is alive at its     *)
(* handle, a shared_ptr of a call never dangles and only the last one      *)
(* destroys, two live contexts have different handles, and a poller has    *)
(* its FaultHandler and its buffer.                                        *)
THEOREM NothingDangles == Spec => []ReferencesAreLive
<1>1. ASSUME IInv PROVE ReferencesAreLive
  <2>1. ASSUME NEW a \in DOMAIN registry
        PROVE  /\ registry[a] \in DOMAIN contexts /\ contexts[registry[a]] = a
               /\ {"mk", "dma", "faults"} \subseteq members[registry[a]]
    <3>1. registry[a] \in DOMAIN contexts /\ contexts[registry[a]] = a /\ phase[registry[a]] = "ready"
      BY <1>1 DEF IInv, RefInv
    <3>2. \A t \in Threads : pc[t] = "destroy" => my[t] # registry[a]
      BY <1>1 DEF IInv, RefInv, Alone
    <3> QED
      BY <1>1, <3>1, <3>2 DEF IInv, MembersInv, Complete, Booted
  <2>2. ASSUME NEW t \in Threads, my[t] # NoContext
        PROVE  my[t] \in DOMAIN contexts /\ (pc[t] = "destroy" => \A u \in Threads \ {t} : my[u] # my[t])
    BY <1>1, <2>2 DEF IInv, RefInv, Alone
  <2>3. \A c, d \in DOMAIN contexts : contexts[c] = contexts[d] => c = d
    BY <1>1 DEF IInv, RefInv
  <2>4. ASSUME NEW c \in Contexts, <<"Poller", c>> \in held
        PROVE  c \in DOMAIN contexts /\ "faults" \in members[c] /\ <<"FaultBuffer", c>> \in held
    BY <1>1, <2>4 DEF IInv, HeldInv, HeldOf, MembersInv
  <2> QED
    BY <2>1, <2>2, <2>3, <2>4 DEF ReferencesAreLive
<1> QED
  BY <1>1, AlwaysIInv, PTL

(* The shim's flags, kept by address and never erased, are those of the    *)
(* engines of the contexts that live at these addresses.                   *)
THEOREM FlagsFollowEngines == Spec => []FlagsMatchEngines
<1>1. ASSUME IInv PROVE FlagsMatchEngines
  <2> SUFFICES ASSUME "states" \in Alive
               PROVE  inited = {<<fc[1], contexts[fc[2]]>> : fc \in {e \in enabled : e[2] \in DOMAIN contexts}}
    BY DEF FlagsMatchEngines
  <2> DEFINE live == {e \in enabled : e[2] \in DOMAIN contexts}
  <2>1. /\ inited \subseteq Flags \X Addresses /\ enabled \subseteq Flags \X Contexts
        /\ contexts \in [DOMAIN contexts -> Addresses]
    BY <1>1 DEF IInv, Types
  <2>2. \A f \in Flags, a \in Addresses :
            <<f, a>> \in inited <=> \E c \in DOMAIN contexts : contexts[c] = a /\ <<f, c>> \in enabled
    BY <1>1 DEF IInv, FlagInv
  <2>3. ASSUME NEW fa \in inited PROVE \E fc \in live : fa = <<fc[1], contexts[fc[2]]>>
    <3>1. PICK f \in Flags, a \in Addresses : fa = <<f, a>>
      BY <2>1
    <3>2. PICK c \in DOMAIN contexts : contexts[c] = a /\ <<f, c>> \in enabled
      BY <2>2, <3>1
    <3>3. <<f, c>> \in live
      BY <3>2
    <3> QED
      BY <3>1, <3>2, <3>3
  <2>4. ASSUME NEW fc \in live PROVE <<fc[1], contexts[fc[2]]>> \in inited
    <3>1. PICK f \in Flags, c \in Contexts : fc = <<f, c>>
      BY <2>1
    <3>2. c \in DOMAIN contexts /\ <<f, c>> \in enabled /\ contexts[c] \in Addresses
      BY <2>1, <3>1
    <3> QED
      BY <2>2, <3>1, <3>2
  <2> QED
    BY <2>3, <2>4
<1> QED
  BY <1>1, AlwaysIInv, PTL

(* Every destructor finds the member and the platform it calls, in a       *)
(* shutdown as in the exit of the process, when no C call was made before  *)
(* the first boot: such a call constructs registry() before states(), and  *)
(* the exit then destroys states() first.                                  *)
THEOREM FindsPlatform == ~EarlyCalls => (Spec => []DestructorsFindPlatform)
<1>1. ASSUME ~EarlyCalls, IInv PROVE DestructorsFindPlatform
  <2> SUFFICES ASSUME NEW t \in Threads, pc[t] = "destroy", members[my[t]] # {}
               PROVE  /\ StaticsOf(my[t], NextMember(my[t])) \subseteq Alive
                      /\ MembersOf(NextMember(my[t])) \subseteq members[my[t]]
    BY DEF DestructorsFindPlatform
  <2> DEFINE c == my[t]
             m == NextMember(c)
  <2>1. c \in Contexts
    BY <1>1, LiveContexts DEF IInv, RefInv
  <2>2. m \in members[c]
    BY <1>1, <2>1, NextMemberIs DEF IInv
  <2> HIDE DEF m
  <2>3. statics # << >> /\ statics \in Seq(Statics)
    BY <1>1 DEF IInv, ExitInv, StaticInv, Types
  <2>4. Len(statics) \in Nat \ {0} /\ DOMAIN statics = 1 .. Len(statics)
    BY <2>3, EmptySeq
  <2>5. "dispatch" \in Alive
    BY <1>1, <2>3, <2>4 DEF IInv, StaticInv, Alive
  <2>6. exiting => "states" \in Alive
    <3> SUFFICES ASSUME exiting PROVE "states" \in Alive
      OBVIOUS
    <3>1. statics[Len(statics)] = "registry"
      BY <1>1 DEF IInv, ExitInv, LastStatic
    <3>2. \E j \in 1 .. Len(statics) - 1 : statics[j] = "states"
      BY <1>1, <2>4, <3>1 DEF IInv, StaticInv
    <3> QED
      BY <2>4, <3>2 DEF Alive
  <2>7. NeedsStates(c) => "states" \in Alive
    BY <1>1, <2>1, <2>6 DEF IInv, StaticInv
  <2>8. StaticsOf(c, m) \subseteq Alive
    <3>1. ASSUME m = "dma", (Flags \X {c}) \cap enabled # {} PROVE NeedsStates(c)
      BY <3>1 DEF NeedsStates
    <3>2. ASSUME ~Nvidia, m \in {"mem", "faults"} PROVE NeedsStates(c)
      BY <2>2, <3>2 DEF NeedsStates
    <3>3. CASE NeedsStates(c)
      BY <2>5, <2>7, <3>3 DEF StaticsOf
    <3>4. CASE ~NeedsStates(c)
      BY <2>5, <3>1, <3>2, <3>4 DEF StaticsOf
    <3> QED
      BY <3>3, <3>4
  <2>9. MembersOf(m) \subseteq members[c]
    BY <1>1, <2>1, <2>2 DEF IInv, MembersInv, MembersOf
  <2> QED
    BY <2>8, <2>9 DEF m
<1>2. SUFFICES ASSUME ~EarlyCalls PROVE Spec => []DestructorsFindPlatform
  OBVIOUS
<1>3. IInv => DestructorsFindPlatform
  BY <1>1, <1>2
<1> QED
  BY <1>3, AlwaysIInv, PTL

-----------------------------------------------------------------------------
(* Streams: a call has one that is in the pool, a boot makes no more than  *)
(* the pool has, and a drain leaves those in use.                          *)
InUse(c) == {t \in Threads : pc[t] = "stream" /\ my[t] = c}

StreamInv ==
    /\ \A c \in Contexts : Cardinality(InUse(c)) <= streams[c] /\ streams[c] <= NStreams
    /\ \A t \in Threads :
          /\ pc[t] \in {"clock", "reserve", "map", "dma"} => streams[my[t]] = 0
          /\ pc[t] = "spawn" => streams[my[t]] < NStreams

LEMMA InUseFinite ==
  ASSUME NEW c PROVE IsFiniteSet(InUse(c)) /\ Cardinality(InUse(c)) \in Nat
BY BootAssumption, FS_Subset, FS_CardinalityType DEF InUse

LEMMA StreamsSame ==
  ASSUME IInv, StreamInv, NEW t \in Threads, UNCHANGED streams,
         \A u \in Threads \ {t} : pc'[u] = pc[u] /\ my'[u] = my[u],
         pc[t] # "stream", pc'[t] # "stream",
         pc'[t] \in {"clock", "reserve", "map", "dma", "spawn"} => streams[my'[t]] = 0
  PROVE  StreamInv'
<1>1. \A c : InUse(c)' = InUse(c)
  BY DEF InUse
<1>2. NStreams \in Nat \ {0}
  BY BootAssumption
<1> QED
  BY <1>1, <1>2 DEF StreamInv

LEMMA NextStreamInv == ASSUME IInv, StreamInv, [Next]_vars PROVE StreamInv'
<1> USE DEF Goto, Fail, platVars, ctxVars, procVars
<1>1. /\ pc \in [Threads -> {"idle", "drop", "destroy", "exit"}
                               \cup BootSteps \cup CallSteps \cup ShutdownSteps]
      /\ my \in [Threads -> Contexts \cup {NoContext}] /\ streams \in [Contexts -> Int]
  BY DEF IInv, Types
<1>2. ASSUME NEW t \in Threads, NEW to, pc' = [pc EXCEPT ![t] = to]
      PROVE  pc'[t] = to /\ \A u \in Threads \ {t} : pc'[u] = pc[u]
  BY <1>1, <1>2
<1>3. ASSUME NEW t \in Threads, pc[t] \notin {"idle", "exit"} PROVE my[t] \in Contexts
  BY <1>3 DEF IInv, Types, RefInv
<1>4. ASSUME NEW t \in Threads,
             \/ LockClocks(t) \/ Reserve(t) \/ MapPool(t) \/ RegisterDma(t) \/ AttachFaults(t)
             \/ InitIlc(t) \/ Register(t) \/ MemoryLock(t) \/ MemoryMake(t) \/ Alloc(t)
             \/ Uninstall(t) \/ ShutdownDma(t) \/ ReleaseVaddress(t)
      PROVE  StreamInv'
  <2>1. UNCHANGED <<streams, my>> /\ pc[t] # "stream"
    BY <1>4 DEF LockClocks, Reserve, MapPool, RegisterDma, AttachFaults, InitIlc, Register,
                MemoryLock, MemoryMake, Alloc, Uninstall, ShutdownDma, ReleaseVaddress
  <2>2. \E to : /\ pc' = [pc EXCEPT ![t] = to] /\ to # "stream"
                /\ to \in {"clock", "reserve", "map", "dma", "spawn"} =>
                      pc[t] \in {"clock", "reserve", "map", "dma"}
    <3>1. CASE LockClocks(t) \/ Reserve(t) \/ MapPool(t) \/ RegisterDma(t)
      BY <3>1 DEF LockClocks, Reserve, MapPool, RegisterDma
    <3>2. CASE \/ AttachFaults(t) \/ InitIlc(t) \/ Register(t) \/ MemoryLock(t) \/ MemoryMake(t)
               \/ Alloc(t) \/ Uninstall(t) \/ ShutdownDma(t) \/ ReleaseVaddress(t)
      BY <3>2 DEF AttachFaults, InitIlc, Register, MemoryLock, MemoryMake, Alloc, Uninstall,
                  ShutdownDma, ReleaseVaddress
    <3> QED
      BY <1>4, <3>1, <3>2
  <2> QED
    BY <1>2, <2>1, <2>2, StreamsSame DEF StreamInv
<1>5. ASSUME NEW t \in Threads, Spawn(t) PROVE StreamInv'
  <2>1. UNCHANGED my /\ pc[t] = "spawn" /\ my[t] \in Contexts
    BY <1>3, <1>5 DEF Spawn
  <2>2. CASE pc' = [pc EXCEPT ![t] = "drop"] /\ UNCHANGED streams
    <3>1. pc'[t] = "drop" /\ \A u \in Threads \ {t} : pc'[u] = pc[u]
      BY <1>2, <2>2
    <3> QED
      BY <2>1, <2>2, <3>1, StreamsSame
  <2>3. CASE /\ streams' = [streams EXCEPT ![my[t]] = @ + 1]
             /\ pc' = [pc EXCEPT ![t] = IF LastStream(my[t]) THEN "faults" ELSE @]
    <3>1. /\ pc'[t] = (IF streams[my[t]] + 1 = NStreams THEN "faults" ELSE "spawn")
          /\ \A u \in Threads \ {t} : pc'[u] = pc[u]
      BY <1>1, <2>1, <2>3 DEF LastStream
    <3>2. \A c : InUse(c)' = InUse(c)
      BY <2>1, <3>1 DEF InUse
    <3>3. streams'[my[t]] = streams[my[t]] + 1 /\ \A c \in Contexts \ {my[t]} : streams'[c] = streams[c]
      BY <1>1, <2>1, <2>3
    <3>4. streams[my[t]] < NStreams /\ NStreams \in Nat /\ streams[my[t]] \in Int
      BY <1>1, <2>1, BootAssumption DEF StreamInv
    <3>5. ASSUME NEW c \in Contexts PROVE Cardinality(InUse(c)') <= streams'[c] /\ streams'[c] <= NStreams
      <4>1. /\ Cardinality(InUse(c)') = Cardinality(InUse(c)) /\ Cardinality(InUse(c)) \in Nat
            /\ Cardinality(InUse(c)) <= streams[c] /\ streams[c] <= NStreams /\ streams[c] \in Int
        BY <1>1, <3>2, InUseFinite DEF StreamInv
      <4> QED
        BY <3>3, <3>4, <4>1
    <3>6. ASSUME NEW u \in Threads
          PROVE  /\ pc'[u] \in {"clock", "reserve", "map", "dma"} => streams'[my[u]] = 0
                 /\ pc'[u] = "spawn" => streams'[my[u]] < NStreams
      <4>1. CASE u = t
        BY <3>1, <3>3, <3>4, <4>1
      <4>2. CASE u # t
        <5>1. my[u] # my[t]
          BY <2>1, <4>2 DEF IInv, RefInv, Alone, BootSteps
        <5>2. pc[u] \in {"clock", "reserve", "map", "dma", "spawn"} => streams'[my[u]] = streams[my[u]]
          BY <1>3, <3>3, <5>1
        <5> QED
          BY <3>1, <4>2, <5>2 DEF StreamInv
      <4> QED
        BY <4>1, <4>2
    <3> QED
      BY <2>1, <3>5, <3>6 DEF StreamInv
  <2> QED
    BY <1>5, <2>2, <2>3 DEF Spawn
<1>6. ASSUME NEW t \in Threads, TakeStream(t) PROVE StreamInv'
  <2>1. /\ UNCHANGED <<streams, my>> /\ pc[t] = "call" /\ pc' = [pc EXCEPT ![t] = "stream"]
        /\ Idle(my[t]) > 0 /\ my[t] \in Contexts
    BY <1>3, <1>6 DEF TakeStream
  <2>2. pc'[t] = "stream" /\ \A u \in Threads \ {t} : pc'[u] = pc[u]
    BY <1>2, <2>1
  <2>3. streams[my[t]] - Cardinality(InUse(my[t])) > 0
    BY <2>1 DEF Idle, InUse
  <2>4. ASSUME NEW c \in Contexts PROVE Cardinality(InUse(c)') <= streams[c]
    <3>1. CASE c = my[t]
      <4>1. Cardinality(InUse(c)) \in Nat /\ streams[c] \in Int
        BY <1>1, InUseFinite
      <4>2. Cardinality(InUse(c)') = Cardinality(InUse(c)) + 1
        <5>1. InUse(c)' = InUse(c) \cup {t} /\ t \notin InUse(c)
          BY <2>1, <2>2, <3>1 DEF InUse
        <5> QED
          BY <5>1, InUseFinite, FS_AddElement
      <4>3. streams[c] - Cardinality(InUse(c)) > 0
        BY <2>3, <3>1
      <4> QED
        BY <4>1, <4>2, <4>3
    <3>2. CASE c # my[t]
      <4>1. InUse(c)' = InUse(c)
        BY <2>1, <2>2, <3>2 DEF InUse
      <4> QED
        BY <4>1 DEF StreamInv
    <3> QED
      BY <3>1, <3>2
  <2> QED
    BY <2>1, <2>2, <2>4 DEF StreamInv
<1>7. ASSUME NEW t \in Threads, EndCall(t) PROVE StreamInv'
  <2>1. UNCHANGED <<streams, my>> /\ pc' = [pc EXCEPT ![t] = "drop"]
    BY <1>7 DEF EndCall
  <2>2. pc'[t] = "drop" /\ \A u \in Threads \ {t} : pc'[u] = pc[u]
    BY <1>2, <2>1
  <2>3. ASSUME NEW c \in Contexts PROVE Cardinality(InUse(c)') <= streams[c]
    <3>1. InUse(c)' \subseteq InUse(c)
      BY <2>1, <2>2 DEF InUse
    <3>2. Cardinality(InUse(c)') <= Cardinality(InUse(c)) /\ Cardinality(InUse(c)') \in Nat
      BY <3>1, InUseFinite, FS_Subset, FS_CardinalityType
    <3> QED
      BY <1>1, <3>2, InUseFinite DEF StreamInv
  <2> QED
    BY <2>1, <2>2, <2>3 DEF StreamInv
<1>8. ASSUME NEW t \in Threads, my[t] \in Contexts, UNCHANGED my,
             streams' = Drained(my[t]) \/ UNCHANGED streams,
             pc[t] # "stream", pc' = pc \/ pc' = [pc EXCEPT ![t] = "fini"],
             \A u \in Threads : pc[u] \in {"clock", "reserve", "map", "dma", "spawn"} => my[u] # my[t]
      PROVE  StreamInv'
  <2>1. /\ \A c \in Contexts \ {my[t]} : streams'[c] = streams[c]
        /\ streams'[my[t]] = Cardinality(InUse(my[t])) \/ streams'[my[t]] = streams[my[t]]
    <3>1. Drained(my[t]) = [streams EXCEPT ![my[t]] = streams[my[t]] - (streams[my[t]] - Cardinality(InUse(my[t])))]
      BY DEF Drained, Idle, InUse
    <3> QED
      BY <1>1, <1>8, <3>1, InUseFinite
  <2>2. /\ pc'[t] \notin {"clock", "reserve", "map", "dma", "spawn", "stream"}
        /\ \A u \in Threads \ {t} : pc'[u] = pc[u]
    BY <1>1, <1>8
  <2>3. \A c : InUse(c)' = InUse(c)
    BY <1>8, <2>2 DEF InUse
  <2>4. ASSUME NEW c \in Contexts PROVE Cardinality(InUse(c)') <= streams'[c] /\ streams'[c] <= NStreams
    <3>1. /\ Cardinality(InUse(c)') = Cardinality(InUse(c)) /\ Cardinality(InUse(c)) \in Nat
          /\ Cardinality(InUse(c)) <= streams[c] /\ streams[c] <= NStreams /\ streams[c] \in Int
      BY <1>1, <2>3, InUseFinite DEF StreamInv
    <3> QED
      BY <2>1, <3>1, BootAssumption
  <2>5. ASSUME NEW u \in Threads, pc'[u] \in {"clock", "reserve", "map", "dma", "spawn"}
        PROVE  streams'[my'[u]] = streams[my[u]] /\ pc[u] = pc'[u]
    BY <1>3, <1>8, <2>1, <2>2, <2>5
  <2> QED
    BY <2>4, <2>5 DEF StreamInv
<1>9. ASSUME NEW t \in Threads, DrainStreams(t) \/ DestroyMember(t) PROVE StreamInv'
  <2>1. /\ UNCHANGED my /\ pc[t] \in {"drain", "destroy"}
        /\ streams' = Drained(my[t]) \/ UNCHANGED streams
        /\ pc' = pc \/ pc' = [pc EXCEPT ![t] = "fini"]
    BY <1>9 DEF DrainStreams, DestroyMember, Destroyed
  <2>2. \A u \in Threads : pc[u] \in {"clock", "reserve", "map", "dma", "spawn"} => my[u] # my[t]
    BY <2>1 DEF IInv, RefInv, Alone, BootSteps
  <2>3. my[t] \in Contexts /\ pc[t] # "stream"
    BY <1>3, <2>1
  <2> QED
    BY <1>8, <2>1, <2>2, <2>3
<1>10. ASSUME NEW t \in Threads, Construct(t) PROVE StreamInv'
  <2>1. /\ UNCHANGED streams /\ pc[t] = "idle" /\ pc' = [pc EXCEPT ![t] = "clock"]
        /\ my' = [my EXCEPT ![t] = boots + 1] /\ boots + 1 \in Contexts \ DOMAIN contexts
    BY <1>10, BootAssumption DEF Construct, Contexts, IInv, Types
  <2>2. streams[boots + 1] = 0
    BY <2>1 DEF IInv, MembersInv, HeldInv, HeldOf
  <2>3. my'[t] = boots + 1 /\ \A u \in Threads \ {t} : my'[u] = my[u]
    BY <1>1, <2>1
  <2> QED
    BY <1>2, <2>1, <2>2, <2>3, StreamsSame
<1>11. ASSUME NEW t \in Threads, NEW a,
              \/ Lookup(t, a) \/ TakeHandle(t, a) \/ Drop(t) \/ FreeContext(t) \/ BeginExit(t)
              \/ ExitEntry(t, a)
       PROVE  StreamInv'
  <2>1. UNCHANGED streams /\ pc[t] # "stream"
    BY <1>11 DEF Lookup, TakeHandle, Drop, FreeContext, BeginExit, ExitEntry
  <2>2. /\ \A u \in Threads \ {t} : pc'[u] = pc[u] /\ my'[u] = my[u]
        /\ pc'[t] \in {"call", "uninstall", "destroy", "idle", "exit"}
    <3>1. CASE Lookup(t, a) \/ TakeHandle(t, a)
      BY <1>1, <3>1 DEF Lookup, TakeHandle
    <3>2. CASE Drop(t) \/ FreeContext(t)
      BY <1>1, <3>2 DEF Drop, FreeContext
    <3>3. CASE BeginExit(t) \/ ExitEntry(t, a)
      BY <1>1, <3>3 DEF BeginExit, ExitEntry
    <3> QED
      BY <1>11, <3>1, <3>2, <3>3
  <2> QED
    BY <2>1, <2>2, StreamsSame
<1>12. ASSUME UNCHANGED <<streams, pc, my>> PROVE StreamInv'
  BY <1>12 DEF StreamInv, InUse
<1>13. ASSUME NEW t \in Threads, LookupMisses(t) \/ ExitStatic(t) PROVE StreamInv'
  BY <1>12, <1>13 DEF LookupMisses, ExitStatic
<1>14. ASSUME NEW t \in Threads, Step(t) PROVE StreamInv'
  BY <1>4, <1>5, <1>6, <1>7, <1>9, <1>11, <1>13, <1>14 DEF Step
<1> QED
  BY <1>10, <1>11, <1>12, <1>13, <1>14 DEF Next, vars

RestTypes ==
    /\ mutex \in Threads \cup {NoThread}
    /\ states \subseteq Addresses /\ current \subseteq Threads
    /\ calls \in [Threads -> 0 .. MaxCalls]

LEMMA NextRestTypes == ASSUME IInv, RestTypes, [Next]_vars PROVE RestTypes'
<1> USE DEF platVars, ctxVars, procVars
<1>1. ASSUME NEW t \in Threads, LockClocks(t) \/ Reserve(t) \/ Spawn(t) PROVE RestTypes'
  <2>1. contexts[my[t]] \in Addresses
    <3>1. my[t] \in DOMAIN contexts
      BY <1>1 DEF LockClocks, Reserve, Spawn, Goto, IInv, RefInv
    <3> QED
      BY <3>1 DEF IInv, Types
  <2>2. /\ UNCHANGED <<mutex, calls>>
        /\ UNCHANGED <<states, current>> \/ \E made : State(t, contexts[my[t]], made)
    BY <1>1 DEF LockClocks, Reserve, Spawn
  <2> QED
    BY <2>1, <2>2 DEF RestTypes, State
<1>2. ASSUME NEW t \in Threads, NEW a, Lookup(t, a) \/ TakeHandle(t, a) PROVE RestTypes'
  <2>1. /\ UNCHANGED <<mutex, states, current>> /\ calls[t] < MaxCalls
        /\ calls' = [calls EXCEPT ![t] = @ + 1]
    BY <1>2 DEF Lookup, TakeHandle
  <2>2. calls[t] \in 0 .. MaxCalls /\ MaxCalls \in Nat
    BY BootAssumption DEF RestTypes
  <2>3. calls[t] + 1 \in 0 .. MaxCalls
    BY <2>1, <2>2
  <2> QED
    BY <2>1, <2>3 DEF RestTypes
<1>3. ASSUME NEW t \in Threads, MemoryLock(t) \/ MemoryMake(t) PROVE RestTypes'
  BY <1>3 DEF MemoryLock, MemoryMake, Unlock, RestTypes
<1>4. ASSUME NEW t \in Threads, ExitStatic(t) PROVE RestTypes'
  BY <1>4 DEF ExitStatic, RestTypes
<1>5. ASSUME NEW t \in Threads, NEW a,
             \/ MapPool(t) \/ RegisterDma(t) \/ AttachFaults(t) \/ InitIlc(t) \/ Register(t) \/ Alloc(t)
             \/ TakeStream(t) \/ EndCall(t) \/ Uninstall(t) \/ DrainStreams(t) \/ ShutdownDma(t)
             \/ ReleaseVaddress(t) \/ Drop(t) \/ DestroyMember(t) \/ FreeContext(t)
             \/ ExitEntry(t, a) \/ Construct(t) \/ LookupMisses(t) \/ BeginExit(t)
      PROVE  RestTypes'
  <2>1. UNCHANGED <<mutex, states, current, calls>>
    BY <1>5 DEF MapPool, RegisterDma, AttachFaults, InitIlc, Register, Alloc, TakeStream, EndCall,
                Uninstall, DrainStreams, ShutdownDma, ReleaseVaddress, Drop, DestroyMember, FreeContext,
                ExitEntry, Construct, LookupMisses, BeginExit
  <2> QED
    BY <2>1 DEF RestTypes
<1>6. CASE UNCHANGED vars
  BY <1>6 DEF vars, RestTypes
<1>7. ASSUME NEW t \in Threads, Step(t) PROVE RestTypes'
  BY <1>1, <1>3, <1>4, <1>5, <1>7 DEF Step
<1> QED
  BY <1>2, <1>5, <1>6, <1>7 DEF Next

(* The streams of a pool are never more than boot makes nor fewer than are *)
(* in use, however drain_streams and the calls interleave, and everything  *)
(* else has its type.                                                      *)
THEOREM TypeCorrect == Spec => []TypeOK
<1>1. Init => StreamInv /\ RestTypes
  <2> SUFFICES ASSUME Init PROVE StreamInv /\ RestTypes
    OBVIOUS
  <2>1. \A c : InUse(c) = {}
    BY DEF Init, InUse
  <2> QED
    BY <2>1, FS_EmptySet, BootAssumption DEF Init, StreamInv, RestTypes
<1>2. IInv /\ StreamInv /\ RestTypes /\ [Next]_vars => (StreamInv /\ RestTypes)'
  BY NextStreamInv, NextRestTypes
<1>3. IInv /\ StreamInv /\ RestTypes => TypeOK
  <2> SUFFICES ASSUME IInv, StreamInv, RestTypes PROVE TypeOK
    OBVIOUS
  <2>1. DOMAIN registry \subseteq Addresses
    BY DEF IInv, RefInv, Types
  <2>2. streams \in [Contexts -> 0 .. NStreams]
    <3>1. \A c \in Contexts : streams[c] \in 0 .. NStreams
      BY InUseFinite, BootAssumption DEF IInv, Types, StreamInv
    <3> QED
      BY <3>1 DEF IInv, Types
  <2>3. \A i \in DOMAIN statics : statics[i] \in Statics
    BY DEF IInv, Types
  <2> QED
    BY <2>1, <2>2, <2>3 DEF TypeOK, IInv, Types, RestTypes
<1> QED
  BY <1>1, <1>2, <1>3, AlwaysIInv, PTL DEF Spec
=============================================================================
