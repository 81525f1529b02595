-------------------------- MODULE SubsystemProofs --------------------------
(***************************************************************************)
(* Theorems about two subsystems whose threads share state under locks and *)
(* joins: ContextScope, for any number of threads, caches of any size, any *)
(* rows of attention and any layers, and FaultHandler, for any number of   *)
(* slots, faults and logs.                                                 *)
(*                                                                         *)
(* ContextScope's argument: a call that hints slots of the scope's own     *)
(* cache has the scope's mutex from before its first hint to after its     *)
(* last, and bind_kv_cache needs that mutex; a call of the C function has  *)
(* a cache of its own.  So the cache a call hints slots of is the same for *)
(* all of them.                                                            *)
(*                                                                         *)
(* FaultHandler's: the owner gets past the join only when the poller has   *)
(* ended, and the device writes no record whose status is 0.  So the       *)
(* record the poller is on stays as it was looked at until it is marked,   *)
(* and a record the device has begun is none the poller will mark.         *)
(***************************************************************************)
EXTENDS ContextScope, FaultHandler, SequenceTheorems, FiniteSetTheorems, TLAPS

(* What is typed of a scope, but for the window of attention rows.         *)
Types ==
    /\ layers \in [{L3, L4} -> [max : Nat, used : Nat]]
    /\ kv \in Caches \cup {NoCache}
    /\ mtx \in Threads \cup {NoThread} /\ pmtx \in Threads \cup {NoThread}
    /\ inject \in Threads \cup {NoThread}
    /\ history \in Seq(Rows) /\ Len(history) <= Window
    /\ pc \in [Threads -> {"idle", "check", "lock", "hint", "inject", "prune"}]
    /\ todo \in [Threads -> SUBSET SlotNumbers]
    /\ own \in [Threads -> Caches \cup {NoCache}]
    /\ hints \in [Threads -> SUBSET ((Caches \cup {NoCache}) \X Nat)]
    /\ owed \in Nat /\ charged \in 0 .. MaxTokens
    /\ calls \in [Threads -> 0 .. MaxCalls]

Hinting(t) == pc[t] \in {"hint", "inject"}

(* Hints are for the cache of the call, and a cache that is bound to the   *)
(* scope stays bound as long as a call hints slots of it.                  *)
CacheInv ==
    \A t \in Threads :
        /\ Hinting(t) /\ own[t] = NoCache => mtx = t
        /\ ~Hinting(t) => own[t] = NoCache /\ hints[t] = {}
        /\ \A h \in hints[t] : h[1] = Cache(t) /\ h[1] \in Caches /\ h[2] < SlotsOf[h[1]]

IInv == Types /\ TokensConserved /\ CacheInv

-----------------------------------------------------------------------------
(* A slot number is a natural number.                                      *)
LEMMA SlotsAreNumbers == SlotNumbers \subseteq Nat
BY ContextScopeAssumption DEF SlotNumbers

LEMMA InitIInv == Init => IInv
<1> SUFFICES ASSUME Init PROVE IInv
  OBVIOUS
<1>1. PICK a \in LayerSpecs, b \in LayerSpecs : layers = [l \in {L3, L4} |-> IF l = L3 THEN a ELSE b]
  BY DEF Init
<1>2. layers \in [{L3, L4} -> [max : Nat, used : Nat]]
  BY <1>1, ContextScopeAssumption DEF L3, L4
<1>3. owed \in Nat /\ TokensConserved
  BY <1>2 DEF Init, TokensConserved, L3, L4
<1>4. history \in Seq(Rows) /\ Len(history) = 0
  BY DEF Init
<1>5. Types
  BY <1>2, <1>3, <1>4, ContextScopeAssumption DEF Init, Types
<1> QED
  BY <1>3, <1>5 DEF Init, IInv, CacheInv, Hinting

(* observe keeps the window a sequence of rows within its limit.           *)
LEMMA WindowType ==
  ASSUME Types, NEW row \in Rows
  PROVE  InWindow(Append(history, row)) \in Seq(Rows) /\ Len(InWindow(Append(history, row))) <= Window
<1> DEFINE h == Append(history, row)
<1>1. h \in Seq(Rows) /\ Len(h) = Len(history) + 1 /\ Len(h) <= Window + 1
  BY ContextScopeAssumption DEF Types
<1>2. CASE Len(h) > Window
  <2>1. h # << >>
    BY <1>1
  <2>2. Tail(h) \in Seq(Rows) /\ Len(Tail(h)) = Len(h) - 1
    BY <1>1, <2>1
  <2> QED
    BY <1>1, <1>2, <2>2, ContextScopeAssumption DEF InWindow
<1>3. CASE ~(Len(h) > Window)
  BY <1>1, <1>3, ContextScopeAssumption DEF InWindow
<1> QED
  BY <1>2, <1>3

(* The slots of the latest row are slot numbers.                           *)
LEMMA LatestSlots ==
  ASSUME Types, history # << >>
  PROVE  Slots \subseteq SlotNumbers
<1>1. Last(history) \in Rows
  BY DEF Types, Last
<1>2. Last(history) \in Seq(Nat)
  BY <1>1, ContextScopeAssumption
<1>3. \A i \in Slots : i + 1 \in DOMAIN Last(history) /\ i = (i + 1) - 1
  BY <1>2 DEF Slots
<1> QED
  BY <1>1, <1>3 DEF SlotNumbers

-----------------------------------------------------------------------------
(* step and set_layer: the tokens.                                         *)
LEMMA StepKeeps == ASSUME IInv, NEW t \in Threads, Step(t) PROVE IInv'
<1> USE DEF IInv
<1>1. /\ owed' = owed + 1 /\ charged' = charged + 1 /\ charged < MaxTokens
      /\ UNCHANGED <<kv, locks, history, calling>>
  BY DEF Step
<1> DEFINE w == layers[L4].used + 1
<1>2. layers' = IF Over(w) THEN Spill(w) ELSE [layers EXCEPT ![L4].used = w]
  BY DEF Step
<1>3. /\ layers[L3].used \in Nat /\ layers[L4].used \in Nat /\ layers[L4].max \in Nat
      /\ layers[L3] \in [max : Nat, used : Nat] /\ layers[L4] \in [max : Nat, used : Nat]
      /\ L3 # L4
  BY DEF Types, L3, L4
<1>4. /\ layers' \in [{L3, L4} -> [max : Nat, used : Nat]]
      /\ layers'[L3].used + layers'[L4].used = layers[L3].used + layers[L4].used + 1
  <2>1. CASE Over(w)
    <3>1. w - layers[L4].max \in Nat
      BY <1>3, <2>1 DEF Over
    <3>2. /\ layers' = [layers EXCEPT ![L3].used = @ + (w - layers[L4].max),
                                     ![L4].used = layers[L4].max]
          /\ layers \in [{L3, L4} -> [max : Nat, used : Nat]]
      BY <1>2, <2>1 DEF Spill, Types
    <3> QED
      BY <1>3, <3>1, <3>2
  <2>2. CASE ~Over(w)
    <3>1. /\ layers' = [layers EXCEPT ![L4].used = w]
          /\ layers \in [{L3, L4} -> [max : Nat, used : Nat]]
      BY <1>2, <2>2 DEF Types
    <3> QED
      BY <1>3, <3>1
  <2> QED
    BY <2>1, <2>2
<1>5. TokensConserved'
  BY <1>1, <1>3, <1>4 DEF TokensConserved
<1>6. Types'
  <2>1. owed' \in Nat /\ charged' \in 0 .. MaxTokens
    <3>1. owed \in Nat /\ charged \in 0 .. MaxTokens /\ MaxTokens \in Nat
      BY ContextScopeAssumption DEF Types
    <3>2. owed' = owed + 1 /\ charged' = charged + 1 /\ charged < MaxTokens
      BY <1>1
    <3> QED
      BY <3>1, <3>2
  <2>2. layers' \in [{L3, L4} -> [max : Nat, used : Nat]]
    BY <1>4
  <2>3. UNCHANGED <<kv, mtx, pmtx, inject, history, pc, todo, own, hints, calls>>
    BY <1>1 DEF locks, calling
  <2> QED
    BY <2>1, <2>2, <2>3 DEF Types
<1>7. CacheInv'
  BY <1>1 DEF CacheInv, Hinting, Cache, locks, calling
<1> QED
  BY <1>5, <1>6, <1>7

LEMMA SetLayerKeeps ==
  ASSUME IInv, NEW t \in Threads, NEW l \in {L3, L4}, NEW spec \in LayerSpecs, SetLayer(t, l, spec)
  PROVE  IInv'
<1> USE DEF IInv
<1>1. /\ layers' = [layers EXCEPT ![l] = spec]
      /\ owed' = owed - layers[l].used + spec.used
      /\ UNCHANGED <<kv, locks, history, calling, charged>>
  BY DEF SetLayer
<1>2. /\ layers[L3].used \in Nat /\ layers[L4].used \in Nat /\ spec.used \in Nat
      /\ spec \in [max : Nat, used : Nat] /\ L3 # L4
  BY ContextScopeAssumption DEF Types, L3, L4
<1>3. layers' \in [{L3, L4} -> [max : Nat, used : Nat]]
  BY <1>1, <1>2 DEF Types
<1>4. owed' = layers'[L3].used + layers'[L4].used /\ owed' \in Nat
  <2>1. CASE l = L3
    BY <1>1, <1>2, <2>1 DEF TokensConserved, Types
  <2>2. CASE l = L4
    BY <1>1, <1>2, <2>2 DEF TokensConserved, Types
  <2> QED
    BY <2>1, <2>2
<1>5. Types'
  BY <1>1, <1>3, <1>4 DEF Types, locks, calling
<1>6. CacheInv'
  BY <1>1 DEF CacheInv, Hinting, Cache, locks, calling
<1> QED
  BY <1>4, <1>5, <1>6 DEF TokensConserved

(* bind_kv_cache: nobody hints slots of the scope's cache meanwhile.       *)
LEMMA BindKeeps ==
  ASSUME IInv, NEW t \in Threads, NEW c \in Caches \cup {NoCache}, Bind(t, c) PROVE IInv'
<1> USE DEF IInv
<1>1. /\ mtx = NoThread /\ kv' = c
      /\ UNCHANGED <<layers, locks, history, calling, owed, charged>>
  BY DEF Bind
<1>2. \A u \in Threads : Hinting(u) => own[u] # NoCache
  BY <1>1, ContextScopeAssumption DEF CacheInv
<1>3. CacheInv'
  <2> SUFFICES ASSUME NEW u \in Threads
               PROVE  /\ Hinting(u)' /\ own'[u] = NoCache => mtx' = u
                      /\ ~Hinting(u)' => own'[u] = NoCache /\ hints'[u] = {}
                      /\ \A h \in hints'[u] : /\ h[1] = Cache(u)' /\ h[1] \in Caches
                                              /\ h[2] < SlotsOf[h[1]]
    BY DEF CacheInv
  <2>1. UNCHANGED <<pc, own, hints, mtx>> /\ (Hinting(u)' <=> Hinting(u))
    BY <1>1 DEF Hinting, locks, calling
  <2>2. Hinting(u) => Cache(u)' = Cache(u)
    BY <1>2, <2>1 DEF Cache
  <2> QED
    BY <2>1, <2>2 DEF CacheInv
<1> QED
  BY <1>1, <1>3 DEF Types, TokensConserved, locks, calling

(* observe, prefetch_next, prune and the first half of prefetch_attention: *)
(* the thread hints nothing before or after.                               *)
LEMMA IdleKeeps ==
  ASSUME IInv, NEW t \in Threads, Types',
         UNCHANGED <<layers, kv, mtx, owed>>,
         \A u \in Threads \ {t} : pc'[u] = pc[u] /\ own'[u] = own[u] /\ hints'[u] = hints[u],
         ~Hinting(t), ~Hinting(t)', own'[t] = own[t], hints'[t] = hints[t]
  PROVE  IInv'
BY DEF IInv, TokensConserved, CacheInv, Hinting, Cache

(* The end of a call, wherever it was.                                     *)
LEMMA ReturnKeeps ==
  ASSUME IInv, NEW t \in Threads, Return(t), UNCHANGED <<layers, kv, history, owed, charged, calls>>
  PROVE  IInv'
<1> USE DEF IInv
<1>1. /\ pc' = [pc EXCEPT ![t] = "idle"] /\ todo' = [todo EXCEPT ![t] = {}]
      /\ own' = [own EXCEPT ![t] = NoCache] /\ hints' = [hints EXCEPT ![t] = {}]
      /\ mtx' = Left(mtx, t) /\ pmtx' = Left(pmtx, t) /\ inject' = inject
  BY DEF Return
<1>2. Types'
  BY <1>1 DEF Types, Left
<1>3. CacheInv'
  BY <1>1 DEF Types, CacheInv, Hinting, Cache, Left
<1> QED
  BY <1>2, <1>3 DEF TokensConserved

LEMMA NextIInv == IInv /\ [Next]_vars => IInv'
<1> SUFFICES ASSUME IInv, [Next]_vars PROVE IInv'
  OBVIOUS
<1> USE DEF Goto, Begin, locks, calling
<1>1. ASSUME NEW t \in Threads, NEW row \in Rows, Observe(t, row) PROVE IInv'
  <2>1. Types'
    BY <1>1, WindowType DEF IInv, Types, Observe
  <2> QED
    BY <1>1, <2>1, IdleKeeps DEF Observe, Hinting
<1>2. ASSUME NEW t \in Threads, PrefetchNext(t) PROVE IInv'
  <2>1. PICK S \in SUBSET Slots : todo' = [todo EXCEPT ![t] = S]
    BY <1>2 DEF PrefetchNext
  <2>2. S \subseteq SlotNumbers
    BY <1>2, LatestSlots DEF IInv, PrefetchNext
  <2>3. Types'
    BY <1>2, <2>1, <2>2, ContextScopeAssumption DEF IInv, Types, PrefetchNext
  <2> QED
    BY <1>2, <2>3, IdleKeeps DEF IInv, Types, PrefetchNext, Hinting
<1>3. ASSUME NEW t \in Threads, PruneCheck(t) PROVE IInv'
  <2>1. Types'
    BY <1>3, ContextScopeAssumption DEF IInv, Types, PruneCheck
  <2> QED
    BY <1>3, <2>1, IdleKeeps DEF IInv, Types, PruneCheck, Hinting
<1>4. ASSUME NEW t \in Threads, Check(t) PROVE IInv'
  <2>1. CASE kv = NoCache
    BY <1>4, <2>1, ReturnKeeps DEF Check
  <2>2. CASE kv # NoCache
    <3>1. Types'
      BY <1>4, <2>2 DEF IInv, Types, Check
    <3> QED
      BY <1>4, <2>2, <3>1, IdleKeeps DEF IInv, Types, Check, Hinting
  <2> QED
    BY <2>1, <2>2
<1>5. ASSUME NEW t \in Threads, EndPrefetch(t) \/ Prune(t) PROVE IInv'
  BY <1>5, ReturnKeeps DEF EndPrefetch, Prune
<1>6. ASSUME NEW t \in Threads, NEW c \in Caches, NEW S \in SUBSET SlotNumbers, AbiPrefetch(t, c, S)
      PROVE  IInv'
  <2>1. Types'
    BY <1>6, ContextScopeAssumption DEF IInv, Types, AbiPrefetch
  <2>2. CacheInv'
    BY <1>6 DEF IInv, Types, CacheInv, Hinting, Cache, AbiPrefetch
  <2> QED
    BY <1>6, <2>1, <2>2 DEF IInv, TokensConserved, AbiPrefetch
<1>7. ASSUME NEW t \in Threads, Lock(t) PROVE IInv'
  <2>1. Types'
    BY <1>7 DEF IInv, Types, Lock
  <2>2. CacheInv'
    BY <1>7, ContextScopeAssumption DEF IInv, Types, CacheInv, Hinting, Cache, Lock
  <2> QED
    BY <1>7, <2>1, <2>2 DEF IInv, TokensConserved, Lock
<1>8. ASSUME NEW t \in Threads, Injected(t) PROVE IInv'
  <2>1. Types'
    BY <1>8 DEF IInv, Types, Injected
  <2>2. CacheInv'
    BY <1>8 DEF IInv, Types, CacheInv, Hinting, Cache, Injected
  <2> QED
    BY <1>8, <2>1, <2>2 DEF IInv, TokensConserved, Injected
<1>9. ASSUME NEW t \in Threads, NEW i \in todo[t], SkipSlot(t, i) PROVE IInv'
  <2>1. Types'
    BY <1>9 DEF IInv, Types, SkipSlot
  <2>2. CacheInv'
    BY <1>9 DEF IInv, CacheInv, Hinting, Cache, SkipSlot
  <2> QED
    BY <1>9, <2>1, <2>2 DEF IInv, TokensConserved, SkipSlot
<1>10. ASSUME NEW t \in Threads, NEW i \in todo[t], HintSlot(t, i) PROVE IInv'
  <2>1. i \in Nat /\ Cache(t) \in Caches \cup {NoCache}
    BY SlotsAreNumbers DEF IInv, Types, Cache
  <2>2. Cache(t) \in Caches /\ i < SlotsOf[Cache(t)]
    BY <1>10, <2>1, ContextScopeAssumption DEF HintSlot, Within
  <2>3. Types'
    BY <1>10, <2>1 DEF IInv, Types, HintSlot
  <2>4. /\ UNCHANGED <<kv, own, mtx>>
        /\ pc[t] = "hint" /\ pc' = [pc EXCEPT ![t] = "inject"]
        /\ hints' = [hints EXCEPT ![t] = @ \cup {<<Cache(t), i>>}]
    BY <1>10 DEF HintSlot
  <2>5. \A u \in Threads : Cache(u)' = Cache(u) /\ (Hinting(u)' <=> Hinting(u))
    BY <2>4 DEF Cache, Hinting, IInv, Types
  <2>6. CacheInv'
    BY <2>2, <2>4, <2>5 DEF IInv, Types, CacheInv, Hinting
  <2> QED
    BY <1>10, <2>3, <2>6 DEF IInv, TokensConserved, HintSlot
<1>11. CASE UNCHANGED vars
  BY <1>11 DEF vars, IInv, Types, TokensConserved, CacheInv, Hinting, Cache
<1> QED
  BY <1>1, <1>2, <1>3, <1>4, <1>5, <1>6, <1>7, <1>8, <1>9, <1>10, <1>11,
     StepKeeps, SetLayerKeeps, BindKeeps DEF Next, CallStep

LEMMA Invariance == Spec => []IInv
BY InitIInv, NextIInv, PTL DEF Spec

-----------------------------------------------------------------------------
(* A scope keeps its types: no layer's use wraps below zero, and the       *)
(* prefetcher's window stays within its limit.                             *)
THEOREM TypeCorrect == Spec => []TypeOK
<1>1. IInv => TypeOK
  BY DEF IInv, Types, TypeOK
<1> QED
  BY <1>1, Invariance, PTL

(* step loses no token and counts none twice between L4 and L3.            *)
THEOREM ConservesTokens == Spec => []TokensConserved
<1>1. IInv => TokensConserved
  BY DEF IInv
<1> QED
  BY <1>1, Invariance, PTL

(* The hints of one prefetch_attention are for one cache and inside it.    *)
THEOREM HintsOneCache == Spec => []HintsInOneCache
<1>1. IInv => HintsInOneCache
  BY DEF IInv, CacheInv, HintsInOneCache
<1> QED
  BY <1>1, Invariance, PTL

-----------------------------------------------------------------------------
(* The types, with no bound on the counters: what bounds them is how they  *)
(* count.                                                                  *)
FaultTypes ==
    /\ buffer \in [1 .. BufferSlots -> Record]
    /\ allocated \in BOOLEAN /\ stop \in BOOLEAN
    /\ owner \in {"new", "installed", "join", "free", "uninstalled"}
    /\ poller \in {"none", "loop", "slot", "resolve", "mark", "ended"}
    /\ slot \in 1 .. BufferSlots + 1
    /\ log \in 0 .. BufferSlots
    /\ total \in Nat /\ resolved \in Nat /\ failed \in Nat
    /\ waiting \subseteq Faults /\ logs \in 0 .. MaxLogs

(* Where the owner is says whether there are a buffer and a poller.        *)
PhaseInv ==
    /\ owner = "new" => /\ poller = "none" /\ log = 0 /\ logs = 0 /\ waiting = {}
                        /\ total = 0 /\ resolved = 0 /\ failed = 0
    /\ owner # "new" => poller # "none"
    /\ owner \in {"installed", "join", "free"} => allocated
    /\ owner \in {"free", "uninstalled"} => poller = "ended"

(* The record the poller is on is pending, the one the device is on not.   *)
RecordInv ==
    /\ poller \in {"resolve", "mark"} => slot \in Pending
    /\ log # 0 => log \notin Pending

(* The record of a fault that waits is none the poller is about to mark.   *)
WaitInv ==
    \A f \in waiting : \E i \in 1 .. BufferSlots :
        /\ buffer[i].faulting_addr = f
        /\ i \in Pending \/ log = i
        /\ ~(poller = "mark" /\ slot = i)

FaultIInv == FaultTypes /\ PhaseInv /\ RecordInv /\ WaitInv

(* The pending records nobody has counted.                                 *)
Uncounted == Pending \ InProgress

-----------------------------------------------------------------------------
LEMMA EmptyRecords == [i \in 1 .. BufferSlots |-> Empty] \in [1 .. BufferSlots -> Record]
<1>1. Empty \in Record
  BY DEF Empty, Record
<1> QED
  BY <1>1

LEMMA StatusWritten ==
  ASSUME buffer \in [1 .. BufferSlots -> Record], NEW i \in 1 .. BufferSlots, NEW s \in 0 .. 2
  PROVE  [buffer EXCEPT ![i].status = s] \in [1 .. BufferSlots -> Record]
<1>1. [buffer[i] EXCEPT !.status = s] \in Record
  BY DEF Record
<1> QED
  BY <1>1

LEMMA FaultInitIInv == FInit => FaultIInv /\ RecordsCountedOnce
<1> SUFFICES ASSUME FInit PROVE FaultIInv /\ RecordsCountedOnce
  OBVIOUS
<1>1. FaultTypes
  <2>1. buffer \in [1 .. BufferSlots -> Record]
    BY EmptyRecords DEF FInit
  <2>2. 1 \in 1 .. BufferSlots + 1 /\ 0 \in 0 .. BufferSlots /\ 0 \in 0 .. MaxLogs
    BY FaultHandlerAssumption
  <2> QED
    BY <2>1, <2>2 DEF FInit, FaultTypes
<1>2. PhaseInv /\ RecordInv /\ WaitInv
  BY DEF FInit, PhaseInv, RecordInv, WaitInv
<1>3. RecordsCountedOnce
  BY FS_EmptySet DEF FInit, RecordsCountedOnce, InProgress
<1> QED
  BY <1>1, <1>2, <1>3 DEF FaultIInv

LEMMA NextTypes == FaultIInv /\ [FNext]_fvars => FaultTypes'
<1> SUFFICES ASSUME FaultIInv, [FNext]_fvars PROVE FaultTypes'
  OBVIOUS
<1> USE FaultHandlerAssumption DEF FaultIInv, FaultTypes
<1>1. CASE Install
  <2>1. buffer' \in [1 .. BufferSlots -> Record]
    BY <1>1, EmptyRecords DEF Install
  <2> QED
    BY <1>1, <2>1 DEF Install, counters, devVars
<1>2. CASE Uninstall \/ OwnerStep
  BY <1>2 DEF Uninstall, RequestStop, OwnerStep, Join, FreeBuffer, counters, devVars
<1>3. CASE Sweep \/ EndSweep
  BY <1>3 DEF Sweep, EndSweep, counters, devVars
<1>4. CASE Look
  BY <1>4 DEF Look, Swept, counters, devVars
<1>5. CASE Resolve
  BY <1>5 DEF Resolve, counters, devVars
<1>6. CASE Mark
  <2>1. slot \in 1 .. BufferSlots
    BY <1>6 DEF Mark, RecordInv, Pending
  <2>2. PICK s \in {1, 2} : buffer' = [buffer EXCEPT ![slot].status = s] /\ Counted(s)
    BY <1>6 DEF Mark
  <2>3. buffer' \in [1 .. BufferSlots -> Record]
    <3>1. s \in 0 .. 2 /\ buffer \in [1 .. BufferSlots -> Record]
      OBVIOUS
    <3>2. [buffer EXCEPT ![slot].status = s] \in [1 .. BufferSlots -> Record]
      BY <2>1, <3>1, StatusWritten
    <3> QED
      BY <2>2, <3>2
  <2>4. resolved' \in Nat /\ failed' \in Nat
    BY <2>2 DEF Counted
  <2> QED
    BY <1>6, <2>1, <2>3, <2>4 DEF Mark, devVars
<1>7. ASSUME NEW i \in 1 .. BufferSlots, NEW f \in Faults, LogAddress(i, f) PROVE FaultTypes'
  BY <1>7 DEF LogAddress, Record, counters
<1>8. CASE LogStatus
  <2>1. buffer' \in [1 .. BufferSlots -> Record]
    <3>1. log \in 1 .. BufferSlots /\ 0 \in 0 .. 2
      BY <1>8 DEF LogStatus
    <3>2. [buffer EXCEPT ![log].status = 0] \in [1 .. BufferSlots -> Record]
      BY <3>1, StatusWritten
    <3> QED
      BY <1>8, <3>2 DEF LogStatus
  <2> QED
    BY <1>8, <2>1 DEF LogStatus, counters
<1>9. CASE UNCHANGED fvars
  BY <1>9 DEF fvars
<1> QED
  BY <1>1, <1>2, <1>3, <1>4, <1>5, <1>6, <1>7, <1>8, <1>9 DEF FNext, PollerStep

LEMMA NextPhase == FaultIInv /\ [FNext]_fvars => PhaseInv'
<1> SUFFICES ASSUME FaultIInv, [FNext]_fvars PROVE PhaseInv'
  OBVIOUS
<1> USE DEF FaultIInv, PhaseInv, counters, devVars
<1>1. CASE Install
  BY <1>1 DEF Install
<1>2. CASE Uninstall \/ OwnerStep
  BY <1>2 DEF Uninstall, OwnerStep, Join, Joined, FreeBuffer
<1>3. CASE PollerStep
  BY <1>3 DEF PollerStep, Sweep, EndSweep, Look, Resolve, Mark
<1>4. CASE (\E i \in 1 .. BufferSlots, f \in Faults : LogAddress(i, f)) \/ LogStatus
  BY <1>4 DEF LogAddress, LogStatus
<1>5. CASE UNCHANGED fvars
  BY <1>5 DEF fvars
<1> QED
  BY <1>1, <1>2, <1>3, <1>4, <1>5 DEF FNext

(* What a step does to the statuses.                                       *)
LEMMA MarkRecord ==
  ASSUME FaultIInv, Mark
  PROVE  /\ Pending' = Pending \ {slot} /\ slot \in Pending
         /\ \A i \in 1 .. BufferSlots : buffer'[i].faulting_addr = buffer[i].faulting_addr
<1>1. slot \in Pending /\ slot \in 1 .. BufferSlots
  BY DEF Mark, FaultIInv, RecordInv, Pending
<1>2. PICK s \in {1, 2} : buffer' = [buffer EXCEPT ![slot].status = s]
  BY DEF Mark
<1>3. buffer \in [1 .. BufferSlots -> Record]
  BY DEF FaultIInv, FaultTypes
<1>4. \A i \in 1 .. BufferSlots : /\ buffer'[i].faulting_addr = buffer[i].faulting_addr
                                  /\ buffer'[i].status = IF i = slot THEN s ELSE buffer[i].status
  BY <1>1, <1>2, <1>3 DEF Record
<1>5. Pending' = Pending \ {slot}
  BY <1>2, <1>4 DEF Pending
<1> QED
  BY <1>1, <1>4, <1>5

LEMMA LogAddressRecord ==
  ASSUME FaultIInv, NEW i \in 1 .. BufferSlots, NEW f \in Faults, LogAddress(i, f)
  PROVE  /\ Pending' = Pending /\ i \notin Pending
         /\ \A j \in 1 .. BufferSlots : buffer'[j].faulting_addr =
                IF j = i THEN f ELSE buffer[j].faulting_addr
<1>1. buffer \in [1 .. BufferSlots -> Record] /\ buffer' = [buffer EXCEPT ![i].faulting_addr = f]
  BY DEF FaultIInv, FaultTypes, LogAddress
<1>2. \A j \in 1 .. BufferSlots : /\ buffer'[j].status = buffer[j].status
                                  /\ buffer'[j].faulting_addr =
                                         IF j = i THEN f ELSE buffer[j].faulting_addr
  BY <1>1 DEF Record
<1> QED
  BY <1>2 DEF Pending, LogAddress

LEMMA LogStatusRecord ==
  ASSUME FaultIInv, LogStatus
  PROVE  /\ Pending' = Pending \cup {log} /\ log \in 1 .. BufferSlots
         /\ \A j \in 1 .. BufferSlots : buffer'[j].faulting_addr = buffer[j].faulting_addr
<1>1. /\ buffer \in [1 .. BufferSlots -> Record] /\ buffer' = [buffer EXCEPT ![log].status = 0]
      /\ log \in 1 .. BufferSlots
  BY FaultHandlerAssumption DEF FaultIInv, FaultTypes, LogStatus
<1>2. \A j \in 1 .. BufferSlots : /\ buffer'[j].faulting_addr = buffer[j].faulting_addr
                                  /\ buffer'[j].status = IF j = log THEN 0 ELSE buffer[j].status
  BY <1>1 DEF Record
<1> QED
  BY <1>1, <1>2 DEF Pending

LEMMA NextRecord == FaultIInv /\ [FNext]_fvars => RecordInv'
<1> SUFFICES ASSUME FaultIInv, [FNext]_fvars PROVE RecordInv'
  OBVIOUS
<1> USE DEF RecordInv, counters, devVars
<1>1. CASE Install
  BY <1>1 DEF Install, FaultIInv, PhaseInv
<1>2. CASE Uninstall \/ OwnerStep
  BY <1>2 DEF Uninstall, OwnerStep, Join, FreeBuffer, Pending, FaultIInv
<1>3. CASE Sweep \/ EndSweep \/ Resolve
  BY <1>3 DEF Sweep, EndSweep, Resolve, Pending, FaultIInv
<1>4. CASE Look
  <2>1. slot \in 1 .. BufferSlots
    BY <1>4, FaultHandlerAssumption DEF Look, Swept, FaultIInv, FaultTypes
  <2> QED
    BY <1>4, <2>1 DEF Look, IsPending, Pending, FaultIInv
<1>5. CASE Mark
  BY <1>5, MarkRecord DEF Mark, FaultIInv
<1>6. ASSUME NEW i \in 1 .. BufferSlots, NEW f \in Faults, LogAddress(i, f) PROVE RecordInv'
  BY <1>6, LogAddressRecord DEF LogAddress, FaultIInv
<1>7. CASE LogStatus
  BY <1>7, LogStatusRecord DEF LogStatus, FaultIInv
<1>8. CASE UNCHANGED fvars
  BY <1>8 DEF fvars, Pending, FaultIInv
<1> QED
  BY <1>1, <1>2, <1>3, <1>4, <1>5, <1>6, <1>7, <1>8 DEF FNext, PollerStep

LEMMA NextWait == FaultIInv /\ [FNext]_fvars => WaitInv'
<1> SUFFICES ASSUME FaultIInv, [FNext]_fvars PROVE WaitInv'
  OBVIOUS
<1> USE DEF counters, devVars
<1>1. CASE Install
  BY <1>1 DEF Install, FaultIInv, PhaseInv, WaitInv
<1>2. CASE Uninstall \/ OwnerStep \/ Sweep \/ EndSweep
  BY <1>2 DEF Uninstall, OwnerStep, Join, FreeBuffer, Sweep, EndSweep, Pending, FaultIInv, WaitInv
<1>3. CASE Look
  BY <1>3 DEF Look, Pending, FaultIInv, WaitInv
<1>4. CASE Resolve
  <2>1. /\ waiting' = waiting \ {buffer[slot].faulting_addr}
        /\ UNCHANGED <<buffer, log, slot>> /\ poller = "resolve"
    BY <1>4 DEF Resolve
  <2> SUFFICES ASSUME NEW f \in waiting'
               PROVE  \E i \in 1 .. BufferSlots : /\ buffer'[i].faulting_addr = f
                                                  /\ i \in Pending' \/ log' = i
                                                  /\ ~(poller' = "mark" /\ slot' = i)
    BY DEF WaitInv
  <2>2. PICK i \in 1 .. BufferSlots : buffer[i].faulting_addr = f /\ (i \in Pending \/ log = i)
    BY <2>1 DEF FaultIInv, WaitInv
  <2>3. i # slot
    BY <2>1, <2>2
  <2> QED
    BY <2>1, <2>2, <2>3 DEF Pending
<1>5. CASE Mark
  <2>1. UNCHANGED <<waiting, log>> /\ poller = "mark" /\ poller' = "slot"
    BY <1>5 DEF Mark
  <2> QED
    BY <1>5, <2>1, MarkRecord DEF FaultIInv, WaitInv
<1>6. ASSUME NEW i \in 1 .. BufferSlots, NEW f \in Faults, LogAddress(i, f) PROVE WaitInv'
  <2>1. /\ UNCHANGED <<poller, slot>> /\ log = 0 /\ log' = i
        /\ waiting' = waiting \cup {f}
    BY <1>6 DEF LogAddress
  <2>2. ~(poller = "mark" /\ slot = i)
    BY <1>6, LogAddressRecord DEF FaultIInv, RecordInv
  <2>3. \A g \in waiting : \E j \in 1 .. BufferSlots :
            buffer[j].faulting_addr = g /\ j \in Pending /\ ~(poller = "mark" /\ slot = j)
    BY <2>1 DEF FaultIInv, WaitInv
  <2> QED
    BY <1>6, <2>1, <2>2, <2>3, LogAddressRecord DEF WaitInv
<1>7. CASE LogStatus
  <2>1. UNCHANGED <<poller, slot, waiting>>
    BY <1>7 DEF LogStatus
  <2> QED
    BY <1>7, <2>1, LogStatusRecord DEF FaultIInv, WaitInv
<1>8. CASE UNCHANGED fvars
  BY <1>8 DEF fvars, Pending, FaultIInv, WaitInv
<1> QED
  BY <1>1, <1>2, <1>3, <1>4, <1>5, <1>6, <1>7, <1>8 DEF FNext, PollerStep

-----------------------------------------------------------------------------
(* There are finitely many pending records.                                *)
LEMMA FinitePending == IsFiniteSet(Pending) /\ IsFiniteSet(Uncounted)
<1>1. IsFiniteSet(1 .. BufferSlots)
  BY FS_Interval, FaultHandlerAssumption
<1> QED
  BY <1>1, FS_Subset DEF Pending, Uncounted

LEMMA NextCounted == FaultIInv /\ RecordsCountedOnce /\ [FNext]_fvars => RecordsCountedOnce'
<1> SUFFICES ASSUME FaultIInv, RecordsCountedOnce, [FNext]_fvars PROVE RecordsCountedOnce'
  OBVIOUS
<1> USE DEF counters, devVars
<1>1. CASE Install
  <2>1. /\ poller' = "loop" /\ logs' = 0 /\ log' = 0 /\ total' = 0 /\ resolved' = 0 /\ failed' = 0
        /\ buffer' = [i \in 1 .. BufferSlots |-> Empty]
    BY <1>1 DEF Install, FaultIInv, PhaseInv
  <2>2. Pending' = 1 .. BufferSlots /\ InProgress' = {}
    BY <2>1 DEF Pending, Empty, InProgress
  <2>3. Cardinality(Pending' \ InProgress') = BufferSlots /\ Cardinality(InProgress') = 0
    BY <2>2, FS_Interval, FS_EmptySet, FaultHandlerAssumption
  <2> QED
    BY <2>1, <2>3, FaultHandlerAssumption DEF RecordsCountedOnce
<1>2. CASE Uninstall \/ OwnerStep \/ Sweep \/ EndSweep \/ Resolve
  <2>1. /\ UNCHANGED <<buffer, total, resolved, failed, log, logs>>
        /\ owner' # "new" => owner # "new"
        /\ InProgress' = InProgress
    BY <1>2 DEF Uninstall, OwnerStep, Join, FreeBuffer, Sweep, EndSweep, Resolve, InProgress
  <2> QED
    BY <2>1 DEF RecordsCountedOnce, Pending
<1>3. CASE Look
  <2>1. CASE ~IsPending(buffer[slot])
    <3>1. /\ UNCHANGED <<buffer, total, resolved, failed, log, logs, owner>>
          /\ InProgress' = InProgress
      BY <1>3, <2>1 DEF Look, InProgress
    <3> QED
      BY <3>1 DEF RecordsCountedOnce, Pending
  <2>2. CASE IsPending(buffer[slot])
    <3>1. /\ UNCHANGED <<buffer, resolved, failed, log, logs, owner, slot>>
          /\ total' = total + 1
          /\ InProgress = {} /\ InProgress' = {slot} /\ slot \in Pending
      BY <1>3, <2>2, FaultHandlerAssumption
      DEF Look, InProgress, IsPending, Pending, Swept, FaultIInv, FaultTypes
    <3>2. Pending' \ InProgress' = Uncounted \ {slot} /\ slot \in Uncounted
      BY <3>1 DEF Pending, Uncounted
    <3>3. Cardinality(Pending' \ InProgress') = Cardinality(Uncounted) - 1
      BY <3>2, FS_RemoveElement, FinitePending
    <3>4. Cardinality(InProgress) = 0 /\ Cardinality(InProgress') = 1
      BY <3>1, FS_EmptySet, FS_Singleton
    <3>5. Cardinality(Uncounted) \in Nat
      BY FinitePending, FS_CardinalityType
    <3> QED
      BY <3>1, <3>3, <3>4, <3>5, FaultHandlerAssumption
      DEF RecordsCountedOnce, Uncounted, FaultIInv, FaultTypes
  <2> QED
    BY <2>1, <2>2
<1>4. CASE Mark
  <2>1. PICK s \in {1, 2} : Counted(s)
    BY <1>4 DEF Mark
  <2>2. UNCHANGED <<total, log, logs, owner>> /\ InProgress = {slot} /\ InProgress' = {}
    BY <1>4 DEF Mark, InProgress
  <2>3. Pending' \ InProgress' = Pending \ InProgress
    BY <1>4, <2>2, MarkRecord
  <2>4. Cardinality(InProgress) = 1 /\ Cardinality(InProgress') = 0
    BY <2>2, FS_EmptySet, FS_Singleton
  <2>5. resolved' + failed' = resolved + failed + 1
    BY <2>1 DEF Counted, FaultIInv, FaultTypes
  <2>6. resolved' \in Nat /\ failed' \in Nat
    BY <2>1 DEF Counted, FaultIInv, FaultTypes
  <2>7. total' = resolved' + failed' + Cardinality(InProgress')
    <3>1. total' = total /\ total = resolved + failed + Cardinality(InProgress)
      BY <2>2 DEF RecordsCountedOnce
    <3> QED
      BY <3>1, <2>4, <2>5, <2>6
  <2>8. Cardinality(Pending' \ InProgress') = Cardinality(Pending \ InProgress)
    BY <2>3
  <2> QED
    BY <2>2, <2>7, <2>8 DEF RecordsCountedOnce
<1>5. ASSUME NEW i \in 1 .. BufferSlots, NEW f \in Faults, LogAddress(i, f)
      PROVE  RecordsCountedOnce'
  <2>1. /\ UNCHANGED <<owner, total, resolved, failed>> /\ InProgress' = InProgress
        /\ log = 0 /\ log' # 0 /\ logs' = logs + 1
    BY <1>5, FaultHandlerAssumption DEF LogAddress, InProgress
  <2>2. Cardinality(Pending' \ InProgress') = Cardinality(Pending \ InProgress)
    BY <1>5, <2>1, LogAddressRecord
  <2>3. Cardinality(InProgress') = Cardinality(InProgress)
    BY <2>1
  <2>4. BufferSlots \in Nat /\ logs \in Nat
    BY FaultHandlerAssumption DEF FaultIInv, FaultTypes
  <2> QED
    BY <2>1, <2>2, <2>3, <2>4 DEF RecordsCountedOnce
<1>6. CASE LogStatus
  <2>1. /\ UNCHANGED <<owner, total, resolved, failed, logs>> /\ InProgress' = InProgress
        /\ log # 0 /\ log' = 0
    BY <1>6 DEF LogStatus, InProgress
  <2>2. log \notin Pending /\ log \notin InProgress
    BY <2>1 DEF FaultIInv, RecordInv, InProgress
  <2>3. Pending' \ InProgress' = Uncounted \cup {log} /\ log \notin Uncounted
    BY <1>6, <2>1, <2>2, LogStatusRecord DEF Uncounted
  <2>4. Cardinality(Pending' \ InProgress') = Cardinality(Uncounted) + 1
    BY <2>3, FS_AddElement, FinitePending
  <2>5. Cardinality(Uncounted) \in Nat
    BY FinitePending, FS_CardinalityType
  <2> QED
    BY <2>1, <2>4, <2>5, FaultHandlerAssumption
    DEF RecordsCountedOnce, Uncounted, FaultIInv, FaultTypes
<1>7. CASE UNCHANGED fvars
  BY <1>7 DEF fvars, RecordsCountedOnce, Pending, InProgress
<1> QED
  BY <1>1, <1>2, <1>3, <1>4, <1>5, <1>6, <1>7 DEF FNext, PollerStep

LEMMA FaultInvariance == FSpec => [](FaultIInv /\ RecordsCountedOnce)
<1>1. FaultIInv /\ [FNext]_fvars => FaultIInv'
  BY NextTypes, NextPhase, NextRecord, NextWait DEF FaultIInv
<1> QED
  BY <1>1, FaultInitIInv, NextCounted, PTL DEF FSpec

-----------------------------------------------------------------------------
(* The poller and the device keep to the buffer, and the counters of       *)
(* poll_loop never pass the slots and the logged faults together.          *)
THEOREM FaultTypeCorrect == FSpec => []FTypeOK
<1>1. FaultIInv /\ RecordsCountedOnce => FTypeOK
  <2> SUFFICES ASSUME FaultIInv, RecordsCountedOnce PROVE FTypeOK
    OBVIOUS
  <2>1. Cardinality(InProgress) \in Nat /\ Cardinality(Pending \ InProgress) \in Nat
    <3>1. Cardinality(Pending \ InProgress) \in Nat
      BY FinitePending, FS_CardinalityType DEF Uncounted
    <3>2. Cardinality(InProgress) \in Nat
      BY FS_EmptySet, FS_Singleton DEF InProgress
    <3> QED
      BY <3>1, <3>2
  <2>2. total \in 0 .. BufferSlots + MaxLogs /\ resolved <= total /\ failed <= total
    BY <2>1, FaultHandlerAssumption DEF RecordsCountedOnce, FaultIInv, FaultTypes, PhaseInv
  <2> QED
    BY <2>2, FaultHandlerAssumption DEF FaultIInv, FaultTypes, FTypeOK
<1> QED
  BY <1>1, FaultInvariance, PTL

(* poll_loop reads and writes records only while the platform has the      *)
(* buffer: uninstall joins before it frees.                                *)
THEOREM PollerKeepsBuffer == FSpec => []PollerHasBuffer
<1>1. FaultIInv => PollerHasBuffer
  BY DEF FaultIInv, FaultTypes, PhaseInv, PollerHasBuffer
<1> QED
  BY <1>1, FaultInvariance, PTL

(* No status write of poll_loop loses a fault the device waits for.        *)
THEOREM NoFaultLost == FSpec => []WaitingIsPending
<1>1. FaultIInv => WaitingIsPending
  BY DEF FaultIInv, WaitInv, WaitingIsPending
<1> QED
  BY <1>1, FaultInvariance, PTL

(* poll_loop counts every record once, as resolved or as failed.           *)
THEOREM CountsOnce == FSpec => []RecordsCountedOnce
BY FaultInvariance, PTL
=============================================================================
