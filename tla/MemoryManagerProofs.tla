------------------------ MODULE MemoryManagerProofs ------------------------
(***************************************************************************)
(* Theorems about MemoryManager, for any threads, device, sizes, hints and *)
(* page size.                                                              *)
(*                                                                         *)
(* The argument: free holds the manager's mutex from its lookup in live_   *)
(* to its erase, so one entry at most is being erased, and alloc publishes *)
(* none meanwhile.  The driver hands out an address only when it has no    *)
(* buffer there; so an entry of live_ at the address of an alloc under way *)
(* can only be the one that is being erased, and it is gone when alloc     *)
(* publishes.                                                              *)
(*                                                                         *)
(* Buffers that start pages share none, so what one call maps or unmaps is *)
(* no other's; a free whose pages nobody has pinned unmaps them all before *)
(* it gives the memory back.                                               *)
(***************************************************************************)
EXTENDS MemoryManager, TLAPS

(* Callers free with the Allocation they got, not with its pointer only.   *)
Cpp == FreeForms \subseteq {"cpp"}

Types ==
    /\ device \in [DOMAIN device -> Sizes] /\ DOMAIN device \subseteq Addresses
    /\ live \in [DOMAIN live -> Allocation]
    /\ bytes_allocated \in Int
    /\ lock \in Threads \cup {NoThread}
    /\ pc \in [Threads -> {"idle"} \cup AllocSteps \cup FreeSteps]
    /\ cur \in [Threads -> Allocation]
    /\ held \subseteq Allocation
    /\ alive \in BOOLEAN

(* A free has the mutex, and nobody else; nothing runs after the           *)
(* destructor.                                                             *)
LockInv ==
    /\ \A t \in Threads : pc[t] \in FreeSteps <=> lock = t
    /\ ~alive => \A t \in Threads : pc[t] = "idle"

Separate(b, c) == Region(b, device[b]) \cap Region(c, device[c]) = {}

DeviceInv == \A b, c \in DOMAIN device : b # c => Separate(b, c)

(* An alloc under way has its buffer ...                                   *)
AllocInv ==
    \A t \in InFlight :
        /\ cur[t].vaddr = cur[t].hbm_ptr
        /\ cur[t].hbm_ptr \in DOMAIN device
        /\ device[cur[t].hbm_ptr] = cur[t].bytes

(* ... and so has an entry of live_ that nobody is erasing.                *)
LiveInv ==
    \A p \in DOMAIN live :
        /\ live[p].hbm_ptr = p /\ live[p].vaddr = p /\ live[p].bytes \in Sizes
        /\ ~Erasing(p) => p \in DOMAIN device /\ device[p] = live[p].bytes

(* What is being freed is in live_, and nobody holds it any more.          *)
FreeInv ==
    \A t \in Threads : pc[t] \in FreeSteps =>
        /\ cur[t].hbm_ptr \in DOMAIN live
        /\ Cpp => live[cur[t].hbm_ptr] = cur[t]
        /\ \A a \in held : a.hbm_ptr # cur[t].hbm_ptr

IInv ==
    /\ Types /\ LockInv /\ DeviceInv /\ AllocInv /\ LiveInv /\ FreeInv
    /\ BuffersAccounted /\ HeldIsLive

-----------------------------------------------------------------------------
LEMMA InitIInv == Init => IInv
<1> SUFFICES ASSUME Init PROVE IInv
  OBVIOUS
<1> USE DEF AllocSteps, FreeSteps
<1>1. DOMAIN device = {} /\ DOMAIN live = {}
  BY DEF Init, EmptyMap
<1>2. \A t \in Threads : pc[t] = "idle" /\ lock # t
  BY MemoryManagerAssumption DEF Init
<1>3. Types
  <2>1. device \in [DOMAIN device -> Sizes] /\ live \in [DOMAIN live -> Allocation]
    BY <1>1 DEF Init, EmptyMap
  <2>2. 0 \in Addresses
    BY MemoryManagerAssumption DEF Addresses
  <2> QED
    BY <1>1, <2>1, <2>2 DEF Init, Types, NoAllocation, Allocation
<1>4. InFlight = {}
  BY <1>2 DEF InFlight
<1> QED
  BY <1>1, <1>2, <1>3, <1>4
  DEF Init, IInv, LockInv, DeviceInv, AllocInv, LiveInv, FreeInv, BuffersAccounted, HeldIsLive

(* A step that leaves the device, live_, the mutex and what is held alone, *)
(* and moves threads only inside their calls.                              *)
LEMMA QuietKeeps ==
  ASSUME IInv, UNCHANGED <<device, live, bytes_allocated, lock, held, alive>>,
         pc' \in [Threads -> {"idle"} \cup AllocSteps \cup FreeSteps],
         cur' \in [Threads -> Allocation],
         \A t \in Threads :
            /\ pc'[t] \in AllocSteps <=> pc[t] \in AllocSteps
            /\ pc'[t] \in FreeSteps <=> pc[t] \in FreeSteps
            /\ pc'[t] = "erase" <=> pc[t] = "erase"
            /\ pc'[t] = "idle" <=> pc[t] = "idle"
            /\ cur'[t].hbm_ptr = cur[t].hbm_ptr
            /\ cur'[t].vaddr = cur[t].vaddr /\ cur'[t].bytes = cur[t].bytes
            /\ pc[t] \in FreeSteps => cur'[t] = cur[t]
  PROVE  IInv'
<1>1. Types' /\ LockInv' /\ DeviceInv'
  BY DEF IInv, Types, LockInv, DeviceInv, Separate
<1>2. InFlight' = InFlight /\ \A p : Erasing(p)' <=> Erasing(p)
  BY DEF InFlight, Erasing
<1>3. AllocInv'
  BY <1>2 DEF IInv, AllocInv, InFlight
<1>4. LiveInv'
  BY <1>2 DEF IInv, LiveInv
<1>5. FreeInv'
  BY DEF IInv, FreeInv
<1>6. {cur'[t].hbm_ptr : t \in InFlight'} = {cur[t].hbm_ptr : t \in InFlight}
  BY <1>2 DEF InFlight
<1>7. BuffersAccounted'
  BY <1>2, <1>6 DEF IInv, BuffersAccounted, InFlight
<1>8. HeldIsLive'
  BY DEF IInv, HeldIsLive
<1> QED
  BY <1>1, <1>3, <1>4, <1>5, <1>7, <1>8 DEF IInv

LEMMA AllocHbmKeeps ==
  ASSUME IInv, NEW t \in Threads, NEW n \in Sizes, NEW h \in HintSets, AllocHbm(t, n, h)
  PROVE  IInv'
<1> USE DEF Goto, AllocSteps, FreeSteps
<1>1. PICK a \in Addresses :
        /\ FreeRegion(a, n)
        /\ device' = Put(device, a, n)
        /\ cur' = [cur EXCEPT ![t] = [hbm_ptr |-> a, vaddr |-> a, bytes |-> n,
                                      ilc_tagged |-> FALSE]]
  BY DEF AllocHbm
<1>2. /\ alive /\ pc[t] = "idle" /\ pc' = [pc EXCEPT ![t] = "tag"]
      /\ UNCHANGED <<live, bytes_allocated, lock, held, alive>>
  BY DEF AllocHbm, mgrVars, callerVars
<1>3. /\ a \in Int /\ n \in Nat /\ n > 0
      /\ \A b \in DOMAIN device : b \in Int /\ device[b] \in Nat /\ device[b] > 0
  BY MemoryManagerAssumption DEF IInv, Types, Addresses
<1>4. a \notin DOMAIN device
  <2> SUFFICES ASSUME a \in DOMAIN device PROVE FALSE
    OBVIOUS
  <2>1. a \in Region(a, n) /\ a \in Region(a, device[a])
    BY <1>3 DEF Region
  <2> QED
    BY <1>1, <2>1 DEF FreeRegion
<1>5. /\ DOMAIN device' = DOMAIN device \cup {a} /\ device'[a] = n
      /\ \A b \in DOMAIN device : device'[b] = device[b]
  BY <1>1, <1>4 DEF Put
<1>6. /\ cur'[t].hbm_ptr = a /\ cur'[t].vaddr = a /\ cur'[t].bytes = n /\ pc'[t] = "tag"
      /\ \A u \in Threads \ {t} : cur'[u] = cur[u] /\ pc'[u] = pc[u]
  BY <1>1, <1>2 DEF IInv, Types
<1>7. /\ InFlight' = InFlight \cup {t} /\ t \notin InFlight
      /\ \A p : Erasing(p)' <=> Erasing(p)
  BY <1>2, <1>6 DEF InFlight, Erasing
<1>8. Types'
  <2>1. device' \in [DOMAIN device' -> Sizes]
    BY <1>1 DEF IInv, Types, Put
  <2>2. [hbm_ptr |-> a, vaddr |-> a, bytes |-> n, ilc_tagged |-> FALSE] \in Allocation
    BY <1>3 DEF Allocation
  <2> QED
    BY <1>1, <1>2, <1>5, <2>1, <2>2 DEF IInv, Types
<1>9. LockInv'
  BY <1>2, <1>6 DEF IInv, LockInv
<1>10. DeviceInv'
  BY <1>1, <1>5 DEF IInv, DeviceInv, Separate, FreeRegion
<1>11. AllocInv'
  BY <1>5, <1>6, <1>7 DEF IInv, AllocInv, InFlight
<1>12. LiveInv'
  BY <1>2, <1>5, <1>7 DEF IInv, LiveInv
<1>13. FreeInv'
  BY <1>2, <1>6 DEF IInv, FreeInv
<1>14. BuffersAccounted'
  <2>1. {cur'[u].hbm_ptr : u \in InFlight'} = {cur[u].hbm_ptr : u \in InFlight} \cup {a}
    BY <1>6, <1>7 DEF InFlight
  <2>2. \A u \in InFlight : cur[u].hbm_ptr # a /\ cur'[u] = cur[u]
    BY <1>4, <1>6, <1>7 DEF IInv, AllocInv, InFlight
  <2>3. a \in DOMAIN live => Erasing(a)
    BY <1>4 DEF IInv, BuffersAccounted
  <2>4. DOMAIN device' = {p \in DOMAIN live' : ~Erasing(p)'} \cup {cur'[u].hbm_ptr : u \in InFlight'}
    BY <1>2, <1>5, <1>7, <2>1 DEF IInv, BuffersAccounted
  <2>5. \A u, v \in InFlight' : cur'[u].hbm_ptr = cur'[v].hbm_ptr => u = v
    BY <1>6, <1>7, <2>2 DEF IInv, BuffersAccounted
  <2>6. \A u \in InFlight' : cur'[u].hbm_ptr \in DOMAIN live' => Erasing(cur[u].hbm_ptr)'
    <3> SUFFICES ASSUME NEW u \in InFlight', cur'[u].hbm_ptr \in DOMAIN live'
                 PROVE  Erasing(cur[u].hbm_ptr)'
      OBVIOUS
    <3>1. CASE u = t
      BY <1>2, <1>6, <1>7, <2>3, <3>1 DEF Erasing
    <3>2. CASE u # t
      <4>1. u \in InFlight /\ cur'[u] = cur[u]
        BY <1>7, <2>2, <3>2
      <4>2. Erasing(cur[u].hbm_ptr)
        BY <1>2, <4>1 DEF IInv, BuffersAccounted
      <4> QED
        BY <1>2, <1>6, <4>1, <4>2 DEF Erasing
    <3> QED
      BY <3>1, <3>2
  <2> QED
    BY <2>4, <2>5, <2>6 DEF BuffersAccounted
<1>15. HeldIsLive'
  BY <1>2 DEF IInv, HeldIsLive
<1> QED
  BY <1>8, <1>9, <1>10, <1>11, <1>12, <1>13, <1>14, <1>15 DEF IInv

(* The steps of a call between its locks, and what a caller does to pages. *)
LEMMA StepsKeep ==
  ASSUME IInv, NEW t \in Threads,
         \/ CheckIlc(t) \/ InsertTag(t) \/ MapPages(t) \/ AdviseReadMostly(t)
         \/ FreeUntag(t) \/ FreeUnmap(t)
  PROVE  IInv'
<1> USE DEF Goto, AllocSteps, FreeSteps
<1>1. UNCHANGED <<device, live, bytes_allocated, lock, held, alive>>
  BY DEF CheckIlc, InsertTag, MapPages, AdviseReadMostly, FreeUntag, FreeUnmap, mgrVars, callerVars
<1>2. CASE InsertTag(t)
  <2>1. pc[t] = "insert" /\ pc' = [pc EXCEPT ![t] = "map"]
    BY <1>2 DEF InsertTag
  <2>2. cur' = [cur EXCEPT ![t].ilc_tagged = TRUE]
    BY <1>2 DEF InsertTag
  <2>3. /\ cur' \in [Threads -> Allocation]
        /\ \A u \in Threads :
              /\ cur'[u].hbm_ptr = cur[u].hbm_ptr /\ cur'[u].vaddr = cur[u].vaddr
              /\ cur'[u].bytes = cur[u].bytes /\ (u # t => cur'[u] = cur[u])
    BY <2>2 DEF IInv, Types, Allocation
  <2> QED
    BY <1>1, <2>1, <2>3, QuietKeeps DEF IInv, Types
<1>3. CASE ~InsertTag(t)
  <2>1. UNCHANGED cur
    BY <1>3 DEF CheckIlc, MapPages, AdviseReadMostly, FreeUntag, FreeUnmap
  <2>2. \/ pc[t] \in {"tag", "map", "advise"} /\ \E s \in {"insert", "map", "advise", "publish"} :
                                                    pc' = [pc EXCEPT ![t] = s]
        \/ pc[t] \in {"untag", "unmap"} /\ \E s \in {"unmap", "free_hbm"} :
                                              pc' = [pc EXCEPT ![t] = s]
    BY <1>3 DEF CheckIlc, MapPages, AdviseReadMostly, FreeUntag, FreeUnmap
  <2> QED
    BY <1>1, <2>1, <2>2, QuietKeeps DEF IInv, Types
<1> QED
  BY <1>2, <1>3

LEMMA CallersKeep ==
  ASSUME IInv, (\E a \in held : AdviseHeld(a) \/ Pin(a) \/ Unpin(a)) \/ DisableIlc
  PROVE  IInv'
<1>1. UNCHANGED <<device, live, bytes_allocated, lock, held, alive, pc, cur>>
  BY DEF AdviseHeld, Pin, Unpin, DisableIlc, mgrVars, callerVars
<1> QED
  BY <1>1, QuietKeeps DEF IInv, Types

(* alloc publishes with the mutex free, so nothing is being erased, and    *)
(* live_ has nothing at its address.                                       *)
LEMMA PublishesFresh ==
  ASSUME IInv, NEW t \in Threads, pc[t] = "publish", lock = NoThread
  PROVE  /\ cur[t].hbm_ptr \notin DOMAIN live
         /\ \A u \in Threads : pc[u] \notin FreeSteps
         /\ \A p : ~Erasing(p)
<1> USE DEF AllocSteps, FreeSteps
<1>1. \A u \in Threads : pc[u] \notin FreeSteps
  BY MemoryManagerAssumption DEF IInv, LockInv
<1>2. \A p : ~Erasing(p)
  BY <1>1 DEF Erasing
<1>3. t \in InFlight
  BY DEF InFlight
<1> QED
  BY <1>1, <1>2, <1>3 DEF IInv, BuffersAccounted

LEMMA PublishKeeps == ASSUME IInv, NEW t \in Threads, Publish(t) PROVE IInv'
<1> USE DEF AllocSteps, FreeSteps
<1> DEFINE p == cur[t].hbm_ptr
<1>1. /\ pc[t] = "publish" /\ lock = NoThread /\ pc' = [pc EXCEPT ![t] = "idle"]
      /\ cur' = [cur EXCEPT ![t] = NoAllocation]
      /\ live' = Put(live, p, cur[t]) /\ held' = held \cup {cur[t]}
      /\ bytes_allocated' = bytes_allocated + cur[t].bytes
      /\ UNCHANGED <<device, lock, alive>>
  BY DEF Publish, Return, Count
<1>2. /\ p \notin DOMAIN live
      /\ \A u \in Threads : pc[u] \notin FreeSteps
      /\ \A q : ~Erasing(q)
  BY <1>1, PublishesFresh
<1>3. /\ t \in InFlight /\ p \in DOMAIN device /\ device[p] = cur[t].bytes /\ cur[t].vaddr = p
      /\ cur[t] \in Allocation /\ p \in Addresses /\ alive
  BY <1>1 DEF IInv, AllocInv, InFlight, Types, Allocation, LockInv
<1>4. cur[t].bytes \in Sizes /\ cur[t].bytes \in Int
  BY <1>3, MemoryManagerAssumption DEF IInv, Types
<1>5. /\ DOMAIN live' = DOMAIN live \cup {p} /\ live'[p] = cur[t]
      /\ \A q \in DOMAIN live : live'[q] = live[q]
  BY <1>1, <1>2 DEF Put
<1>6. /\ pc'[t] = "idle" /\ \A u \in Threads \ {t} : pc'[u] = pc[u] /\ cur'[u] = cur[u]
  BY <1>1 DEF IInv, Types
<1>7. InFlight' = InFlight \ {t} /\ \A q : ~Erasing(q)'
  BY <1>1, <1>2, <1>6 DEF InFlight, Erasing
<1>8. Types'
  <2>1. live' \in [DOMAIN live' -> Allocation]
    BY <1>1, <1>3 DEF IInv, Types, Put
  <2>2. NoAllocation \in Allocation
    BY MemoryManagerAssumption DEF NoAllocation, Allocation, Addresses
  <2> QED
    BY <1>1, <1>3, <1>4, <2>1, <2>2 DEF IInv, Types
<1>9. LockInv' /\ FreeInv'
  BY <1>1, <1>2, <1>3, <1>6 DEF IInv, LockInv, FreeInv
<1>10. DeviceInv'
  BY <1>1 DEF IInv, DeviceInv, Separate
<1>11. AllocInv'
  BY <1>1, <1>6, <1>7 DEF IInv, AllocInv, InFlight
<1>12. LiveInv'
  BY <1>1, <1>2, <1>3, <1>4, <1>5 DEF IInv, LiveInv
<1>13. BuffersAccounted'
  <2>1. \A u \in InFlight' : cur'[u] = cur[u] /\ u \in InFlight /\ u # t
    BY <1>6, <1>7 DEF InFlight
  <2>2. {cur'[u].hbm_ptr : u \in InFlight'} = {cur[u].hbm_ptr : u \in InFlight} \ {p}
    BY <1>3, <1>6, <1>7, <2>1 DEF IInv, BuffersAccounted, InFlight
  <2>3. {q \in DOMAIN live' : ~Erasing(q)'} = DOMAIN live \cup {p}
    BY <1>5, <1>7
  <2>4. DOMAIN device' = {q \in DOMAIN live' : ~Erasing(q)'} \cup {cur'[u].hbm_ptr : u \in InFlight'}
    BY <1>1, <1>2, <1>3, <2>2, <2>3 DEF IInv, BuffersAccounted
  <2>5. \A u, v \in InFlight' : cur'[u].hbm_ptr = cur'[v].hbm_ptr => u = v
    BY <2>1 DEF IInv, BuffersAccounted
  <2>6. \A u \in InFlight' : cur'[u].hbm_ptr \notin DOMAIN live'
    BY <1>2, <1>3, <1>5, <2>1 DEF IInv, BuffersAccounted
  <2> QED
    BY <2>4, <2>5, <2>6 DEF BuffersAccounted
<1>14. HeldIsLive'
  BY <1>1, <1>2, <1>3, <1>5 DEF IInv, HeldIsLive
<1> QED
  BY <1>8, <1>9, <1>10, <1>11, <1>12, <1>13, <1>14 DEF IInv

LEMMA FreeLockKeeps ==
  ASSUME IInv, NEW t \in Threads, NEW a \in held, NEW form \in FreeForms, FreeLock(t, a, form)
  PROVE  IInv'
<1> USE DEF Goto, AllocSteps, FreeSteps
<1>1. /\ alive /\ lock = NoThread /\ pc[t] = "idle" /\ pc' = [pc EXCEPT ![t] = "untag"]
      /\ a.hbm_ptr \in DOMAIN live /\ lock' = t /\ held' = held \ {a}
      /\ cur' = [cur EXCEPT ![t] = Argument(a, form)]
      /\ UNCHANGED <<device, live, bytes_allocated, alive>>
  BY DEF FreeLock, mgrVars
<1>2. a \in Allocation /\ live[a.hbm_ptr] = a
  BY <1>1 DEF IInv, Types, HeldIsLive
<1>3. /\ Argument(a, form) \in Allocation /\ Argument(a, form).hbm_ptr = a.hbm_ptr
      /\ Cpp => Argument(a, form) = a
  <2>1. CASE form = "cpp"
    BY <1>2, <2>1 DEF Argument
  <2>2. CASE form # "cpp"
    <3>1. /\ Argument(a, form) = [hbm_ptr |-> a.hbm_ptr, vaddr |-> 0, bytes |-> 0,
                                  ilc_tagged |-> FALSE]
          /\ ~Cpp
      BY <2>2 DEF Argument, NoAllocation, Cpp
    <3>2. 0 \in Addresses /\ a.hbm_ptr \in Addresses
      BY <1>2, MemoryManagerAssumption DEF Addresses, Allocation
    <3> QED
      BY <3>1, <3>2 DEF Allocation
  <2> QED
    BY <2>1, <2>2
<1>4. /\ pc'[t] = "untag" /\ cur'[t] = Argument(a, form)
      /\ \A u \in Threads \ {t} : pc'[u] = pc[u] /\ cur'[u] = cur[u]
  BY <1>1 DEF IInv, Types
<1>5. \A u \in Threads : pc[u] \notin FreeSteps
  BY <1>1, MemoryManagerAssumption DEF IInv, LockInv
<1>6. /\ InFlight' = InFlight /\ \A p : ~Erasing(p) /\ ~Erasing(p)'
      /\ \A u \in InFlight : u # t /\ cur'[u] = cur[u]
  BY <1>1, <1>4, <1>5 DEF InFlight, Erasing
<1>7. Types'
  BY <1>1, <1>3 DEF IInv, Types
<1>8. LockInv'
  BY <1>1, <1>4, <1>5 DEF LockInv
<1>9. DeviceInv' /\ LiveInv' /\ AllocInv'
  BY <1>1, <1>6 DEF IInv, DeviceInv, Separate, LiveInv, AllocInv
<1>10. FreeInv'
  <2>1. \A b \in held' : b.hbm_ptr # a.hbm_ptr
    BY <1>1, <1>2 DEF IInv, HeldIsLive
  <2> QED
    BY <1>1, <1>2, <1>3, <1>4, <1>5, <2>1 DEF FreeInv
<1>11. BuffersAccounted'
  <2>1. {cur'[u].hbm_ptr : u \in InFlight'} = {cur[u].hbm_ptr : u \in InFlight}
    BY <1>6
  <2> QED
    BY <1>1, <1>6, <2>1 DEF IInv, BuffersAccounted
<1>12. HeldIsLive'
  BY <1>1 DEF IInv, HeldIsLive
<1> QED
  BY <1>7, <1>8, <1>9, <1>10, <1>11, <1>12 DEF IInv

(* Where the holder of the mutex is.                                       *)
LEMMA OneFrees ==
  ASSUME IInv, NEW t \in Threads, pc[t] \in FreeSteps
  PROVE  /\ \A u \in Threads \ {t} : pc[u] \notin FreeSteps
         /\ alive /\ lock = t /\ cur[t].hbm_ptr \in DOMAIN live
         /\ \A p : Erasing(p) <=> pc[t] = "erase" /\ cur[t].hbm_ptr = p
         /\ t \notin InFlight
<1> USE DEF AllocSteps, FreeSteps
<1>1. /\ \A u \in Threads \ {t} : pc[u] \notin FreeSteps
      /\ alive /\ lock = t /\ cur[t].hbm_ptr \in DOMAIN live
  BY DEF IInv, LockInv, FreeInv
<1> QED
  BY <1>1 DEF Erasing, InFlight

LEMMA FreeHbmKeeps == ASSUME IInv, NEW t \in Threads, FreeHbm(t) PROVE IInv'
<1> USE DEF Goto, AllocSteps, FreeSteps
<1> DEFINE p == cur[t].hbm_ptr
<1>1. /\ pc[t] = "free_hbm" /\ pc' = [pc EXCEPT ![t] = "erase"]
      /\ device' = Remove(device, p)
      /\ UNCHANGED <<live, bytes_allocated, lock, cur, held, alive>>
  BY DEF FreeHbm, mgrVars, callerVars
<1>2. /\ \A u \in Threads \ {t} : pc[u] \notin FreeSteps
      /\ p \in DOMAIN live /\ t \notin InFlight /\ \A q : ~Erasing(q)
  BY <1>1, OneFrees
<1>3. /\ DOMAIN device' = DOMAIN device \ {p}
      /\ \A b \in DOMAIN device' : device'[b] = device[b]
  BY <1>1 DEF Remove
<1>4. pc'[t] = "erase" /\ \A u \in Threads \ {t} : pc'[u] = pc[u]
  BY <1>1 DEF IInv, Types
<1>5. InFlight' = InFlight /\ \A q : Erasing(q)' <=> q = p
  BY <1>1, <1>2, <1>4 DEF InFlight, Erasing
<1>6. \A u \in InFlight : cur[u].hbm_ptr \notin DOMAIN live
  BY <1>2 DEF IInv, BuffersAccounted
<1>7. Types'
  <2>1. device' \in [DOMAIN device' -> Sizes]
    BY <1>1 DEF IInv, Types, Remove
  <2> QED
    BY <1>1, <1>3, <2>1 DEF IInv, Types
<1>8. LockInv' /\ FreeInv'
  BY <1>1, <1>4 DEF IInv, LockInv, FreeInv
<1>9. DeviceInv'
  BY <1>3 DEF IInv, DeviceInv, Separate
<1>10. AllocInv'
  BY <1>1, <1>2, <1>3, <1>5, <1>6 DEF IInv, AllocInv
<1>11. LiveInv'
  BY <1>1, <1>2, <1>3, <1>5 DEF IInv, LiveInv
<1>12. BuffersAccounted'
  BY <1>1, <1>2, <1>3, <1>5, <1>6 DEF IInv, BuffersAccounted
<1>13. HeldIsLive'
  BY <1>1 DEF IInv, HeldIsLive
<1> QED
  BY <1>7, <1>8, <1>9, <1>10, <1>11, <1>12, <1>13 DEF IInv

LEMMA FreeHbmFailsKeeps == ASSUME IInv, NEW t \in Threads, FreeHbmFails(t) PROVE IInv'
<1> USE DEF AllocSteps, FreeSteps
<1> DEFINE p == cur[t].hbm_ptr
<1>1. /\ pc[t] = "free_hbm" /\ pc' = [pc EXCEPT ![t] = "idle"]
      /\ cur' = [cur EXCEPT ![t] = NoAllocation]
      /\ held' = held \cup {live[p]} /\ lock' = NoThread
      /\ UNCHANGED <<device, live, bytes_allocated, alive>>
  BY DEF FreeHbmFails, Return, mgrVars
<1>2. /\ \A u \in Threads \ {t} : pc[u] \notin FreeSteps
      /\ p \in DOMAIN live /\ t \notin InFlight /\ alive /\ \A q : ~Erasing(q)
  BY <1>1, OneFrees
<1>3. pc'[t] = "idle" /\ \A u \in Threads \ {t} : pc'[u] = pc[u] /\ cur'[u] = cur[u]
  BY <1>1 DEF IInv, Types
<1>4. InFlight' = InFlight /\ (\A q : ~Erasing(q)') /\ \A u \in InFlight : cur'[u] = cur[u]
  BY <1>1, <1>2, <1>3 DEF InFlight, Erasing
<1>5. live[p] \in Allocation /\ live[p].hbm_ptr = p /\ NoAllocation \in Allocation
  BY <1>2, MemoryManagerAssumption
  DEF IInv, Types, LiveInv, NoAllocation, Allocation, Addresses
<1>6. Types'
  BY <1>1, <1>5 DEF IInv, Types
<1>7. LockInv' /\ FreeInv'
  BY <1>1, <1>2, <1>3, MemoryManagerAssumption DEF LockInv, FreeInv
<1>8. DeviceInv' /\ AllocInv' /\ LiveInv'
  BY <1>1, <1>2, <1>4 DEF IInv, DeviceInv, Separate, AllocInv, LiveInv
<1>9. BuffersAccounted'
  <2>1. {cur'[u].hbm_ptr : u \in InFlight'} = {cur[u].hbm_ptr : u \in InFlight}
    BY <1>4
  <2> QED
    BY <1>1, <1>2, <1>4, <2>1 DEF IInv, BuffersAccounted
<1>10. HeldIsLive'
  BY <1>1, <1>2, <1>5 DEF IInv, HeldIsLive
<1> QED
  BY <1>6, <1>7, <1>8, <1>9, <1>10 DEF IInv

LEMMA FreeEraseKeeps == ASSUME IInv, NEW t \in Threads, FreeErase(t) PROVE IInv'
<1> USE DEF AllocSteps, FreeSteps
<1> DEFINE p == cur[t].hbm_ptr
<1>1. /\ pc[t] = "erase" /\ pc' = [pc EXCEPT ![t] = "idle"]
      /\ cur' = [cur EXCEPT ![t] = NoAllocation]
      /\ live' = Remove(live, p) /\ lock' = NoThread
      /\ bytes_allocated' = bytes_allocated - cur[t].bytes
      /\ UNCHANGED <<device, held, alive>>
  BY DEF FreeErase, Return, Forget, Discount
<1>2. /\ \A u \in Threads \ {t} : pc[u] \notin FreeSteps
      /\ p \in DOMAIN live /\ t \notin InFlight /\ alive /\ \A q : Erasing(q) <=> q = p
  BY <1>1, OneFrees
<1>3. pc'[t] = "idle" /\ \A u \in Threads \ {t} : pc'[u] = pc[u] /\ cur'[u] = cur[u]
  BY <1>1 DEF IInv, Types
<1>4. InFlight' = InFlight /\ (\A q : ~Erasing(q)') /\ \A u \in InFlight : cur'[u] = cur[u]
  BY <1>1, <1>2, <1>3 DEF InFlight, Erasing
<1>5. DOMAIN live' = DOMAIN live \ {p} /\ \A q \in DOMAIN live' : live'[q] = live[q]
  BY <1>1 DEF Remove
<1>6. Types'
  <2>1. live' \in [DOMAIN live' -> Allocation]
    BY <1>1 DEF IInv, Types, Remove
  <2>2. NoAllocation \in Allocation /\ cur[t].bytes \in Int
    BY MemoryManagerAssumption DEF IInv, Types, NoAllocation, Allocation, Addresses
  <2> QED
    BY <1>1, <2>1, <2>2 DEF IInv, Types
<1>7. LockInv' /\ FreeInv'
  BY <1>1, <1>2, <1>3, MemoryManagerAssumption DEF LockInv, FreeInv
<1>8. DeviceInv' /\ AllocInv' /\ LiveInv'
  BY <1>1, <1>2, <1>4, <1>5 DEF IInv, DeviceInv, Separate, AllocInv, LiveInv
<1>9. BuffersAccounted'
  <2>1. {cur'[u].hbm_ptr : u \in InFlight'} = {cur[u].hbm_ptr : u \in InFlight}
    BY <1>4
  <2>2. {q \in DOMAIN live' : ~Erasing(q)'} = {q \in DOMAIN live : ~Erasing(q)}
    BY <1>2, <1>4, <1>5
  <2>3. \A u \in InFlight' : cur'[u].hbm_ptr \notin DOMAIN live'
    BY <1>2, <1>4, <1>5 DEF IInv, BuffersAccounted
  <2> QED
    BY <1>1, <1>4, <2>1, <2>2, <2>3 DEF IInv, BuffersAccounted
<1>10. HeldIsLive'
  BY <1>1, <1>2, <1>5 DEF IInv, HeldIsLive, FreeInv
<1> QED
  BY <1>6, <1>7, <1>8, <1>9, <1>10 DEF IInv

LEMMA DestroyKeeps == ASSUME IInv, Destroy PROVE IInv'
<1> USE DEF AllocSteps, FreeSteps
<1>1. /\ \A t \in Threads : pc[t] = "idle"
      /\ device' = [b \in DOMAIN device \ DOMAIN live |-> device[b]]
      /\ live' = EmptyMap /\ alive' = FALSE
      /\ UNCHANGED <<bytes_allocated, lock, pc, cur, held>>
  BY DEF Destroy, callerVars
<1>2. InFlight = {} /\ InFlight' = {} /\ \A q : ~Erasing(q) /\ ~Erasing(q)'
  BY <1>1 DEF InFlight, Erasing
<1>3. DOMAIN live' = {} /\ DOMAIN device' = {}
  BY <1>1, <1>2 DEF EmptyMap, IInv, BuffersAccounted
<1>4. Types'
  <2>1. device' \in [DOMAIN device' -> Sizes] /\ live' \in [DOMAIN live' -> Allocation]
    BY <1>1, <1>3 DEF EmptyMap
  <2> QED
    BY <1>1, <1>3, <2>1 DEF IInv, Types
<1>5. LockInv' /\ FreeInv'
  BY <1>1 DEF IInv, LockInv, FreeInv
<1> QED
  BY <1>1, <1>2, <1>3, <1>4, <1>5
  DEF IInv, DeviceInv, AllocInv, LiveInv, BuffersAccounted, HeldIsLive

LEMMA NextIInv == IInv /\ [Next]_vars => IInv'
<1> SUFFICES ASSUME IInv, [Next]_vars PROVE IInv'
  OBVIOUS
<1>1. CASE UNCHANGED vars
  BY <1>1, QuietKeeps DEF vars, IInv, Types
<1>2. CASE Next
  BY <1>2, AllocHbmKeeps, FreeLockKeeps, StepsKeep, PublishKeeps, FreeHbmKeeps,
     FreeHbmFailsKeeps, FreeEraseKeeps, CallersKeep, DestroyKeeps DEF Next, Step
<1> QED
  BY <1>1, <1>2

LEMMA Invariance == Spec => []IInv
BY InitIInv, NextIInv, PTL DEF Spec

(* Every buffer of the device is in live_ or belongs to one alloc under    *)
(* way, whichever allocs, frees and refused frees run at once.             *)
THEOREM AccountsBuffers == Spec => []BuffersAccounted
<1>1. IInv => BuffersAccounted
  BY DEF IInv
<1> QED
  BY <1>1, Invariance, PTL

(* What a caller holds can be freed.                                       *)
THEOREM KeepsHeld == Spec => []HeldIsLive
<1>1. IInv => HeldIsLive
  BY DEF IInv
<1> QED
  BY <1>1, Invariance, PTL

-----------------------------------------------------------------------------
(* Tags.  From untag to the driver's free the pointer is in live_ and has  *)
(* no tag; then an alloc may get the address and tag it anew.              *)
UntagInv ==
    enabled => \A t \in Threads : pc[t] \in {"unmap", "free_hbm"} => cur[t].hbm_ptr \notin tagged

TagInv == TagsAreOwned /\ UntagInv

(* A step that leaves live_, the tags and what is being erased alone.      *)
LEMMA QuietKeepsTags ==
  ASSUME TagInv, UNCHANGED <<enabled, tagged, live>>,
         \A t \in Threads :
            /\ t \in InFlight => /\ t \in InFlight' /\ cur'[t].hbm_ptr = cur[t].hbm_ptr
                                 /\ cur'[t].ilc_tagged = cur[t].ilc_tagged
            /\ pc'[t] = "erase" => pc[t] = "erase" /\ cur'[t] = cur[t]
            /\ pc'[t] \in {"unmap", "free_hbm"} =>
                  pc[t] \in {"unmap", "free_hbm"} /\ cur'[t] = cur[t]
  PROVE  TagInv'
<1>1. \A p : Erasing(p)' => Erasing(p)
  BY DEF Erasing
<1>2. \A t \in InFlight : /\ t \in InFlight' /\ cur'[t].hbm_ptr = cur[t].hbm_ptr
                          /\ cur'[t].ilc_tagged = cur[t].ilc_tagged
  BY DEF InFlight
<1>3. TagsAreOwned'
  BY <1>1, <1>2 DEF TagInv, TagsAreOwned
<1>4. UntagInv'
  BY DEF TagInv, UntagInv
<1> QED
  BY <1>3, <1>4 DEF TagInv

LEMMA AllocKeepsTags ==
  ASSUME IInv, TagInv, NEW t \in Threads,
         \/ \E n \in Sizes, h \in HintSets : AllocHbm(t, n, h)
         \/ CheckIlc(t) \/ MapPages(t) \/ AdviseReadMostly(t)
  PROVE  TagInv'
<1> USE DEF AllocSteps, FreeSteps, Goto
<1>1. /\ pc[t] \in {"idle", "tag", "map", "advise"}
      /\ \E s \in AllocSteps : pc' = [pc EXCEPT ![t] = s]
      /\ pc[t] = "idle" \/ cur' = cur
      /\ \E c \in Allocation : cur' = [cur EXCEPT ![t] = c]
      /\ UNCHANGED <<enabled, tagged, live>>
  <2>1. CASE \E n \in Sizes, h \in HintSets : AllocHbm(t, n, h)
    BY <2>1, MemoryManagerAssumption DEF AllocHbm, ilcVars, mgrVars, Allocation
  <2>2. CASE CheckIlc(t) \/ MapPages(t) \/ AdviseReadMostly(t)
    <3>1. cur[t] \in Allocation /\ cur' = cur /\ cur' = [cur EXCEPT ![t] = cur[t]]
      BY <2>2 DEF CheckIlc, MapPages, AdviseReadMostly, IInv, Types
    <3> QED
      BY <2>2, <3>1 DEF CheckIlc, MapPages, AdviseReadMostly, ilcVars, mgrVars
  <2> QED
    BY <2>1, <2>2
<1>2. /\ pc'[t] \in AllocSteps
      /\ \A u \in Threads \ {t} : pc'[u] = pc[u] /\ cur'[u] = cur[u]
  BY <1>1 DEF IInv, Types
<1>3. \A u \in InFlight : u \in InFlight' /\ cur'[u] = cur[u]
  BY <1>1, <1>2 DEF InFlight
<1> QED
  BY <1>1, <1>2, <1>3, QuietKeepsTags

LEMMA InsertKeepsTags ==
  ASSUME IInv, TagInv, NEW t \in Threads, InsertTag(t)
  PROVE  TagInv'
<1> USE DEF AllocSteps, FreeSteps, Goto
<1> DEFINE p == cur[t].hbm_ptr
<1>1. /\ pc[t] = "insert" /\ pc' = [pc EXCEPT ![t] = "map"] /\ tagged' = tagged \cup {p}
      /\ cur' = [cur EXCEPT ![t].ilc_tagged = TRUE]
      /\ UNCHANGED <<enabled, live>>
  BY DEF InsertTag, mgrVars
<1>2. /\ pc'[t] = "map" /\ cur'[t].hbm_ptr = p /\ cur'[t].ilc_tagged
      /\ \A u \in Threads \ {t} : pc'[u] = pc[u] /\ cur'[u] = cur[u]
  BY <1>1 DEF IInv, Types, Allocation
<1>3. t \in InFlight /\ InFlight' = InFlight /\ \A q : Erasing(q)' => Erasing(q)
  BY <1>1, <1>2 DEF InFlight, Erasing
<1>4. TagsAreOwned'
  BY <1>1, <1>2, <1>3 DEF TagInv, TagsAreOwned
<1>5. ASSUME NEW u \in Threads, pc'[u] \in {"unmap", "free_hbm"} PROVE cur'[u].hbm_ptr # p
  <2>1. u # t /\ pc[u] \in {"unmap", "free_hbm"} /\ cur'[u] = cur[u]
    BY <1>2, <1>5
  <2>2. cur[u].hbm_ptr \in DOMAIN live /\ ~Erasing(cur[u].hbm_ptr)
    BY <2>1, OneFrees DEF IInv, FreeInv, LockInv, Erasing
  <2> QED
    BY <1>3, <2>1, <2>2 DEF IInv, BuffersAccounted
<1>6. UntagInv'
  BY <1>1, <1>2, <1>5 DEF TagInv, UntagInv
<1> QED
  BY <1>4, <1>6 DEF TagInv

LEMMA PublishKeepsTags ==
  ASSUME IInv, TagInv, NEW t \in Threads, Publish(t)
  PROVE  TagInv'
<1> USE DEF AllocSteps, FreeSteps
<1>1. /\ pc[t] = "publish" /\ lock = NoThread /\ pc' = [pc EXCEPT ![t] = "idle"]
      /\ cur' = [cur EXCEPT ![t] = NoAllocation] /\ live' = Put(live, cur[t].hbm_ptr, cur[t])
      /\ UNCHANGED <<enabled, tagged>>
  BY DEF Publish, Return, ilcVars
<1>2. cur[t].hbm_ptr \notin DOMAIN live /\ \A u \in Threads : pc[u] \notin FreeSteps
  BY <1>1, PublishesFresh
<1>3. pc'[t] = "idle" /\ \A u \in Threads \ {t} : pc'[u] = pc[u] /\ cur'[u] = cur[u]
  BY <1>1 DEF IInv, Types
<1>4. InFlight' = InFlight \ {t} /\ \A q : ~Erasing(q)'
  BY <1>1, <1>2, <1>3 DEF InFlight, Erasing
<1>5. /\ live'[cur[t].hbm_ptr] = cur[t] /\ DOMAIN live' = DOMAIN live \cup {cur[t].hbm_ptr}
      /\ \A q \in DOMAIN live : live'[q] = live[q]
  BY <1>1, <1>2 DEF Put
<1>6. TagsAreOwned'
  BY <1>1, <1>3, <1>4, <1>5 DEF TagInv, TagsAreOwned, InFlight
<1>7. UntagInv'
  BY <1>2, <1>3 DEF UntagInv
<1> QED
  BY <1>6, <1>7 DEF TagInv

(* untag takes the tag of the pointer, if free is given the Allocation.    *)
LEMMA UntagKeepsTags ==
  ASSUME Cpp, IInv, TagInv, NEW t \in Threads, FreeUntag(t)
  PROVE  TagInv'
<1> USE DEF AllocSteps, FreeSteps, Goto
<1> DEFINE p == cur[t].hbm_ptr
<1>1. /\ pc[t] = "untag" /\ pc' = [pc EXCEPT ![t] = "unmap"]
      /\ tagged' = IF cur[t].ilc_tagged THEN Untagged({p}) ELSE tagged
      /\ UNCHANGED <<enabled, live, cur>>
  BY DEF FreeUntag, mgrVars
<1>2. p \in DOMAIN live /\ live[p] = cur[t] /\ \A u \in Threads \ {t} : pc[u] \notin FreeSteps
  BY <1>1, OneFrees DEF IInv, FreeInv
<1>3. pc'[t] = "unmap" /\ \A u \in Threads \ {t} : pc'[u] = pc[u]
  BY <1>1 DEF IInv, Types
<1>4. InFlight' = InFlight /\ \A q : ~Erasing(q) /\ ~Erasing(q)'
  BY <1>1, <1>2, <1>3 DEF InFlight, Erasing
<1>5. \A u \in InFlight : cur[u].hbm_ptr # p
  BY <1>2, <1>4 DEF IInv, BuffersAccounted
<1>6. enabled => p \notin tagged' /\ tagged' \subseteq tagged
  BY <1>1, <1>2, <1>5 DEF TagInv, TagsAreOwned, Untagged
<1>7. TagsAreOwned'
  BY <1>1, <1>4, <1>6 DEF TagInv, TagsAreOwned
<1>8. UntagInv'
  BY <1>1, <1>2, <1>3, <1>6 DEF UntagInv
<1> QED
  BY <1>7, <1>8 DEF TagInv

(* The other steps of free.                                                *)
LEMMA FreeKeepsTags ==
  ASSUME IInv, TagInv, NEW t \in Threads,
         \/ \E a \in held, form \in FreeForms : FreeLock(t, a, form)
         \/ FreeUnmap(t) \/ FreeHbm(t) \/ FreeHbmFails(t)
  PROVE  TagInv'
<1> USE DEF AllocSteps, FreeSteps, Goto
<1> DEFINE p == cur[t].hbm_ptr
<1>1. /\ pc[t] \in {"idle", "unmap", "free_hbm"}
      /\ UNCHANGED <<enabled, tagged, live>>
      /\ pc' = [pc EXCEPT ![t] = pc'[t]] /\ cur' = [cur EXCEPT ![t] = cur'[t]]
      /\ pc'[t] = "erase" => pc[t] = "free_hbm" /\ cur' = cur
      /\ pc'[t] \in {"unmap", "free_hbm"} => pc[t] = "unmap" /\ cur' = cur
  BY DEF FreeLock, FreeUnmap, FreeHbm, FreeHbmFails, Return, ilcVars, mgrVars, IInv, Types
<1>2. \A u \in Threads \ {t} : pc'[u] = pc[u] /\ cur'[u] = cur[u]
  BY <1>1 DEF IInv, Types
<1>3. \A u \in InFlight : u # t /\ u \in InFlight' /\ cur'[u] = cur[u]
  BY <1>1, <1>2 DEF InFlight
<1>4. CASE pc'[t] = "erase"
  <2>1. \A q : Erasing(q)' => Erasing(q) \/ q = p
    BY <1>1, <1>2, <1>4 DEF Erasing
  <2>2. enabled => p \notin tagged
    BY <1>1, <1>4 DEF TagInv, UntagInv
  <2>3. TagsAreOwned'
    BY <1>1, <1>3, <2>1, <2>2 DEF TagInv, TagsAreOwned
  <2>4. UntagInv'
    BY <1>1, <1>2, <1>4 DEF TagInv, UntagInv
  <2> QED
    BY <2>3, <2>4 DEF TagInv
<1>5. CASE pc'[t] # "erase"
  BY <1>1, <1>2, <1>3, <1>5, QuietKeepsTags
<1> QED
  BY <1>4, <1>5

(* What is tagged at the address that is erased belongs to an alloc.       *)
LEMMA EraseKeepsTags ==
  ASSUME IInv, TagInv, NEW t \in Threads, FreeErase(t)
  PROVE  TagInv'
<1> USE DEF AllocSteps, FreeSteps
<1> DEFINE p == cur[t].hbm_ptr
<1>1. /\ pc[t] = "erase" /\ pc' = [pc EXCEPT ![t] = "idle"] /\ live' = Remove(live, p)
      /\ cur' = [cur EXCEPT ![t] = NoAllocation] /\ UNCHANGED <<enabled, tagged>>
  BY DEF FreeErase, Return, Forget, ilcVars
<1>2. \A u \in Threads \ {t} : pc[u] \notin FreeSteps
  BY <1>1, OneFrees
<1>3. pc'[t] = "idle" /\ \A u \in Threads \ {t} : pc'[u] = pc[u] /\ cur'[u] = cur[u]
  BY <1>1 DEF IInv, Types
<1>4. /\ \A u \in InFlight : u \in InFlight' /\ cur'[u] = cur[u]
      /\ Erasing(p) /\ \A q : ~Erasing(q)'
  BY <1>1, <1>2, <1>3 DEF InFlight, Erasing
<1>5. DOMAIN live' = DOMAIN live \ {p} /\ \A q \in DOMAIN live' : live'[q] = live[q]
  BY <1>1 DEF Remove
<1>6. TagsAreOwned'
  BY <1>1, <1>4, <1>5 DEF TagInv, TagsAreOwned
<1>7. UntagInv'
  BY <1>1, <1>2, <1>3 DEF UntagInv
<1> QED
  BY <1>6, <1>7 DEF TagInv

LEMMA DestroyKeepsTags == ASSUME TagInv, Destroy PROVE TagInv'
<1>1. InFlight = {} /\ (\A q : ~Erasing(q)) /\ \A t \in Threads : pc'[t] = "idle"
  BY DEF Destroy, InFlight, Erasing, AllocSteps
<1>2. enabled' = enabled /\ (enabled => tagged' = {})
  BY <1>1 DEF Destroy, TagInv, TagsAreOwned, TaggedLive, Untagged
<1> QED
  BY <1>1, <1>2 DEF TagInv, TagsAreOwned, UntagInv

LEMMA NextTagInv == Cpp /\ IInv /\ TagInv /\ [Next]_vars => TagInv'
<1> SUFFICES ASSUME Cpp, IInv, TagInv, [Next]_vars PROVE TagInv'
  OBVIOUS
<1>1. CASE UNCHANGED vars \/ \E a \in held : AdviseHeld(a) \/ Pin(a) \/ Unpin(a)
  <2>1. UNCHANGED <<enabled, tagged, live, pc, cur>>
    BY <1>1 DEF vars, AdviseHeld, Pin, Unpin, ilcVars, mgrVars
  <2> QED
    BY <2>1, QuietKeepsTags DEF InFlight
<1>2. CASE DisableIlc
  BY <1>2 DEF DisableIlc, TagInv, TagsAreOwned, UntagInv
<1> QED
  BY <1>1, <1>2, AllocKeepsTags, InsertKeepsTags, PublishKeepsTags, UntagKeepsTags,
     FreeKeepsTags, EraseKeepsTags, DestroyKeepsTags DEF Next, Step

(* When callers free with the Allocation they got, every tag belongs to an *)
(* allocation that is live or being made, as long as ILC is on.            *)
THEOREM OwnsTags == Cpp => (Spec => []TagsAreOwned)
<1> SUFFICES ASSUME Cpp PROVE Spec => []TagsAreOwned
  OBVIOUS
<1>1. Init => TagInv
  BY DEF Init, TagInv, TagsAreOwned, UntagInv
<1>2. IInv /\ TagInv /\ [Next]_vars => TagInv'
  BY NextTagInv
<1>3. TagInv => TagsAreOwned
  BY DEF TagInv
<1> QED
  BY <1>1, <1>2, <1>3, Invariance, PTL DEF Spec

-----------------------------------------------------------------------------
(* The refinement.  Blocks are never handed out over one another: the      *)
(* buffers under them are separate, and when alloc publishes all of live_  *)
(* has its buffers.                                                        *)
Blocks == [p \in DOMAIN live |-> live[p].bytes]

LEMMA RegionsApart ==
  ASSUME NEW a \in Int, NEW b \in Int, NEW m \in Nat \ {0}, NEW n \in Nat \ {0},
         Region(a, m) \cap Region(b, n) = {}
  PROVE  a + m <= b \/ b + n <= a
<1>1. SUFFICES ASSUME ~(a + m <= b), ~(b + n <= a) PROVE FALSE
  OBVIOUS
<1>2. CASE a <= b
  <2>1. b \in Region(a, m) /\ b \in Region(b, n)
    BY <1>1, <1>2 DEF Region
  <2> QED
    BY <2>1
<1>3. CASE b <= a
  <2>1. a \in Region(a, m) /\ a \in Region(b, n)
    BY <1>1, <1>3 DEF Region
  <2> QED
    BY <2>1
<1> QED
  BY <1>2, <1>3

LEMMA PublishGrants ==
  ASSUME IInv, NEW t \in Threads, Publish(t)
  PROVE  \E a \in Addresses, n \in Sizes : Abstract!Grant(a, n)
<1> USE DEF AllocSteps, FreeSteps
<1> DEFINE p == cur[t].hbm_ptr
           n == cur[t].bytes
<1>1. /\ pc[t] = "publish" /\ lock = NoThread
      /\ live' = Put(live, p, cur[t]) /\ bytes_allocated' = bytes_allocated + n
  BY DEF Publish, Count
<1>2. p \notin DOMAIN live /\ \A q : ~Erasing(q)
  BY <1>1, PublishesFresh
<1>3. t \in InFlight /\ p \in DOMAIN device /\ device[p] = n /\ p \in Addresses /\ n \in Sizes
  BY <1>1 DEF IInv, AllocInv, InFlight, Types
<1>4. ASSUME NEW b \in DOMAIN live PROVE Abstract!Disjoint(p, n, b, Blocks[b])
  <2>1. b \in DOMAIN device /\ device[b] = live[b].bytes /\ b # p
    BY <1>2, <1>4 DEF IInv, LiveInv
  <2>2. Region(p, n) \cap Region(b, device[b]) = {}
    BY <1>3, <2>1 DEF IInv, DeviceInv, Separate
  <2>3. /\ p \in Int /\ b \in Int /\ n \in Nat \ {0} /\ device[b] \in Nat \ {0}
    BY <1>3, <2>1, MemoryManagerAssumption DEF IInv, Types, Addresses
  <2>4. p + n <= b \/ b + device[b] <= p
    BY <2>2, <2>3, RegionsApart
  <2> QED
    BY <1>4, <2>1, <2>4 DEF Abstract!Disjoint, Blocks
<1>5. Blocks' = Put(Blocks, p, n)
  BY <1>1, <1>2 DEF Put, Blocks
<1>6. /\ Blocks' = Abstract!Put(Blocks, p, n)
      /\ bytes_allocated' = bytes_allocated + n
  BY <1>1, <1>5 DEF Put, Abstract!Put
<1>7. p \in Addresses /\ n \in Sizes
  BY <1>3
<1> QED
  BY <1>4, <1>6, <1>7 DEF Abstract!Grant, Blocks

LEMMA EraseReclaims ==
  ASSUME Cpp, IInv, NEW t \in Threads, FreeErase(t)
  PROVE  \E a \in Addresses : Abstract!Reclaim(a)
<1> USE DEF AllocSteps, FreeSteps
<1> DEFINE p == cur[t].hbm_ptr
<1>1. /\ pc[t] = "erase" /\ live' = Remove(live, p)
      /\ bytes_allocated' = bytes_allocated - cur[t].bytes
  BY DEF FreeErase, Forget, Discount
<1>2. p \in DOMAIN live /\ live[p] = cur[t] /\ p \in Addresses
  BY <1>1 DEF IInv, FreeInv, Types, Allocation
<1>3. Blocks' = Remove(Blocks, p) /\ bytes_allocated' = bytes_allocated - Blocks[p]
  BY <1>1, <1>2 DEF Remove, Blocks
<1>4. p \in DOMAIN Blocks /\ Blocks' = Abstract!Remove(Blocks, p)
  BY <1>2, <1>3 DEF Blocks, Remove, Abstract!Remove
<1> QED
  BY <1>2, <1>3, <1>4 DEF Abstract!Reclaim, Blocks

LEMMA StepsRefine ==
  ASSUME Cpp, IInv, [Next]_vars
  PROVE  Abstract!Next \/ UNCHANGED <<Blocks, bytes_allocated>>
<1>1. ASSUME NEW t \in Threads, Publish(t) PROVE Abstract!Next
  BY <1>1, PublishGrants DEF Abstract!Next
<1>2. ASSUME NEW t \in Threads, FreeErase(t) PROVE Abstract!Next
  BY <1>2, EraseReclaims DEF Abstract!Next
<1>3. CASE Destroy
  <2>1. Blocks' = EmptyMap /\ bytes_allocated' = bytes_allocated
    BY <1>3 DEF Destroy, Blocks, EmptyMap
  <2>2. Abstract!ReclaimAll
    BY <2>1 DEF Abstract!ReclaimAll, Blocks, EmptyMap, Abstract!EmptyMap
  <2> QED
    BY <2>2 DEF Abstract!Next
<1>4. ASSUME ~Destroy, \A t \in Threads : ~Publish(t) /\ ~FreeErase(t)
      PROVE  UNCHANGED <<Blocks, bytes_allocated>>
  <2>1. UNCHANGED <<live, bytes_allocated>>
    BY <1>4 DEF Next, Step, vars, mgrVars, AllocHbm, FreeLock, CheckIlc, InsertTag, MapPages,
       AdviseReadMostly, FreeUntag, FreeUnmap, FreeHbm, FreeHbmFails, AdviseHeld, Pin, Unpin,
       DisableIlc
  <2> QED
    BY <2>1 DEF Blocks
<1> QED
  BY <1>1, <1>2, <1>3, <1>4

(* When callers free with the Allocation they got, the manager implements  *)
(* Allocator: publishing is Grant, erasing is Reclaim, and every other     *)
(* step a stutter.                                                         *)
THEOREM RefinesAllocator == Cpp => (Spec => ImplementsAllocator)
<1> SUFFICES ASSUME Cpp PROVE Spec => ImplementsAllocator
  OBVIOUS
<1>1. Init => Abstract!Init
  BY DEF Init, Abstract!Init, EmptyMap, Abstract!EmptyMap
<1>2. IInv /\ [Next]_vars => [Abstract!Next]_<<[p \in DOMAIN live |-> live[p].bytes], bytes_allocated>>
  BY StepsRefine DEF Blocks
<1> QED
  BY <1>1, <1>2, Invariance, PTL DEF Spec, ImplementsAllocator, Abstract!Spec

-----------------------------------------------------------------------------
(* Pages.  The driver's alignment is a multiple of the page size, so two   *)
(* buffers share no page, and what a call maps, pins or unmaps is its own. *)
PageAligned == AllocAlign % PageUnits = 0

OwnPages(t) == PagesOf(cur[t].hbm_ptr, cur[t].bytes)

TableInv ==
    /\ \A b \in DOMAIN device : b % AllocAlign = 0
    /\ table \in [DOMAIN table -> Entry]
    /\ \A q \in DOMAIN table : table[q].residency = "Hbm"

LivePages ==
    \A p \in DOMAIN live \ refused : ~BeingFreed(p) => PagesOf(p, live[p].bytes) \subseteq DOMAIN table

(* What a call has done to its pages so far.                               *)
OwnInv ==
    \A t \in Threads :
        /\ pc[t] \in {"advise", "publish"} => OwnPages(t) \subseteq DOMAIN table
        /\ pc[t] \in {"untag", "unmap"} =>
              \A q \in OwnPages(t) \cap DOMAIN table : table[q].refcount = 0
        /\ pc[t] = "free_hbm" => OwnPages(t) \cap DOMAIN table = {}

PagesInv == TableInv /\ MappedIsBacked /\ LivePages /\ OwnInv

(* Division, as the page table uses it.                                    *)
LEMMA DivMod ==
  ASSUME NEW x \in Nat, NEW d \in Nat \ {0}
  PROVE  /\ x \div d \in Nat /\ d * (x \div d) <= x /\ x < d * (x \div d) + d
         /\ x % d = 0 => x = d * (x \div d)
<1>1. x \div d \in Nat /\ d * (x \div d) <= x /\ x < d * (x \div d) + d
  OBVIOUS
<1>2. x % d = x - d * (x \div d)
  BY SMTT(30)
<1>3. d * (x \div d) \in Nat
  BY <1>1
<1> QED
  BY <1>1, <1>2, <1>3

LEMMA MultipleOf ==
  ASSUME NEW x \in Nat, NEW d \in Nat \ {0}, NEW e \in Nat \ {0}, x % d = 0, d % e = 0
  PROVE  x % e = 0
<1>1. PICK k \in Nat : x = d * k
  BY DivMod
<1>2. PICK j \in Nat : d = e * j
  BY DivMod
<1>3. x = e * (j * k) /\ j * k \in Nat
  BY <1>1, <1>2
<1>4. x \div e = j * k
  BY <1>3
<1>5. x % e = x - e * (x \div e)
  BY SMTT(30)
<1> QED
  BY <1>3, <1>4, <1>5

(* A page of an aligned range starts in the range.                         *)
LEMMA UnderPage ==
  ASSUME NEW b \in Nat, b % PageUnits = 0, NEW n \in Nat, NEW q \in PagesOf(b, n)
  PROVE  q * PageUnits \in Region(b, n)
<1> DEFINE u == PageUnits
           z == b + n + u - 1
<1>1. u \in Nat \ {0} /\ z \in Nat
  BY PageUnitsAssumption
<1>2. /\ b = u * (b \div u) /\ b \div u \in Nat
      /\ u * (z \div u) <= z /\ z \div u \in Nat
  BY <1>1, DivMod
<1>3. q \in Int /\ b \div u <= q /\ q <= (z \div u) - 1
  BY <1>2 DEF PagesOf, PageOf
<1> HIDE DEF u, z
<1> DEFINE bu == b \div u
           zu == z \div u
<1>4. /\ u \in Nat /\ bu \in Nat /\ zu \in Nat /\ b = u * bu /\ u * zu <= z /\ bu <= q /\ q <= zu - 1 /\ q \in Nat
  BY <1>1, <1>2, <1>3
<1> HIDE DEF bu, zu
<1>5. u * bu <= u * q /\ u * q <= u * (zu - 1)
  BY <1>4
<1>6. u * (zu - 1) = u * zu - u
  BY <1>4
<1>7. b <= u * q /\ u * q <= z - u /\ u * q \in Nat /\ u * q = q * u
  BY <1>1, <1>4, <1>5, <1>6
<1>8. z = b + n + u - 1
  BY DEF z
<1>9. b <= q * u /\ q * u <= b + n - 1 /\ q * u \in Nat
  BY <1>1, <1>7, <1>8
<1>10. q * u \in Region(b, n)
  BY <1>9 DEF Region
<1> QED
  BY <1>10 DEF u

LEMMA PagesApart ==
  ASSUME PageAligned, IInv, TableInv, NEW b \in DOMAIN device, NEW c \in DOMAIN device, b # c
  PROVE  PagesOf(b, device[b]) \cap PagesOf(c, device[c]) = {}
<1>1. /\ b \in Nat /\ c \in Nat /\ device[b] \in Nat /\ device[c] \in Nat
      /\ b % AllocAlign = 0 /\ c % AllocAlign = 0
      /\ AllocAlign \in Nat \ {0}
  BY MemoryManagerAssumption DEF IInv, Types, Addresses, TableInv
<1>2. b % PageUnits = 0 /\ c % PageUnits = 0
  BY <1>1, PageUnitsAssumption, MultipleOf DEF PageAligned
<1>3. Region(b, device[b]) \cap Region(c, device[c]) = {}
  BY DEF IInv, DeviceInv, Separate
<1> QED
  BY <1>1, <1>2, <1>3, UnderPage

(* What a free works on still has its buffer, and is what it was when it   *)
(* was published.                                                          *)
LEMMA FreesItsOwn ==
  ASSUME Cpp, IInv, NEW t \in Threads, pc[t] \in {"untag", "unmap", "free_hbm"}
  PROVE  /\ cur[t].hbm_ptr \in DOMAIN device /\ device[cur[t].hbm_ptr] = cur[t].bytes
         /\ cur[t].vaddr = cur[t].hbm_ptr /\ live[cur[t].hbm_ptr] = cur[t]
         /\ \A p : ~Erasing(p)
  BY OneFrees DEF IInv, FreeInv, LiveInv, FreeSteps

(* The pages a free works on are no other call's, and no caller's.         *)
LEMMA AllocsAreOthers ==
  ASSUME IInv, NEW t \in Threads, NEW u \in Threads,
         pc[t] \in {"untag", "unmap", "free_hbm"}, u \in InFlight
  PROVE  cur[u].hbm_ptr # cur[t].hbm_ptr
  BY OneFrees DEF IInv, BuffersAccounted, FreeSteps

LEMMA HeldHasBuffer ==
  ASSUME IInv, alive, NEW a \in held
  PROVE  /\ a.hbm_ptr \in DOMAIN device /\ device[a.hbm_ptr] = a.bytes /\ a.vaddr = a.hbm_ptr
         /\ \A t \in Threads : pc[t] \in FreeSteps => cur[t].hbm_ptr # a.hbm_ptr
<1>1. a.hbm_ptr \in DOMAIN live /\ live[a.hbm_ptr] = a
  BY DEF IInv, HeldIsLive
<1>2. \A t \in Threads : pc[t] \in FreeSteps => cur[t].hbm_ptr # a.hbm_ptr
  BY DEF IInv, FreeInv
<1>3. ~Erasing(a.hbm_ptr)
  BY <1>2 DEF Erasing, FreeSteps
<1> QED
  BY <1>1, <1>2, <1>3 DEF IInv, LiveInv

(* The pages of a buffer that nobody is freeing are mapped: by alloc, or   *)
(* by an advice.                                                           *)
LEMMA MapKeepsPages ==
  ASSUME PageAligned, Cpp, IInv, PagesInv, NEW b \in DOMAIN device, MapHbm(b, device[b]),
         UNCHANGED <<device, live, refused, cur>>,
         \A t \in Threads :
            /\ pc[t] \in {"untag", "unmap", "free_hbm"} => cur[t].hbm_ptr # b
            /\ \/ pc'[t] = pc[t]
               \/ /\ pc[t] \in {"map", "advise"} /\ pc'[t] \in {"advise", "publish"}
                  /\ cur[t].hbm_ptr = b /\ cur[t].bytes = device[b]
  PROVE  PagesInv'
<1> DEFINE P == PagesOf(b, device[b])
<1>1. /\ DOMAIN table' = DOMAIN table \cup P
      /\ \A q \in P : table'[q] = FreshEntry("Hbm", 0)
      /\ \A q \in DOMAIN table \ P : table'[q] = table[q]
      /\ table' = [q \in DOMAIN table \cup P |-> IF q \in P THEN FreshEntry("Hbm", 0) ELSE table[q]]
  BY DEF MapHbm, Mapped
<1>2. FreshEntry("Hbm", 0) \in Entry /\ FreshEntry("Hbm", 0).residency = "Hbm"
      /\ FreshEntry("Hbm", 0).refcount = 0
  BY MaxRefcountAssumption DEF FreshEntry, Entry, Residency
<1>3. \A t \in Threads : pc[t] \in {"untag", "unmap", "free_hbm"} => OwnPages(t) \cap P = {}
  <2> SUFFICES ASSUME NEW t \in Threads, pc[t] \in {"untag", "unmap", "free_hbm"}
               PROVE  OwnPages(t) \cap P = {}
    OBVIOUS
  <2>1. cur[t].hbm_ptr \in DOMAIN device /\ device[cur[t].hbm_ptr] = cur[t].bytes
    BY FreesItsOwn
  <2> QED
    BY <2>1, PagesApart DEF OwnPages, PagesInv
<1> HIDE DEF P
<1>4. TableInv'
  BY <1>1, <1>2 DEF PagesInv, TableInv
<1>5. MappedIsBacked'
  BY <1>1 DEF PagesInv, MappedIsBacked, P
<1>6. LivePages'
  <2>1. \A p : BeingFreed(p) => BeingFreed(p)'
    BY DEF BeingFreed, FreeSteps
  <2> QED
    BY <1>1, <2>1 DEF PagesInv, LivePages
<1>7. OwnInv'
  <2> SUFFICES ASSUME NEW t \in Threads
               PROVE  /\ pc'[t] \in {"advise", "publish"} => OwnPages(t) \subseteq DOMAIN table'
                      /\ pc'[t] \in {"untag", "unmap"} =>
                            \A q \in OwnPages(t) \cap DOMAIN table' : table'[q].refcount = 0
                      /\ pc'[t] = "free_hbm" => OwnPages(t) \cap DOMAIN table' = {}
    BY DEF OwnInv, OwnPages
  <2>1. CASE pc'[t] = pc[t]
    BY <1>1, <1>3, <2>1 DEF PagesInv, OwnInv
  <2>2. CASE pc'[t] # pc[t]
    BY <1>1, <2>2 DEF OwnPages, P
  <2> QED
    BY <2>1, <2>2
<1> QED
  BY <1>4, <1>5, <1>6, <1>7 DEF PagesInv

(* A pin or unpin of a page of what a caller holds.                        *)
LEMMA CountKeepsPages ==
  ASSUME PageAligned, Cpp, IInv, PagesInv, NEW a \in held, Pin(a) \/ Unpin(a)
  PROVE  PagesInv'
<1>1. PICK p \in PagesOf(a.vaddr, a.bytes), d \in {1, -1} :
        /\ table' = Counted(table, p, d, 0)
        /\ p \in DOMAIN table
        /\ d = 1 => table[p].refcount # MaxRefcount
        /\ d = -1 => table[p].refcount # 0
  BY DEF Pin, Unpin, CanIncref, CanDecref
<1>2. alive /\ UNCHANGED <<device, live, refused, cur, pc>>
  BY DEF Pin, Unpin, mgrVars, callerVars
<1>3. table \in [DOMAIN table -> Entry] /\ table[p] \in Entry /\ table[p].residency = "Hbm"
  BY <1>1 DEF PagesInv, TableInv
<1>4. /\ DOMAIN table' = DOMAIN table
      /\ table'[p] = [table[p] EXCEPT !.refcount = @ + d, !.last_access = 0]
      /\ \A q \in DOMAIN table \ {p} : table'[q] = table[q]
  BY <1>1, <1>3 DEF Counted
<1>5. table[p].refcount + d \in 0 .. MaxRefcount
  BY <1>1, <1>3, MaxRefcountAssumption DEF Entry
<1>6. /\ table' \in [DOMAIN table' -> Entry]
      /\ table'[p].residency = "Hbm"
  <2> DEFINE e == table[p]
             f == [e EXCEPT !.refcount = @ + d, !.last_access = 0]
  <2>1. e \in Entry /\ e.residency = "Hbm" /\ e.refcount + d \in 0 .. MaxRefcount
    BY <1>3, <1>5
  <2>2. f \in Entry /\ f.residency = "Hbm"
    <3> HIDE DEF e
    <3> QED
      BY <2>1 DEF Entry
  <2>3. table'[p] \in Entry /\ table'[p].residency = "Hbm"
    BY <1>4, <2>2
  <2> QED
    BY <1>1, <1>3, <1>4, <2>3 DEF Counted
<1>7. \A t \in Threads : pc[t] \in {"untag", "unmap"} => p \notin OwnPages(t)
  <2> SUFFICES ASSUME NEW t \in Threads, pc[t] \in {"untag", "unmap"} PROVE p \notin OwnPages(t)
    OBVIOUS
  <2>1. /\ a.hbm_ptr \in DOMAIN device /\ device[a.hbm_ptr] = a.bytes /\ a.vaddr = a.hbm_ptr
        /\ cur[t].hbm_ptr # a.hbm_ptr
    BY <1>2, HeldHasBuffer DEF FreeSteps
  <2>2. cur[t].hbm_ptr \in DOMAIN device /\ device[cur[t].hbm_ptr] = cur[t].bytes
    BY FreesItsOwn
  <2>3. PagesOf(a.hbm_ptr, a.bytes) \cap OwnPages(t) = {}
    BY <2>1, <2>2, PagesApart DEF OwnPages, PagesInv
  <2> QED
    BY <1>1, <2>1, <2>3
<1>8. TableInv'
  BY <1>2, <1>3, <1>4, <1>6 DEF PagesInv, TableInv
<1>9. MappedIsBacked' /\ LivePages'
  BY <1>2, <1>4 DEF PagesInv, MappedIsBacked, LivePages, BeingFreed
<1>10. OwnInv'
  BY <1>2, <1>4, <1>7 DEF PagesInv, OwnInv, OwnPages
<1> QED
  BY <1>8, <1>9, <1>10 DEF PagesInv

(* free unmaps all pages of its buffer, since none of them is pinned, and  *)
(* none of any other.                                                      *)
LEMMA UnmapKeepsPages ==
  ASSUME PageAligned, Cpp, IInv, PagesInv, NEW t \in Threads, FreeUnmap(t)
  PROVE  PagesInv'
<1> USE DEF Goto, AllocSteps, FreeSteps
<1> DEFINE P == OwnPages(t)
<1>1. /\ pc[t] = "unmap" /\ pc' = [pc EXCEPT ![t] = "free_hbm"]
      /\ UNCHANGED <<device, live, refused, cur>>
  BY DEF FreeUnmap, mgrVars, callerVars
<1>2. /\ cur[t].hbm_ptr \in DOMAIN device /\ device[cur[t].hbm_ptr] = cur[t].bytes
      /\ cur[t].vaddr = cur[t].hbm_ptr /\ live[cur[t].hbm_ptr] = cur[t] /\ \A p : ~Erasing(p)
  BY <1>1, FreesItsOwn
<1>3. table' = Unmapped(table, P)
  BY <1>2 DEF FreeUnmap, FreedPages, OwnPages
<1>4. \A q \in P \cap DOMAIN table : table[q].refcount = 0
  BY <1>1 DEF PagesInv, OwnInv
<1>5. Erased(table, P) = P \cap DOMAIN table
  BY <1>4 DEF Erased, Blockers
<1>6. /\ DOMAIN table' = DOMAIN table \ P
      /\ \A q \in DOMAIN table' : table'[q] = table[q]
      /\ table' = [q \in DOMAIN table \ P |-> table[q]]
  BY <1>3, <1>5 DEF Unmapped
<1>7. pc'[t] = "free_hbm" /\ \A u \in Threads \ {t} : pc'[u] = pc[u] /\ pc[u] \notin FreeSteps
  BY <1>1, OneFrees DEF IInv, Types
<1>8. ASSUME NEW b \in DOMAIN device, b # cur[t].hbm_ptr
      PROVE  PagesOf(b, device[b]) \cap P = {}
  BY <1>2, <1>8, PagesApart DEF OwnPages, PagesInv
<1> HIDE DEF P
<1>9. TableInv'
  BY <1>1, <1>6 DEF PagesInv, TableInv
<1>10. MappedIsBacked'
  BY <1>1, <1>6 DEF PagesInv, MappedIsBacked
<1>11. LivePages'
  <2> SUFFICES ASSUME NEW p \in DOMAIN live \ refused, ~BeingFreed(p)'
               PROVE  PagesOf(p, live[p].bytes) \subseteq DOMAIN table'
    BY <1>1 DEF LivePages
  <2>1. p # cur[t].hbm_ptr /\ ~BeingFreed(p)
    BY <1>1, <1>7 DEF BeingFreed
  <2>2. p \in DOMAIN device /\ device[p] = live[p].bytes
    BY <1>2 DEF IInv, LiveInv
  <2> QED
    BY <1>6, <1>8, <2>1, <2>2 DEF PagesInv, LivePages
<1>12. OwnInv'
  <2> SUFFICES ASSUME NEW u \in Threads
               PROVE  /\ pc'[u] \in {"advise", "publish"} => OwnPages(u) \subseteq DOMAIN table'
                      /\ pc'[u] \in {"untag", "unmap"} =>
                            \A q \in OwnPages(u) \cap DOMAIN table' : table'[q].refcount = 0
                      /\ pc'[u] = "free_hbm" => OwnPages(u) \cap DOMAIN table' = {}
    BY <1>1 DEF OwnInv, OwnPages
  <2>1. CASE u = t
    BY <1>6, <1>7, <2>1 DEF P
  <2>2. CASE u # t
    <3>1. pc'[u] = pc[u] /\ pc[u] \notin FreeSteps
      BY <1>7, <2>2
    <3>2. ASSUME pc[u] \in {"advise", "publish"} PROVE OwnPages(u) \subseteq DOMAIN table'
      <4>1. u \in InFlight
        BY <3>2 DEF InFlight
      <4>2. /\ cur[u].hbm_ptr # cur[t].hbm_ptr
            /\ cur[u].hbm_ptr \in DOMAIN device /\ device[cur[u].hbm_ptr] = cur[u].bytes
        BY <1>1, <4>1, AllocsAreOthers DEF IInv, AllocInv
      <4>3. OwnPages(u) \cap P = {}
        BY <1>8, <4>2 DEF OwnPages
      <4> QED
        BY <1>6, <3>2, <4>3 DEF PagesInv, OwnInv
    <3> QED
      BY <3>1, <3>2
  <2> QED
    BY <2>1, <2>2
<1> QED
  BY <1>9, <1>10, <1>11, <1>12 DEF PagesInv

(* The steps that leave page table, device, live_ and refusals alone.      *)
LEMMA StayKeepsPages ==
  ASSUME PagesInv, UNCHANGED <<table, device, live, refused>>,
         \A p : BeingFreed(p) => BeingFreed(p)',
         \A t \in Threads :
            /\ pc'[t] \in {"advise", "publish"} => pc'[t] = pc[t] /\ OwnPages(t)' = OwnPages(t)
            /\ pc'[t] \in {"untag", "unmap"} =>
                  \A q \in OwnPages(t)' \cap DOMAIN table : table[q].refcount = 0
            /\ pc'[t] = "free_hbm" => pc'[t] = pc[t] /\ OwnPages(t)' = OwnPages(t)
  PROVE  PagesInv'
<1>1. TableInv' /\ MappedIsBacked' /\ LivePages'
  BY DEF PagesInv, TableInv, MappedIsBacked, LivePages
<1>2. OwnInv'
  BY DEF PagesInv, OwnInv
<1> QED
  BY <1>1, <1>2 DEF PagesInv

LEMMA AllocKeepsPages ==
  ASSUME IInv, PagesInv, NEW t \in Threads, NEW n \in Sizes, NEW h \in HintSets, AllocHbm(t, n, h)
  PROVE  PagesInv'
<1> USE DEF Goto, AllocSteps, FreeSteps
<1>1. PICK a \in Addresses :
        /\ FreeRegion(a, n)
        /\ device' = Put(device, a, n)
        /\ cur' = [cur EXCEPT ![t] = [hbm_ptr |-> a, vaddr |-> a, bytes |-> n,
                                      ilc_tagged |-> FALSE]]
  BY DEF AllocHbm
<1>2. /\ pc[t] = "idle" /\ pc' = [pc EXCEPT ![t] = "tag"] /\ UNCHANGED <<table, live, refused>>
  BY DEF AllocHbm, mgrVars, callerVars
<1>3. a \notin DOMAIN device
  <2> SUFFICES ASSUME a \in DOMAIN device PROVE FALSE
    OBVIOUS
  <2>1. a \in Int /\ n \in Nat /\ n > 0 /\ device[a] \in Nat /\ device[a] > 0
    BY MemoryManagerAssumption DEF IInv, Types, Addresses
  <2>2. a \in Region(a, n) /\ a \in Region(a, device[a])
    BY <2>1 DEF Region
  <2> QED
    BY <1>1, <2>2 DEF FreeRegion
<1>4. /\ DOMAIN device' = DOMAIN device \cup {a}
      /\ \A b \in DOMAIN device : device'[b] = device[b]
  BY <1>1, <1>3 DEF Put
<1>5. pc'[t] = "tag" /\ \A u \in Threads \ {t} : pc'[u] = pc[u] /\ cur'[u] = cur[u]
  BY <1>1, <1>2 DEF IInv, Types
<1>6. TableInv'
  BY <1>1, <1>2, <1>4 DEF PagesInv, TableInv, FreeRegion
<1>7. MappedIsBacked'
  BY <1>2, <1>4 DEF PagesInv, MappedIsBacked
<1>8. LivePages'
  <2>1. \A p : BeingFreed(p) => BeingFreed(p)'
    BY <1>2, <1>5 DEF BeingFreed
  <2> QED
    BY <1>2, <2>1 DEF PagesInv, LivePages
<1>9. OwnInv'
  BY <1>2, <1>5 DEF PagesInv, OwnInv, OwnPages
<1> QED
  BY <1>6, <1>7, <1>8, <1>9 DEF PagesInv

LEMMA PublishKeepsPages ==
  ASSUME IInv, PagesInv, NEW t \in Threads, Publish(t)
  PROVE  PagesInv'
<1> USE DEF AllocSteps, FreeSteps
<1>1. /\ pc[t] = "publish" /\ lock = NoThread /\ pc' = [pc EXCEPT ![t] = "idle"]
      /\ cur' = [cur EXCEPT ![t] = NoAllocation] /\ live' = Put(live, cur[t].hbm_ptr, cur[t])
      /\ UNCHANGED <<device, table, refused>>
  BY DEF Publish, Return
<1>2. cur[t].hbm_ptr \notin DOMAIN live /\ \A u \in Threads : pc[u] \notin FreeSteps
  BY <1>1, PublishesFresh
<1>3. pc'[t] = "idle" /\ \A u \in Threads \ {t} : pc'[u] = pc[u] /\ cur'[u] = cur[u]
  BY <1>1 DEF IInv, Types
<1>4. /\ live'[cur[t].hbm_ptr] = cur[t] /\ DOMAIN live' = DOMAIN live \cup {cur[t].hbm_ptr}
      /\ \A q \in DOMAIN live : live'[q] = live[q]
  BY <1>1, <1>2 DEF Put
<1>5. OwnPages(t) \subseteq DOMAIN table
  BY <1>1 DEF PagesInv, OwnInv
<1>6. TableInv' /\ MappedIsBacked'
  BY <1>1 DEF PagesInv, TableInv, MappedIsBacked
<1>7. LivePages'
  <2>1. \A p : ~BeingFreed(p)
    BY <1>2 DEF BeingFreed
  <2> QED
    BY <1>1, <1>4, <1>5, <2>1 DEF PagesInv, LivePages, OwnPages
<1>8. OwnInv'
  BY <1>1, <1>3 DEF PagesInv, OwnInv, OwnPages
<1> QED
  BY <1>6, <1>7, <1>8 DEF PagesInv

(* The memory goes back to the driver with none of its pages mapped.       *)
LEMMA FreeHbmKeepsPages ==
  ASSUME Cpp, IInv, PagesInv, NEW t \in Threads, FreeHbm(t)
  PROVE  PagesInv'
<1> USE DEF Goto, AllocSteps, FreeSteps
<1> DEFINE p == cur[t].hbm_ptr
<1>1. /\ pc[t] = "free_hbm" /\ pc' = [pc EXCEPT ![t] = "erase"] /\ device' = Remove(device, p)
      /\ UNCHANGED <<table, live, refused, cur>>
  BY DEF FreeHbm, mgrVars, callerVars
<1>2. p \in DOMAIN device /\ device[p] = cur[t].bytes
  BY <1>1, FreesItsOwn
<1>3. PagesOf(p, device[p]) \cap DOMAIN table = {}
  BY <1>1, <1>2 DEF PagesInv, OwnInv, OwnPages
<1>4. /\ DOMAIN device' = DOMAIN device \ {p}
      /\ \A b \in DOMAIN device' : device'[b] = device[b]
  BY <1>1 DEF Remove
<1>5. pc'[t] = "erase" /\ \A u \in Threads \ {t} : pc'[u] = pc[u]
  BY <1>1 DEF IInv, Types
<1>6. TableInv'
  BY <1>1, <1>4 DEF PagesInv, TableInv
<1>7. MappedIsBacked'
  <2> SUFFICES ASSUME NEW q \in DOMAIN table
               PROVE  \E b \in DOMAIN device' : q \in PagesOf(b, device'[b])
    BY <1>1 DEF MappedIsBacked
  <2>1. PICK b \in DOMAIN device : q \in PagesOf(b, device[b])
    BY DEF PagesInv, MappedIsBacked
  <2>2. b # p
    BY <1>3, <2>1
  <2> QED
    BY <1>4, <2>1, <2>2
<1>8. LivePages'
  <2>1. \A r : BeingFreed(r) => BeingFreed(r)'
    BY <1>1, <1>5 DEF BeingFreed
  <2> QED
    BY <1>1, <2>1 DEF PagesInv, LivePages
<1>9. OwnInv'
  BY <1>1, <1>5 DEF PagesInv, OwnInv, OwnPages
<1> QED
  BY <1>6, <1>7, <1>8, <1>9 DEF PagesInv

(* A refusal leaves an entry of live_ without pages, and says so; erase    *)
(* takes the entry away.                                                   *)
LEMMA EndKeepsPages ==
  ASSUME IInv, PagesInv, NEW t \in Threads, FreeHbmFails(t) \/ FreeErase(t)
  PROVE  PagesInv'
<1> USE DEF AllocSteps, FreeSteps
<1> DEFINE p == cur[t].hbm_ptr
<1>1. /\ pc[t] \in FreeSteps /\ pc' = [pc EXCEPT ![t] = "idle"]
      /\ cur' = [cur EXCEPT ![t] = NoAllocation] /\ UNCHANGED <<device, table>>
      /\ \/ live' = live /\ refused' = refused \cup {p}
         \/ live' = Remove(live, p) /\ refused' = refused \ {p}
  BY DEF FreeHbmFails, FreeErase, Return, Forget, mgrVars
<1>2. pc'[t] = "idle" /\ \A u \in Threads \ {t} : pc'[u] = pc[u] /\ cur'[u] = cur[u]
  BY <1>1 DEF IInv, Types
<1>3. TableInv' /\ MappedIsBacked'
  BY <1>1 DEF PagesInv, TableInv, MappedIsBacked
<1>4. LivePages'
  <2>1. \A r : r \in DOMAIN live' \ refused' =>
           r \in DOMAIN live \ refused /\ live'[r] = live[r] /\ r # p
    BY <1>1 DEF Remove
  <2>2. \A r : r # p /\ BeingFreed(r) => BeingFreed(r)'
    BY <1>2 DEF BeingFreed
  <2> QED
    BY <1>1, <2>1, <2>2 DEF PagesInv, LivePages
<1>5. OwnInv'
  BY <1>1, <1>2 DEF PagesInv, OwnInv, OwnPages
<1> QED
  BY <1>3, <1>4, <1>5 DEF PagesInv

(* A free starts on an allocation nobody has pinned.                       *)
LEMMA LockKeepsPages ==
  ASSUME Cpp, ~MayFreePinned, PageAligned, IInv, PagesInv,
         NEW t \in Threads, NEW a \in held, NEW form \in FreeForms, FreeLock(t, a, form)
  PROVE  PagesInv'
<1> USE DEF Goto, AllocSteps, FreeSteps
<1>1. /\ alive /\ ~Pinned(a) /\ pc[t] = "idle" /\ pc' = [pc EXCEPT ![t] = "untag"]
      /\ cur' = [cur EXCEPT ![t] = a]
      /\ UNCHANGED <<table, device, live, refused>>
  BY DEF FreeLock, mgrVars, Argument, Cpp
<1>2. /\ pc'[t] = "untag" /\ cur'[t] = a
      /\ \A u \in Threads \ {t} : pc'[u] = pc[u] /\ cur'[u] = cur[u]
  BY <1>1 DEF IInv, Types
<1>3. a.vaddr = a.hbm_ptr
  BY <1>1, HeldHasBuffer
<1>4. \A q \in OwnPages(t)' \cap DOMAIN table : table[q].refcount = 0
  <2> SUFFICES ASSUME NEW q \in PagesOf(a.vaddr, a.bytes) \cap DOMAIN table
               PROVE  table[q].refcount = 0
    BY <1>2, <1>3 DEF OwnPages
  <2>1. table[q].refcount \in 0 .. MaxRefcount
    BY DEF PagesInv, TableInv, Entry
  <2> QED
    BY <1>1, <2>1, MaxRefcountAssumption DEF Pinned
<1>5. \A r : BeingFreed(r) => BeingFreed(r)'
  BY <1>1, <1>2 DEF BeingFreed
<1>6. \A u \in Threads \ {t} : OwnPages(u)' = OwnPages(u)
  BY <1>2 DEF OwnPages
<1>7. \A u \in Threads \ {t} : pc'[u] \in {"untag", "unmap"} =>
         \A q \in OwnPages(u)' \cap DOMAIN table : table[q].refcount = 0
  BY <1>2, <1>6 DEF PagesInv, OwnInv
<1> QED
  BY <1>1, <1>2, <1>4, <1>5, <1>6, <1>7, StayKeepsPages

(* The other steps.                                                        *)
LEMMA RestKeepsPages ==
  ASSUME IInv, PagesInv,
         \/ \E t \in Threads : CheckIlc(t) \/ InsertTag(t) \/ FreeUntag(t)
         \/ DisableIlc
         \/ UNCHANGED vars
  PROVE  PagesInv'
<1> USE DEF Goto, AllocSteps, FreeSteps
<1>1. ASSUME NEW t \in Threads, CheckIlc(t) \/ InsertTag(t) \/ FreeUntag(t) PROVE PagesInv'
  <2>1. /\ UNCHANGED <<table, device, live, refused>>
        /\ \/ pc[t] \in {"tag", "insert"} /\ \E s \in {"insert", "map"} : pc' = [pc EXCEPT ![t] = s]
           \/ pc[t] = "untag" /\ pc' = [pc EXCEPT ![t] = "unmap"]
    BY <1>1 DEF CheckIlc, InsertTag, FreeUntag, mgrVars, callerVars
  <2>2. \A u \in Threads : cur'[u].hbm_ptr = cur[u].hbm_ptr /\ cur'[u].bytes = cur[u].bytes
    BY <1>1 DEF CheckIlc, InsertTag, FreeUntag, IInv, Types, Allocation
  <2>3. \A u \in Threads : OwnPages(u)' = OwnPages(u)
    BY <2>2 DEF OwnPages
  <2>4. /\ \A u \in Threads \ {t} : pc'[u] = pc[u]
        /\ pc[t] \in {"tag", "insert"} => pc'[t] \in {"insert", "map"}
        /\ pc[t] = "untag" => pc'[t] = "unmap"
        /\ pc[t] \in {"tag", "insert", "untag"}
    BY <2>1 DEF IInv, Types
  <2>5. \A r : BeingFreed(r) => BeingFreed(r)'
    BY <2>2, <2>4 DEF BeingFreed
  <2>6. \A u \in Threads : pc'[u] \in {"untag", "unmap"} =>
           \A q \in OwnPages(u)' \cap DOMAIN table : table[q].refcount = 0
    BY <2>3, <2>4 DEF PagesInv, OwnInv
  <2> QED
    BY <2>1, <2>3, <2>4, <2>5, <2>6, StayKeepsPages
<1>2. CASE DisableIlc \/ UNCHANGED vars
  <2>1. UNCHANGED <<table, device, live, refused, pc, cur>>
    BY <1>2 DEF DisableIlc, vars, mgrVars, callerVars
  <2> QED
    BY <2>1 DEF PagesInv, TableInv, MappedIsBacked, LivePages, OwnInv, OwnPages, BeingFreed
<1> QED
  BY <1>1, <1>2

(* A caller advises what it holds; alloc maps what it has been given.      *)
LEMMA MapsKeepPages ==
  ASSUME PageAligned, Cpp, IInv, PagesInv,
         \/ \E t \in Threads : MapPages(t) \/ AdviseReadMostly(t)
         \/ \E a \in held : AdviseHeld(a)
  PROVE  PagesInv'
<1> USE DEF Goto, AllocSteps, FreeSteps
<1>1. ASSUME NEW t \in Threads, MapPages(t) \/ AdviseReadMostly(t) PROVE PagesInv'
  <2>1. /\ pc[t] \in {"map", "advise"} /\ t \in InFlight
        /\ \E s \in {"advise", "publish"} : pc' = [pc EXCEPT ![t] = s]
        /\ UNCHANGED <<device, live, refused, cur>>
    BY <1>1 DEF MapPages, AdviseReadMostly, InFlight, mgrVars, callerVars
  <2>2. /\ cur[t].vaddr = cur[t].hbm_ptr /\ cur[t].hbm_ptr \in DOMAIN device
        /\ device[cur[t].hbm_ptr] = cur[t].bytes
    BY <2>1 DEF IInv, AllocInv
  <2>3. MapHbm(cur[t].hbm_ptr, device[cur[t].hbm_ptr])
    BY <1>1, <2>2 DEF MapPages, AdviseReadMostly
  <2>4. pc'[t] \in {"advise", "publish"} /\ \A u \in Threads \ {t} : pc'[u] = pc[u]
    BY <2>1 DEF IInv, Types
  <2>5. \A u \in Threads : pc[u] \in {"untag", "unmap", "free_hbm"} =>
           cur[u].hbm_ptr # cur[t].hbm_ptr
    BY <2>1, AllocsAreOthers
  <2> QED
    BY <2>1, <2>2, <2>3, <2>4, <2>5, MapKeepsPages
<1>2. ASSUME NEW a \in held, AdviseHeld(a) PROVE PagesInv'
  <2>1. alive /\ UNCHANGED <<device, live, refused, cur, pc>>
    BY <1>2 DEF AdviseHeld, mgrVars, callerVars
  <2>2. /\ a.hbm_ptr \in DOMAIN device /\ device[a.hbm_ptr] = a.bytes
        /\ \A t \in Threads : pc[t] \in FreeSteps => cur[t].hbm_ptr # a.hbm_ptr
    BY <2>1, HeldHasBuffer
  <2>3. MapHbm(a.hbm_ptr, device[a.hbm_ptr])
    BY <1>2, <2>2 DEF AdviseHeld
  <2> QED
    BY <2>1, <2>2, <2>3, MapKeepsPages
<1> QED
  BY <1>1, <1>2

LEMMA NextPagesInv ==
  ASSUME PageAligned, Cpp, ~MayFreePinned, IInv, PagesInv, [Next]_vars
  PROVE  PagesInv'
<1>1. CASE Destroy
  <2>1. DOMAIN live' = {} /\ DOMAIN table' = {} /\ table' = EmptyTable
        /\ DOMAIN device' \subseteq DOMAIN device /\ \A t \in Threads : pc'[t] = "idle"
    BY <1>1 DEF Destroy, EmptyMap, EmptyTable
  <2>2. table' \in [DOMAIN table' -> Entry]
    BY <2>1 DEF EmptyTable
  <2> QED
    BY <2>1, <2>2 DEF PagesInv, TableInv, MappedIsBacked, LivePages, OwnInv
<1> QED
  BY <1>1, AllocKeepsPages, LockKeepsPages, MapsKeepPages, CountKeepsPages, UnmapKeepsPages,
     PublishKeepsPages, FreeHbmKeepsPages, EndKeepsPages, RestKeepsPages DEF Next, Step

(* When callers free with the Allocation they got and not while they have  *)
(* pages of it pinned, and the driver's addresses start pages, page table  *)
(* and device memory agree: what is live and not refused is mapped, and    *)
(* nothing is mapped that the device does not have.                        *)
THEOREM FollowsMemory ==
  Cpp /\ ~MayFreePinned /\ PageAligned => (Spec => []PagesFollowMemory)
<1> SUFFICES ASSUME Cpp, ~MayFreePinned, PageAligned PROVE Spec => []PagesFollowMemory
  OBVIOUS
<1>1. Init => PagesInv
  <2> SUFFICES ASSUME Init PROVE PagesInv
    OBVIOUS
  <2>1. DOMAIN device = {} /\ DOMAIN live = {} /\ DOMAIN table = {} /\ table = EmptyTable
        /\ \A t \in Threads : pc[t] = "idle"
    BY DEF Init, EmptyMap, EmptyTable
  <2>2. table \in [DOMAIN table -> Entry]
    BY <2>1 DEF EmptyTable
  <2> QED
    BY <2>1, <2>2 DEF PagesInv, TableInv, MappedIsBacked, LivePages, OwnInv
<1>2. IInv /\ PagesInv /\ [Next]_vars => PagesInv'
  BY NextPagesInv
<1>3. PagesInv => PagesFollowMemory
  BY DEF PagesInv, TableInv, LivePages, PagesFollowMemory, LiveIsMapped
<1> QED
  BY <1>1, <1>2, <1>3, Invariance, PTL DEF Spec
=============================================================================
