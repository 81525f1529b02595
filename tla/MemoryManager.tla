---------------------------- MODULE MemoryManager ----------------------------
(***************************************************************************)
(* MemoryManager (src/memory/manager.cpp) with the page table it drives,   *)
(* the IlcManager it tags allocations with (src/firmware/ilc_manager.cpp)  *)
(* and the platform's device memory, called by concurrent threads.         *)
(*                                                                         *)
(* alloc takes the manager's mutex only to publish the finished allocation *)
(* in live_; free holds it throughout.  One step is one call that leaves   *)
(* the manager: each of these is atomic under a lock of its own (the       *)
(* driver's, the IlcManager's, the page table's) and threads interleave    *)
(* between them.                                                           *)
(*                                                                         *)
(* `held` is the callers' side: the Allocation records alloc returned and  *)
(* nobody has freed yet.  A caller frees what it holds, once; if the       *)
(* driver refuses, it still holds it.                                      *)
(***************************************************************************)
EXTENDS PageTableOps, Maps

CONSTANTS Threads, NoThread,
          DeviceUnits,     \* address units of device memory
          AllocAlign,      \* alignment of the addresses the driver returns
          Sizes,           \* the byte counts callers ask for
          HintSets,        \* the [ilc, read_mostly] hints they pass
          FreeForms,       \* how they free: "cpp" with the Allocation they
                           \* got, "abi" with its pointer only
          MayPin,          \* do callers pin pages?
          MayFreePinned    \* ... and free allocations they have pinned?

Addresses == 0 .. DeviceUnits - 1

ASSUME MemoryManagerAssumption ==
    /\ NoThread \notin Threads
    /\ {DeviceUnits, AllocAlign} \subseteq Nat \ {0}
    /\ Sizes \subseteq Nat \ {0}
    /\ HintSets \subseteq [ilc : BOOLEAN, read_mostly : BOOLEAN]
    /\ FreeForms \subseteq {"cpp", "abi"}
    /\ {MayPin, MayFreePinned} \subseteq BOOLEAN

(* The fields of an Allocation that free reads.                            *)
Allocation == [hbm_ptr : Addresses, vaddr : Addresses, bytes : Nat, ilc_tagged : BOOLEAN]

VARIABLES device,           \* the driver's buffers: address -> bytes
          table,            \* the page table's table_
          enabled, tagged,  \* IlcManager: enabled_, tagged_
          live,             \* live_: hbm_ptr -> Allocation
          bytes_allocated,  \* bytes_allocated_
          lock,             \* mtx_: the thread that holds it
          pc, cur, hints,   \* per thread: where it is, `out`/`a`, the hints
          held,             \* Allocations the callers hold
          refused,          \* pointers the driver has refused to free
          alive             \* FALSE once ~MemoryManager has run

ilcVars  == <<enabled, tagged>>
mgrVars  == <<live, bytes_allocated>>
callerVars == <<held, refused>>
vars == <<device, table, enabled, tagged, live, bytes_allocated, lock,
          pc, cur, hints, held, refused, alive>>

AllocSteps == {"tag", "insert", "map", "advise", "publish"}
FreeSteps  == {"untag", "unmap", "free_hbm", "erase"}

NoAllocation == [hbm_ptr |-> 0, vaddr |-> 0, bytes |-> 0, ilc_tagged |-> FALSE]
NoHints == [ilc |-> FALSE, read_mostly |-> FALSE]

TypeOK ==
    /\ device \in [DOMAIN device -> Sizes] /\ DOMAIN device \subseteq Addresses
    /\ table \in [DOMAIN table -> Entry] /\ DOMAIN table \subseteq Int
    /\ enabled \in BOOLEAN /\ tagged \subseteq Addresses
    /\ live \in [DOMAIN live -> Allocation] /\ DOMAIN live \subseteq Addresses
    /\ bytes_allocated \in Nat
    /\ lock \in Threads \cup {NoThread}
    /\ pc \in [Threads -> {"idle"} \cup AllocSteps \cup FreeSteps]
    /\ cur \in [Threads -> Allocation]
    /\ hints \in [Threads -> [ilc : BOOLEAN, read_mostly : BOOLEAN]]
    /\ held \subseteq Allocation /\ refused \subseteq Addresses
    /\ alive \in BOOLEAN

Init ==
    /\ device = EmptyMap /\ table = EmptyTable
    /\ enabled \in BOOLEAN /\ tagged = {}
    /\ live = EmptyMap /\ bytes_allocated = 0
    /\ lock = NoThread
    /\ pc = [t \in Threads |-> "idle"]
    /\ cur = [t \in Threads |-> NoAllocation]
    /\ hints = [t \in Threads |-> NoHints]
    /\ held = {} /\ refused = {} /\ alive = TRUE

Goto(t, from, to) == pc[t] = from /\ pc' = [pc EXCEPT ![t] = to]

(* A thread that returns forgets its locals.                               *)
Return(t) ==
    /\ pc' = [pc EXCEPT ![t] = "idle"]
    /\ cur' = [cur EXCEPT ![t] = NoAllocation]
    /\ hints' = [hints EXCEPT ![t] = NoHints]

Region(a, n) == a .. a + n - 1

(* cuMemAlloc / newBufferWithLength: an aligned range that overlaps no     *)
(* buffer of the device.                                                   *)
FreeRegion(a, n) ==
    /\ Region(a, n) \subseteq Addresses
    /\ a % AllocAlign = 0
    /\ \A b \in DOMAIN device : Region(a, n) \cap Region(b, device[b]) = {}

-----------------------------------------------------------------------------
(* alloc.  A refused request (bytes = 0, no region left) changes nothing.  *)
AllocHbm(t, n, h) ==
    /\ alive
    /\ Goto(t, "idle", "tag")
    /\ \E a \in Addresses :
          /\ FreeRegion(a, n)
          /\ device' = Put(device, a, n)
          /\ cur' = [cur EXCEPT ![t] = [hbm_ptr |-> a, vaddr |-> a, bytes |-> n,
                                        ilc_tagged |-> FALSE]]
    /\ hints' = [hints EXCEPT ![t] = h]
    /\ UNCHANGED <<table, ilcVars, mgrVars, lock, callerVars, alive>>

(* enabled_ is an atomic read outside IlcManager's mutex; the platform's   *)
(* ilc_tag that follows only reports success.                              *)
CheckIlc(t) ==
    /\ Goto(t, "tag", IF hints[t].ilc /\ enabled THEN "insert" ELSE "map")
    /\ UNCHANGED <<device, table, ilcVars, mgrVars, lock, cur, hints, callerVars, alive>>

InsertTag(t) ==
    /\ Goto(t, "insert", "map")
    /\ tagged' = tagged \cup {cur[t].hbm_ptr}
    /\ cur' = [cur EXCEPT ![t].ilc_tagged = TRUE]
    /\ UNCHANGED <<device, table, enabled, mgrVars, lock, hints, callerVars, alive>>

MapHbm(a, n) == table' = Mapped(table, PagesOf(a, n), "Hbm", 0)

MapPages(t) ==
    /\ Goto(t, "map", IF hints[t].read_mostly THEN "advise" ELSE "publish")
    /\ MapHbm(cur[t].vaddr, cur[t].bytes)
    /\ UNCHANGED <<device, ilcVars, mgrVars, lock, cur, hints, callerVars, alive>>

AdviseReadMostly(t) ==
    /\ Goto(t, "advise", "publish")
    /\ MapHbm(cur[t].hbm_ptr, cur[t].bytes)
    /\ UNCHANGED <<device, ilcVars, mgrVars, lock, cur, hints, callerVars, alive>>

(* Fault: a free is not counted.                                           *)
DiscountForgotten(n) == UNCHANGED bytes_allocated

(* bytes_allocated_ += n and -= n.                                         *)
Count(n)    == bytes_allocated' = bytes_allocated + n
Discount(n) == bytes_allocated' = bytes_allocated - n

(* Fault: alloc publishes without the mutex.                               *)
PublishUnlocked(t) ==
    /\ pc[t] = "publish"
    /\ live' = Put(live, cur[t].hbm_ptr, cur[t])
    /\ Count(cur[t].bytes)
    /\ held' = held \cup {cur[t]}
    /\ Return(t)
    /\ UNCHANGED <<device, table, ilcVars, lock, alive, refused>>

Publish(t) ==
    /\ pc[t] = "publish"
    /\ lock = NoThread
    /\ live' = Put(live, cur[t].hbm_ptr, cur[t])
    /\ Count(cur[t].bytes)
    /\ held' = held \cup {cur[t]}
    /\ Return(t)
    /\ UNCHANGED <<device, table, ilcVars, lock, alive, refused>>

-----------------------------------------------------------------------------
Pinned(a) == \E p \in PagesOf(a.vaddr, a.bytes) \cap DOMAIN table : table[p].refcount > 0

(* free.  nexusrt_mem_free fills in the pointer only.                      *)
Argument(a, form) ==
    IF form = "cpp" THEN a ELSE [NoAllocation EXCEPT !.hbm_ptr = a.hbm_ptr]

FreeLock(t, a, form) ==
    /\ alive
    /\ lock = NoThread
    /\ MayFreePinned \/ ~Pinned(a)
    /\ Goto(t, "idle", "untag")
    /\ a.hbm_ptr \in DOMAIN live      \* else InvalidArgument, and nothing changes
    /\ lock' = t
    /\ held' = held \ {a}
    /\ cur' = [cur EXCEPT ![t] = Argument(a, form)]
    /\ UNCHANGED <<device, table, ilcVars, mgrVars, hints, alive, refused>>

(* Fault: untag leaves the tag.                                            *)
UntaggedNot(ps) == tagged

(* IlcManager::untag, of each of ps, does nothing once ILC is disabled.    *)
Untagged(ps) == IF enabled THEN tagged \ ps ELSE tagged

FreeUntag(t) ==
    /\ Goto(t, "untag", "unmap")
    /\ tagged' = IF cur[t].ilc_tagged THEN Untagged({cur[t].hbm_ptr}) ELSE tagged
    /\ UNCHANGED <<device, table, enabled, mgrVars, lock, cur, hints, callerVars, alive>>

(* Fault: free unmaps one page too many.                                   *)
FreedPagesOver(a) == PagesOf(a.vaddr, a.bytes + PageUnits)

FreedPages(a) == PagesOf(a.vaddr, a.bytes)

(* The status of unmap_range is dropped.                                   *)
FreeUnmap(t) ==
    /\ Goto(t, "unmap", "free_hbm")
    /\ table' = Unmapped(table, FreedPages(cur[t]))
    /\ UNCHANGED <<device, ilcVars, mgrVars, lock, cur, hints, callerVars, alive>>

FreeHbm(t) ==
    /\ Goto(t, "free_hbm", "erase")
    /\ device' = Remove(device, cur[t].hbm_ptr)
    /\ UNCHANGED <<table, ilcVars, mgrVars, lock, cur, hints, callerVars, alive>>

(* The driver refuses: free returns early, with the tag and the pages gone *)
(* and the entry of live_ still there.  The caller still holds it.         *)
FreeHbmFails(t) ==
    /\ pc[t] = "free_hbm"
    /\ held' = held \cup {live[cur[t].hbm_ptr]}
    /\ refused' = refused \cup {cur[t].hbm_ptr}
    /\ lock' = NoThread
    /\ Return(t)
    /\ UNCHANGED <<device, table, ilcVars, mgrVars, alive>>

(* Fault: the entry stays in live_.                                        *)
ForgetNothing(p) == UNCHANGED live

Forget(p) == live' = Remove(live, p)

FreeErase(t) ==
    /\ pc[t] = "erase"
    /\ Discount(cur[t].bytes)
    /\ Forget(cur[t].hbm_ptr)
    /\ refused' = refused \ {cur[t].hbm_ptr}
    /\ lock' = NoThread
    /\ Return(t)
    /\ UNCHANGED <<device, table, ilcVars, held, alive>>

-----------------------------------------------------------------------------
(* A caller advises a range it holds, pins or unpins a page of it.         *)
AdviseHeld(a) ==
    /\ alive
    /\ MapHbm(a.hbm_ptr, a.bytes)
    /\ UNCHANGED <<device, ilcVars, mgrVars, lock, pc, cur, hints, callerVars, alive>>

Pin(a) ==
    /\ alive /\ MayPin
    /\ \E p \in PagesOf(a.vaddr, a.bytes) :
          CanIncref(table, p) /\ table' = Counted(table, p, 1, 0)
    /\ UNCHANGED <<device, ilcVars, mgrVars, lock, pc, cur, hints, callerVars, alive>>

Unpin(a) ==
    /\ alive /\ MayPin
    /\ \E p \in PagesOf(a.vaddr, a.bytes) :
          CanDecref(table, p) /\ table' = Counted(table, p, -1, 0)
    /\ UNCHANGED <<device, ilcVars, mgrVars, lock, pc, cur, hints, callerVars, alive>>

(* IlcManager::disable, called by firmware::shutdown.                      *)
DisableIlc ==
    /\ enabled
    /\ enabled' = FALSE /\ tagged' = {}
    /\ UNCHANGED <<device, table, mgrVars, lock, pc, cur, hints, callerVars, alive>>

(* ~MemoryManager: the context's last reference is gone, so no call is     *)
(* under way.  bytes_allocated_ is not reset.                              *)
TaggedLive == {p \in DOMAIN live : live[p].ilc_tagged}

Destroy ==
    /\ alive
    /\ \A t \in Threads : pc[t] = "idle"
    /\ device' = [b \in DOMAIN device \ DOMAIN live |-> device[b]]
    /\ tagged' = Untagged(TaggedLive)
    /\ live' = EmptyMap
    /\ table' = EmptyTable
    /\ alive' = FALSE
    /\ UNCHANGED <<enabled, bytes_allocated, lock, pc, cur, hints, callerVars>>

Step(t) ==
    \/ CheckIlc(t) \/ InsertTag(t) \/ MapPages(t) \/ AdviseReadMostly(t) \/ Publish(t)
    \/ FreeUntag(t) \/ FreeUnmap(t) \/ FreeHbm(t) \/ FreeHbmFails(t) \/ FreeErase(t)

Next ==
    \/ \E t \in Threads, n \in Sizes, h \in HintSets : AllocHbm(t, n, h)
    \/ \E t \in Threads, a \in held, form \in FreeForms : FreeLock(t, a, form)
    \/ \E t \in Threads : Step(t)
    \/ \E a \in held : AdviseHeld(a) \/ Pin(a) \/ Unpin(a)
    \/ DisableIlc
    \/ Destroy

Spec == Init /\ [][Next]_vars

-----------------------------------------------------------------------------
(* The pointers of the allocations that alloc has made and not published.  *)
InFlight == {t \in Threads : pc[t] \in AllocSteps}

(* The entry of live_ a free has taken off the device and not yet erased.  *)
Erasing(p) == \E t \in Threads : pc[t] = "erase" /\ cur[t].hbm_ptr = p

(* Accounting of device memory: a buffer is either published in live_ or   *)
(* belongs to exactly one alloc under way, and every entry of live_ has    *)
(* its buffer, except for the one free is about to erase.  A buffer that   *)
(* is in neither place could never be freed; none is left once             *)
(* ~MemoryManager has emptied live_.                                       *)
BuffersAccounted ==
    /\ DOMAIN device = {p \in DOMAIN live : ~Erasing(p)} \cup {cur[t].hbm_ptr : t \in InFlight}
    /\ \A t, u \in InFlight : cur[t].hbm_ptr = cur[u].hbm_ptr => t = u
    /\ \A t \in InFlight : cur[t].hbm_ptr \in DOMAIN live => Erasing(cur[t].hbm_ptr)

(* What a caller holds can be freed: it is in live_ as the caller got it,  *)
(* and no two holders have the same pointer.                               *)
HeldIsLive ==
    alive => \A a \in held : a.hbm_ptr \in DOMAIN live /\ live[a.hbm_ptr] = a

(* A published allocation that nobody is freeing, or has tried to free in  *)
(* vain, has all its pages in the page table, resident in HBM ...          *)
BeingFreed(p) == \E t \in Threads : pc[t] \in FreeSteps /\ cur[t].hbm_ptr = p

LiveIsMapped ==
    \A p \in DOMAIN live \ refused : ~BeingFreed(p) =>
        \A q \in PagesOf(p, live[p].bytes) :
            q \in DOMAIN table /\ table[q].residency = "Hbm"

(* ... and a mapped page lies under a buffer the device still has: free    *)
(* unmaps before it gives the memory back.                                 *)
MappedIsBacked ==
    \A q \in DOMAIN table : \E b \in DOMAIN device : q \in PagesOf(b, device[b])

(* So page table and device memory agree, whichever alloc or free of       *)
(* another thread, of the same address or another one, comes in between.   *)
PagesFollowMemory == LiveIsMapped /\ MappedIsBacked

(* Every ILC tag belongs to an allocation that is live or being made: tags *)
(* do not outlive their allocation, and a reused address starts untagged,  *)
(* as long as ILC is on.                                                   *)
TagsAreOwned ==
    enabled => \A p \in tagged :
        \/ p \in DOMAIN live /\ live[p].ilc_tagged /\ ~Erasing(p)
        \/ \E t \in InFlight : cur[t].hbm_ptr = p /\ cur[t].ilc_tagged

(* The pages a caller holds pinned keep their memory.                      *)
PinnedIsBacked ==
    \A q \in DOMAIN table :
        table[q].refcount > 0 => \E b \in DOMAIN device : q \in PagesOf(b, device[b])

-----------------------------------------------------------------------------
(* The manager implements Allocator: a block is handed out when alloc      *)
(* publishes it and taken back when free erases it.                        *)
Abstract == INSTANCE Allocator
              WITH blocks <- [p \in DOMAIN live |-> live[p].bytes],
                   total <- bytes_allocated

ImplementsAllocator == Abstract!Spec
=============================================================================
