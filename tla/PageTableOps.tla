---------------------------- MODULE PageTableOps ----------------------------
(***************************************************************************)
(* What one call of the page table's methods does to its map `table_`      *)
(* (src/memory/page_table.cpp).  Every method holds `mtx_` from its first  *)
(* to its last line, so a call is one function from tables to tables; the  *)
(* modules PageTable and MemoryManager make them steps.                    *)
(*                                                                         *)
(* A table is a function whose DOMAIN is the set of mapped pages.  A page  *)
(* is the index of an aligned range of PageUnits address units; the 64 or  *)
(* 128 KB of the code are PageUnits here, so that ranges which start or    *)
(* end inside a page are still told apart from aligned ones.               *)
(***************************************************************************)
EXTENDS Integers, FiniteSets

CONSTANTS PageUnits,     \* address units of one page (default_page_kb_)
          MaxRefcount    \* the largest refcount, 0xFFFF in the code

ASSUME PageUnitsAssumption == PageUnits \in Nat \ {0}
ASSUME MaxRefcountAssumption == MaxRefcount \in Nat \ {0}

(* The backing stores map_range is given, and the one evict_until sets.    *)
Residency == {"Hbm", "HostPinned", "HostPageable", "RemoteGpu", "Spilled"}

(* The fields of a PageEntry a decision depends on.  fetch_count is 1 from *)
(* map_range and 2 once evict_until has spilled the page; nothing reads it.*)
Entry == [refcount : 0..MaxRefcount, residency : Residency, last_access : Nat]

EmptyTable == [p \in {} |-> p]

PageOf(vaddr) == vaddr \div PageUnits

(* The pages of [vaddr, vaddr + bytes): the start is aligned down, the end *)
(* up.  No page when bytes = 0 and vaddr is aligned; the page of vaddr     *)
(* when bytes = 0 and it is not.                                           *)
PagesOf(vaddr, bytes) == PageOf(vaddr) .. (PageOf(vaddr + bytes + PageUnits - 1) - 1)

-----------------------------------------------------------------------------
FreshEntry(res, now) ==
    [refcount |-> 0, residency |-> res, last_access |-> now]

(* map_range: each page of the range gets a new entry, mapped or not.      *)
Mapped(t, pages, res, now) ==
    [p \in DOMAIN t \cup pages |-> IF p \in pages THEN FreshEntry(res, now) ELSE t[p]]

(* unmap_range walks the range upwards and returns at the first page with  *)
(* a refcount; the pages below it are gone by then.                        *)
Blockers(t, pages) == {p \in pages \cap DOMAIN t : t[p].refcount > 0}

(* Fault: unmap_range does not look at refcounts.                          *)
ErasedPinned(t, pages) == pages \cap DOMAIN t

Erased(t, pages)   == {p \in pages \cap DOMAIN t : \A b \in Blockers(t, pages) : p < b}

(* Fault: unmap_range erases nothing.                                      *)
UnmappedNothing(t, pages) == t

Unmapped(t, pages) == [p \in DOMAIN t \ Erased(t, pages) |-> t[p]]

(* Fault: the underflow check is off by one.                               *)
CanDecrefAboveOne(t, p)  == p \in DOMAIN t /\ t[p].refcount > 1

CanIncref(t, p) == p \in DOMAIN t /\ t[p].refcount # MaxRefcount
CanDecref(t, p) == p \in DOMAIN t /\ t[p].refcount # 0

Counted(t, p, delta, now) ==
    [t EXCEPT ![p].refcount = @ + delta, ![p].last_access = now]

-----------------------------------------------------------------------------
HbmPages(t)   == {p \in DOMAIN t : t[p].residency = "Hbm"}

(* Fault: pinned pages are candidates for eviction.                        *)
CandidatesPinned(t) == {p \in DOMAIN t : t[p].residency = "Hbm"}

Candidates(t) == {p \in HbmPages(t) : t[p].refcount = 0}

(* How many pages a call of evict_until spills: none up to the high mark,  *)
(* else down to the low one or until the candidates run out.               *)
Quota(t, high, low) ==
    LET excess == Cardinality(HbmPages(t)) - low
    IN  IF Cardinality(HbmPages(t)) <= high \/ excess <= 0 THEN 0
        ELSE IF excess <= Cardinality(Candidates(t)) THEN excess
        ELSE Cardinality(Candidates(t))

(* Fault: the candidates are not sorted.                                   *)
VictimsUnsorted(t, high, low, policy) ==
    {V \in SUBSET Candidates(t) : Cardinality(V) = Quota(t, high, low)}

(* The sets a call may spill.  Lru and LruRefcount sort the candidates by  *)
(* last_access (std::sort: ties in any order); Arc takes them in the order *)
(* of the hash map, which is any order.                                    *)
Victims(t, high, low, policy) ==
    {V \in SUBSET Candidates(t) :
        /\ Cardinality(V) = Quota(t, high, low)
        /\ policy # "Arc" =>
              \A v \in V, c \in Candidates(t) \ V : t[v].last_access <= t[c].last_access}

Spilled(t, V) ==
    [p \in DOMAIN t |-> IF p \in V
                        THEN [t[p] EXCEPT !.residency = "Spilled"]
                        ELSE t[p]]
=============================================================================
