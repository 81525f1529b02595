------------------------------ MODULE PageTable ------------------------------
(***************************************************************************)
(* The page table and the callers that pin its pages                       *)
(* (src/memory/page_table.{hpp,cpp}).                                      *)
(*                                                                         *)
(* `table`, `clock` are the program's; `held` is the callers' side of      *)
(* incref/decref: held[c] is the set of pages client c has pinned and not  *)
(* yet unpinned.  A client decrefs only what it holds, as every caller in  *)
(* the tests does.  lookup changes nothing and is left out.                *)
(***************************************************************************)
EXTENDS PageTableOps

CONSTANTS Clients,        \* callers that pin pages
          NPages,         \* pages of the modelled address range
          Ranges,         \* the <<vaddr, bytes>> pairs given to map and unmap
          Marks,          \* the <<high, low>> page counts given to evict_until
          Policies,       \* the eviction policies used
          RemapPinned,    \* may map_range hit a page some client has pinned?
          MaxClock        \* bound: now_ns() stops here

ASSUME PageTableAssumption ==
    /\ NPages \in Nat /\ MaxClock \in Nat
    /\ IsFiniteSet(Clients)
    /\ RemapPinned \in BOOLEAN
    /\ \A r \in Ranges : r[1] \in Nat /\ r[2] \in Nat
    /\ \A r \in Ranges : PagesOf(r[1], r[2]) \subseteq 0 .. NPages - 1
    /\ \A m \in Marks : m[1] \in Nat /\ m[2] \in Nat

Pages == 0 .. NPages - 1

VARIABLES table,   \* table_: page -> entry
          clock,   \* the last value now_ns() returned
          held     \* client -> the pages it has pinned

vars == <<table, clock, held>>

TypeOK ==
    /\ DOMAIN table \subseteq Pages
    /\ table \in [DOMAIN table -> Entry]
    /\ clock \in Nat
    /\ held \in [Clients -> SUBSET Pages]

Init ==
    /\ table = EmptyTable
    /\ clock = 0
    /\ held = [c \in Clients |-> {}]

(* A call reads steady_clock, which does not go back and need not advance. *)
(* map_range reads it once per page; one reading for the range leaves its  *)
(* pages tied, and ties are spilled in any order.                          *)
Now(now) == now \in {clock, clock + 1} /\ now <= MaxClock

HeldPages == UNION {held[c] : c \in Clients}

-----------------------------------------------------------------------------
MapRange(r, res) ==
    LET pages == PagesOf(r[1], r[2])
    IN  /\ RemapPinned \/ pages \cap HeldPages = {}
        /\ \E now \in {clock, clock + 1} :
              /\ Now(now)
              /\ table' = Mapped(table, pages, res, now)
              /\ clock' = now
        /\ UNCHANGED held

UnmapRange(r) ==
    /\ table' = Unmapped(table, PagesOf(r[1], r[2]))
    /\ UNCHANGED <<clock, held>>

Incref(c, p) ==
    /\ p \notin held[c]
    /\ CanIncref(table, p)
    /\ \E now \in {clock, clock + 1} :
          /\ Now(now)
          /\ table' = Counted(table, p, 1, now)
          /\ clock' = now
    /\ held' = [held EXCEPT ![c] = @ \cup {p}]

(* decref returns InvalidArgument when the count is gone; the client is    *)
(* done with the page either way.                                          *)
Decref(c, p) ==
    /\ p \in held[c]
    /\ IF CanDecref(table, p)
       THEN \E now \in {clock, clock + 1} :
               /\ Now(now)
               /\ table' = Counted(table, p, -1, now)
               /\ clock' = now
       ELSE UNCHANGED <<table, clock>>
    /\ held' = [held EXCEPT ![c] = @ \ {p}]

EvictUntil(high, low, policy) ==
    /\ \E V \in Victims(table, high, low, policy) : table' = Spilled(table, V)
    /\ UNCHANGED <<clock, held>>

Next ==
    \/ \E r \in Ranges, res \in {"Hbm", "HostPinned"} : MapRange(r, res)
    \/ \E r \in Ranges : UnmapRange(r)
    \/ \E c \in Clients, p \in Pages : Incref(c, p) \/ Decref(c, p)
    \/ \E m \in Marks, policy \in Policies : EvictUntil(m[1], m[2], policy)

Spec == Init /\ [][Next]_vars

-----------------------------------------------------------------------------
Holders(p) == {c \in Clients : p \in held[c]}

(* The refcount of a mapped page is the number of clients that hold it, up *)
(* to the 0xFFFF limit of incref: no pin is lost or counted twice by any   *)
(* interleaving of incref, decref, unmap, eviction and mapping.            *)
RefcountCountsHolders ==
    \A p \in DOMAIN table : table[p].refcount = Cardinality(Holders(p))

(* A page some client holds is mapped: unmap_range, which gives up part of *)
(* the way through a range, never takes a held page with it.               *)
HeldIsMapped == HeldPages \subseteq DOMAIN table

(* While a client holds a page, no call of any other client moves the page *)
(* to another store: evict_until and unmap_range leave it where it is      *)
(* (page_table.hpp: pages with refcount > 0 cannot be evicted).            *)
HeldStaysPut ==
    [][\A p \in Pages :
         (p \in HeldPages /\ p \in DOMAIN table /\ p \in HeldPages')
            => (p \in DOMAIN table' /\ table'[p].residency = table[p].residency)]_vars

(* LRU: under a policy that sorts, a page that is spilled was not used     *)
(* more recently than any unpinned HBM page that stays.                    *)
SpillsOldestFirst ==
    [][("Arc" \notin Policies) =>
         \A v, c \in DOMAIN table \cap DOMAIN table' :
            (/\ table[v].residency = "Hbm" /\ table'[v].residency = "Spilled"
             /\ table[c].residency = "Hbm" /\ table'[c].residency = "Hbm"
             /\ Holders(c) = {})
            => table[v].last_access <= table[c].last_access]_vars

(* What page_table.hpp says of refcounts, whatever map_range is called on: *)
(* a page a client has pinned is not spilled by an eviction.               *)
PinnedNeverSpilled ==
    [][\A p \in HeldPages \cap DOMAIN table \cap DOMAIN table' :
         table'[p].residency = "Spilled" => table[p].residency = "Spilled"]_vars
=============================================================================
