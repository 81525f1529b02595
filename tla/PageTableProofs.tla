--------------------------- MODULE PageTableProofs ---------------------------
(***************************************************************************)
(* Theorems about PageTable, for any number of clients and pages, any page *)
(* size, ranges, marks and policies, provided that no range is mapped over *)
(* a page some client has pinned (RemapPinned = FALSE).                    *)
(*                                                                         *)
(* The argument: a held page has a holder, so its refcount, which counts   *)
(* the holders, is not zero; a refcount that is not zero keeps unmap_range *)
(* and evict_until away from the page, and so the count stays true.        *)
(***************************************************************************)
EXTENDS PageTable, FiniteSetTheorems, TLAPS

IInv == TypeOK /\ RefcountCountsHolders /\ HeldIsMapped

-----------------------------------------------------------------------------
(* The holders of a page are finitely many, and a held page has one.       *)
LEMMA HoldersFinite ==
  \A p : IsFiniteSet(Holders(p)) /\ Cardinality(Holders(p)) \in Nat
<1> SUFFICES ASSUME NEW p
             PROVE  IsFiniteSet(Holders(p)) /\ Cardinality(Holders(p)) \in Nat
  OBVIOUS
<1>1. Holders(p) \subseteq Clients
  BY DEF Holders
<1>2. IsFiniteSet(Holders(p))
  BY <1>1, PageTableAssumption, FS_Subset
<1> QED
  BY <1>2, FS_CardinalityType

(* A page that is held is mapped with a refcount above zero.               *)
LEMMA HeldIsCounted ==
  ASSUME IInv, NEW p \in HeldPages
  PROVE  p \in DOMAIN table /\ table[p].refcount \in Nat /\ table[p].refcount > 0
<1>1. p \in DOMAIN table
  BY DEF IInv, HeldIsMapped
<1>2. Holders(p) # {}
  BY DEF HeldPages, Holders
<1>3. IsFiniteSet(Holders(p)) /\ Cardinality(Holders(p)) \in Nat
  BY HoldersFinite
<1>4. Cardinality(Holders(p)) # 0
  BY <1>2, <1>3, FS_EmptySet
<1>5. table[p].refcount = Cardinality(Holders(p))
  BY <1>1 DEF IInv, RefcountCountsHolders
<1> QED
  BY <1>1, <1>3, <1>4, <1>5

(* A page nobody holds has no holders to count.                            *)
LEMMA NotHeld == \A p : p \notin HeldPages => Cardinality(Holders(p)) = 0
<1> SUFFICES ASSUME NEW p, p \notin HeldPages PROVE Cardinality(Holders(p)) = 0
  OBVIOUS
<1>1. Holders(p) = {}
  BY DEF Holders, HeldPages
<1> QED
  BY <1>1, FS_EmptySet

(* What unmap_range erases has no refcount.                                *)
LEMMA ErasedIsFree ==
  ASSUME TypeOK, NEW pages, NEW p \in Erased(table, pages)
  PROVE  ~(table[p].refcount > 0)
<1>1. p \in DOMAIN table /\ p \in Nat
  BY DEF TypeOK, Erased, Pages
<1> QED
  BY <1>1 DEF Erased, Blockers

-----------------------------------------------------------------------------
LEMMA InitIInv == Init => IInv
<1> SUFFICES ASSUME Init PROVE IInv
  OBVIOUS
<1>1. DOMAIN table = {} /\ table \in [DOMAIN table -> Entry]
  BY DEF Init, EmptyTable
<1>2. TypeOK
  BY <1>1 DEF Init, TypeOK
<1>3. HeldPages = {}
  BY DEF Init, HeldPages
<1> QED
  BY <1>1, <1>2, <1>3 DEF IInv, RefcountCountsHolders, HeldIsMapped

(* A call for a range of free pages gives them new entries.                *)
LEMMA MapRangeKeeps ==
  ASSUME IInv, ~RemapPinned,
         NEW r \in Ranges, NEW res \in {"Hbm", "HostPinned"}, MapRange(r, res)
  PROVE  IInv'
<1> DEFINE pages == PagesOf(r[1], r[2])
<1>1. PICK now \in {clock, clock + 1} :
        table' = Mapped(table, pages, res, now) /\ clock' = now
  BY DEF MapRange
<1>2. held' = held /\ pages \cap HeldPages = {} /\ pages \subseteq Pages
  BY PageTableAssumption DEF MapRange, Pages
<1>3. now \in Nat
  BY DEF IInv, TypeOK
<1>4. FreshEntry(res, now) \in Entry
  BY <1>3, MaxRefcountAssumption DEF FreshEntry, Entry, Residency
<1> HIDE DEF pages
<1>5. /\ DOMAIN table' = DOMAIN table \cup pages
      /\ \A p \in DOMAIN table' :
            table'[p] = IF p \in pages THEN FreshEntry(res, now) ELSE table[p]
  BY <1>1 DEF Mapped
<1>6. TypeOK'
  <2>1. table' \in [DOMAIN table' -> Entry]
    BY <1>1, <1>4 DEF IInv, TypeOK, Mapped
  <2> QED
    BY <2>1, <1>1, <1>2, <1>3, <1>5 DEF IInv, TypeOK
<1>7. \A p : Holders(p)' = Holders(p)
  BY <1>2 DEF Holders
<1>8. RefcountCountsHolders'
  <2> SUFFICES ASSUME NEW p \in DOMAIN table'
               PROVE  table'[p].refcount = Cardinality(Holders(p))
    BY <1>7 DEF RefcountCountsHolders
  <2>1. CASE p \in pages
    <3>1. Cardinality(Holders(p)) = 0
      BY <1>2, <2>1, NotHeld
    <3> QED
      BY <1>5, <2>1, <3>1 DEF FreshEntry
  <2>2. CASE p \notin pages
    BY <1>5, <2>2 DEF IInv, RefcountCountsHolders
  <2> QED
    BY <2>1, <2>2
<1>9. HeldIsMapped'
  BY <1>2, <1>5 DEF IInv, HeldIsMapped, HeldPages
<1> QED
  BY <1>6, <1>8, <1>9 DEF IInv

(* unmap_range leaves every held page where it is, wherever it stops.      *)
LEMMA UnmapRangeKeeps ==
  ASSUME IInv, NEW r \in Ranges, UnmapRange(r)
  PROVE  IInv'
<1> DEFINE pages == PagesOf(r[1], r[2])
<1>1. table' = Unmapped(table, pages) /\ UNCHANGED <<clock, held>>
  BY DEF UnmapRange
<1> HIDE DEF pages
<1>2. /\ DOMAIN table' = DOMAIN table \ Erased(table, pages)
      /\ \A p \in DOMAIN table' : table'[p] = table[p]
  BY <1>1 DEF Unmapped
<1>3. TypeOK'
  <2>1. table' \in [DOMAIN table' -> Entry]
    BY <1>1, <1>2 DEF IInv, TypeOK, Unmapped
  <2> QED
    BY <2>1, <1>1, <1>2 DEF IInv, TypeOK
<1>4. RefcountCountsHolders'
  BY <1>1, <1>2 DEF IInv, RefcountCountsHolders, Holders
<1>5. HeldPages \cap Erased(table, pages) = {}
  BY HeldIsCounted, ErasedIsFree DEF IInv
<1>6. HeldIsMapped'
  BY <1>1, <1>2, <1>5 DEF IInv, HeldIsMapped, HeldPages
<1> QED
  BY <1>3, <1>4, <1>6 DEF IInv

(* incref adds one holder and one to the count of its page.                *)
LEMMA IncrefKeeps ==
  ASSUME IInv, NEW c \in Clients, NEW q \in Pages, Incref(c, q)
  PROVE  IInv'
<1>1. PICK now \in {clock, clock + 1} :
        table' = Counted(table, q, 1, now) /\ clock' = now
  BY DEF Incref
<1>2. /\ q \in DOMAIN table /\ table[q].refcount # MaxRefcount
      /\ q \notin held[c] /\ held' = [held EXCEPT ![c] = @ \cup {q}]
  BY DEF Incref, CanIncref
<1>3. /\ DOMAIN table' = DOMAIN table
      /\ table'[q] = [table[q] EXCEPT !.refcount = @ + 1, !.last_access = now]
      /\ \A p \in DOMAIN table \ {q} : table'[p] = table[p]
  BY <1>1, <1>2 DEF Counted, IInv, TypeOK
<1>4. table[q] \in Entry /\ now \in Nat
  BY <1>2 DEF IInv, TypeOK
<1>5. table'[q] \in Entry /\ table'[q].refcount = table[q].refcount + 1
  <2>1. table[q].refcount + 1 \in 0 .. MaxRefcount
    BY <1>2, <1>4, MaxRefcountAssumption DEF Entry
  <2>2. table'[q].refcount = table[q].refcount + 1
    BY <1>3, <1>4 DEF Entry
  <2> QED
    BY <1>3, <1>4, <2>1, <2>2 DEF Entry
<1>6. TypeOK'
  <2>1. table' \in [DOMAIN table' -> Entry]
    BY <1>1, <1>3, <1>5 DEF IInv, TypeOK, Counted
  <2> QED
    BY <2>1, <1>1, <1>2, <1>3, <1>4 DEF IInv, TypeOK
<1>7. /\ Holders(q)' = Holders(q) \cup {c} /\ c \notin Holders(q)
      /\ \A p : p # q => Holders(p)' = Holders(p)
  BY <1>2 DEF Holders, IInv, TypeOK
<1>8. Cardinality(Holders(q)') = Cardinality(Holders(q)) + 1
  BY <1>7, HoldersFinite, FS_AddElement
<1>9. RefcountCountsHolders'
  <2> SUFFICES ASSUME NEW p \in DOMAIN table'
               PROVE  table'[p].refcount = Cardinality(Holders(p)')
    BY DEF RefcountCountsHolders
  <2>1. CASE p = q
    BY <1>2, <1>5, <1>8, <2>1 DEF IInv, RefcountCountsHolders
  <2>2. CASE p # q
    BY <1>3, <1>7, <2>2 DEF IInv, RefcountCountsHolders
  <2> QED
    BY <2>1, <2>2
<1>10. HeldIsMapped'
  BY <1>2, <1>3 DEF IInv, HeldIsMapped, HeldPages, TypeOK
<1> QED
  BY <1>6, <1>9, <1>10 DEF IInv

(* decref of a held page never finds the count gone, and takes one holder  *)
(* and one from the count.                                                 *)
LEMMA DecrefKeeps ==
  ASSUME IInv, NEW c \in Clients, NEW q \in Pages, Decref(c, q)
  PROVE  IInv'
<1>1. q \in held[c] /\ held' = [held EXCEPT ![c] = @ \ {q}]
  BY DEF Decref
<1>2. q \in DOMAIN table /\ table[q].refcount \in Nat /\ table[q].refcount > 0
  BY <1>1, HeldIsCounted DEF HeldPages
<1>3. PICK now \in {clock, clock + 1} :
        table' = Counted(table, q, -1, now) /\ clock' = now
  BY <1>2 DEF Decref, CanDecref
<1>4. /\ DOMAIN table' = DOMAIN table
      /\ table'[q] = [table[q] EXCEPT !.refcount = @ + (-1), !.last_access = now]
      /\ \A p \in DOMAIN table \ {q} : table'[p] = table[p]
  BY <1>2, <1>3 DEF Counted, IInv, TypeOK
<1>5. table[q] \in Entry /\ now \in Nat
  BY <1>2 DEF IInv, TypeOK
<1>6. table'[q] \in Entry /\ table'[q].refcount = table[q].refcount - 1
  <2>1. table[q].refcount - 1 \in 0 .. MaxRefcount
    BY <1>2, <1>5, MaxRefcountAssumption DEF Entry
  <2>2. table'[q].refcount = table[q].refcount - 1
    BY <1>2, <1>4, <1>5 DEF Entry
  <2> QED
    BY <1>4, <1>5, <2>1, <2>2 DEF Entry
<1>7. TypeOK'
  <2>1. table' \in [DOMAIN table' -> Entry]
    BY <1>3, <1>4, <1>6 DEF IInv, TypeOK, Counted
  <2> QED
    BY <2>1, <1>1, <1>3, <1>4, <1>5 DEF IInv, TypeOK
<1>8. /\ Holders(q)' = Holders(q) \ {c} /\ c \in Holders(q)
      /\ \A p : p # q => Holders(p)' = Holders(p)
  BY <1>1 DEF Holders, IInv, TypeOK
<1>9. Cardinality(Holders(q)') = Cardinality(Holders(q)) - 1
  BY <1>8, HoldersFinite, FS_RemoveElement
<1>10. RefcountCountsHolders'
  <2> SUFFICES ASSUME NEW p \in DOMAIN table'
               PROVE  table'[p].refcount = Cardinality(Holders(p)')
    BY DEF RefcountCountsHolders
  <2>1. CASE p = q
    BY <1>2, <1>6, <1>9, <2>1 DEF IInv, RefcountCountsHolders
  <2>2. CASE p # q
    BY <1>4, <1>8, <2>2 DEF IInv, RefcountCountsHolders
  <2> QED
    BY <2>1, <2>2
<1>11. HeldIsMapped'
  BY <1>1, <1>4 DEF IInv, HeldIsMapped, HeldPages, TypeOK
<1> QED
  BY <1>7, <1>10, <1>11 DEF IInv

(* evict_until changes residencies and nothing else.                       *)
LEMMA EvictUntilKeeps ==
  ASSUME IInv, NEW m \in Marks, NEW policy \in Policies, EvictUntil(m[1], m[2], policy)
  PROVE  IInv'
<1>1. PICK V \in Victims(table, m[1], m[2], policy) : table' = Spilled(table, V)
  BY DEF EvictUntil
<1>2. UNCHANGED <<clock, held>>
  BY DEF EvictUntil
<1>3. /\ DOMAIN table' = DOMAIN table
      /\ \A p \in DOMAIN table :
            table'[p] = IF p \in V THEN [table[p] EXCEPT !.residency = "Spilled"]
                        ELSE table[p]
  BY <1>1 DEF Spilled
<1>4. \A p \in DOMAIN table : table'[p] \in Entry /\ table'[p].refcount = table[p].refcount
  BY <1>3 DEF IInv, TypeOK, Entry, Residency
<1>5. TypeOK'
  <2>1. table' \in [DOMAIN table' -> Entry]
    BY <1>1, <1>3, <1>4 DEF Spilled
  <2> QED
    BY <2>1, <1>2, <1>3 DEF IInv, TypeOK
<1>6. RefcountCountsHolders'
  BY <1>2, <1>3, <1>4 DEF IInv, RefcountCountsHolders, Holders
<1>7. HeldIsMapped'
  BY <1>2, <1>3 DEF IInv, HeldIsMapped, HeldPages
<1> QED
  BY <1>5, <1>6, <1>7 DEF IInv

(* Every step preserves the three facts together.                          *)
LEMMA NextIInv ==
  ASSUME ~RemapPinned, IInv, [Next]_vars
  PROVE  IInv'
<1>1. CASE Next
  BY <1>1, MapRangeKeeps, UnmapRangeKeeps, IncrefKeeps, DecrefKeeps, EvictUntilKeeps DEF Next
<1>2. CASE UNCHANGED vars
  BY <1>2 DEF vars, IInv, TypeOK, RefcountCountsHolders, Holders, HeldIsMapped, HeldPages
<1> QED
  BY <1>1, <1>2

-----------------------------------------------------------------------------
(* Where the pages are: which of them a step may move to another store.    *)
(* A call other than evict_until and map_range moves none.                 *)
LEMMA CountingMovesNothing ==
  ASSUME IInv, NEW c \in Clients, NEW q \in Pages, Incref(c, q) \/ Decref(c, q)
  PROVE  /\ DOMAIN table' = DOMAIN table
         /\ \A p \in DOMAIN table : table'[p].residency = table[p].residency
<1>1. CASE UNCHANGED table
  BY <1>1
<1>2. CASE \E delta \in {1, -1}, now \in {clock, clock + 1} : table' = Counted(table, q, delta, now)
  <2>1. PICK delta \in {1, -1}, now \in {clock, clock + 1} : table' = Counted(table, q, delta, now)
    BY <1>2
  <2>2. table \in [DOMAIN table -> Entry]
    BY DEF IInv, TypeOK
  <2> QED
    BY <2>1, <2>2 DEF Counted, Entry
<1> QED
  BY <1>1, <1>2 DEF Incref, Decref

(* evict_until takes unpinned HBM pages, and under a policy that sorts no  *)
(* page that was used after one it leaves.                                 *)
LEMMA EvictionTakesOldest ==
  ASSUME IInv, NEW high, NEW low, NEW policy, EvictUntil(high, low, policy)
  PROVE  /\ DOMAIN table' = DOMAIN table
         /\ \A p \in DOMAIN table :
               table'[p].residency # table[p].residency => p \in Candidates(table)
         /\ policy # "Arc" =>
               \A v \in DOMAIN table, c \in Candidates(table) :
                  (table'[v].residency # table[v].residency /\ table'[c].residency = "Hbm")
                  => table[v].last_access <= table[c].last_access
<1>1. PICK V \in Victims(table, high, low, policy) : table' = Spilled(table, V)
  BY DEF EvictUntil
<1>2. /\ DOMAIN table' = DOMAIN table
      /\ \A p \in DOMAIN table :
            table'[p] = IF p \in V THEN [table[p] EXCEPT !.residency = "Spilled"]
                        ELSE table[p]
  BY <1>1 DEF Spilled
<1>3. /\ V \subseteq Candidates(table)
      /\ policy # "Arc" =>
            \A v \in V, c \in Candidates(table) \ V : table[v].last_access <= table[c].last_access
  BY DEF Victims
<1>4. Candidates(table) \subseteq DOMAIN table
  BY DEF Candidates, HbmPages
<1>5. \A p \in V : table'[p].residency = "Spilled"
  BY <1>2, <1>3, <1>4 DEF IInv, TypeOK, Entry
<1> QED
  BY <1>2, <1>3, <1>4, <1>5

-----------------------------------------------------------------------------
(* The three facts hold in every reachable state.                          *)
THEOREM Invariance == ~RemapPinned => (Spec => []IInv)
<1> SUFFICES ASSUME ~RemapPinned PROVE Spec => []IInv
  OBVIOUS
<1>1. Init => IInv
  BY InitIInv
<1>2. IInv /\ [Next]_vars => IInv'
  BY NextIInv
<1> QED
  BY <1>1, <1>2, PTL DEF Spec

(* The refcount never leaves 0 .. MaxRefcount: incref and decref refuse    *)
(* before it would wrap.                                                   *)
THEOREM TypeCorrect == ~RemapPinned => (Spec => []TypeOK)
<1>1. IInv => TypeOK
  BY DEF IInv
<1> QED
  BY <1>1, Invariance, PTL

(* incref and decref keep the refcount of a page equal to the number of    *)
(* its holders, under any interleaving with map_range, unmap_range and     *)
(* evict_until.                                                            *)
THEOREM CountsPins == ~RemapPinned => (Spec => []RefcountCountsHolders)
<1>1. IInv => RefcountCountsHolders
  BY DEF IInv
<1> QED
  BY <1>1, Invariance, PTL

(* unmap_range never takes a page that is held.                            *)
THEOREM KeepsHeldMapped == ~RemapPinned => (Spec => []HeldIsMapped)
<1>1. IInv => HeldIsMapped
  BY DEF IInv
<1> QED
  BY <1>1, Invariance, PTL

(* While a client holds a page, no call moves it to another store.         *)
THEOREM KeepsHeldInPlace == ~RemapPinned => (Spec => HeldStaysPut)
<1> SUFFICES ASSUME ~RemapPinned PROVE Spec => HeldStaysPut
  OBVIOUS
<1> DEFINE Stays(p) == p \in DOMAIN table' /\ table'[p].residency = table[p].residency
           Put == \A p \in Pages :
                    (p \in HeldPages /\ p \in DOMAIN table /\ p \in HeldPages') => Stays(p)
<1>1. ASSUME IInv, [Next]_vars PROVE Put
  <2> SUFFICES ASSUME NEW p \in HeldPages PROVE Stays(p)
    OBVIOUS
  <2>1. p \in DOMAIN table /\ table[p].refcount > 0 /\ table[p].refcount \in Nat
    BY <1>1, HeldIsCounted
  <2>2. ASSUME NEW r \in Ranges, NEW res \in {"Hbm", "HostPinned"}, MapRange(r, res)
        PROVE  Stays(p)
    BY <2>1, <2>2 DEF MapRange, Mapped
  <2>3. ASSUME NEW r \in Ranges, UnmapRange(r) PROVE Stays(p)
    <3>1. p \notin Erased(table, PagesOf(r[1], r[2]))
      BY <1>1, <2>1, ErasedIsFree DEF IInv
    <3> QED
      BY <2>1, <2>3, <3>1 DEF UnmapRange, Unmapped
  <2>4. ASSUME NEW c \in Clients, NEW q \in Pages, Incref(c, q) \/ Decref(c, q)
        PROVE  Stays(p)
    BY <1>1, <2>1, <2>4, CountingMovesNothing
  <2>5. ASSUME NEW m \in Marks, NEW policy \in Policies, EvictUntil(m[1], m[2], policy)
        PROVE  Stays(p)
    <3>1. p \notin Candidates(table)
      BY <2>1 DEF Candidates
    <3> QED
      BY <1>1, <2>1, <2>5, <3>1, EvictionTakesOldest
  <2>6. CASE UNCHANGED vars
    BY <2>1, <2>6 DEF vars
  <2> QED
    BY <1>1, <2>2, <2>3, <2>4, <2>5, <2>6 DEF Next
<1>2. ASSUME IInv, [Next]_vars PROVE [Put]_vars
  BY <1>1, <1>2
<1>3. Spec => []IInv
  BY Invariance
<1> QED
  BY <1>2, <1>3, PTL DEF Spec, HeldStaysPut

(* Unless the Arc policy is used, a page is spilled only when every        *)
(* unpinned HBM page that stays was used at the same time or later.        *)
THEOREM SpillsInLruOrder == ~RemapPinned => (Spec => SpillsOldestFirst)
<1> SUFFICES ASSUME ~RemapPinned PROVE Spec => SpillsOldestFirst
  OBVIOUS
<1> DEFINE Spills(v) == table[v].residency = "Hbm" /\ table'[v].residency = "Spilled"
           Leaves(c) == /\ table[c].residency = "Hbm" /\ table'[c].residency = "Hbm"
                        /\ Holders(c) = {}
           Lru == ("Arc" \notin Policies) =>
                    \A v, c \in DOMAIN table \cap DOMAIN table' :
                       (/\ table[v].residency = "Hbm" /\ table'[v].residency = "Spilled"
                        /\ table[c].residency = "Hbm" /\ table'[c].residency = "Hbm"
                        /\ Holders(c) = {})
                       => table[v].last_access <= table[c].last_access
<1>1. ASSUME IInv, [Next]_vars PROVE Lru
  <2> SUFFICES ASSUME "Arc" \notin Policies,
                      NEW v \in DOMAIN table \cap DOMAIN table', Spills(v),
                      NEW c \in DOMAIN table \cap DOMAIN table', Leaves(c)
               PROVE  table[v].last_access <= table[c].last_access
    OBVIOUS
  <2>1. c \in Candidates(table)
    <3>1. table[c].refcount = Cardinality(Holders(c))
      BY <1>1 DEF IInv, RefcountCountsHolders
    <3> QED
      BY <3>1, FS_EmptySet DEF Candidates, HbmPages
  <2>2. ASSUME NEW r \in Ranges, NEW res \in {"Hbm", "HostPinned"}, MapRange(r, res)
        PROVE  FALSE
    BY <2>2 DEF MapRange, Mapped, FreshEntry
  <2>3. ASSUME NEW r \in Ranges, UnmapRange(r) PROVE FALSE
    BY <2>3 DEF UnmapRange, Unmapped
  <2>4. ASSUME NEW k \in Clients, NEW q \in Pages, Incref(k, q) \/ Decref(k, q)
        PROVE  FALSE
    BY <1>1, <2>4, CountingMovesNothing
  <2>5. ASSUME NEW m \in Marks, NEW policy \in Policies, EvictUntil(m[1], m[2], policy)
        PROVE  table[v].last_access <= table[c].last_access
    BY <1>1, <2>1, <2>5, EvictionTakesOldest
  <2>6. CASE UNCHANGED vars
    BY <2>6 DEF vars
  <2> QED
    BY <1>1, <2>2, <2>3, <2>4, <2>5, <2>6 DEF Next
<1>2. ASSUME IInv, [Next]_vars PROVE [Lru]_vars
  BY <1>1, <1>2
<1>3. Spec => []IInv
  BY Invariance
<1> QED
  BY <1>2, <1>3, PTL DEF Spec, SpillsOldestFirst
=============================================================================
