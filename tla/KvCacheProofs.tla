---------------------------- MODULE KvCacheProofs ----------------------------
(***************************************************************************)
(* Theorems about KvCache, for any number of threads and pages, any limit, *)
(* eviction band and weights.                                              *)
(*                                                                         *)
(* The argument: touch has the mutex from the test of the limit to the     *)
(* page it makes resident, so the test still holds there, and the page is  *)
(* still missing; evict takes resident pages only, and counts what it      *)
(* takes.  The pins callers hold on a page are as many as its refcount     *)
(* says, so what evict passes over is what is pinned; of the rest it takes *)
(* those with fewest before them.                                          *)
(***************************************************************************)
EXTENDS KvCache, FiniteSetTheorems, TLAPS

(* A thread on its way to make a page resident has the mutex, the page is  *)
(* there and not resident, and the cache is not full.                      *)
FillInv ==
    \A t \in Threads :
        /\ target[t] # NoPage => lock = t
        /\ pc[t] = "fill" => /\ target[t] \in DOMAIN pages
                             /\ ~pages[target[t]].resident
                             /\ resident < MaxResident

IInv == TypeOK /\ IsFiniteSet(DOMAIN pages) /\ FillInv /\ ResidentCounted

-----------------------------------------------------------------------------
LEMMA InitIInv == Init => IInv
<1> SUFFICES ASSUME Init PROVE IInv
  OBVIOUS
<1>1. DOMAIN pages = {} /\ pages \in [DOMAIN pages -> KvPage]
  BY DEF Init, EmptyMap
<1>2. TypeOK
  BY <1>1, KvCacheAssumption DEF Init, TypeOK
<1>3. ResidentPages = {}
  BY <1>1 DEF ResidentPages
<1> QED
  BY <1>1, <1>2, <1>3, FS_EmptySet, KvCacheAssumption
  DEF IInv, FillInv, Init, ResidentCounted

(* The page a call works on is a page, there already or new.               *)
LEMMA PageType == ASSUME TypeOK, NEW p PROVE Page(p) \in KvPage
  BY DEF TypeOK, Page, NewPage, KvPage

(* Put keeps the pages finitely many and of their type.                    *)
LEMMA PutPage ==
  ASSUME IInv, NEW p \in Pages, NEW e \in KvPage, pages' = Put(pages, p, e)
  PROVE  /\ DOMAIN pages' = DOMAIN pages \cup {p}
         /\ DOMAIN pages' \subseteq Pages /\ pages' \in [DOMAIN pages' -> KvPage]
         /\ IsFiniteSet(DOMAIN pages')
         /\ pages'[p] = e
         /\ \A q \in DOMAIN pages : q # p => pages'[q] = pages[q]
<1>1. DOMAIN pages' = DOMAIN pages \cup {p}
  BY DEF Put
<1>2. IsFiniteSet(DOMAIN pages')
  BY <1>1, FS_AddElement DEF IInv
<1> QED
  BY <1>1, <1>2 DEF Put, IInv, TypeOK

(* ... and leaves the resident ones alone if the entry says what the page  *)
(* was.                                                                    *)
LEMMA PutKeepsResident ==
  ASSUME IInv, NEW p \in Pages, NEW e \in KvPage, pages' = Put(pages, p, e),
         e.resident = Page(p).resident
  PROVE  ResidentPages' = ResidentPages
<1>1. /\ DOMAIN pages' = DOMAIN pages \cup {p} /\ pages'[p] = e
      /\ \A q \in DOMAIN pages : q # p => pages'[q] = pages[q]
  BY PutPage
<1>2. p \in ResidentPages' <=> p \in ResidentPages
  BY <1>1 DEF ResidentPages, Page, NewPage
<1>3. \A q : q # p => (q \in ResidentPages' <=> q \in ResidentPages)
  BY <1>1 DEF ResidentPages
<1> QED
  BY <1>2, <1>3

(* While the mutex is free no thread is about to fill a page.              *)
LEMMA NobodyFills ==
  ASSUME IInv, lock = NoThread
  PROVE  \A t \in Threads : target[t] = NoPage /\ pc[t] # "fill"
  BY KvCacheAssumption DEF IInv, FillInv, TypeOK

-----------------------------------------------------------------------------
(* A touch of a resident page, a pin and an unpin change no residency.     *)
LEMMA QuietKeeps ==
  ASSUME IInv, NEW t \in Threads, NEW p \in Pages,
         \/ \E w \in Weights : TouchResident(t, p, w)
         \/ Pin(t, p)
         \/ Unpin(t, p)
  PROVE  IInv'
<1>1. /\ lock = NoThread
      /\ UNCHANGED <<resident, lock, pc, count, target>>
      /\ pins' \in [Threads -> [Pages -> 0 .. MaxPins]]
  <2>1. pins \in [Threads -> [Pages -> 0 .. MaxPins]]
    BY DEF IInv, TypeOK
  <2>2. pins[t] \in [Pages -> 0 .. MaxPins] /\ pins[t][p] \in 0 .. MaxPins
    BY <2>1
  <2>3. CASE \E w \in Weights : TouchResident(t, p, w)
    BY <2>1, <2>3 DEF TouchResident, Free
  <2>4. CASE Pin(t, p)
    <3>1. pins[t][p] + 1 \in 0 .. MaxPins
      BY <2>2, <2>4, KvCacheAssumption DEF Pin
    <3> QED
      BY <2>1, <2>2, <2>4, <3>1 DEF Pin, Free
  <2>5. CASE Unpin(t, p)
    <3>1. pins[t][p] - 1 \in 0 .. MaxPins
      BY <2>2, <2>5, KvCacheAssumption DEF Unpin
    <3> QED
      BY <2>1, <2>2, <2>5, <3>1 DEF Unpin, Free
  <2> QED
    BY <2>3, <2>4, <2>5
<1>2. /\ ResidentPages' = ResidentPages
      /\ DOMAIN pages' \subseteq Pages /\ pages' \in [DOMAIN pages' -> KvPage]
      /\ IsFiniteSet(DOMAIN pages')
  <2>1. CASE \E e \in KvPage : pages' = Put(pages, p, e) /\ e.resident = Page(p).resident
    BY <2>1, PutPage, PutKeepsResident
  <2>2. CASE UNCHANGED pages
    BY <2>2 DEF ResidentPages, IInv, TypeOK
  <2>3. CASE \E w \in Weights : TouchResident(t, p, w)
    <3>1. PICK w \in Weights : pages' = Put(pages, p, Attended(p, w))
      BY <2>3 DEF TouchResident
    <3>2. Attended(p, w) \in KvPage /\ Attended(p, w).resident = Page(p).resident
      BY PageType, KvCacheAssumption DEF Attended, KvPage, IInv
    <3> QED
      BY <2>1, <3>1, <3>2
  <2>4. CASE Pin(t, p)
    <3> DEFINE e == [Page(p) EXCEPT !.refcount = @ + 1]
    <3>1. e \in KvPage /\ e.resident = Page(p).resident
      BY PageType DEF KvPage, IInv
    <3> QED
      BY <2>1, <2>4, <3>1 DEF Pin
  <2>5. CASE Unpin(t, p)
    <3>1. CASE p \in DOMAIN pages /\ pages[p].refcount > 0
      <4>1. pages' = [pages EXCEPT ![p].refcount = @ - 1]
        BY <2>5, <3>1 DEF Unpin
      <4>2. pages[p] \in KvPage /\ pages \in [DOMAIN pages -> KvPage]
        BY <3>1 DEF IInv, TypeOK
      <4>3. pages'[p] \in KvPage /\ pages'[p].resident = pages[p].resident
        BY <3>1, <4>1, <4>2 DEF KvPage
      <4>4. /\ DOMAIN pages' = DOMAIN pages
            /\ \A q \in DOMAIN pages : q # p => pages'[q] = pages[q]
        BY <4>1, <4>2
      <4>5. pages' \in [DOMAIN pages' -> KvPage]
        BY <4>1, <4>2, <4>3, <4>4
      <4> QED
        BY <3>1, <4>3, <4>4, <4>5 DEF ResidentPages, IInv, TypeOK
    <3>2. CASE ~(p \in DOMAIN pages /\ pages[p].refcount > 0)
      BY <2>2, <2>5, <3>2 DEF Unpin
    <3> QED
      BY <3>1, <3>2
  <2> QED
    BY <2>3, <2>4, <2>5
<1>3. TypeOK'
  BY <1>1, <1>2 DEF IInv, TypeOK
<1>4. FillInv'
  BY <1>1, NobodyFills DEF FillInv
<1>5. ResidentCounted'
  BY <1>1, <1>2 DEF IInv, ResidentCounted
<1> QED
  BY <1>2, <1>3, <1>4, <1>5 DEF IInv

(* A touch of a missing page takes the mutex and tests the limit.          *)
LEMMA TouchMissingKeeps ==
  ASSUME IInv, NEW t \in Threads, NEW p \in Pages, NEW w \in Weights, TouchMissing(t, p, w)
  PROVE  IInv'
<1>1. /\ lock = NoThread /\ lock' = t /\ ~Page(p).resident
      /\ pages' = Put(pages, p, Attended(p, w))
      /\ target' = [target EXCEPT ![t] = p]
      /\ UNCHANGED <<resident, pins>>
  BY DEF TouchMissing, Free
<1>2. Attended(p, w) \in KvPage /\ Attended(p, w).resident = Page(p).resident
  BY PageType, KvCacheAssumption DEF Attended, KvPage, IInv
<1>3. /\ p \in DOMAIN pages' /\ ~pages'[p].resident /\ IsFiniteSet(DOMAIN pages')
      /\ DOMAIN pages' \subseteq Pages /\ pages' \in [DOMAIN pages' -> KvPage]
  BY <1>1, <1>2, PutPage
<1>4. ResidentPages' = ResidentPages
  BY <1>1, <1>2, PutKeepsResident
<1>5. TypeOK'
  <2>1. /\ pc' \in [Threads -> {"idle", "evict", "fill"}]
        /\ count' \in [Threads -> Nat]
    BY KvCacheAssumption DEF IInv, TypeOK, TouchMissing
  <2>2. target' \in [Threads -> Pages \cup {NoPage}]
    BY <1>1 DEF IInv, TypeOK
  <2> QED
    BY <1>1, <1>3, <2>1, <2>2 DEF IInv, TypeOK
<1>6. FillInv'
  <2> SUFFICES ASSUME NEW u \in Threads
               PROVE  /\ target'[u] # NoPage => lock' = u
                      /\ pc'[u] = "fill" => /\ target'[u] \in DOMAIN pages'
                                            /\ ~pages'[target'[u]].resident
                                            /\ resident' < MaxResident
    BY DEF FillInv
  <2>1. CASE u = t
    BY <1>1, <1>3, <2>1, KvCacheAssumption DEF TouchMissing, IsFull, IInv, TypeOK
  <2>2. CASE u # t
    BY <1>1, <2>2, NobodyFills DEF TouchMissing, IInv, TypeOK
  <2> QED
    BY <2>1, <2>2
<1>7. ResidentCounted'
  BY <1>1, <1>4 DEF IInv, ResidentCounted
<1> QED
  BY <1>3, <1>5, <1>6, <1>7 DEF IInv

(* A page is made resident: one more, and the limit was not reached.       *)
LEMMA FillKeeps ==
  ASSUME IInv, NEW t \in Threads, Fill(t)
  PROVE  IInv'
<1> DEFINE p == target[t]
<1>1. /\ p \in DOMAIN pages /\ ~pages[p].resident /\ resident < MaxResident
      /\ pages' = [pages EXCEPT ![p].resident = TRUE]
      /\ resident' = resident + 1 /\ lock' = NoThread /\ lock = t
      /\ pc' = [pc EXCEPT ![t] = "idle"] /\ target' = [target EXCEPT ![t] = NoPage]
      /\ UNCHANGED <<count, pins>>
  BY KvCacheAssumption DEF Fill, IInv, FillInv, TypeOK
<1> HIDE DEF p
<1>2. pages \in [DOMAIN pages -> KvPage] /\ pages[p] \in KvPage
  BY <1>1 DEF IInv, TypeOK
<1>3. /\ DOMAIN pages' = DOMAIN pages /\ pages'[p].resident /\ pages'[p] \in KvPage
      /\ \A q \in DOMAIN pages : q # p => pages'[q] = pages[q]
  BY <1>1, <1>2 DEF KvPage
<1>4. ResidentPages' = ResidentPages \cup {p} /\ p \notin ResidentPages
  BY <1>1, <1>3 DEF ResidentPages
<1>5. ResidentPages \subseteq DOMAIN pages /\ IsFiniteSet(ResidentPages)
  BY FS_Subset DEF ResidentPages, IInv
<1>6. Cardinality(ResidentPages') = Cardinality(ResidentPages) + 1
  BY <1>4, <1>5, FS_AddElement
<1>7. ResidentCounted'
  BY <1>1, <1>6, KvCacheAssumption DEF IInv, TypeOK, ResidentCounted
<1>8. pages' \in [DOMAIN pages' -> KvPage]
  BY <1>1, <1>2, <1>3
<1>9. TypeOK'
  BY <1>1, <1>3, <1>8 DEF IInv, TypeOK
<1>10. FillInv'
  <2> SUFFICES ASSUME NEW u \in Threads
               PROVE  target'[u] = NoPage /\ pc'[u] # "fill"
    BY DEF FillInv
  <2>1. CASE u = t
    BY <1>1, <2>1 DEF IInv, TypeOK
  <2>2. CASE u # t
    <3>1. target[u] = NoPage
      BY <1>1, <2>2 DEF IInv, FillInv
    <3>2. target[u] \notin DOMAIN pages
      BY <3>1, KvCacheAssumption DEF IInv, TypeOK
    <3>3. pc[u] # "fill"
      BY <3>2 DEF IInv, FillInv
    <3> QED
      BY <1>1, <2>2, <3>1, <3>3 DEF IInv, TypeOK
  <2> QED
    BY <2>1, <2>2
<1> QED
  BY <1>3, <1>7, <1>9, <1>10 DEF IInv

(* The victims of evict are resident pages.                                *)
LEMMA VictimsAreResident ==
  ASSUME IInv, NEW n
  PROVE  /\ Victims(n) \subseteq ResidentPages
         /\ IsFiniteSet(ResidentPages) /\ IsFiniteSet(Victims(n))
         /\ Cardinality(ResidentPages \ Victims(n))
              = Cardinality(ResidentPages) - Cardinality(Victims(n))
<1>1. Victims(n) \subseteq ResidentPages /\ ResidentPages \subseteq DOMAIN pages
  BY DEF Victims, Candidates, ResidentPages
<1>2. IsFiniteSet(ResidentPages) /\ IsFiniteSet(Victims(n))
  BY <1>1, FS_Subset DEF IInv
<1>3. ResidentPages \cap Victims(n) = Victims(n)
  BY <1>1
<1> QED
  BY <1>1, <1>2, <1>3, FS_Difference

(* evict takes its victims out of the count as it takes them out of the    *)
(* cache.                                                                  *)
LEMMA EvictKeeps ==
  ASSUME IInv, NEW t \in Threads, Evict(t)
  PROVE  IInv'
<1> DEFINE V == Victims(count[t])
<1>1. /\ lock = NoThread /\ UNCHANGED <<lock, target, pins>>
      /\ pages' = [p \in DOMAIN pages |->
                     IF p \in V
                     THEN [pages[p] EXCEPT !.resident = FALSE, !.last_attention = 0]
                     ELSE pages[p]]
      /\ resident' = resident - Cardinality(V)
      /\ count' = [count EXCEPT ![t] = 0]
  BY DEF Evict, Evicted
<1>2. pc' = [pc EXCEPT ![t] = "idle"]
  BY <1>1, NobodyFills DEF Evict
<1>3. V \subseteq ResidentPages /\ IsFiniteSet(V) /\ IsFiniteSet(ResidentPages)
      /\ Cardinality(ResidentPages \ V) = Cardinality(ResidentPages) - Cardinality(V)
  BY VictimsAreResident
<1> HIDE DEF V
<1>4. pages \in [DOMAIN pages -> KvPage]
  BY DEF IInv, TypeOK
<1>5. /\ DOMAIN pages' = DOMAIN pages
      /\ \A p \in DOMAIN pages : pages'[p] \in KvPage
      /\ \A p \in V : p \in DOMAIN pages /\ ~pages'[p].resident
      /\ \A p \in DOMAIN pages \ V : pages'[p] = pages[p]
  BY <1>1, <1>3, <1>4 DEF KvPage, ResidentPages
<1>6. ResidentPages' = ResidentPages \ V
  BY <1>3, <1>5 DEF ResidentPages
<1>7. /\ Cardinality(V) \in Nat /\ Cardinality(ResidentPages) \in Nat
      /\ Cardinality(ResidentPages \ V) \in Nat
  BY <1>3, FS_CardinalityType, FS_Subset, FS_Difference
<1>8. ResidentCounted' /\ resident' \in Nat
  <2>1. resident = Cardinality(ResidentPages) /\ resident <= MaxResident
    BY DEF IInv, ResidentCounted
  <2>2. resident' = Cardinality(ResidentPages')
    BY <1>1, <1>3, <1>6, <2>1
  <2>3. resident' \in Nat /\ resident' <= MaxResident
    <3>1. resident' \in Nat
      BY <1>6, <1>7, <2>2
    <3>2. \A r, n, v, m \in Nat : n = r - v /\ r <= m => n <= m
      OBVIOUS
    <3> QED
      BY <1>1, <1>7, <2>1, <3>1, <3>2, KvCacheAssumption
  <2> QED
    BY <2>2, <2>3 DEF ResidentCounted
<1>9. pages' \in [DOMAIN pages' -> KvPage]
  BY <1>1, <1>5
<1>10. TypeOK'
  BY <1>1, <1>2, <1>5, <1>8, <1>9 DEF IInv, TypeOK
<1>11. FillInv'
  BY <1>1, <1>2, NobodyFills DEF FillInv, IInv, TypeOK
<1> QED
  BY <1>5, <1>8, <1>10, <1>11 DEF IInv

(* Every step preserves the invariant.                                     *)
LEMMA NextIInv == IInv /\ [Next]_vars => IInv'
<1> SUFFICES ASSUME IInv, [Next]_vars PROVE IInv'
  OBVIOUS
<1>1. ASSUME NEW t \in Threads, NEW n \in EvictCounts, CallEvict(t, n) PROVE IInv'
  <2>1. TypeOK'
    BY <1>1, KvCacheAssumption DEF CallEvict, IInv, TypeOK
  <2>2. FillInv'
    BY <1>1 DEF CallEvict, IInv, FillInv, TypeOK
  <2> QED
    BY <1>1, <2>1, <2>2 DEF CallEvict, IInv, ResidentCounted, ResidentPages
<1>2. CASE UNCHANGED vars
  BY <1>2 DEF vars, IInv, TypeOK, FillInv, ResidentCounted, ResidentPages
<1> QED
  BY <1>1, <1>2, QuietKeeps, TouchMissingKeeps, FillKeeps, EvictKeeps DEF Next

-----------------------------------------------------------------------------
(* The pins the threads hold on a page, one by one: its refcount is their  *)
(* number.                                                                 *)
Held(p) == {x \in Threads \X (1 .. MaxPins) : x[2] <= pins[x[1]][p]}

PinsInv == \A p \in Pages : Page(p).refcount = Cardinality(Held(p))

LEMMA HeldIsFinite == \A p : IsFiniteSet(Held(p)) /\ Cardinality(Held(p)) \in Nat
<1>1. IsFiniteSet(1 .. MaxPins)
  BY KvCacheAssumption, FS_Interval
<1>2. IsFiniteSet(Threads \X (1 .. MaxPins))
  BY <1>1, KvCacheAssumption, FS_Product
<1>3. \A p : Held(p) \subseteq Threads \X (1 .. MaxPins)
  BY DEF Held
<1> QED
  BY <1>2, <1>3, FS_Subset, FS_CardinalityType

LEMMA InitPinsInv == Init => PinsInv
<1> SUFFICES ASSUME Init, NEW p \in Pages
             PROVE  Page(p).refcount = 0 /\ Held(p) = {}
  BY FS_EmptySet DEF PinsInv
<1>1. DOMAIN pages = {}
  BY DEF Init, EmptyMap
<1>2. \A t \in Threads : pins[t][p] = 0
  BY DEF Init
<1> QED
  BY <1>1, <1>2, KvCacheAssumption DEF Page, NewPage, Held

(* A pin is one more, an unpin one less; nothing else touches a refcount.  *)
LEMMA PinKeepsPins ==
  ASSUME IInv, PinsInv, NEW t \in Threads, NEW p \in Pages, Pin(t, p)
  PROVE  PinsInv'
<1> DEFINE x == <<t, pins[t][p] + 1>>
           e == [Page(p) EXCEPT !.refcount = @ + 1]
<1>1. /\ pins \in [Threads -> [Pages -> 0 .. MaxPins]] /\ pins[t] \in [Pages -> 0 .. MaxPins]
      /\ pins[t][p] \in 0 .. MaxPins /\ pins[t][p] < MaxPins /\ MaxPins \in Nat
  BY KvCacheAssumption DEF IInv, TypeOK, Pin
<1>2. /\ pins'[t][p] = pins[t][p] + 1
      /\ \A u \in Threads, q \in Pages : u # t \/ q # p => pins'[u][q] = pins[u][q]
  BY <1>1 DEF Pin
<1>3. e \in KvPage /\ e.refcount = Page(p).refcount + 1
  BY PageType DEF KvPage, IInv
<1>4. /\ Page(p)' = e
      /\ \A q \in Pages : q # p => Page(q)' = Page(q)
  BY <1>3, PutPage DEF Pin, Page
<1>5. Held(p)' = Held(p) \cup {x} /\ x \notin Held(p)
  <2>1. x \in Threads \X (1 .. MaxPins) /\ ~(pins[t][p] + 1 <= pins[t][p])
    BY <1>1
  <2>2. x \in Held(p)' /\ x \notin Held(p)
    BY <1>1, <1>2, <2>1 DEF Held
  <2>3. ASSUME NEW y \in Threads \X (1 .. MaxPins), y # x
        PROVE  y[2] <= pins'[y[1]][p] <=> y[2] <= pins[y[1]][p]
    <3>1. CASE y[1] = t
      <4>1. y[2] # pins[t][p] + 1 /\ y[2] \in Nat
        BY <1>1, <2>3, <3>1
      <4>2. pins'[y[1]][p] = pins[t][p] + 1 /\ pins[y[1]][p] = pins[t][p]
        BY <1>2, <3>1
      <4>3. \A k, i \in Nat : k # i + 1 => (k <= i + 1 <=> k <= i)
        OBVIOUS
      <4> QED
        BY <1>1, <4>1, <4>2, <4>3
    <3>2. CASE y[1] # t
      BY <1>2, <3>2
    <3> QED
      BY <3>1, <3>2
  <2> QED
    BY <2>2, <2>3 DEF Held
<1>6. \A q \in Pages : q # p => Held(q)' = Held(q)
  BY <1>2 DEF Held
<1>7. Cardinality(Held(p)') = Cardinality(Held(p)) + 1
  <2> HIDE DEF x
  <2> QED
    BY <1>5, HeldIsFinite, FS_AddElement
<1> QED
  BY <1>3, <1>4, <1>6, <1>7 DEF PinsInv

LEMMA UnpinKeepsPins ==
  ASSUME IInv, PinsInv, NEW t \in Threads, NEW p \in Pages, Unpin(t, p)
  PROVE  PinsInv'
<1> DEFINE x == <<t, pins[t][p]>>
<1>1. /\ pins \in [Threads -> [Pages -> 0 .. MaxPins]] /\ pins[t] \in [Pages -> 0 .. MaxPins]
      /\ pins[t][p] \in 0 .. MaxPins /\ pins[t][p] > 0 /\ MaxPins \in Nat
  BY KvCacheAssumption DEF IInv, TypeOK, Unpin
<1>2. /\ pins'[t][p] = pins[t][p] - 1
      /\ \A u \in Threads, q \in Pages : u # t \/ q # p => pins'[u][q] = pins[u][q]
  BY <1>1 DEF Unpin
<1>3. x \in Held(p) /\ Held(p)' = Held(p) \ {x}
  <2>1. x \in Threads \X (1 .. MaxPins) /\ ~(pins[t][p] <= pins[t][p] - 1)
    BY <1>1
  <2>2. x \in Held(p) /\ x \notin Held(p)'
    BY <1>1, <1>2, <2>1 DEF Held
  <2>3. ASSUME NEW y \in Threads \X (1 .. MaxPins), y # x
        PROVE  y[2] <= pins'[y[1]][p] <=> y[2] <= pins[y[1]][p]
    <3>1. CASE y[1] = t
      <4>1. y[2] # pins[t][p] /\ y[2] \in Nat
        BY <1>1, <2>3, <3>1
      <4>2. pins'[y[1]][p] = pins[t][p] - 1 /\ pins[y[1]][p] = pins[t][p]
        BY <1>2, <3>1
      <4>3. \A k, i \in Nat : k # i => (k <= i - 1 <=> k <= i)
        OBVIOUS
      <4> QED
        BY <1>1, <4>1, <4>2, <4>3
    <3>2. CASE y[1] # t
      BY <1>2, <3>2
    <3> QED
      BY <3>1, <3>2
  <2> QED
    BY <2>2, <2>3 DEF Held
<1>4. Cardinality(Held(p)') = Cardinality(Held(p)) - 1 /\ Cardinality(Held(p)) # 0
  <2> HIDE DEF x
  <2> QED
    BY <1>3, HeldIsFinite, FS_RemoveElement, FS_EmptySet
<1>5. Page(p).refcount > 0 /\ p \in DOMAIN pages /\ Page(p) = pages[p]
  BY <1>4, HeldIsFinite DEF PinsInv, Page, NewPage
<1>6. pages' = [pages EXCEPT ![p].refcount = @ - 1]
  BY <1>5 DEF Unpin
<1>7. pages \in [DOMAIN pages -> KvPage] /\ pages[p] \in KvPage
  BY <1>5 DEF IInv, TypeOK
<1>8. /\ Page(p)'.refcount = Page(p).refcount - 1
      /\ \A q \in Pages : q # p => Page(q)' = Page(q)
  BY <1>5, <1>6, <1>7 DEF Page, KvPage
<1>9. \A q \in Pages : q # p => Held(q)' = Held(q)
  BY <1>2 DEF Held
<1> QED
  BY <1>4, <1>8, <1>9 DEF PinsInv

LEMMA NextPinsInv == IInv /\ PinsInv /\ [Next]_vars => PinsInv'
<1> SUFFICES ASSUME IInv, PinsInv, [Next]_vars PROVE PinsInv'
  OBVIOUS
<1>1. ASSUME pins' = pins, \A q \in Pages : Page(q)'.refcount = Page(q).refcount
      PROVE  PinsInv'
  BY <1>1 DEF PinsInv, Held
<1>2. ASSUME NEW t \in Threads, NEW p \in Pages, NEW w \in Weights,
             TouchResident(t, p, w) \/ TouchMissing(t, p, w)
      PROVE  PinsInv'
  <2>1. pins' = pins /\ pages' = Put(pages, p, Attended(p, w))
    BY <1>2 DEF TouchResident, TouchMissing
  <2>2. Attended(p, w) \in KvPage /\ Attended(p, w).refcount = Page(p).refcount
    BY PageType, KvCacheAssumption DEF Attended, KvPage, IInv
  <2>3. \A q \in Pages : Page(q)'.refcount = Page(q).refcount
    BY <2>1, <2>2, PutPage DEF Page
  <2> QED
    BY <1>1, <2>1, <2>3
<1>3. ASSUME NEW t \in Threads, Fill(t) PROVE PinsInv'
  <2>1. pins' = pins /\ pages' = [pages EXCEPT ![target[t]].resident = TRUE]
    BY <1>3 DEF Fill
  <2>2. pages \in [DOMAIN pages -> KvPage]
    BY DEF IInv, TypeOK
  <2>3. /\ DOMAIN pages' = DOMAIN pages
        /\ \A q \in DOMAIN pages : pages'[q].refcount = pages[q].refcount
    BY <2>1, <2>2 DEF KvPage
  <2>4. \A q \in Pages : Page(q)'.refcount = Page(q).refcount
    BY <2>3 DEF Page, NewPage
  <2> QED
    BY <1>1, <2>1, <2>4
<1>4. ASSUME NEW t \in Threads, Evict(t) PROVE PinsInv'
  <2>1. /\ pins' = pins
        /\ pages' = [p \in DOMAIN pages |->
                       IF p \in Victims(count[t])
                       THEN [pages[p] EXCEPT !.resident = FALSE, !.last_attention = 0]
                       ELSE pages[p]]
    BY <1>4 DEF Evict
  <2>2. pages \in [DOMAIN pages -> KvPage]
    BY DEF IInv, TypeOK
  <2>3. /\ DOMAIN pages' = DOMAIN pages
        /\ \A q \in DOMAIN pages : pages'[q].refcount = pages[q].refcount
    BY <2>1, <2>2 DEF KvPage
  <2>4. \A q \in Pages : Page(q)'.refcount = Page(q).refcount
    BY <2>3 DEF Page, NewPage
  <2> QED
    BY <1>1, <2>1, <2>4
<1>5. CASE \E t \in Threads, n \in EvictCounts : CallEvict(t, n)
  BY <1>1, <1>5 DEF CallEvict, Page
<1>6. CASE UNCHANGED vars
  BY <1>1, <1>6 DEF vars, Page
<1> QED
  BY <1>2, <1>3, <1>4, <1>5, <1>6, PinKeepsPins, UnpinKeepsPins DEF Next

(* A thread has pinned a page just if its refcount is not 0.               *)
LEMMA PinnedHasCount ==
  ASSUME IInv, PinsInv, NEW p \in DOMAIN pages
  PROVE  IsPinned(p) <=> pages[p].refcount # 0
<1>1. p \in Pages /\ pins \in [Threads -> [Pages -> 0 .. MaxPins]]
  BY DEF IInv, TypeOK
<1>2. pages[p].refcount = Cardinality(Held(p))
  BY <1>1 DEF PinsInv, Page
<1>3. IsPinned(p) => Held(p) # {}
  <2> SUFFICES ASSUME NEW t \in Threads, pins[t][p] > 0 PROVE <<t, 1>> \in Held(p)
    BY DEF IsPinned
  <2>1. pins[t][p] \in 0 .. MaxPins
    BY <1>1
  <2>2. 1 \in 1 .. MaxPins /\ 1 <= pins[t][p]
    BY <2>1, KvCacheAssumption
  <2> QED
    BY <2>2 DEF Held
<1>4. Held(p) # {} => IsPinned(p)
  <2> SUFFICES ASSUME NEW x \in Held(p) PROVE pins[x[1]][p] > 0 /\ x[1] \in Threads
    BY DEF IsPinned
  <2>1. x[1] \in Threads /\ x[2] \in 1 .. MaxPins /\ x[2] <= pins[x[1]][p]
    BY DEF Held
  <2>2. pins[x[1]][p] \in 0 .. MaxPins
    BY <1>1, <2>1
  <2> QED
    BY <2>1, <2>2, KvCacheAssumption
<1> QED
  BY <1>2, <1>3, <1>4, HeldIsFinite, FS_EmptySet

-----------------------------------------------------------------------------
(* Only evict takes pages out of the cache, and it takes its victims.      *)
LEMMA OnlyEvictTakes ==
  ASSUME IInv, [Next]_vars
  PROVE  \/ ResidentPages \subseteq ResidentPages'
         \/ \E t \in Threads : Evict(t) /\ ResidentPages' = ResidentPages \ Victims(count[t])
<1>0. pages \in [DOMAIN pages -> KvPage]
  BY DEF IInv, TypeOK
<1>1. ASSUME NEW t \in Threads, NEW p \in Pages, NEW w \in Weights,
             TouchResident(t, p, w) \/ TouchMissing(t, p, w)
      PROVE  ResidentPages' = ResidentPages
  <2>1. pages' = Put(pages, p, Attended(p, w))
    BY <1>1 DEF TouchResident, TouchMissing
  <2>2. Attended(p, w) \in KvPage /\ Attended(p, w).resident = Page(p).resident
    BY PageType, KvCacheAssumption DEF Attended, KvPage, IInv
  <2> QED
    BY <2>1, <2>2, PutKeepsResident
<1>2. ASSUME NEW t \in Threads, NEW p \in Pages, Pin(t, p) PROVE ResidentPages' = ResidentPages
  <2> DEFINE e == [Page(p) EXCEPT !.refcount = @ + 1]
  <2>1. e \in KvPage /\ e.resident = Page(p).resident
    BY PageType DEF KvPage, IInv
  <2> QED
    BY <1>2, <2>1, PutKeepsResident DEF Pin
<1>3. ASSUME NEW t \in Threads, NEW p \in Pages, Unpin(t, p) PROVE ResidentPages \subseteq ResidentPages'
  BY <1>0, <1>3 DEF Unpin, KvPage, ResidentPages
<1>4. ASSUME NEW t \in Threads, Fill(t) PROVE ResidentPages \subseteq ResidentPages'
  BY <1>0, <1>4 DEF Fill, KvPage, ResidentPages
<1>5. ASSUME NEW t \in Threads, Evict(t) PROVE ResidentPages' = ResidentPages \ Victims(count[t])
  <2> DEFINE V == Victims(count[t])
  <2>1. pages' = [p \in DOMAIN pages |->
                    IF p \in V
                    THEN [pages[p] EXCEPT !.resident = FALSE, !.last_attention = 0]
                    ELSE pages[p]]
    BY <1>5 DEF Evict
  <2> HIDE DEF V
  <2>2. ResidentPages' = ResidentPages \ V
    BY <1>0, <2>1 DEF KvPage, ResidentPages
  <2> QED
    BY <2>2 DEF V
<1>6. CASE \E t \in Threads, n \in EvictCounts : CallEvict(t, n)
  BY <1>6 DEF CallEvict, ResidentPages
<1>7. CASE UNCHANGED vars
  BY <1>7 DEF vars, ResidentPages
<1> QED
  BY <1>1, <1>2, <1>3, <1>4, <1>5, <1>6, <1>7 DEF Next

(* What comes before a page that comes before another, comes before that;  *)
(* so a candidate left behind does not come before a victim.               *)
LEMMA VictimsComeFirst ==
  ASSUME IInv, NEW n \in Nat, NEW v \in Victims(n), NEW c \in Candidates \ Victims(n)
  PROVE  pages[v].last_attention <= pages[c].last_attention
<1> DEFINE Ahead(p) == {q \in Candidates : Before(q, p)}
<1>1. /\ \A p \in DOMAIN pages : pages[p].last_attention \in Nat /\ p \in Nat
      /\ Candidates \subseteq DOMAIN pages /\ v \in Candidates /\ IsFiniteSet(Candidates)
  <2>1. \A p \in DOMAIN pages : pages[p] \in KvPage /\ p \in Pages
    BY DEF IInv, TypeOK
  <2>2. Candidates \subseteq DOMAIN pages /\ v \in Candidates
    BY DEF Candidates, Victims
  <2> QED
    BY <2>1, <2>2, FS_Subset, KvCacheAssumption DEF IInv, KvPage
<1>2. IsFiniteSet(Ahead(v)) /\ IsFiniteSet(Ahead(c))
      /\ Cardinality(Ahead(v)) \in Nat /\ Cardinality(Ahead(c)) \in Nat
  BY <1>1, FS_Subset, FS_CardinalityType
<1>3. Cardinality(Ahead(v)) < n /\ ~(Cardinality(Ahead(c)) < n)
  BY DEF Victims
<1>4. ASSUME pages[c].last_attention < pages[v].last_attention PROVE FALSE
  <2>1. \A q \in Candidates : Before(q, c) => Before(q, v)
    BY <1>1, <1>4 DEF Before
  <2>2. Ahead(c) \in SUBSET Ahead(v)
    BY <2>1
  <2>3. Cardinality(Ahead(c)) <= Cardinality(Ahead(v))
    BY <1>2, <2>2, FS_Subset
  <2> HIDE DEF Ahead
  <2> QED
    BY <1>2, <1>3, <2>3
<1> QED
  BY <1>1, <1>4

-----------------------------------------------------------------------------
(* The invariant holds in every reachable state.                           *)
THEOREM Invariance == Spec => []IInv
<1> QED
  BY InitIInv, NextIInv, PTL DEF Spec

(* touch and evict together keep resident_ at the number of resident pages *)
(* and within max_resident_.                                               *)
THEOREM CountsResident == Spec => []ResidentCounted
<1>1. IInv => ResidentCounted
  BY DEF IInv
<1> QED
  BY <1>1, Invariance, PTL

(* The refcount of a page is the number of pins its callers hold.          *)
THEOREM CountsPins == Spec => []PinsInv
<1> QED
  BY InitPinsInv, NextPinsInv, Invariance, PTL DEF Spec

(* evict never takes a page that some thread has pinned, however many      *)
(* threads pin, unpin, touch and evict.                                    *)
THEOREM KeepsPinned == Spec => PinnedStays
<1>1. ASSUME IInv, PinsInv, [Next]_vars, NEW p \in ResidentPages, IsPinned(p)
      PROVE  p \in ResidentPages'
  <2>1. p \in DOMAIN pages
    BY DEF ResidentPages
  <2>2. p \notin Candidates
    BY <1>1, <2>1, PinnedHasCount DEF Candidates
  <2>3. \A n : p \notin Victims(n)
    BY <2>2 DEF Victims
  <2> QED
    BY <1>1, <2>3, OnlyEvictTakes
<1>2. IInv /\ PinsInv /\ [Next]_vars =>
        [\A p \in ResidentPages : IsPinned(p) /\ IsPinned(p)' => p \in ResidentPages']_vars
  BY <1>1
<1> QED
  BY <1>2, Invariance, CountsPins, PTL DEF Spec, PinnedStays

(* evict takes the pages of least attention among those nobody has pinned. *)
THEOREM TakesLeastAttended == Spec => EvictsLeastAttended
<1>1. ASSUME IInv, PinsInv, [Next]_vars, NEW v \in ResidentPages \ ResidentPages',
             NEW c \in ResidentPages \cap ResidentPages', ~IsPinned(c)
      PROVE  pages[v].last_attention <= pages[c].last_attention
  <2>1. PICK t \in Threads : Evict(t) /\ ResidentPages' = ResidentPages \ Victims(count[t])
    BY <1>1, OnlyEvictTakes
  <2>2. v \in Victims(count[t]) /\ c \notin Victims(count[t]) /\ count[t] \in Nat
    BY <1>1, <2>1 DEF IInv, TypeOK
  <2>3. c \in Candidates
    BY <1>1, PinnedHasCount DEF Candidates, ResidentPages
  <2> QED
    BY <1>1, <2>2, <2>3, VictimsComeFirst
<1>2. IInv /\ PinsInv /\ [Next]_vars =>
        [\A v \in ResidentPages \ ResidentPages', c \in ResidentPages \cap ResidentPages' :
           ~IsPinned(c) => pages[v].last_attention <= pages[c].last_attention]_vars
  BY <1>1
<1> QED
  BY <1>2, Invariance, CountsPins, PTL DEF Spec, EvictsLeastAttended
=============================================================================
