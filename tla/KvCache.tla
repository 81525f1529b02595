------------------------------- MODULE KvCache -------------------------------
(***************************************************************************)
(* The paged KV cache (src/token_opt/kv_cache.{hpp,cpp}) under threads     *)
(* that touch, pin and evict its pages.                                    *)
(*                                                                         *)
(* Each method takes mtx_ at its first line and holds it to its last.  A   *)
(* touch that finds the cache full calls evict with mtx_ held, and evict   *)
(* takes mtx_ again, which std::mutex does not allow: Evict's guard is the *)
(* same whoever calls it.                                                  *)
(*                                                                         *)
(* A page is named by its number; token indices are rounded down to their  *)
(* page with a mask.  `pins` is the callers' side of pin/unpin; the code   *)
(* does not keep it.                                                       *)
(***************************************************************************)
EXTENDS Integers, FiniteSets, Maps

CONSTANTS Threads, NoThread,
          Pages,         \* page numbers
          NoPage,
          Weights,       \* attention weights, scaled to natural numbers
          MaxResident,   \* max_resident_
          Band,          \* eviction_band_
          EvictCounts,   \* the n other callers give evict
          MaxPins        \* bound: pins a thread holds on a page

ASSUME KvCacheAssumption ==
    /\ NoThread \notin Threads /\ IsFiniteSet(Threads)
    /\ Pages \subseteq Nat /\ Weights \subseteq Nat
    /\ NoPage \notin Pages
    /\ Band \in Nat /\ EvictCounts \subseteq Nat
    /\ MaxResident \in Nat /\ MaxPins \in Nat

KvPage == [refcount : Nat, last_attention : Nat, resident : BOOLEAN]

VARIABLES pages,      \* pages_
          resident,   \* resident_
          lock,       \* mtx_
          pc,         \* per thread: "idle", in evict or in touch's last part
          count,      \* per thread: evict's argument
          target,     \* per thread: the page touch is to make resident
          pins        \* thread -> page -> pins it holds

vars == <<pages, resident, lock, pc, count, target, pins>>

TypeOK ==
    /\ DOMAIN pages \subseteq Pages /\ pages \in [DOMAIN pages -> KvPage]
    /\ resident \in Nat
    /\ lock \in Threads \cup {NoThread}
    /\ pc \in [Threads -> {"idle", "evict", "fill"}]
    /\ count \in [Threads -> Nat]
    /\ target \in [Threads -> Pages \cup {NoPage}]
    /\ pins \in [Threads -> [Pages -> 0 .. MaxPins]]

Init ==
    /\ pages = EmptyMap /\ resident = 0
    /\ lock = NoThread
    /\ pc = [t \in Threads |-> "idle"]
    /\ count = [t \in Threads |-> 0]
    /\ target = [t \in Threads |-> NoPage]
    /\ pins = [t \in Threads |-> [p \in Pages |-> 0]]

(* pages_[page]: a page that is not there yet is made.                     *)
NewPage == [refcount |-> 0, last_attention |-> 0, resident |-> FALSE]
Page(p) == IF p \in DOMAIN pages THEN pages[p] ELSE NewPage

Free(t) == pc[t] = "idle" /\ lock = NoThread

-----------------------------------------------------------------------------
Attended(p, w) ==
    [Page(p) EXCEPT !.last_attention = IF w > @ THEN w ELSE @]

TouchResident(t, p, w) ==
    /\ Free(t)
    /\ Page(p).resident
    /\ pages' = Put(pages, p, Attended(p, w))
    /\ UNCHANGED <<resident, lock, pc, count, target, pins>>

(* Fault: the limit is passed by one.                                      *)
IsFullLate  == resident > MaxResident

IsFull == resident >= MaxResident

TouchMissing(t, p, w) ==
    /\ Free(t)
    /\ ~Page(p).resident
    /\ pages' = Put(pages, p, Attended(p, w))
    /\ lock' = t
    /\ target' = [target EXCEPT ![t] = p]
    /\ IF IsFull
       THEN pc' = [pc EXCEPT ![t] = "evict"] /\ count' = [count EXCEPT ![t] = Band]
       ELSE pc' = [pc EXCEPT ![t] = "fill"] /\ UNCHANGED count
    /\ UNCHANGED <<resident, pins>>

Fill(t) ==
    /\ pc[t] = "fill"
    /\ pages' = [pages EXCEPT ![target[t]].resident = TRUE]
    /\ resident' = resident + 1
    /\ lock' = NoThread
    /\ pc' = [pc EXCEPT ![t] = "idle"]
    /\ target' = [target EXCEPT ![t] = NoPage]
    /\ UNCHANGED <<count, pins>>

CallEvict(t, n) ==
    /\ pc[t] = "idle"
    /\ pc' = [pc EXCEPT ![t] = "evict"]
    /\ count' = [count EXCEPT ![t] = n]
    /\ UNCHANGED <<pages, resident, lock, target, pins>>

(* Fault: pinned pages are candidates.                                     *)
CandidatesPinned == {p \in DOMAIN pages : pages[p].resident}

(* The n first candidates, sorted by attention and then by page.           *)
Candidates == {p \in DOMAIN pages : pages[p].resident /\ pages[p].refcount = 0}

(* Fault: the sort is the other way around.                                *)
BeforeReversed(p, q) ==
    \/ pages[p].last_attention > pages[q].last_attention
    \/ pages[p].last_attention = pages[q].last_attention /\ p < q

Before(p, q) ==
    \/ pages[p].last_attention < pages[q].last_attention
    \/ pages[p].last_attention = pages[q].last_attention /\ p < q

Victims(n) == {p \in Candidates : Cardinality({q \in Candidates : Before(q, p)}) < n}

Evicted(n) == Cardinality(Victims(n))

(* evict(count), and back to touch if that is where it was called.         *)
Evict(t) ==
    /\ pc[t] = "evict"
    /\ lock = NoThread
    /\ pages' = [p \in DOMAIN pages |->
                   IF p \in Victims(count[t])
                   THEN [pages[p] EXCEPT !.resident = FALSE, !.last_attention = 0]
                   ELSE pages[p]]
    /\ resident' = resident - Evicted(count[t])
    /\ pc' = [pc EXCEPT ![t] = IF target[t] = NoPage THEN "idle" ELSE "fill"]
    /\ count' = [count EXCEPT ![t] = 0]
    /\ UNCHANGED <<lock, target, pins>>

Pin(t, p) ==
    /\ Free(t)
    /\ pins[t][p] < MaxPins
    /\ pages' = Put(pages, p, [Page(p) EXCEPT !.refcount = @ + 1])
    /\ pins' = [pins EXCEPT ![t][p] = @ + 1]
    /\ UNCHANGED <<resident, lock, pc, count, target>>

(* unpin does nothing on a page that is not there or has no refcount; a    *)
(* caller unpins what it has pinned.                                       *)
Unpin(t, p) ==
    /\ Free(t)
    /\ pins[t][p] > 0
    /\ pages' = IF p \in DOMAIN pages /\ pages[p].refcount > 0
                THEN [pages EXCEPT ![p].refcount = @ - 1] ELSE pages
    /\ pins' = [pins EXCEPT ![t][p] = @ - 1]
    /\ UNCHANGED <<resident, lock, pc, count, target>>

Next ==
    \/ \E t \in Threads, p \in Pages, w \in Weights : TouchResident(t, p, w) \/ TouchMissing(t, p, w)
    \/ \E t \in Threads, n \in EvictCounts : CallEvict(t, n)
    \/ \E t \in Threads : Evict(t) \/ Fill(t)
    \/ \E t \in Threads, p \in Pages : Pin(t, p) \/ Unpin(t, p)

(* A call under way goes on when it can; SF, since a mutex that is free    *)
(* again and again is one day this thread's.                               *)
Fairness == \A t \in Threads : SF_vars(Evict(t)) /\ WF_vars(Fill(t))

Spec == Init /\ [][Next]_vars /\ Fairness

-----------------------------------------------------------------------------
ResidentPages == {p \in DOMAIN pages : pages[p].resident}
IsPinned(p)   == \E t \in Threads : pins[t][p] > 0

(* resident_ is the number of resident pages and stays within the limit:   *)
(* touch, which fills, and evict, which empties, count the same pages.     *)
ResidentCounted == resident = Cardinality(ResidentPages) /\ resident <= MaxResident

(* A page that some thread has pinned is not evicted, whoever calls evict  *)
(* and however many other threads pin and unpin the page meanwhile.        *)
PinnedStays ==
    [][\A p \in ResidentPages : IsPinned(p) /\ IsPinned(p)' => p \in ResidentPages']_vars

(* evict takes the pages of least attention: none that it could have taken *)
(* and left has less than one it took.                                     *)
EvictsLeastAttended ==
    [][\A v \in ResidentPages \ ResidentPages', c \in ResidentPages \cap ResidentPages' :
         ~IsPinned(c) => pages[v].last_attention <= pages[c].last_attention]_vars

(* What the unit tests expect of a cache that is touched beyond its limit: *)
(* every touch returns.                                                    *)
TouchReturns == \A t \in Threads : target[t] # NoPage ~> target[t] = NoPage
=============================================================================
