---------------------------- MODULE ContextScope ----------------------------
(***************************************************************************)
(* One ContextScope (src/token_opt/scope.cpp) that the threads of an       *)
(* inference share, its AttentionPrefetcher (prefetcher.cpp), and the C    *)
(* calls that make a scope of their own: decode loops charge tokens to the *)
(* working layer, KV caches are bound, and the slots that are expected to  *)
(* matter are hinted to the fault handler.                                 *)
(*                                                                         *)
(* Amounts are in tokens (the code's bytes / 4), KV regions in slots of    *)
(* 4096 bytes.  Three mutexes nest: the prefetcher's, the scope's, the     *)
(* fault handler's.  kv_hbm_ is looked at before the scope's is taken.     *)
(***************************************************************************)
EXTENDS Integers, FiniteSets, SequencesExt

CONSTANTS Threads, NoThread,
          Caches, NoCache,  \* KV caches that may be bound; nullptr
          SlotsOf,          \* cache -> its slots, none for nullptr
          Rows,             \* attention rows: score of slot 0, 1, ...
          TopK,             \* the k of prefetch_next
          Window,           \* history_window_
          LayerSpecs,       \* what set_layer gives L3 and L4
          MaxTokens,        \* bound: tokens charged
          MaxCalls          \* bound: prefetches and prunes by each thread

ASSUME ContextScopeAssumption ==
    /\ NoThread \notin Threads /\ NoCache \notin Caches
    /\ SlotsOf \in [Caches \cup {NoCache} -> Nat] /\ SlotsOf[NoCache] = 0
    /\ Rows \subseteq Seq(Nat) /\ TopK \in Nat /\ Window \in Nat
    /\ LayerSpecs \subseteq [max : Nat, used : Nat] /\ MaxTokens \in Nat /\ MaxCalls \in Nat

L3 == 3
L4 == 4

VARIABLES layers,   \* layers_[3] and layers_[4]
          kv,       \* kv_hbm_, with it kv_bytes_
          mtx,      \* who has the scope's mutex
          pmtx,     \* who has the prefetcher's
          inject,   \* who has inject_mtx_
          history,  \* history_
          pc,       \* per thread
          todo,     \* per thread: topk slots yet to be hinted
          own,      \* per thread: the cache its own scope has, in a C call
          hints,    \* per thread: hints of the call under way, <<cache, slot>>
          owed,     \* tokens charged, but for those set_layer wrote over
          charged,  \* tokens charged
          calls     \* per thread: prefetches and prunes so far

locks == <<mtx, pmtx, inject>>
vars == <<layers, kv, locks, history, pc, todo, own, hints, owed, charged, calls>>

SlotNumbers == UNION {{i - 1 : i \in DOMAIN r} : r \in Rows}

TypeOK ==
    /\ layers \in [{L3, L4} -> [max : Nat, used : Nat]]
    /\ kv \in Caches \cup {NoCache}
    /\ {mtx, pmtx, inject} \subseteq Threads \cup {NoThread}
    /\ \A i \in DOMAIN history : history[i] \in Rows
    /\ Len(history) <= Window
    /\ pc \in [Threads -> {"idle", "check", "lock", "hint", "inject", "prune"}]
    /\ todo \in [Threads -> SUBSET SlotNumbers]
    /\ own \in [Threads -> Caches \cup {NoCache}]
    /\ \A t \in Threads : hints[t] \subseteq (Caches \cup {NoCache}) \X Nat
    /\ owed \in Nat /\ charged \in 0 .. MaxTokens
    /\ calls \in [Threads -> 0 .. MaxCalls]

Init ==
    /\ \E a, b \in LayerSpecs : layers = [l \in {L3, L4} |-> IF l = L3 THEN a ELSE b]
    /\ kv = NoCache
    /\ mtx = NoThread /\ pmtx = NoThread /\ inject = NoThread
    /\ history = << >>
    /\ pc = [t \in Threads |-> "idle"]
    /\ todo = [t \in Threads |-> {}]
    /\ own = [t \in Threads |-> NoCache]
    /\ hints = [t \in Threads |-> {}]
    /\ owed = layers[L3].used + layers[L4].used
    /\ charged = 0
    /\ calls = [t \in Threads |-> 0]

calling == <<pc, todo, own, hints, calls>>

Begin(t) == calls[t] < MaxCalls /\ calls' = [calls EXCEPT ![t] = @ + 1]

Goto(t, from, to) == pc[t] = from /\ pc' = [pc EXCEPT ![t] = to]

-----------------------------------------------------------------------------
(* step.  Fault: a spill that copies.                                      *)
SpillCopied(w) ==
    [layers EXCEPT ![L3].used = @ + (w - layers[L4].max), ![L4].used = w]

Spill(w) ==
    [layers EXCEPT ![L3].used = @ + (w - layers[L4].max), ![L4].used = layers[L4].max]

Over(w) == w > layers[L4].max

(* A decode loop (run_infer, InferStage) is a number of steps.             *)
Step(t) ==
    /\ pc[t] = "idle" /\ mtx = NoThread
    /\ charged < MaxTokens
    /\ charged' = charged + 1 /\ owed' = owed + 1
    /\ LET w == layers[L4].used + 1
       IN  layers' = IF Over(w) THEN Spill(w) ELSE [layers EXCEPT ![L4].used = w]
    /\ UNCHANGED <<kv, locks, history, calling>>

SetLayer(t, l, spec) ==
    /\ pc[t] = "idle" /\ mtx = NoThread
    /\ layers' = [layers EXCEPT ![l] = spec]
    /\ owed' = owed - layers[l].used + spec.used
    /\ UNCHANGED <<kv, locks, history, calling, charged>>

(* bind_kv_cache.  The prefetcher is not told.                             *)
Bind(t, c) ==
    /\ pc[t] = "idle" /\ mtx = NoThread
    /\ kv' = c
    /\ UNCHANGED <<layers, locks, history, calling, owed, charged>>

-----------------------------------------------------------------------------
(* Return, out of whatever mutexes the thread has.                         *)
Left(m, t) == IF m = t THEN NoThread ELSE m

Return(t) ==
    /\ pc' = [pc EXCEPT ![t] = "idle"]
    /\ todo' = [todo EXCEPT ![t] = {}]
    /\ own' = [own EXCEPT ![t] = NoCache]
    /\ hints' = [hints EXCEPT ![t] = {}]
    /\ mtx' = Left(mtx, t) /\ pmtx' = Left(pmtx, t) /\ UNCHANGED inject

(* AttentionPrefetcher::observe.                                           *)
InWindow(h) == IF Len(h) > Window THEN Tail(h) ELSE h

Observe(t, row) ==
    /\ pc[t] = "idle" /\ pmtx = NoThread
    /\ history' = InWindow(Append(history, row))
    /\ UNCHANGED <<layers, kv, locks, calling, owed, charged>>

(* The scores of the slots of the latest row, summed over the window.      *)
Score(i) == FoldLeft(LAMBDA sum, row : sum + (IF i < Len(row) THEN row[i + 1] ELSE 0),
                     0, history)

Slots == 0 .. Len(Last(history)) - 1

IsTop(S) ==
    /\ Cardinality(S) = IF TopK < Len(Last(history)) THEN TopK ELSE Len(Last(history))
    /\ \A i \in S, j \in Slots \ S : Score(i) >= Score(j)

(* prefetch_next: without a row it returns, else it calls                  *)
(* prefetch_attention with its own mutex held.                             *)
PrefetchNext(t) ==
    /\ Goto(t, "idle", "check") /\ pmtx = NoThread /\ Begin(t)
    /\ history # << >>
    /\ pmtx' = t
    /\ \E S \in SUBSET Slots : IsTop(S) /\ todo' = [todo EXCEPT ![t] = S]
    /\ UNCHANGED <<layers, kv, mtx, inject, history, own, hints, owed, charged>>

(* nexusrt_prefetch_attention: a scope of its own, bound to the caller's   *)
(* cache.                                                                  *)
AbiPrefetch(t, c, S) ==
    /\ pc[t] = "idle" /\ Begin(t)
    /\ c # NoCache
    /\ pc' = [pc EXCEPT ![t] = "hint"]
    /\ own' = [own EXCEPT ![t] = c]
    /\ todo' = [todo EXCEPT ![t] = S]
    /\ UNCHANGED <<layers, kv, locks, history, hints, owed, charged>>

(* prefetch_attention: kv_hbm_ is looked at ...                            *)
Check(t) ==
    /\ pc[t] = "check"
    /\ IF kv = NoCache THEN Return(t)
       ELSE pc' = [pc EXCEPT ![t] = "lock"] /\ UNCHANGED <<locks, todo, own, hints>>
    /\ UNCHANGED <<layers, kv, history, owed, charged, calls>>

(* Fault: the mutex is not taken.                                          *)
LockNothing(t) ==
    /\ Goto(t, "lock", "hint")
    /\ UNCHANGED <<layers, kv, locks, history, todo, own, hints, owed, charged, calls>>

(* ... the mutex is taken ...                                              *)
Lock(t) ==
    /\ Goto(t, "lock", "hint")
    /\ mtx = NoThread /\ mtx' = t
    /\ UNCHANGED <<layers, kv, pmtx, inject, history, todo, own, hints, owed, charged, calls>>

Cache(t) == IF own[t] # NoCache THEN own[t] ELSE kv

(* Faults: the slot just past the cache passes; a slot outside is passed   *)
(* over for ever.                                                          *)
WithinOrAt(i, c) == i <= SlotsOf[c]

Within(i, c) == i < SlotsOf[c]

SkipSlotStays(t, i) ==
    /\ pc[t] = "hint" /\ i \in todo[t]
    /\ ~Within(i, Cache(t))
    /\ UNCHANGED vars

(* ... and each slot that is in the region is hinted; what comes of a hint *)
(* is not looked at.                                                       *)
SkipSlot(t, i) ==
    /\ pc[t] = "hint" /\ i \in todo[t]
    /\ ~Within(i, Cache(t))
    /\ todo' = [todo EXCEPT ![t] = @ \ {i}]
    /\ UNCHANGED <<layers, kv, locks, history, pc, own, hints, owed, charged, calls>>

HintSlot(t, i) ==
    /\ Goto(t, "hint", "inject") /\ i \in todo[t]
    /\ Within(i, Cache(t))
    /\ inject = NoThread /\ inject' = t
    /\ hints' = [hints EXCEPT ![t] = @ \cup {<<Cache(t), i>>}]
    /\ todo' = [todo EXCEPT ![t] = @ \ {i}]
    /\ UNCHANGED <<layers, kv, mtx, pmtx, history, own, owed, charged, calls>>

Injected(t) ==
    /\ Goto(t, "inject", "hint")
    /\ inject' = NoThread
    /\ UNCHANGED <<layers, kv, mtx, pmtx, history, todo, own, hints, owed, charged, calls>>

EndPrefetch(t) ==
    /\ pc[t] = "hint" /\ todo[t] = {}
    /\ Return(t)
    /\ UNCHANGED <<layers, kv, history, owed, charged, calls>>

(* prune: current_resident_ is 0 from bind on, so there is never anything  *)
(* to evict, and nothing changes.                                          *)
PruneCheck(t) ==
    /\ kv # NoCache
    /\ Goto(t, "idle", "prune") /\ Begin(t)
    /\ UNCHANGED <<layers, kv, locks, history, todo, own, hints, owed, charged>>

Prune(t) ==
    /\ pc[t] = "prune" /\ mtx = NoThread
    /\ Return(t)
    /\ UNCHANGED <<layers, kv, history, owed, charged, calls>>

CallStep(t) ==
    \/ Check(t) \/ Lock(t) \/ Injected(t) \/ EndPrefetch(t) \/ Prune(t)
    \/ \E i \in todo[t] : SkipSlot(t, i) \/ HintSlot(t, i)

Next ==
    \E t \in Threads :
        \/ Step(t) \/ PrefetchNext(t) \/ PruneCheck(t) \/ CallStep(t)
        \/ \E l \in {L3, L4}, spec \in LayerSpecs : SetLayer(t, l, spec)
        \/ \E c \in Caches \cup {NoCache} : Bind(t, c)
        \/ \E row \in Rows : Observe(t, row)
        \/ \E c \in Caches, S \in SUBSET SlotNumbers : AbiPrefetch(t, c, S)

(* A call under way goes on.                                               *)
Fairness == \A t \in Threads : WF_vars(CallStep(t))

Spec == Init /\ [][Next]_vars /\ Fairness

-----------------------------------------------------------------------------
(* No token is lost or counted twice between the working layer and the     *)
(* reference layer it spills to, whoever steps and sets layers meanwhile.  *)
TokensConserved == layers[L3].used + layers[L4].used = owed

(* A call's hints are for one KV cache, bound to the scope or its own, and *)
(* inside it: though the cache is bound anew at any time, and the window   *)
(* may still have longer rows of the cache before.                         *)
HintsInOneCache ==
    \A t \in Threads :
        /\ \A g, h \in hints[t] : g[1] = h[1]
        /\ \A h \in hints[t] : h[1] \in Caches /\ h[2] < SlotsOf[h[1]]

(* Every call returns when the others stop calling: nobody waits in a      *)
(* circle for the three mutexes.                                           *)
CallsReturn == \A t \in Threads : pc[t] # "idle" ~> pc[t] = "idle"
=============================================================================
