------------------------- MODULE MicroKernelProofs -------------------------
(***************************************************************************)
(* Theorems about MicroKernel, for any number of threads, streams of each  *)
(* class and submits.                                                      *)
(*                                                                         *)
(* The argument: a stream the platform has is at one place of one free     *)
(* list or in the hands of one thread, which acquire_stream and            *)
(* release_stream move it between and drain_streams takes it out of; and a *)
(* kernel runs only on a stream whose thread is waiting for it.  When the  *)
(* last user lets go, no thread has a stream any more, so every stream is  *)
(* free and ~MicroKernel's drain destroys it.                              *)
(***************************************************************************)
EXTENDS MicroKernel, FiniteSetTheorems, SequenceTheorems, TLAPS

Types ==
    /\ registered \in BOOLEAN /\ destroyed \in BOOLEAN /\ modules \in BOOLEAN
    /\ free \in [Classes -> Seq(Streams)]
    /\ streams \subseteq Streams /\ busy \subseteq Streams
    /\ pc \in [Threads -> {"idle", "barrier", "drop"} \cup SubmitSteps \cup ShutdownSteps]
    /\ mine \in [Threads -> Streams \cup {NoStream}]
    /\ status \in [Threads -> Statuses]
    /\ submits \in [Threads -> 0 .. MaxSubmits]

(* Where a thread is says whether it has a stream.                         *)
HandInv == \A t \in Threads : mine[t] # NoStream <=> pc[t] \in {"find", "launch", "sync", "release"}

(* No stream is at two places.                                             *)
PlaceInv ==
    /\ \A k, l \in Classes : \A i \in DOMAIN free[k], j \in DOMAIN free[l] :
          free[k][i] = free[l][j] => k = l /\ i = j
    /\ \A t \in Threads : mine[t] \notin FreeStreams
    /\ \A t, u \in Threads : mine[t] = mine[u] /\ mine[t] # NoStream => t = u

(* The platform's streams are the ones at some place.                      *)
StreamInv == \A s \in Streams : s \in streams <=> s \in FreeStreams \/ \E t \in Threads : mine[t] = s

(* A kernel runs on a stream whose thread waits for it.                    *)
BusyInv == \A s \in busy : \E t \in Threads : mine[t] = s /\ pc[t] = "sync"

EndInv == destroyed => ~registered /\ streams = {} /\ \A t \in Threads : pc[t] = "idle"

IInv == Types /\ HandInv /\ PlaceInv /\ StreamInv /\ BusyInv /\ EndInv

-----------------------------------------------------------------------------
(* Who is free, place by place.                                            *)
LEMMA FreePlace ==
  \A s : s \in FreeStreams <=> \E k \in Classes : \E i \in DOMAIN free[k] : free[k][i] = s
BY DEF FreeStreams

LEMMA FreeAreStreams == Types => FreeStreams \subseteq Streams
BY FreePlace DEF Types

LEMMA NoStreamIsNone == NoStream \notin Streams
BY MicroKernelAssumption DEF Streams

LEMMA KlassType == \A s \in Streams : Klass(s) \in Classes
BY DEF Klass, Classes

LEMMA SpawnedType ==
  /\ Spawned \in [Classes -> Seq(Streams)]
  /\ \A k \in Classes : \A i \in DOMAIN Spawned[k] :
        Spawned[k][i] = IF k = "Compute" THEN i ELSE IF k = "Dma" THEN NCompute + i
                        ELSE NCompute + NDma + 1
  /\ DOMAIN Spawned["Compute"] = 1 .. NCompute
  /\ DOMAIN Spawned["Dma"] = 1 .. NDma
  /\ DOMAIN Spawned["Fence"] = {1}
<1> USE MicroKernelAssumption
<1>1. /\ Spawned["Compute"] = [i \in 1 .. NCompute |-> i]
      /\ Spawned["Dma"] = [i \in 1 .. NDma |-> NCompute + i]
      /\ Spawned["Fence"] = <<NCompute + NDma + 1>>
  BY DEF Spawned, Classes
<1>2. /\ Spawned["Compute"] \in Seq(Streams) /\ Spawned["Dma"] \in Seq(Streams)
      /\ Spawned["Fence"] \in Seq(Streams)
  <2>1. \A i \in 1 .. NCompute : i \in Streams
    BY DEF Streams
  <2>2. \A i \in 1 .. NDma : NCompute + i \in Streams
    BY DEF Streams
  <2>3. NCompute + NDma + 1 \in Streams
    BY DEF Streams
  <2>4. <<NCompute + NDma + 1>> \in Seq(Streams)
    BY <2>3
  <2>5. [i \in 1 .. NCompute |-> i] \in Seq(Streams)
    BY <2>1
  <2>6. [i \in 1 .. NDma |-> NCompute + i] \in Seq(Streams)
    BY <2>2
  <2> QED
    BY <1>1, <2>4, <2>5, <2>6
<1>3. Spawned \in [Classes -> Seq(Streams)]
  <2>1. \A k \in Classes : Spawned[k] \in Seq(Streams)
    BY <1>2 DEF Classes
  <2> DEFINE list(k) == CASE k = "Compute" -> [i \in 1 .. NCompute |-> i]
                          [] k = "Dma"     -> [i \in 1 .. NDma |-> NCompute + i]
                          [] k = "Fence"   -> <<NCompute + NDma + 1>>
  <2>2. Spawned = [k \in Classes |-> list(k)]
    BY DEF Spawned
  <2> HIDE DEF list
  <2>3. \A k \in Classes : list(k) \in Seq(Streams)
    BY <2>1, <2>2
  <2> QED
    BY <2>2, <2>3
<1>4. /\ DOMAIN Spawned["Compute"] = 1 .. NCompute
      /\ DOMAIN Spawned["Dma"] = 1 .. NDma
      /\ DOMAIN Spawned["Fence"] = {1} /\ Spawned["Fence"][1] = NCompute + NDma + 1
  BY <1>1
<1>5. /\ \A i \in 1 .. NCompute : Spawned["Compute"][i] = i
      /\ \A i \in 1 .. NDma : Spawned["Dma"][i] = NCompute + i
  BY <1>1
<1> QED
  BY <1>3, <1>4, <1>5 DEF Classes

LEMMA InitIInv == Init => IInv
<1> SUFFICES ASSUME Init PROVE IInv
  OBVIOUS
<1> USE MicroKernelAssumption
<1>1. Types
  <2>1. free \in [Classes -> Seq(Streams)]
    BY SpawnedType DEF Init
  <2>2. 0 \in 0 .. MaxSubmits
    OBVIOUS
  <2> QED
    BY <2>1, <2>2 DEF Init, Types, Statuses
<1>2. \A s \in Streams : s \in FreeStreams
  <2> SUFFICES ASSUME NEW s \in Streams PROVE \E k \in Classes : \E i \in DOMAIN free[k] : free[k][i] = s
    BY FreePlace
  <2>1. CASE s <= NCompute
    <3>1. s \in 1 .. NCompute
      BY <2>1 DEF Streams
    <3> QED
      BY <3>1, SpawnedType DEF Init, Classes
  <2>2. CASE s > NCompute /\ s <= NCompute + NDma
    <3>1. s - NCompute \in 1 .. NDma /\ NCompute + (s - NCompute) = s
      BY <2>2 DEF Streams
    <3> QED
      BY <3>1, SpawnedType DEF Init, Classes
  <2>3. CASE s = NCompute + NDma + 1
    BY <2>3, SpawnedType DEF Init, Classes
  <2> QED
    BY <2>1, <2>2, <2>3 DEF Streams
<1>3. PlaceInv
  <2>1. \A k, l \in Classes : \A i \in DOMAIN free[k], j \in DOMAIN free[l] :
          free[k][i] = free[l][j] => k = l /\ i = j
    BY SpawnedType DEF Init, Classes
  <2>2. NoStream \notin FreeStreams
    BY <1>1, FreeAreStreams, NoStreamIsNone
  <2> QED
    BY <2>1, <2>2 DEF Init, PlaceInv
<1> QED
  BY <1>1, <1>2, <1>3 DEF Init, IInv, HandInv, StreamInv, BusyInv, EndInv

-----------------------------------------------------------------------------
(* acquire_stream takes the last stream of a list out of the pool ...      *)
LEMMA Popped ==
  ASSUME IInv, NEW k \in Classes, free[k] # << >>,
         free' = [free EXCEPT ![k] = SubSeq(@, 1, Len(@) - 1)]
  PROVE  /\ free' \in [Classes -> Seq(Streams)]
         /\ \A l \in Classes : \A i \in DOMAIN free'[l] : i \in DOMAIN free[l] /\ free'[l][i] = free[l][i]
         /\ free[k][Len(free[k])] \in FreeStreams
         /\ FreeStreams' = FreeStreams \ {free[k][Len(free[k])]}
<1> DEFINE n == Len(free[k])
<1>1. /\ free \in [Classes -> Seq(Streams)] /\ free[k] \in Seq(Streams)
      /\ n \in Nat \ {0} /\ DOMAIN free[k] = 1 .. n
  BY DEF IInv, Types
<1>2. /\ free'[k] = SubSeq(free[k], 1, n - 1)
      /\ \A l \in Classes : l # k => free'[l] = free[l]
  BY <1>1
<1>3. /\ SubSeq(free[k], 1, n - 1) \in Seq(Streams)
      /\ DOMAIN SubSeq(free[k], 1, n - 1) = 1 .. n - 1
      /\ \A i \in 1 .. n - 1 : SubSeq(free[k], 1, n - 1)[i] = free[k][i]
  BY <1>1
<1>4. free' \in [Classes -> Seq(Streams)]
  BY <1>1, <1>3
<1>5. DOMAIN free'[k] = DOMAIN free[k] \ {n} /\ n \in DOMAIN free[k]
  BY <1>1, <1>2, <1>3
<1>6. \A l \in Classes : \A i \in DOMAIN free'[l] : i \in DOMAIN free[l] /\ free'[l][i] = free[l][i]
  BY <1>1, <1>2, <1>3, <1>5
<1>7. free[k][n] \in FreeStreams
  BY <1>5, FreePlace
<1>8. \A s : s \in FreeStreams' <=> \E l \in Classes : \E i \in DOMAIN free'[l] : free'[l][i] = s
  BY DEF FreeStreams
<1>9. \A l, m \in Classes : \A i \in DOMAIN free[l], j \in DOMAIN free[m] :
          free[l][i] = free[m][j] => l = m /\ i = j
  BY DEF IInv, PlaceInv
<1>10. free[k][n] \notin FreeStreams'
  BY <1>5, <1>6, <1>8, <1>9
<1>11. \A s : s \in FreeStreams' => s \in FreeStreams
  BY <1>6, <1>8, FreePlace
<1>12. \A s : s \in FreeStreams /\ s # free[k][n] => s \in FreeStreams'
  <2> SUFFICES ASSUME NEW s, s \in FreeStreams, s # free[k][n] PROVE s \in FreeStreams'
    OBVIOUS
  <2>1. PICK l \in Classes : \E i \in DOMAIN free[l] : free[l][i] = s
    BY FreePlace
  <2>2. PICK i \in DOMAIN free[l] : free[l][i] = s
    BY <2>1
  <2>3. i \in DOMAIN free'[l]
    BY <1>2, <1>5, <2>2
  <2> QED
    BY <1>6, <1>8, <2>2, <2>3
<1> QED
  BY <1>4, <1>6, <1>7, <1>10, <1>11, <1>12

(* ... and release_stream appends it to the list of its class.             *)
LEMMA Pushed ==
  ASSUME IInv, NEW s \in Streams, s \notin FreeStreams,
         free' = [free EXCEPT ![Klass(s)] = Append(@, s)]
  PROVE  /\ free' \in [Classes -> Seq(Streams)]
         /\ FreeStreams' = FreeStreams \cup {s}
         /\ \A k, l \in Classes : \A i \in DOMAIN free'[k], j \in DOMAIN free'[l] :
               free'[k][i] = free'[l][j] => k = l /\ i = j
<1> DEFINE c == Klass(s)
           n == Len(free[c]) + 1
<1>1. /\ c \in Classes /\ free \in [Classes -> Seq(Streams)] /\ free[c] \in Seq(Streams)
      /\ n \in Nat /\ DOMAIN free[c] = 1 .. n - 1
  BY KlassType DEF IInv, Types
<1>2. /\ free'[c] = Append(free[c], s)
      /\ \A l \in Classes : l # c => free'[l] = free[l]
  BY <1>1
<1>3. /\ Append(free[c], s) \in Seq(Streams)
      /\ DOMAIN Append(free[c], s) = 1 .. n
      /\ \A i \in 1 .. n - 1 : Append(free[c], s)[i] = free[c][i]
      /\ Append(free[c], s)[n] = s
  BY <1>1
<1>4. free' \in [Classes -> Seq(Streams)]
  BY <1>1, <1>3
<1>5. DOMAIN free'[c] = DOMAIN free[c] \cup {n} /\ n \notin DOMAIN free[c] /\ free'[c][n] = s
  BY <1>1, <1>2, <1>3
<1>6. \A l \in Classes : \A i \in DOMAIN free[l] : i \in DOMAIN free'[l] /\ free'[l][i] = free[l][i]
  BY <1>1, <1>2, <1>3, <1>5
<1>7. \A l \in Classes : \A i \in DOMAIN free'[l] : i \in DOMAIN free[l] \/ (l = c /\ i = n)
  BY <1>2, <1>5
<1>8. \A r : r \in FreeStreams' <=> \E l \in Classes : \E i \in DOMAIN free'[l] : free'[l][i] = r
  BY DEF FreeStreams
<1>9. FreeStreams' = FreeStreams \cup {s}
  <2>1. \A r : r \in FreeStreams' => r \in FreeStreams \/ r = s
    BY <1>5, <1>6, <1>7, <1>8, FreePlace
  <2>2. \A r : r \in FreeStreams => r \in FreeStreams'
    BY <1>6, <1>8, FreePlace
  <2>3. s \in FreeStreams'
    BY <1>1, <1>5, <1>8
  <2> QED
    BY <2>1, <2>2, <2>3
<1>10. \A l \in Classes : \A i \in DOMAIN free[l] : free[l][i] # s
  BY FreePlace
<1>11. ASSUME NEW k \in Classes, NEW l \in Classes, NEW i \in DOMAIN free'[k], NEW j \in DOMAIN free'[l],
              free'[k][i] = free'[l][j]
       PROVE  k = l /\ i = j
  <2>1. CASE i \in DOMAIN free[k] /\ j \in DOMAIN free[l]
    BY <1>6, <1>11, <2>1 DEF IInv, PlaceInv
  <2>2. CASE ~(i \in DOMAIN free[k] /\ j \in DOMAIN free[l])
    BY <1>5, <1>6, <1>7, <1>10, <1>11, <2>2
  <2> QED
    BY <2>1, <2>2
<1> QED
  BY <1>4, <1>9, <1>11

(* drain_streams leaves nothing free.                                      *)
LEMMA DrainEmpties ==
  ASSUME IInv, Drained
  PROVE  /\ free' \in [Classes -> Seq(Streams)] /\ FreeStreams' = {}
         /\ streams' = streams \ FreeStreams /\ modules' = FALSE
         /\ \A k \in Classes : DOMAIN free'[k] = {}
<1>1. free' = [k \in Classes |-> << >>]
  BY DEF Drained
<1>2. \A k \in Classes : free'[k] = << >> /\ DOMAIN free'[k] = {}
  BY <1>1
<1>3. \A s : s \in FreeStreams' <=> \E k \in Classes : \E i \in DOMAIN free'[k] : free'[k][i] = s
  BY DEF FreeStreams
<1> QED
  BY <1>1, <1>2, <1>3 DEF Drained

-----------------------------------------------------------------------------
(* The steps that move no stream and start or end no kernel.               *)
LEMMA StillKeeps ==
  ASSUME IInv, NEW t \in Threads, Types',
         UNCHANGED <<free, streams, mine, busy>>,
         \A u \in Threads \ {t} : pc'[u] = pc[u],
         pc[t] # "sync" \/ mine[t] \notin busy,
         pc[t] \in {"find", "launch", "sync", "release"} <=> pc'[t] \in {"find", "launch", "sync", "release"},
         destroyed' = destroyed, destroyed => ~registered',
         destroyed => pc'[t] = "idle"
  PROVE  IInv'
<1>1. FreeStreams' = FreeStreams
  BY DEF FreeStreams
<1>2. HandInv'
  BY DEF IInv, HandInv
<1>3. PlaceInv'
  BY <1>1 DEF IInv, PlaceInv
<1>4. StreamInv'
  BY <1>1 DEF IInv, StreamInv
<1>5. BusyInv'
  <2> SUFFICES ASSUME NEW s \in busy PROVE \E u \in Threads : mine[u] = s /\ pc'[u] = "sync"
    BY DEF BusyInv
  <2>1. PICK u \in Threads : mine[u] = s /\ pc[u] = "sync"
    BY DEF IInv, BusyInv
  <2> QED
    BY <2>1
<1>6. EndInv'
  BY DEF IInv, EndInv
<1> QED
  BY <1>2, <1>3, <1>4, <1>5, <1>6 DEF IInv

LEMMA AcquireKeeps ==
  ASSUME IInv, NEW t \in Threads, NEW k \in Classes \cup {"Control"}, Acquire(t, k) PROVE IInv'
<1> USE DEF Goto, SubmitSteps, ShutdownSteps
<1>1. pc[t] = "acquire" /\ UNCHANGED <<registered, destroyed, modules, streams, busy, submits>>
  BY DEF Acquire
<1>2. CASE k = "Control" \/ free[k] = << >>
  <2>1. /\ pc' = [pc EXCEPT ![t] = "drop"] /\ UNCHANGED <<free, mine>>
        /\ status' = [status EXCEPT ![t] = "OutOfMemory"]
    BY <1>2 DEF Acquire
  <2>2. Types' /\ pc'[t] = "drop"
    BY <1>1, <2>1 DEF IInv, Types, Statuses
  <2> QED
    BY <1>1, <2>1, <2>2, StillKeeps DEF IInv, Types, EndInv
<1>3. CASE ~(k = "Control" \/ free[k] = << >>)
  <2> DEFINE s == free[k][Len(free[k])]
  <2>1. /\ pc' = [pc EXCEPT ![t] = "find"] /\ mine' = [mine EXCEPT ![t] = s]
        /\ free' = [free EXCEPT ![k] = SubSeq(@, 1, Len(@) - 1)] /\ UNCHANGED status
    BY <1>3 DEF Acquire
  <2>2. /\ free' \in [Classes -> Seq(Streams)] /\ FreeStreams' = FreeStreams \ {s} /\ s \in FreeStreams
        /\ \A l \in Classes : \A i \in DOMAIN free'[l] : i \in DOMAIN free[l] /\ free'[l][i] = free[l][i]
    BY <1>3, <2>1, Popped
  <2>3. s \in Streams /\ s # NoStream
    BY <2>2, FreeAreStreams, NoStreamIsNone DEF IInv
  <2> HIDE DEF s
  <2>4. Types'
    BY <1>1, <2>1, <2>2, <2>3 DEF IInv, Types
  <2>5. /\ mine[t] = NoStream /\ mine'[t] = s /\ pc'[t] = "find"
        /\ \A u \in Threads \ {t} : mine'[u] = mine[u] /\ pc'[u] = pc[u]
    BY <1>1, <2>1 DEF IInv, Types, HandInv
  <2>6. HandInv'
    BY <2>3, <2>5 DEF IInv, HandInv
  <2>7. PlaceInv'
    <3>1. \A l, m \in Classes : \A i \in DOMAIN free'[l], j \in DOMAIN free'[m] :
              free'[l][i] = free'[m][j] => l = m /\ i = j
      BY <2>2 DEF IInv, PlaceInv
    <3>2. \A u \in Threads : mine'[u] \notin FreeStreams'
      BY <2>2, <2>5 DEF IInv, PlaceInv
    <3>3. \A u \in Threads : mine[u] # s
      BY <2>2 DEF IInv, PlaceInv
    <3> QED
      BY <2>5, <3>1, <3>2, <3>3 DEF IInv, PlaceInv
  <2>8. StreamInv'
    <3>1. ASSUME NEW r \in Streams
          PROVE  r \in streams' <=> r \in FreeStreams' \/ \E u \in Threads : mine'[u] = r
      <4>1. CASE r = s
        BY <1>1, <2>2, <2>5, <4>1, <3>1 DEF IInv, StreamInv
      <4>2. CASE r # s
        <5>1. r # NoStream
          BY <3>1, NoStreamIsNone
        <5>2. r \in FreeStreams' <=> r \in FreeStreams
          BY <2>2, <4>2
        <5>3. ASSUME NEW u \in Threads PROVE mine'[u] = r <=> mine[u] = r
          BY <2>5, <4>2, <5>1
        <5> QED
          BY <1>1, <3>1, <5>2, <5>3 DEF IInv, StreamInv
      <4> QED
        BY <4>1, <4>2
    <3> QED
      BY <3>1 DEF StreamInv
  <2>9. BusyInv'
    BY <1>1, <2>5 DEF IInv, BusyInv
  <2>10. EndInv'
    BY <1>1 DEF IInv, EndInv
  <2> QED
    BY <2>4, <2>6, <2>7, <2>8, <2>9, <2>10 DEF IInv
<1> QED
  BY <1>2, <1>3

LEMMA ReleaseKeeps == ASSUME IInv, NEW t \in Threads, Release(t) PROVE IInv'
<1> USE DEF Goto, SubmitSteps, ShutdownSteps
<1> DEFINE s == mine[t]
<1>1. /\ pc[t] = "release" /\ pc' = [pc EXCEPT ![t] = "drop"]
      /\ free' = [free EXCEPT ![Klass(s)] = Append(@, s)]
      /\ mine' = [mine EXCEPT ![t] = NoStream]
      /\ UNCHANGED <<registered, destroyed, modules, streams, busy, status, submits>>
  BY DEF Release
<1>2. s \in Streams /\ s # NoStream /\ s \notin FreeStreams
  BY <1>1 DEF IInv, Types, HandInv, PlaceInv
<1>3. /\ free' \in [Classes -> Seq(Streams)] /\ FreeStreams' = FreeStreams \cup {s}
      /\ \A k, l \in Classes : \A i \in DOMAIN free'[k], j \in DOMAIN free'[l] :
             free'[k][i] = free'[l][j] => k = l /\ i = j
  BY <1>1, <1>2, Pushed
<1>4. Types'
  BY <1>1, <1>3 DEF IInv, Types
<1>5. /\ mine'[t] = NoStream /\ pc'[t] = "drop"
      /\ \A u \in Threads \ {t} : mine'[u] = mine[u] /\ pc'[u] = pc[u] /\ mine[u] # s
  BY <1>1, <1>2 DEF IInv, Types, PlaceInv
<1>6. HandInv'
  BY <1>5 DEF IInv, HandInv
<1>7. PlaceInv'
  <2>1. NoStream \notin FreeStreams'
    BY <1>2, <1>3, FreeAreStreams, NoStreamIsNone DEF IInv
  <2>2. \A u \in Threads : mine'[u] \notin FreeStreams'
    BY <1>3, <1>5, <2>1 DEF IInv, PlaceInv
  <2> QED
    BY <1>3, <1>5, <2>2 DEF IInv, PlaceInv
<1>8. StreamInv'
  <2>1. ASSUME NEW r \in Streams
        PROVE  r \in streams' <=> r \in FreeStreams' \/ \E u \in Threads : mine'[u] = r
    <3>1. CASE r = s
      <4>1. s \in streams
        BY <1>2 DEF IInv, StreamInv
      <4> QED
        BY <1>1, <1>3, <3>1, <4>1
    <3>2. CASE r # s
      BY <1>1, <1>2, <1>3, <1>5, <2>1, <3>2, NoStreamIsNone DEF IInv, StreamInv
    <3> QED
      BY <3>1, <3>2
  <2> QED
    BY <2>1 DEF StreamInv
<1>9. BusyInv'
  <2> SUFFICES ASSUME NEW r \in busy PROVE \E u \in Threads : mine'[u] = r /\ pc'[u] = "sync"
    BY <1>1 DEF BusyInv
  <2>1. PICK u \in Threads : mine[u] = r /\ pc[u] = "sync"
    BY DEF IInv, BusyInv
  <2> QED
    BY <1>1, <1>5, <2>1
<1>10. EndInv'
  BY <1>1 DEF IInv, EndInv
<1> QED
  BY <1>4, <1>6, <1>7, <1>8, <1>9, <1>10 DEF IInv

(* A kernel starts on the stream of the thread that launches it.           *)
LEMMA LaunchKeeps == ASSUME IInv, NEW t \in Threads, Launch(t) PROVE IInv'
<1> USE DEF Goto, SubmitSteps, ShutdownSteps
<1>1. pc[t] = "launch" /\ UNCHANGED <<registered, destroyed, free, modules, streams, mine, submits>>
  BY DEF Launch
<1>2. CASE pc' = [pc EXCEPT ![t] = "release"] /\ UNCHANGED busy
           /\ \E s \in Refusals : status' = [status EXCEPT ![t] = s]
  <2>1. Types' /\ pc'[t] = "release"
    BY <1>1, <1>2 DEF IInv, Types, Refusals, Statuses
  <2> QED
    BY <1>1, <1>2, <2>1, StillKeeps DEF IInv, Types, EndInv
<1>3. CASE pc' = [pc EXCEPT ![t] = "sync"] /\ busy' = busy \cup {mine[t]} /\ UNCHANGED status
  <2>1. mine[t] \in Streams
    BY <1>1 DEF IInv, Types, HandInv
  <2>2. Types' /\ pc'[t] = "sync" /\ \A u \in Threads \ {t} : pc'[u] = pc[u]
    BY <1>1, <1>3, <2>1 DEF IInv, Types
  <2>3. FreeStreams' = FreeStreams
    BY <1>1 DEF FreeStreams
  <2>4. HandInv' /\ PlaceInv' /\ StreamInv'
    BY <1>1, <2>2, <2>3 DEF IInv, HandInv, PlaceInv, StreamInv
  <2>5. BusyInv'
    <3> SUFFICES ASSUME NEW s \in busy' PROVE \E u \in Threads : mine[u] = s /\ pc'[u] = "sync"
      BY <1>1 DEF BusyInv
    <3>1. CASE s = mine[t]
      BY <2>2, <3>1
    <3>2. CASE s \in busy
      <4>1. PICK u \in Threads : mine[u] = s /\ pc[u] = "sync"
        BY <3>2 DEF IInv, BusyInv
      <4> QED
        BY <1>1, <2>2, <4>1
    <3> QED
      BY <1>3, <3>1, <3>2
  <2>6. EndInv'
    BY <1>1 DEF IInv, EndInv
  <2> QED
    BY <2>2, <2>4, <2>5, <2>6 DEF IInv
<1> QED
  BY <1>2, <1>3 DEF Launch

LEMMA CompleteKeeps == ASSUME IInv, NEW s \in Streams, Complete(s) PROVE IInv'
<1>1. /\ busy' = busy \ {s}
      /\ UNCHANGED <<registered, destroyed, free, modules, streams, pc, mine, status, submits>>
  BY DEF Complete
<1>2. FreeStreams' = FreeStreams
  BY <1>1 DEF FreeStreams
<1> QED
  BY <1>1, <1>2 DEF IInv, Types, HandInv, PlaceInv, StreamInv, BusyInv, EndInv

(* drain_streams, in shutdown or in the destructor.                        *)
LEMMA DrainKeeps ==
  ASSUME IInv, NEW t \in Threads, Drained, UNCHANGED <<registered, busy, mine, submits>>,
         status' \in [Threads -> Statuses], destroyed' \in BOOLEAN,
         pc[t] \notin {"find", "launch", "sync", "release"},
         NEW to \in {"idle", "teardown"}, pc' = [pc EXCEPT ![t] = to], EndInv'
  PROVE  IInv'
<1>1. /\ free' \in [Classes -> Seq(Streams)] /\ FreeStreams' = {}
      /\ streams' = streams \ FreeStreams /\ modules' = FALSE
      /\ \A k \in Classes : DOMAIN free'[k] = {}
  BY DrainEmpties
<1>2. Types' /\ pc'[t] = to /\ \A u \in Threads \ {t} : pc'[u] = pc[u]
  BY <1>1 DEF IInv, Types, SubmitSteps, ShutdownSteps
<1>3. HandInv'
  BY <1>2 DEF IInv, HandInv
<1>4. PlaceInv'
  BY <1>1 DEF IInv, PlaceInv
<1>5. StreamInv'
  BY <1>1 DEF IInv, StreamInv, PlaceInv
<1>6. BusyInv'
  <2> SUFFICES ASSUME NEW s \in busy PROVE \E u \in Threads : mine[u] = s /\ pc'[u] = "sync"
    BY DEF BusyInv
  <2>1. PICK u \in Threads : mine[u] = s /\ pc[u] = "sync"
    BY DEF IInv, BusyInv
  <2> QED
    BY <1>2, <2>1
<1> QED
  BY <1>2, <1>3, <1>4, <1>5, <1>6 DEF IInv

LEMMA DropKeeps == ASSUME IInv, NEW t \in Threads, Drop(t) PROVE IInv'
<1> USE DEF Goto, SubmitSteps, ShutdownSteps
<1>1. /\ pc[t] = "drop" /\ pc' = [pc EXCEPT ![t] = "idle"]
      /\ status' = [status EXCEPT ![t] = "Ok"]
      /\ UNCHANGED <<registered, busy, mine, submits>>
      /\ ~destroyed
  BY DEF Drop, IInv, EndInv
<1>2. CASE LastRef(t)
  <2>1. Drained /\ destroyed' = TRUE /\ ~registered
    BY <1>2 DEF Drop, LastRef
  <2>2. \A u \in Threads : pc'[u] = "idle"
    BY <1>1, <1>2 DEF LastRef, IInv, Types
  <2>3. \A u \in Threads : mine[u] = NoStream
    BY <1>1, <1>2 DEF LastRef, IInv, HandInv
  <2>4. streams' = {}
    <3>1. streams \subseteq FreeStreams
      BY <2>3, NoStreamIsNone DEF IInv, Types, StreamInv
    <3> QED
      BY <2>1, <3>1, DrainEmpties
  <2>5. EndInv'
    BY <1>1, <2>1, <2>2, <2>4 DEF EndInv
  <2>6. status' \in [Threads -> Statuses]
    BY <1>1 DEF IInv, Types, Statuses
  <2> QED
    BY <1>1, <2>1, <2>5, <2>6, DrainKeeps
<1>3. CASE ~LastRef(t)
  <2>1. UNCHANGED <<free, modules, streams, destroyed>>
    BY <1>3 DEF Drop
  <2>2. Types' /\ pc'[t] = "idle"
    BY <1>1, <2>1 DEF IInv, Types, Statuses
  <2> QED
    BY <1>1, <2>1, <2>2, StillKeeps DEF IInv, Types
<1> QED
  BY <1>2, <1>3

LEMMA NextIInv == IInv /\ [Next]_vars => IInv'
<1> SUFFICES ASSUME IInv, [Next]_vars PROVE IInv'
  OBVIOUS
<1> USE DEF Goto
<1>1. ASSUME NEW t \in Threads, Submit(t) PROVE IInv'
  <2>1. Types'
    BY <1>1, MicroKernelAssumption DEF Submit, IInv, Types, SubmitSteps, ShutdownSteps
  <2> QED
    BY <1>1, <2>1, StillKeeps DEF Submit, IInv, Types, EndInv
<1>2. ASSUME NEW t \in Threads, LoadModule(t) \/ Barrier(t) \/ TakeHandle(t) PROVE IInv'
  <2>1. Types'
    BY <1>2 DEF LoadModule, Barrier, TakeHandle, IInv, Types, SubmitSteps, ShutdownSteps
  <2> QED
    BY <1>2, <2>1, StillKeeps DEF LoadModule, Barrier, TakeHandle, IInv, Types, EndInv
<1>3. ASSUME NEW t \in Threads, FindModule(t) \/ Sync(t) \/ SyncAll(t) \/ Teardown(t) PROVE IInv'
  <2>1. Types'
    BY <1>3 DEF FindModule, Sync, SyncAll, Teardown, IInv, Types, Statuses, SubmitSteps, ShutdownSteps
  <2> QED
    BY <1>3, <2>1, StillKeeps DEF FindModule, Sync, SyncAll, Teardown, Synced, IInv, Types, EndInv
<1>4. ASSUME NEW t \in Threads, Drain(t) PROVE IInv'
  <2>1. EndInv'
    BY <1>4 DEF Drain, IInv, EndInv
  <2> QED
    BY <1>4, <2>1, DrainKeeps DEF Drain, IInv, Types
<1>5. CASE UNCHANGED vars
  BY <1>5 DEF vars, IInv, Types, HandInv, PlaceInv, FreeStreams, StreamInv, BusyInv, EndInv
<1> QED
  BY <1>1, <1>2, <1>3, <1>4, <1>5, AcquireKeeps, LaunchKeeps, ReleaseKeeps, DropKeeps, CompleteKeeps
  DEF Next, Step

LEMMA Invariance == Spec => []IInv
BY InitIInv, NextIInv, PTL DEF Spec

LEMMA TypesAreOK == Types => TypeOK
BY DEF Types, TypeOK

(* The state stays in its types, and no list holds anything but the pool's *)
(* streams.                                                                *)
THEOREM TypeCorrect == Spec => []TypeOK
<1>1. IInv => TypeOK
  BY TypesAreOK DEF IInv
<1> QED
  BY <1>1, Invariance, PTL

(* Whoever lets the last reference go destroys a context nobody is in:     *)
(* whatever the shutdown met, no kernel runs and no stream is left.        *)
THEOREM DestroysWhenDone == Spec => []DestroyedIsDone
<1>1. IInv => DestroyedIsDone
  <2> SUFFICES ASSUME IInv, destroyed
               PROVE  streams = {} /\ busy = {} /\ \A t \in Threads : pc[t] = "idle"
    BY DEF DestroyedIsDone
  <2>1. streams = {} /\ \A t \in Threads : pc[t] = "idle"
    BY DEF IInv, EndInv
  <2>2. busy = {}
    BY <2>1 DEF IInv, BusyInv
  <2> QED
    BY <2>1, <2>2
<1> QED
  BY <1>1, Invariance, PTL

(* A list has no more places than the pool has streams.                    *)
LEMMA ListsFit ==
  ASSUME Types, PlaceInv, NEW k \in Classes, NEW i \in DOMAIN free[k]
  PROVE  i \in 1 .. Cardinality(Streams)
<1>1. free[k] \in Seq(Streams)
  BY DEF Types
<1>2. IsFiniteSet(Streams) /\ Cardinality(Streams) \in Nat
  BY MicroKernelAssumption, FS_Interval, FS_CardinalityType DEF Streams
<1>3. free[k] \in [1 .. Len(free[k]) -> Streams] /\ Len(free[k]) \in Nat
  BY <1>1
<1>4. \A a, b \in 1 .. Len(free[k]) : free[k][a] = free[k][b] => a = b
  BY <1>3 DEF PlaceInv
<1>5. free[k] \in Injection(1 .. Len(free[k]), Streams)
  BY <1>3, <1>4 DEF Injection, IsInjective
<1>6. Cardinality(1 .. Len(free[k])) <= Cardinality(Streams)
  BY <1>2, <1>5, FS_Injection
<1>7. Cardinality(1 .. Len(free[k])) = Len(free[k])
  <2> DEFINE n == Len(free[k])
  <2>1. n \in Nat
    BY <1>3
  <2> HIDE DEF n
  <2>2. Cardinality(1 .. n) = IF 1 > n THEN 0 ELSE n - 1 + 1
    BY <2>1, FS_Interval
  <2>3. Cardinality(1 .. n) = n
    BY <2>1, <2>2
  <2> QED
    BY <2>3 DEF n
<1> QED
  BY <1>2, <1>3, <1>6, <1>7

LEMMA CountsOwner ==
  ASSUME IInv, NEW s \in Streams
  PROVE  FreeCount(s) + UserCount(s) = IF s \in streams THEN 1 ELSE 0
<1> DEFINE F == {ki \in Classes \X (1 .. Cardinality(Streams)) :
                   ki[2] \in DOMAIN free[ki[1]] /\ free[ki[1]][ki[2]] = s}
           U == {t \in Threads : mine[t] = s}
<1>1. FreeCount(s) = Cardinality(F) /\ UserCount(s) = Cardinality(U)
  BY DEF FreeCount, UserCount
<1>2. s # NoStream
  BY NoStreamIsNone
<1>3. CASE s \in FreeStreams
  <2>1. PICK k \in Classes : \E i \in DOMAIN free[k] : free[k][i] = s
    BY <1>3, FreePlace
  <2>2. PICK i \in DOMAIN free[k] : free[k][i] = s
    BY <2>1
  <2>3. F = {<<k, i>>}
    <3>1. <<k, i>> \in F
      BY <2>2, ListsFit DEF IInv
    <3>2. ASSUME NEW ki \in F PROVE ki = <<k, i>>
      BY <2>2, <3>2 DEF IInv, PlaceInv
    <3> QED
      BY <3>1, <3>2
  <2>4. U = {}
    BY <1>3 DEF IInv, PlaceInv
  <2>5. Cardinality(F) = 1 /\ Cardinality(U) = 0
    BY <2>3, <2>4, FS_Singleton, FS_EmptySet
  <2> QED
    BY <1>1, <1>3, <2>5 DEF IInv, StreamInv
<1>4. CASE s \notin FreeStreams
  <2>1. F = {}
    BY <1>4, FreePlace
  <2>2. Cardinality(F) = 0
    BY <2>1, FS_EmptySet
  <2>3. CASE \E t \in Threads : mine[t] = s
    <3>1. PICK t \in Threads : mine[t] = s
      BY <2>3
    <3>2. U = {t}
      BY <1>2, <3>1 DEF IInv, PlaceInv
    <3>3. Cardinality(U) = 1
      BY <3>2, FS_Singleton
    <3> QED
      BY <1>1, <2>2, <2>3, <3>3 DEF IInv, StreamInv
  <2>4. CASE ~\E t \in Threads : mine[t] = s
    <3>1. Cardinality(U) = 0
      BY <2>4, FS_EmptySet
    <3> QED
      BY <1>1, <1>4, <2>2, <2>4, <3>1 DEF IInv, StreamInv
  <2> QED
    BY <2>3, <2>4
<1> QED
  BY <1>3, <1>4

(* Each stream has one owner, the pool or a thread, and the pool's streams *)
(* have no work on them: for pools of any size and any number of threads.  *)
THEOREM OwnedOnce == Spec => []OneOwner
<1>1. IInv => OneOwner
  <2> SUFFICES ASSUME IInv PROVE OneOwner
    OBVIOUS
  <2>1. FreeStreams \cap busy = {}
    BY DEF IInv, BusyInv, PlaceInv
  <2> QED
    BY <2>1, CountsOwner DEF OneOwner
<1> QED
  BY <1>1, Invariance, PTL
=============================================================================
