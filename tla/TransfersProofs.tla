-------------------------- MODULE TransfersProofs --------------------------
(***************************************************************************)
(* Theorems about Transfers, for any file, chunks, sizes and threads.      *)
(*                                                                         *)
(* The argument for the writes: gds_write is one chunk, so its offset in   *)
(* the request is 0 until the chunk is done; what Len(got) counts has been *)
(* given to the C library cell by cell, and a cell that was written, or    *)
(* lost at fclose, stays so.                                               *)
(*                                                                         *)
(* For the reads: a round starts at a multiple of the chunk and ends with  *)
(* the cells it has delivered behind those of the rounds before; what      *)
(* fails, fails between two cells or two rounds.                           *)
(***************************************************************************)
EXTENDS Transfers, SequenceTheorems, TLAPS

Places == {"idle", "loop", "host", "fetch", "open", "cells", "copy", "chunk", "free",
           "submitted", "waited"}

Types ==
    /\ file \in [Positions -> {0, 1}]
    /\ pc \in [Threads -> Places]
    /\ call \in [Threads -> [op : {"read", "stage", "write"}, offset : Nat, bytes : Nat,
                             chunk : Nat, off : Nat]]
    /\ got \in [Threads -> Seq([pos : Int, ver : {0, 1}])]
    /\ host \subseteq Threads /\ staging \subseteq Threads
    /\ status \in [Threads -> Statuses]
    /\ asked \subseteq Positions /\ lost \subseteq asked

(* Where a thread is says which buffers it may have.                       *)
BufferInv ==
    \A t \in Threads :
        /\ t \in host => pc[t] \in {"fetch", "open", "cells", "copy"}
        /\ t \in staging => /\ pc[t] \notin {"idle", "submitted", "waited"}
                            /\ call[t].op = "stage"

(* The first n cells of the range a call writes are written or lost.       *)
Written(t, n) ==
    \A p \in call[t].offset .. call[t].offset + n - 1 : file[p] = 1 \/ p \in lost

WriteInv(t) ==
    /\ call[t].chunk = call[t].bytes
    /\ call[t].offset .. call[t].offset + call[t].bytes - 1 \subseteq asked
    /\ pc[t] \in {"host", "fetch", "open"} => call[t].off = 0 /\ got[t] = << >>
    /\ pc[t] = "cells" => /\ call[t].off = 0 /\ Len(got[t]) <= call[t].bytes
                          /\ Written(t, Len(got[t]))
    /\ pc[t] = "chunk" => call[t].off = 0 /\ Written(t, call[t].bytes)
    /\ pc[t] = "loop" =>
          /\ got[t] = << >>
          /\ call[t].off = 0 \/ (call[t].off = call[t].bytes /\ Written(t, call[t].bytes))
    /\ pc[t] \in {"idle", "free", "submitted", "waited"} =>
          (status[t] = "Ok" => Written(t, call[t].bytes))
    /\ pc[t] # "copy"

IInv ==
    /\ Types /\ BufferInv
    /\ \A t \in Threads : pc[t] \in {"idle", "free", "submitted", "waited"} => got[t] = << >>
    /\ \A p \in Positions : file[p] = 1 => p \in asked
    /\ \A t \in Threads : call[t].op = "write" => WriteInv(t)

-----------------------------------------------------------------------------
LEMMA InitIInv == Init => IInv
<1> SUFFICES ASSUME Init PROVE IInv
  OBVIOUS
<1>1. Types
  BY TransfersAssumption DEF Init, Types, Places, Statuses, Nothing
<1>2. BufferInv
  BY DEF Init, BufferInv
<1>3. \A t \in Threads : call[t].op = "read" /\ got[t] = << >>
  BY DEF Init, Nothing
<1> QED
  BY <1>1, <1>2, <1>3 DEF Init, IInv

(* A thread that does nothing keeps its part, whatever the others write.   *)
LEMMA OthersKeep ==
  ASSUME IInv, NEW u \in Threads, call[u].op = "write",
         pc'[u] = pc[u], call'[u] = call[u], got'[u] = got[u], status'[u] = status[u],
         asked \subseteq asked', lost \subseteq lost',
         \A p \in Positions : file[p] = 1 => file'[p] = 1
  PROVE  WriteInv(u)'
<1>1. WriteInv(u) /\ asked \subseteq Positions
  BY DEF IInv, Types
<1>2. /\ call[u].offset \in Nat /\ call[u].bytes \in Nat /\ Len(got[u]) \in Nat
  BY DEF IInv, Types
<1>3. \A n \in Nat : n <= call[u].bytes /\ Written(u, n) => Written(u, n)'
  <2> SUFFICES ASSUME NEW n \in Nat, n <= call[u].bytes, Written(u, n),
                      NEW p \in call[u].offset .. call[u].offset + n - 1
               PROVE  file'[p] = 1 \/ p \in lost'
    BY DEF Written
  <2>1. p \in call[u].offset .. call[u].offset + call[u].bytes - 1
    BY <1>2
  <2>2. p \in Positions
    BY <1>1, <2>1 DEF WriteInv
  <2> QED
    BY <2>2 DEF Written
<1>4. call[u].bytes <= call[u].bytes
  BY <1>2
<1> QED
  BY <1>1, <1>2, <1>3, <1>4 DEF WriteInv

(* So a step of one thread has its own part to keep.                       *)
LEMMA OwnPart ==
  ASSUME IInv, NEW t \in Threads, Types',
         \A u \in Threads \ {t} :
            /\ pc'[u] = pc[u] /\ call'[u] = call[u] /\ got'[u] = got[u] /\ status'[u] = status[u]
            /\ u \in host' => u \in host
            /\ u \in staging' => u \in staging,
         asked \subseteq asked', lost \subseteq lost',
         \A p \in Positions : file[p] = 1 => file'[p] = 1,
         \A p \in Positions : file'[p] = 1 => p \in asked',
         t \in host' => pc'[t] \in {"fetch", "open", "cells", "copy"},
         t \in staging' => pc'[t] \notin {"idle", "submitted", "waited"} /\ call'[t].op = "stage",
         pc'[t] \in {"idle", "free", "submitted", "waited"} => got'[t] = << >>,
         call'[t].op = "write" => WriteInv(t)'
  PROVE  IInv'
<1>1. BufferInv'
  <2> SUFFICES ASSUME NEW u \in Threads
               PROVE  /\ u \in host' => pc'[u] \in {"fetch", "open", "cells", "copy"}
                      /\ u \in staging' => /\ pc'[u] \notin {"idle", "submitted", "waited"}
                                           /\ call'[u].op = "stage"
    BY DEF BufferInv
  <2>1. CASE u = t
    BY <2>1
  <2>2. CASE u # t
    BY <2>2 DEF IInv, BufferInv
  <2> QED
    BY <2>1, <2>2
<1>2. \A u \in Threads : pc'[u] \in {"idle", "free", "submitted", "waited"} => got'[u] = << >>
  BY DEF IInv
<1>3. \A u \in Threads : call'[u].op = "write" => WriteInv(u)'
  <2> SUFFICES ASSUME NEW u \in Threads, call'[u].op = "write" PROVE WriteInv(u)'
    OBVIOUS
  <2>1. CASE u = t
    BY <2>1
  <2>2. CASE u # t
    BY <2>2, OthersKeep
  <2> QED
    BY <2>1, <2>2
<1> QED
  BY <1>1, <1>2, <1>3 DEF IInv

(* A call that returns: the buffers go, and a write that says Ok is        *)
(* written.                                                                *)
LEMMA EndKeeps ==
  ASSUME IInv, NEW t \in Threads, NEW s \in Statuses, End(t, s), t \notin host',
         host' \subseteq host, UNCHANGED <<file, call, staging, asked, lost>>,
         pc[t] \notin {"idle", "submitted", "waited"},
         call[t].op = "write" /\ s = "Ok" => Written(t, call[t].bytes)
  PROVE  IInv'
<1>1. /\ pc' = [pc EXCEPT ![t] = Unstage(t, s)] /\ status' = [status EXCEPT ![t] = s]
      /\ got' = [got EXCEPT ![t] = << >>]
  BY DEF End
<1>2. pc'[t] = Unstage(t, s) /\ status'[t] = s /\ got'[t] = << >>
  BY <1>1 DEF IInv, Types
<1>3. Types'
  BY <1>1 DEF IInv, Types, Unstage, Places
<1>4. t \in staging' => pc'[t] = "free" /\ call'[t].op = "stage"
  BY <1>2 DEF IInv, BufferInv, Unstage
<1>5. ASSUME call'[t].op = "write" PROVE WriteInv(t)'
  <2>1. WriteInv(t)
    BY <1>5 DEF IInv
  <2>2. pc'[t] \in {"idle", "free"}
    BY <1>2 DEF Unstage
  <2>3. s = "Ok" => Written(t, call[t].bytes)'
    BY <1>5 DEF Written
  <2> QED
    BY <1>2, <2>1, <2>2, <2>3 DEF WriteInv
<1> QED
  BY <1>1, <1>2, <1>3, <1>4, <1>5, OwnPart DEF IInv

(* The steps before a call's first cell.                                   *)
LEMMA BeginKeeps ==
  ASSUME IInv, NEW t \in Threads,
         \/ \E o \in Positions, n \in Sizes, c \in Chunks : Stream(t, o, n, c)
         \/ \E n \in Sizes : Stage(t, n)
         \/ \E o \in Positions, n \in Sizes : Write(t, o, n)
  PROVE  IInv'
<1> USE DEF Goto, Start
<1>1. t \notin host /\ t \notin staging /\ pc[t] = "idle" /\ got[t] = << >>
  BY DEF IInv, BufferInv, Stream, Stage, Write
<1>2. ASSUME NEW o \in Positions, NEW n \in Sizes, NEW c \in Chunks, Stream(t, o, n, c) PROVE IInv'
  <2>1. o \in Nat /\ n \in Nat /\ ChunkSize(c) \in Nat
    BY TransfersAssumption DEF ChunkSize, Positions
  <2>2. /\ pc' = [pc EXCEPT ![t] = "loop"]
        /\ call' = [call EXCEPT ![t] = [op |-> "read", offset |-> o, bytes |-> n,
                                        chunk |-> ChunkSize(c), off |-> 0]]
        /\ UNCHANGED <<file, got, host, staging, status, asked, lost>>
    BY <1>2 DEF Stream
  <2>3. Types'
    BY <2>1, <2>2 DEF IInv, Types, Places
  <2>4. pc'[t] = "loop" /\ call'[t].op = "read"
    BY <2>2 DEF IInv, Types
  <2> QED
    BY <1>1, <2>2, <2>3, <2>4, OwnPart DEF IInv
<1>3. ASSUME NEW n \in Sizes, Stage(t, n) PROVE IInv'
  <2>1. n \in Nat
    BY TransfersAssumption
  <2>2. /\ call' = [call EXCEPT ![t] = [op |-> "stage", offset |-> 0, bytes |-> n,
                                        chunk |-> n, off |-> 0]]
        /\ UNCHANGED <<file, got, host, asked, lost>>
        /\ \/ /\ pc' = [pc EXCEPT ![t] = "loop"] /\ staging' = staging \cup {t}
              /\ UNCHANGED status
           \/ /\ UNCHANGED <<pc, staging>> /\ status' = [status EXCEPT ![t] = "OutOfMemory"]
    BY <1>3 DEF Stage
  <2>3. Types'
    BY <2>1, <2>2 DEF IInv, Types, Places, Statuses
  <2>4. call'[t].op = "stage"
    BY <2>2 DEF IInv, Types
  <2>5. CASE pc' = [pc EXCEPT ![t] = "loop"] /\ staging' = staging \cup {t} /\ UNCHANGED status
    <3>1. pc'[t] = "loop"
      BY <2>5 DEF IInv, Types
    <3> QED
      BY <1>1, <2>2, <2>3, <2>4, <2>5, <3>1, OwnPart DEF IInv
  <2>6. CASE UNCHANGED <<pc, staging>> /\ status' = [status EXCEPT ![t] = "OutOfMemory"]
    BY <1>1, <2>2, <2>3, <2>4, <2>6, OwnPart DEF IInv
  <2> QED
    BY <2>2, <2>5, <2>6
<1>4. ASSUME NEW o \in Positions, NEW n \in Sizes, Write(t, o, n) PROVE IInv'
  <2>1. o \in Nat /\ n \in Nat /\ o + n <= FileLen
    BY <1>4, TransfersAssumption DEF Positions, Write
  <2>2. /\ pc' = [pc EXCEPT ![t] = "loop"]
        /\ call' = [call EXCEPT ![t] = [op |-> "write", offset |-> o, bytes |-> n,
                                        chunk |-> n, off |-> 0]]
        /\ asked' = asked \cup (o .. o + n - 1)
        /\ UNCHANGED <<file, got, host, staging, status, lost>>
    BY <1>4 DEF Write
  <2>3. o .. o + n - 1 \subseteq Positions
    BY <2>1, TransfersAssumption DEF Positions
  <2>4. Types'
    <3>1. /\ asked' \subseteq Positions /\ lost' \subseteq asked'
          /\ pc' \in [Threads -> Places]
      BY <2>2, <2>3 DEF IInv, Types, Places
    <3>2. call' \in [Threads -> [op : {"read", "stage", "write"}, offset : Nat, bytes : Nat,
                                 chunk : Nat, off : Nat]]
      BY <2>1, <2>2 DEF IInv, Types
    <3> QED
      BY <2>2, <3>1, <3>2 DEF IInv, Types
  <2>5. /\ pc'[t] = "loop" /\ got'[t] = << >>
        /\ call'[t] = [op |-> "write", offset |-> o, bytes |-> n, chunk |-> n, off |-> 0]
    BY <1>1, <2>2 DEF IInv, Types
  <2>6. WriteInv(t)'
    BY <2>2, <2>5 DEF WriteInv
  <2> QED
    BY <1>1, <2>2, <2>4, <2>5, <2>6, OwnPart DEF IInv
<1> QED
  BY <1>2, <1>3, <1>4

LEMMA LoopKeeps == ASSUME IInv, NEW t \in Threads, Loop(t) PROVE IInv'
<1>1. /\ pc[t] = "loop" /\ t \notin host
      /\ UNCHANGED <<file, call, host, staging, asked, lost>>
      /\ call[t].off \in Nat /\ call[t].bytes \in Nat
  BY DEF Loop, IInv, Types, BufferInv, aux
<1>2. CASE call[t].off >= call[t].bytes
  <2>1. End(t, "Ok")
    BY <1>2 DEF Loop
  <2>2. ASSUME call[t].op = "write" PROVE Written(t, call[t].bytes)
    <3>1. CASE call[t].off = call[t].bytes /\ Written(t, call[t].bytes)
      BY <3>1
    <3>2. CASE call[t].off = 0
      <4>1. call[t].bytes = 0 /\ call[t].offset \in Nat
        BY <1>1, <1>2, <3>2 DEF IInv, Types
      <4> QED
        BY <4>1 DEF Written
    <3> QED
      BY <1>1, <2>2, <3>1, <3>2 DEF IInv, WriteInv
  <2> QED
    BY <1>1, <2>1, <2>2, EndKeeps DEF Statuses
<1>3. CASE ~(call[t].off >= call[t].bytes)
  <2>1. /\ UNCHANGED <<got, status>>
        /\ pc' = [pc EXCEPT ![t] = IF vendor = "Nvidia" THEN "host" ELSE "open"]
    BY <1>3 DEF Loop, Goto
  <2>2. Types' /\ pc'[t] \in {"host", "open"}
    BY <1>1, <2>1 DEF IInv, Types, Places
  <2>3. call'[t].op = "write" => WriteInv(t)'
    BY <1>1, <1>3, <2>1, <2>2 DEF IInv, WriteInv
  <2> QED
    BY <1>1, <2>1, <2>2, <2>3, OwnPart DEF IInv, BufferInv
<1> QED
  BY <1>2, <1>3

LEMMA OpenKeeps ==
  ASSUME IInv, NEW t \in Threads, HostBuffer(t) \/ CopyToHost(t) \/ Open(t) PROVE IInv'
<1> USE DEF Goto
<1>1. /\ pc[t] \in {"host", "fetch", "open"}
      /\ UNCHANGED <<file, call, staging, asked, lost>>
  BY DEF HostBuffer, CopyToHost, Open, aux
<1>2. ASSUME NEW s \in Statuses \ {"Ok"}, End(t, s), t \notin host', host' \subseteq host PROVE IInv'
  BY <1>1, <1>2, EndKeeps
<1>3. ASSUME NEW to \in {"fetch", "open", "cells"}, pc' = [pc EXCEPT ![t] = to],
             host' \subseteq host \cup {t}, UNCHANGED <<got, status>>
      PROVE  IInv'
  <2>1. Types' /\ pc'[t] = to
    BY <1>1, <1>3 DEF IInv, Types, Places
  <2>2. ASSUME call'[t].op = "write" PROVE WriteInv(t)'
    <3>1. call[t].off = 0 /\ got[t] = << >> /\ WriteInv(t)
      BY <1>1, <2>2 DEF IInv, WriteInv
    <3>2. Len(got[t]) = 0 /\ call[t].bytes \in Nat /\ call[t].offset \in Nat
      BY <3>1 DEF IInv, Types
    <3>3. Written(t, 0)'
      BY <1>1, <3>2 DEF Written
    <3> QED
      BY <1>1, <1>3, <2>1, <3>1, <3>2, <3>3 DEF WriteInv
  <2> QED
    BY <1>1, <1>3, <2>1, <2>2, OwnPart DEF IInv, BufferInv
<1>4. CASE HostBuffer(t)
  <2>1. CASE End(t, "OutOfMemory") /\ UNCHANGED host
    BY <1>2, <1>4, <2>1 DEF HostBuffer, IInv, BufferInv, Statuses
  <2>2. CASE ~(End(t, "OutOfMemory") /\ UNCHANGED host)
    BY <1>3, <1>4, <2>2 DEF HostBuffer
  <2> QED
    BY <2>1, <2>2
<1>5. CASE CopyToHost(t)
  BY <1>2, <1>3, <1>5 DEF CopyToHost, Unhost, Statuses
<1>6. CASE Open(t)
  BY <1>2, <1>3, <1>6 DEF Open, Unhost, Statuses
<1> QED
  BY <1>4, <1>5, <1>6

-----------------------------------------------------------------------------
(* A cell read changes nothing a write is about.                           *)
LEMMA ReadCellKeeps == ASSUME IInv, NEW t \in Threads, ReadCell(t) PROVE IInv'
<1>1. /\ pc[t] = "cells" /\ call[t].op # "write" /\ At(t) \in Positions
      /\ got' = [got EXCEPT ![t] = Append(@, [pos |-> At(t), ver |-> file[At(t)]])]
      /\ UNCHANGED <<file, pc, call, host, staging, status, asked, lost>>
  BY DEF ReadCell, Reading, aux
<1>2. [pos |-> At(t), ver |-> file[At(t)]] \in [pos : Int, ver : {0, 1}]
  BY <1>1 DEF IInv, Types, Positions
<1>3. got' \in [Threads -> Seq([pos : Int, ver : {0, 1}])]
  BY <1>1, <1>2 DEF IInv, Types
<1>4. Types'
  BY <1>1, <1>3 DEF IInv, Types
<1> QED
  BY <1>1, <1>4, OwnPart DEF IInv, BufferInv, Types

(* A cell written adds to what the call has written.                       *)
LEMMA WriteCellKeeps == ASSUME IInv, NEW t \in Threads, WriteCell(t) PROVE IInv'
<1>1. /\ pc[t] = "cells" /\ call[t].op = "write" /\ Len(got[t]) < Size(t)
      /\ got' = [got EXCEPT ![t] = Append(@, [pos |-> At(t), ver |-> 1])]
      /\ \/ file' = [file EXCEPT ![At(t)] = 1] /\ UNCHANGED lost
         \/ lost' = lost \cup {At(t)} /\ UNCHANGED file
      /\ UNCHANGED <<pc, call, host, staging, status, asked>>
  BY DEF WriteCell, Reading, IInv, Types
<1>2. /\ WriteInv(t) /\ call[t].off = 0 /\ Written(t, Len(got[t]))
      /\ call[t].offset \in Nat /\ call[t].bytes \in Nat /\ Len(got[t]) \in Nat
      /\ call[t].chunk = call[t].bytes
  BY <1>1 DEF IInv, Types, WriteInv
<1>3. At(t) = call[t].offset + Len(got[t]) /\ Len(got[t]) < call[t].bytes
  BY <1>1, <1>2 DEF At, Size
<1>4. At(t) \in asked /\ At(t) \in Positions /\ At(t) \in Nat
  <2>1. At(t) \in call[t].offset .. call[t].offset + call[t].bytes - 1
    BY <1>2, <1>3
  <2> QED
    BY <1>2, <1>3, <2>1 DEF WriteInv, IInv, Types
<1>5. /\ got'[t] = Append(got[t], [pos |-> At(t), ver |-> 1])
      /\ Len(got'[t]) = Len(got[t]) + 1
      /\ got' \in [Threads -> Seq([pos : Int, ver : {0, 1}])]
  <2>1. [pos |-> At(t), ver |-> 1] \in [pos : Int, ver : {0, 1}]
    BY <1>4
  <2> QED
    BY <1>1, <2>1 DEF IInv, Types
<1>6. /\ file' \in [Positions -> {0, 1}] /\ lost' \subseteq asked' /\ lost \subseteq lost'
      /\ \A p \in Positions : file[p] = 1 => file'[p] = 1
      /\ \A p \in Positions : file'[p] = 1 => p \in asked'
      /\ file'[At(t)] = 1 \/ At(t) \in lost'
  BY <1>1, <1>4 DEF IInv, Types
<1>7. Types'
  BY <1>1, <1>5, <1>6 DEF IInv, Types
<1>8. \A p \in call'[t].offset .. call'[t].offset + Len(got'[t]) - 1 : file'[p] = 1 \/ p \in lost'
  <2> SUFFICES ASSUME NEW p \in call[t].offset .. call[t].offset + (Len(got[t]) + 1) - 1
               PROVE  file'[p] = 1 \/ p \in lost'
    BY <1>1, <1>5
  <2>1. CASE p = At(t)
    BY <1>6, <2>1
  <2>2. CASE p # At(t)
    <3>1. p \in call[t].offset .. call[t].offset + Len(got[t]) - 1
      BY <1>2, <1>3, <2>2
    <3>2. p \in call[t].offset .. call[t].offset + call[t].bytes - 1
      BY <1>2, <1>3, <3>1
    <3>3. p \in Positions
      BY <1>2, <3>2 DEF WriteInv, IInv, Types
    <3> QED
      BY <1>2, <1>6, <3>1, <3>3 DEF Written
  <2> QED
    BY <2>1, <2>2
<1>9. WriteInv(t)'
  <2>1. Len(got'[t]) <= call[t].bytes
    BY <1>2, <1>3, <1>5
  <2> QED
    BY <1>1, <1>2, <1>8, <2>1 DEF WriteInv, Written
<1> QED
  BY <1>1, <1>6, <1>7, <1>9, OwnPart DEF IInv, BufferInv

LEMMA EndCellsKeeps == ASSUME IInv, NEW t \in Threads, EndCells(t) PROVE IInv'
<1>1. pc[t] = "cells" /\ UNCHANGED <<file, call, staging, asked, lost>>
  BY DEF EndCells, aux
<1>2. CASE ~Whole(t)
  BY <1>1, <1>2, EndKeeps DEF EndCells, Unhost, Statuses
<1>3. CASE Whole(t) /\ vendor = "Nvidia" /\ Reading(t)
  <2>1. pc' = [pc EXCEPT ![t] = "copy"] /\ UNCHANGED <<host, got, status>> /\ call[t].op # "write"
    BY <1>3 DEF EndCells, Goto, Reading
  <2>2. Types' /\ pc'[t] = "copy"
    BY <1>1, <2>1 DEF IInv, Types, Places
  <2> QED
    BY <1>1, <2>1, <2>2, OwnPart DEF IInv, BufferInv
<1>4. CASE Whole(t) /\ ~(vendor = "Nvidia" /\ Reading(t))
  <2>1. /\ pc' = [pc EXCEPT ![t] = "chunk"] /\ host' = host \ {t} /\ UNCHANGED <<got, status>>
        /\ Len(got[t]) = Size(t)
    BY <1>4 DEF EndCells, Goto, Unhost, Whole
  <2>2. Types' /\ pc'[t] = "chunk"
    BY <1>1, <2>1 DEF IInv, Types, Places
  <2>3. ASSUME call'[t].op = "write" PROVE WriteInv(t)'
    <3>1. WriteInv(t) /\ call[t].bytes \in Nat /\ call[t].chunk = call[t].bytes /\ call[t].off = 0
      BY <1>1, <2>3 DEF IInv, Types, WriteInv
    <3>2. Len(got[t]) = call[t].bytes
      BY <2>1, <3>1 DEF Size
    <3>3. Written(t, call[t].bytes)'
      BY <1>1, <3>1, <3>2 DEF Written, WriteInv
    <3> QED
      BY <1>1, <2>1, <2>2, <3>1, <3>3 DEF WriteInv
  <2> QED
    BY <1>1, <2>1, <2>2, <2>3, OwnPart DEF IInv, BufferInv
<1> QED
  BY <1>2, <1>3, <1>4

LEMMA CopyToDeviceKeeps == ASSUME IInv, NEW t \in Threads, CopyToDevice(t) PROVE IInv'
<1>1. /\ pc[t] = "copy" /\ call[t].op # "write"
      /\ UNCHANGED <<file, call, staging, asked, lost>> /\ host' = host \ {t}
  BY DEF CopyToDevice, IInv, WriteInv, Unhost, aux
<1>2. CASE End(t, "DriverError")
  BY <1>1, <1>2, EndKeeps DEF Statuses
<1>3. CASE Goto(t, "copy", "chunk") /\ UNCHANGED <<got, status>>
  <2>1. Types' /\ pc'[t] = "chunk" /\ pc' = [pc EXCEPT ![t] = "chunk"]
    BY <1>1, <1>3 DEF IInv, Types, Places, Goto
  <2> QED
    BY <1>1, <1>3, <2>1, OwnPart DEF IInv, BufferInv
<1> QED
  BY <1>2, <1>3 DEF CopyToDevice

LEMMA EndChunkKeeps == ASSUME IInv, NEW t \in Threads, EndChunk(t) PROVE IInv'
<1>1. /\ pc[t] = "chunk" /\ pc' = [pc EXCEPT ![t] = "loop"]
      /\ call' = [call EXCEPT ![t].off = @ + call[t].chunk]
      /\ got' = [got EXCEPT ![t] = << >>]
      /\ UNCHANGED <<file, host, staging, status, asked, lost>>
  BY DEF EndChunk, Goto, aux
<1>2. /\ pc'[t] = "loop" /\ got'[t] = << >>
      /\ call'[t].op = call[t].op /\ call'[t].offset = call[t].offset
      /\ call'[t].bytes = call[t].bytes /\ call'[t].chunk = call[t].chunk
      /\ call'[t].off = call[t].off + call[t].chunk
  BY <1>1 DEF IInv, Types
<1>3. Types'
  <2>1. call[t].off + call[t].chunk \in Nat
    BY DEF IInv, Types
  <2>2. call' \in [Threads -> [op : {"read", "stage", "write"}, offset : Nat, bytes : Nat,
                               chunk : Nat, off : Nat]]
    BY <1>1, <2>1 DEF IInv, Types
  <2>3. got' \in [Threads -> Seq([pos : Int, ver : {0, 1}])]
    BY <1>1 DEF IInv, Types
  <2>4. pc' \in [Threads -> Places]
    BY <1>1 DEF IInv, Types, Places
  <2> QED
    BY <1>1, <2>2, <2>3, <2>4 DEF IInv, Types
<1>4. ASSUME call'[t].op = "write" PROVE WriteInv(t)'
  <2>1. /\ WriteInv(t) /\ call[t].off = 0 /\ Written(t, call[t].bytes)
        /\ call[t].bytes \in Nat /\ call[t].chunk = call[t].bytes
    BY <1>1, <1>2, <1>4 DEF IInv, Types, WriteInv
  <2>2. Written(t, call[t].bytes)'
    BY <1>1, <1>2, <2>1 DEF Written
  <2>3. call'[t].off = call'[t].bytes
    BY <1>2, <2>1
  <2> QED
    BY <1>1, <1>2, <2>1, <2>2, <2>3 DEF WriteInv
<1> QED
  BY <1>1, <1>2, <1>3, <1>4, OwnPart DEF IInv, BufferInv

(* What the buffers, the other entries of the engine and the device do.    *)
LEMMA QuietKeeps ==
  ASSUME IInv, NEW t \in Threads,
         FreeStaging(t) \/ Submit(t) \/ Wait(t) \/ UseCopy(t) \/ DeviceCopies(t)
  PROVE  IInv'
<1> USE DEF Goto, aux
<1>1. /\ UNCHANGED <<file, call, got, host, status, asked, lost>>
      /\ staging' \subseteq staging
      /\ \A u \in Threads \ {t} : pc'[u] = pc[u]
  BY DEF FreeStaging, Submit, Wait, UseCopy, DeviceCopies, IInv, Types
<1>2. Types'
  BY <1>1 DEF IInv, Types, Places, FreeStaging, Submit, Wait, UseCopy, DeviceCopies
<1>3. CASE FreeStaging(t)
  <2>1. pc[t] = "free" /\ pc'[t] = "idle" /\ t \notin staging' /\ t \notin host
    BY <1>3 DEF FreeStaging, IInv, Types, BufferInv
  <2> QED
    BY <1>1, <1>2, <2>1, OwnPart DEF IInv, WriteInv, Written
<1>4. CASE Submit(t) \/ Wait(t) \/ UseCopy(t)
  <2>1. /\ pc[t] \in {"idle", "submitted", "waited"} /\ pc'[t] \in {"idle", "submitted", "waited"}
        /\ t \notin staging' /\ t \notin host
    BY <1>1, <1>4 DEF Submit, Wait, UseCopy, IInv, Types, BufferInv
  <2>2. call'[t].op = "write" => WriteInv(t)'
    BY <1>1, <2>1 DEF IInv, WriteInv, Written
  <2> QED
    BY <1>1, <1>2, <2>1, <2>2, OwnPart DEF IInv
<1>5. CASE DeviceCopies(t)
  BY <1>1, <1>2, <1>5, OwnPart DEF DeviceCopies, IInv, BufferInv, WriteInv, Written
<1> QED
  BY <1>3, <1>4, <1>5

LEMMA NextIInv == IInv /\ [Next]_vars => IInv'
<1> SUFFICES ASSUME IInv, [Next]_vars PROVE IInv'
  OBVIOUS
<1>1. CASE Shutdown \/ UNCHANGED vars
  <2>1. UNCHANGED <<file, pc, call, got, host, staging, status, asked, lost>>
    BY <1>1 DEF Shutdown, vars, aux
  <2> QED
    BY <2>1 DEF IInv, Types, BufferInv, WriteInv, Written
<1>2. ASSUME NEW t \in Threads, Step(t) \/ Submit(t) \/ DeviceCopies(t) PROVE IInv'
  BY <1>2, LoopKeeps, OpenKeeps, ReadCellKeeps, WriteCellKeeps, EndCellsKeeps, CopyToDeviceKeeps,
     EndChunkKeeps, QuietKeeps DEF Step
<1> QED
  BY <1>1, <1>2, BeginKeeps DEF Next

LEMMA Invariance == Spec => []IInv
BY InitIInv, NextIInv, PTL DEF Spec

-----------------------------------------------------------------------------
(* Whichever step of a transfer fails, its buffers are freed.              *)
THEOREM LeaksNothing == Spec => []NothingLeaked
<1>1. IInv => NothingLeaked
  BY DEF IInv, BufferInv, NothingLeaked
<1> QED
  BY <1>1, Invariance, PTL

(* A gds_write that returns Ok has written its range, but for what fclose  *)
(* lost, and no gds_write touches a cell outside its range.                *)
THEOREM WritesWhatIsAsked == Spec => []OkWriteIsWritten
<1>1. IInv => OkWriteIsWritten
  BY DEF IInv, WriteInv, Written, OkWriteIsWritten, Returned
<1> QED
  BY <1>1, Invariance, PTL

-----------------------------------------------------------------------------
(* The argument for the reads: a round of gds_stream starts at a multiple  *)
(* of the chunk, with everything before it fetched and nothing after it.   *)
(* A cell is read after the call began, when it was no newer, and versions *)
(* only grow.                                                              *)
Entries == {<< >>} \cup {<<c>> : c \in Cell}

(* A cell fit for place i of the destination.                              *)
IsFor(t, i, c) ==
    /\ c \in Cell /\ c.pos = call[t].offset + i - 1
    /\ c.ver >= floor[t][c.pos]

Prefix(t, n) ==
    \A i \in 1 .. call[t].bytes : IF i <= n THEN IsFetched(t, i) ELSE dst[t][i] = << >>

(* How many cells of the destination are fetched while a call goes on: a   *)
(* bounce buffer delivers a chunk at once.                                 *)
Delivered(t) ==
    IF vendor = "Apple" \/ pc[t] = "chunk" THEN call[t].off + Len(got[t]) ELSE call[t].off

Result(t, s) ==
    \E n \in 0 .. call[t].bytes :
        /\ Prefix(t, n)
        /\ IF s = "Ok" THEN n = call[t].bytes ELSE vendor = "Nvidia" => n % call[t].chunk = 0

Underway == {"loop", "host", "open", "cells", "copy", "chunk"}
AtRest   == {"idle", "submitted", "waited"}

ReadInv(t) ==
    /\ pc[t] \in Underway \cup AtRest
    /\ call[t].chunk # 0 /\ call[t].off % call[t].chunk = 0
    /\ dst[t] \in [1 .. call[t].bytes -> Entries]
    /\ \A j \in 1 .. Len(got[t]) : IsFor(t, call[t].off + j, got[t][j])
    /\ pc[t] \in {"loop", "host", "open"} => got[t] = << >>
    /\ pc[t] \in Underway \ {"loop"} => call[t].off < call[t].bytes /\ Len(got[t]) <= Size(t)
    /\ pc[t] \in {"copy", "chunk"} => Len(got[t]) = Size(t)
    /\ pc[t] = "copy" => vendor = "Nvidia"
    /\ pc[t] \in Underway => Prefix(t, Delivered(t))
    /\ pc[t] \in AtRest => Result(t, status[t])

(* No call is younger than the file.                                       *)
FloorInv ==
    /\ vendor \in {"Nvidia", "Apple"}
    /\ floor \in [Threads -> [Positions -> {0, 1}]]
    /\ \A t \in Threads : \A p \in Positions : floor[t][p] <= file[p]

Reads ==
    /\ FloorInv
    /\ DOMAIN dst = Threads
    /\ \A t \in Threads : call[t].op = "read" => ReadInv(t)

LEMMA NextMultiple ==
  ASSUME NEW x \in Nat, NEW c \in Nat \ {0}, x % c = 0
  PROVE  (x + c) % c = 0
<1>1. x \div c \in Nat /\ (x + c) \div c = x \div c + 1
  OBVIOUS
<1>2. x % c = x - c * (x \div c) /\ (x + c) % c = (x + c) - c * ((x + c) \div c)
  BY SMTT(30)
<1>3. c * (x \div c + 1) = c * (x \div c) + c /\ c * (x \div c) \in Nat
  BY <1>1
<1> QED
  BY <1>1, <1>2, <1>3

LEMMA InitReads == Init => Reads
<1> SUFFICES ASSUME Init PROVE Reads
  OBVIOUS
<1>1. FloorInv /\ DOMAIN dst = Threads
  BY TransfersAssumption DEF Init, FloorInv, Positions
<1>2. ASSUME NEW t \in Threads PROVE ReadInv(t)
  <2>1. /\ pc[t] = "idle" /\ got[t] = << >> /\ dst[t] = << >> /\ status[t] = "Ok"
        /\ call[t].bytes = 0 /\ call[t].off = 0 /\ call[t].chunk = DefaultChunk
    BY DEF Init, Nothing
  <2>2. DefaultChunk \in Nat \ {0} /\ 0 % DefaultChunk = 0
    BY TransfersAssumption
  <2>3. 1 .. 0 = {} /\ dst[t] \in [1 .. 0 -> Entries]
    BY <2>1
  <2>4. Result(t, "Ok")
    BY <2>1, <2>3 DEF Result, Prefix
  <2> QED
    BY <2>1, <2>2, <2>3, <2>4 DEF ReadInv, Underway, AtRest
<1> QED
  BY <1>1, <1>2 DEF Reads

(* A read is about its own thread and the file when it began: the others   *)
(* do not disturb it.                                                      *)
LEMMA OwnRead ==
  ASSUME Reads, NEW t \in Threads, vendor' = vendor, FloorInv', DOMAIN dst' = Threads,
         \A u \in Threads \ {t} :
            /\ pc'[u] = pc[u] /\ call'[u] = call[u] /\ got'[u] = got[u]
            /\ dst'[u] = dst[u] /\ status'[u] = status[u] /\ floor'[u] = floor[u],
         call'[t].op = "read" => ReadInv(t)'
  PROVE  Reads'
<1>1. ASSUME NEW u \in Threads, u # t, call'[u].op = "read" PROVE ReadInv(u)'
  <2>1. ReadInv(u)
    BY <1>1 DEF Reads
  <2>2. \A i, c : IsFor(u, i, c) = IsFor(u, i, c)'
    BY <1>1 DEF IsFor
  <2>3. \A n : Prefix(u, n) = Prefix(u, n)'
    BY <1>1 DEF Prefix, IsFetched
  <2>4. Delivered(u)' = Delivered(u) /\ Size(u)' = Size(u)
    BY <1>1 DEF Delivered, Size
  <2>5. Result(u, status[u]) = Result(u, status[u])'
    BY <1>1, <2>3 DEF Result
  <2> QED
    BY <1>1, <2>1, <2>2, <2>3, <2>4, <2>5 DEF ReadInv
<1> QED
  BY <1>1 DEF Reads

(* Whatever the file gains, a call in progress began before.               *)
LEMMA FloorStays ==
  ASSUME FloorInv, Types, Types', vendor' = vendor, floor' = floor,
         \A p \in Positions : file[p] = 1 => file'[p] = 1
  PROVE  FloorInv'
<1>1. ASSUME NEW p \in Positions PROVE file[p] \in {0, 1} /\ file'[p] \in {0, 1} /\ file[p] <= file'[p]
  BY DEF Types
<1>2. ASSUME NEW t \in Threads, NEW p \in Positions PROVE floor'[t][p] <= file'[p]
  BY <1>1 DEF FloorInv
<1> QED
  BY <1>2 DEF FloorInv

(* A read that stops before the end leaves what it delivered.              *)
LEMMA StopsShort ==
  ASSUME IInv, NEW t \in Threads, ReadInv(t), pc[t] \in Underway \ {"loop", "chunk"},
         NEW s \in Statuses \ {"Ok"}
  PROVE  Result(t, s)
<1>1. /\ call[t].off \in Nat /\ call[t].bytes \in Nat /\ Len(got[t]) \in Nat
      /\ call[t].chunk \in Nat
  BY DEF IInv, Types
<1>2. call[t].off < call[t].bytes /\ Len(got[t]) <= Size(t)
  BY DEF ReadInv, Underway
<1>3. call[t].off + Len(got[t]) <= call[t].bytes
  BY <1>1, <1>2 DEF Size
<1>4. Delivered(t) \in 0 .. call[t].bytes
  BY <1>1, <1>2, <1>3 DEF Delivered
<1>5. vendor = "Nvidia" => Delivered(t) % call[t].chunk = 0
  BY DEF Delivered, ReadInv
<1>6. Prefix(t, Delivered(t))
  BY DEF ReadInv
<1> QED
  BY <1>4, <1>5, <1>6 DEF Result

LEMMA ReadEnds ==
  ASSUME IInv, IInv', Reads, NEW t \in Threads, NEW s \in Statuses, End(t, s),
         UNCHANGED <<vendor, file, call, dst, floor>>, call[t].op = "read" => Result(t, s)
  PROVE  Reads'
<1>1. /\ pc' = [pc EXCEPT ![t] = Unstage(t, s)] /\ status' = [status EXCEPT ![t] = s]
      /\ got' = [got EXCEPT ![t] = << >>]
  BY DEF End
<1>2. FloorInv' /\ DOMAIN dst' = Threads
  BY FloorStays DEF Reads, IInv
<1>3. ASSUME call[t].op = "read" PROVE ReadInv(t)'
  <2>1. pc'[t] = "idle" /\ got'[t] = << >> /\ status'[t] = s
    BY <1>1, <1>3 DEF IInv, Types, BufferInv, Unstage
  <2>2. Result(t, s)'
    BY <1>3 DEF Result, Prefix, IsFetched
  <2>3. ReadInv(t)
    BY <1>3 DEF Reads
  <2> QED
    BY <2>1, <2>2, <2>3 DEF ReadInv, Underway, AtRest
<1>4. \A u \in Threads \ {t} : pc'[u] = pc[u] /\ got'[u] = got[u] /\ status'[u] = status[u]
  BY <1>1 DEF IInv, Types
<1> QED
  BY <1>2, <1>3, <1>4, OwnRead

-----------------------------------------------------------------------------
LEMMA ReadBegins ==
  ASSUME IInv, IInv', Reads, NEW t \in Threads,
         \/ \E o \in Positions, n \in Sizes, c \in Chunks : Stream(t, o, n, c)
         \/ \E n \in Sizes : Stage(t, n)
         \/ \E o \in Positions, n \in Sizes : Write(t, o, n)
  PROVE  Reads'
<1>1. ASSUME NEW op \in {"read", "stage", "write"}, NEW o \in Nat, NEW n \in Nat, NEW c \in Nat,
             Start(t, op, o, n, c), UNCHANGED <<vendor, file, got>>,
             \A u \in Threads \ {t} : pc'[u] = pc[u] /\ status'[u] = status[u],
             op = "read" => c # 0 /\ pc[t] = "idle" /\ pc'[t] = "loop"
      PROVE  Reads'
  <2>1. /\ call' = [call EXCEPT ![t] = [op |-> op, offset |-> o, bytes |-> n, chunk |-> c, off |-> 0]]
        /\ dst' = [dst EXCEPT ![t] = Blank(n)]
        /\ floor' = [floor EXCEPT ![t] = file]
    BY <1>1 DEF Start
  <2>2. FloorInv'
    <3>1. floor' \in [Threads -> [Positions -> {0, 1}]]
      BY <2>1 DEF Reads, FloorInv, IInv, Types
    <3>2. ASSUME NEW u \in Threads, NEW p \in Positions PROVE floor'[u][p] <= file'[p]
      <4>1. CASE u = t
        <5>1. floor'[u][p] = file[p] /\ file[p] \in {0, 1}
          BY <2>1, <4>1 DEF Reads, FloorInv, IInv, Types
        <5> QED
          BY <1>1, <5>1
      <4>2. CASE u # t
        BY <1>1, <2>1, <4>2 DEF Reads, FloorInv
      <4> QED
        BY <4>1, <4>2
    <3> QED
      BY <1>1, <3>1, <3>2 DEF Reads, FloorInv
  <2>3. /\ DOMAIN dst' = Threads
        /\ \A u \in Threads \ {t} : call'[u] = call[u] /\ dst'[u] = dst[u] /\ floor'[u] = floor[u]
        /\ dst'[t] = [i \in 1 .. n |-> << >>]
        /\ call'[t] = [op |-> op, offset |-> o, bytes |-> n, chunk |-> c, off |-> 0]
    BY <2>1 DEF Reads, FloorInv, IInv, Types, Blank
  <2>4. ASSUME op = "read" PROVE ReadInv(t)'
    <3>1. got'[t] = << >> /\ pc'[t] = "loop" /\ c # 0
      BY <1>1, <2>4 DEF IInv
    <3>2. 0 % c = 0
      BY <3>1
    <3>3. dst'[t] \in [1 .. n -> Entries]
      BY <2>3 DEF Entries
    <3>4. Delivered(t)' = 0
      BY <2>3, <3>1 DEF Delivered
    <3>5. Prefix(t, 0)'
      BY <2>3 DEF Prefix
    <3> QED
      BY <2>3, <3>1, <3>2, <3>3, <3>4, <3>5 DEF ReadInv, Underway, AtRest
  <2> QED
    BY <1>1, <2>2, <2>3, <2>4, OwnRead
<1> USE TransfersAssumption DEF Goto, Positions
<1>2. ASSUME NEW o \in Positions, NEW n \in Sizes, NEW c \in Chunks, Stream(t, o, n, c) PROVE Reads'
  <2>1. o \in Nat /\ n \in Nat /\ ChunkSize(c) \in Nat \ {0}
    BY DEF ChunkSize
  <2>2. /\ Start(t, "read", o, n, ChunkSize(c)) /\ UNCHANGED <<vendor, file, got, status>>
        /\ pc' = [pc EXCEPT ![t] = "loop"] /\ pc[t] = "idle"
    BY <1>2 DEF Stream
  <2> QED
    BY <1>1, <2>1, <2>2 DEF IInv, Types
<1>3. ASSUME NEW n \in Sizes, Stage(t, n) PROVE Reads'
  <2>1. /\ Start(t, "stage", 0, n, n) /\ UNCHANGED <<vendor, file, got>>
        /\ pc' = [pc EXCEPT ![t] = "loop"] \/ pc' = pc
        /\ status' = [status EXCEPT ![t] = "OutOfMemory"] \/ status' = status
    BY <1>3 DEF Stage
  <2> QED
    BY <1>1, <2>1 DEF IInv, Types
<1>4. ASSUME NEW o \in Positions, NEW n \in Sizes, Write(t, o, n) PROVE Reads'
  <2>1. /\ Start(t, "write", o, n, n) /\ UNCHANGED <<vendor, file, got, status>>
        /\ pc' = [pc EXCEPT ![t] = "loop"]
    BY <1>4 DEF Write
  <2> QED
    BY <1>1, <2>1 DEF IInv, Types
<1> QED
  BY <1>2, <1>3, <1>4

LEMMA LoopReads == ASSUME IInv, IInv', Reads, NEW t \in Threads, Loop(t) PROVE Reads'
<1>1. /\ pc[t] = "loop" /\ UNCHANGED <<vendor, file, call, dst, floor>>
      /\ call[t].off \in Nat /\ call[t].bytes \in Nat
  BY DEF Loop, aux, IInv, Types
<1>2. CASE call[t].off >= call[t].bytes
  <2>1. End(t, "Ok")
    BY <1>2 DEF Loop
  <2>2. ASSUME call[t].op = "read" PROVE Result(t, "Ok")
    <3>1. ReadInv(t) /\ got[t] = << >>
      BY <1>1, <2>2 DEF Reads, ReadInv
    <3>2. Delivered(t) = call[t].off
      BY <1>1, <3>1 DEF Delivered
    <3>3. Prefix(t, call[t].off)
      BY <1>1, <3>1, <3>2 DEF ReadInv, Underway
    <3>4. Prefix(t, call[t].bytes)
      BY <1>1, <1>2, <3>3 DEF Prefix
    <3> QED
      BY <1>1, <3>4 DEF Result
  <2> QED
    BY <1>1, <2>1, <2>2, ReadEnds DEF Statuses
<1>3. CASE ~(call[t].off >= call[t].bytes)
  <2>1. /\ UNCHANGED <<got, status>>
        /\ pc' = [pc EXCEPT ![t] = IF vendor = "Nvidia" THEN "host" ELSE "open"]
    BY <1>3 DEF Loop, Goto
  <2>2. pc'[t] \in {"host", "open"} /\ \A u \in Threads \ {t} : pc'[u] = pc[u]
    BY <2>1 DEF IInv, Types
  <2>3. FloorInv' /\ DOMAIN dst' = Threads
    BY <1>1, FloorStays DEF Reads, IInv
  <2>4. ASSUME call[t].op = "read" PROVE ReadInv(t)'
    <3>1. ReadInv(t) /\ got[t] = << >> /\ Len(got[t]) = 0
      BY <1>1, <2>4 DEF Reads, ReadInv
    <3>2. Delivered(t) = call[t].off /\ Delivered(t)' = call[t].off
      BY <1>1, <2>1, <2>2, <3>1 DEF Delivered
    <3>3. Prefix(t, Delivered(t))'
      BY <1>1, <3>1, <3>2 DEF ReadInv, Underway, Prefix, IsFetched
    <3>4. Len(got[t]) <= Size(t)
      BY <1>1, <1>3, <3>1 DEF Size, IInv, Types
    <3> QED
      BY <1>1, <1>3, <2>1, <2>2, <3>1, <3>3, <3>4 DEF ReadInv, Underway, AtRest, Size, IsFor
  <2> QED
    BY <1>1, <2>1, <2>2, <2>3, <2>4, OwnRead
<1> QED
  BY <1>2, <1>3

LEMMA OpenReads ==
  ASSUME IInv, IInv', Reads, NEW t \in Threads, HostBuffer(t) \/ CopyToHost(t) \/ Open(t)
  PROVE  Reads'
<1>1. /\ pc[t] \in {"host", "fetch", "open"} /\ UNCHANGED <<vendor, file, call, dst, floor>>
      /\ call[t].op = "read" => ReadInv(t) /\ pc[t] # "fetch" /\ Reading(t)
  BY DEF HostBuffer, CopyToHost, Open, aux, Goto, Reads, ReadInv, Underway, AtRest, Reading
<1>2. ASSUME NEW s \in Statuses \ {"Ok"}, End(t, s) PROVE Reads'
  <2>1. call[t].op = "read" => Result(t, s)
    BY <1>1, StopsShort DEF Underway
  <2> QED
    BY <1>1, <1>2, <2>1, ReadEnds
<1>3. ASSUME NEW to \in {"fetch", "open", "cells"}, pc' = [pc EXCEPT ![t] = to],
             UNCHANGED <<got, status>>, call[t].op = "read" => to # "fetch"
      PROVE  Reads'
  <2>1. pc'[t] = to /\ \A u \in Threads \ {t} : pc'[u] = pc[u]
    BY <1>3 DEF IInv, Types
  <2>2. FloorInv' /\ DOMAIN dst' = Threads
    BY <1>1, FloorStays DEF Reads, IInv
  <2>3. ASSUME call[t].op = "read" PROVE ReadInv(t)'
    <3>1. ReadInv(t) /\ got[t] = << >> /\ pc[t] \in {"host", "open"} /\ to \in {"open", "cells"}
      BY <1>1, <1>3, <2>3 DEF ReadInv
    <3>2. Delivered(t)' = Delivered(t) /\ Size(t)' = Size(t)
      BY <1>1, <1>3, <2>1, <3>1 DEF Delivered, Size
    <3>3. Prefix(t, Delivered(t))'
      BY <1>1, <3>1, <3>2 DEF ReadInv, Underway, Prefix, IsFetched
    <3> QED
      BY <1>1, <1>3, <2>1, <3>1, <3>2, <3>3 DEF ReadInv, Underway, AtRest, IsFor
  <2> QED
    BY <1>1, <1>3, <2>1, <2>2, <2>3, OwnRead
<1> USE DEF Goto, Statuses
<1>4. CASE HostBuffer(t)
  <2>1. CASE End(t, "OutOfMemory")
    BY <1>2, <2>1
  <2>2. CASE ~End(t, "OutOfMemory")
    BY <1>1, <1>3, <1>4, <2>2 DEF HostBuffer
  <2> QED
    BY <2>1, <2>2
<1>5. CASE CopyToHost(t)
  BY <1>1, <1>2, <1>3, <1>5 DEF CopyToHost
<1>6. CASE Open(t)
  BY <1>2, <1>3, <1>6 DEF Open
<1> QED
  BY <1>4, <1>5, <1>6

-----------------------------------------------------------------------------
(* A cell read is the file's now, and the file has not lost a version      *)
(* since the call began.                                                   *)
LEMMA ReadCellReads == ASSUME IInv, IInv', Reads, NEW t \in Threads, ReadCell(t) PROVE Reads'
<1> DEFINE c == [pos |-> At(t), ver |-> file[At(t)]]
<1>1. /\ pc[t] = "cells" /\ Len(got[t]) < Size(t) /\ At(t) \in Positions
      /\ got' = [got EXCEPT ![t] = Append(@, c)]
      /\ dst' = IF vendor = "Nvidia" THEN dst ELSE [dst EXCEPT ![t][Into(t)] = <<c>>]
      /\ UNCHANGED <<vendor, file, pc, call, status, floor>>
  BY DEF ReadCell, aux
<1>2. FloorInv' /\ DOMAIN dst' = Threads
  BY <1>1, FloorStays DEF Reads, IInv
<1>3. \A u \in Threads \ {t} : got'[u] = got[u] /\ dst'[u] = dst[u]
  BY <1>1 DEF Reads, IInv, Types
<1>4. ASSUME call[t].op = "read" PROVE ReadInv(t)'
  <2>1. ReadInv(t) /\ call[t].off < call[t].bytes
    BY <1>1, <1>4 DEF Reads, ReadInv, Underway
  <2>2. /\ call[t].off \in Nat /\ call[t].bytes \in Nat /\ call[t].offset \in Nat
        /\ Len(got[t]) \in Nat /\ call[t].chunk \in Nat /\ got[t] \in Seq([pos : Int, ver : {0, 1}])
    BY DEF IInv, Types
  <2>3. c \in Cell /\ file[At(t)] >= floor[t][At(t)]
    BY <1>1 DEF Cell, Reads, FloorInv, IInv, Types
  <2>4. IsFor(t, Into(t), c)
    BY <1>1, <2>2, <2>3 DEF IsFor, At, Into
  <2>5. got'[t] = Append(got[t], c)
    BY <1>1 DEF IInv, Types
  <2>6. c \in [pos : Int, ver : {0, 1}]
    BY <2>3 DEF Cell, Positions
  <2>7. /\ Len(got'[t]) = Len(got[t]) + 1 /\ got'[t][Len(got[t]) + 1] = c
        /\ \A j \in 1 .. Len(got[t]) : got'[t][j] = got[t][j]
    BY <2>2, <2>5, <2>6
  <2>8. ASSUME NEW j \in 1 .. Len(got'[t]) PROVE IsFor(t, call[t].off + j, got'[t][j])
    <3>1. CASE j = Len(got[t]) + 1
      <4>1. Into(t) = call[t].off + j
        BY <2>2, <3>1 DEF Into
      <4>2. got'[t][j] = c
        BY <2>7, <3>1
      <4> QED
        BY <2>4, <4>1, <4>2
    <3>2. CASE j # Len(got[t]) + 1
      <4>1. j \in 1 .. Len(got[t]) /\ got'[t][j] = got[t][j]
        BY <2>2, <2>7, <3>2
      <4> QED
        BY <2>1, <4>1 DEF ReadInv
    <3> QED
      BY <3>1, <3>2
  <2>9. (\A j \in 1 .. Len(got[t]) : IsFor(t, call[t].off + j, got[t][j]))'
    BY <1>1, <2>8 DEF IsFor
  <2>10. dst'[t] \in [1 .. call[t].bytes -> Entries] /\ Prefix(t, Delivered(t))'
    <3>1. CASE vendor = "Nvidia"
      <4>1. Delivered(t)' = call[t].off /\ Delivered(t) = call[t].off
        BY <1>1, <3>1 DEF Delivered
      <4> QED
        BY <1>1, <2>1, <3>1, <4>1 DEF ReadInv, Underway, Prefix, IsFetched
    <3>2. CASE vendor # "Nvidia"
      <4>1. vendor = "Apple" /\ Into(t) \in 1 .. call[t].bytes
        BY <1>1, <2>1, <2>2, <3>2 DEF Reads, FloorInv, Size, Into
      <4>2. dst'[t] = [dst[t] EXCEPT ![Into(t)] = <<c>>]
        BY <1>1, <3>2 DEF Reads
      <4>3. dst'[t] \in [1 .. call[t].bytes -> Entries]
        BY <2>1, <2>3, <4>2 DEF ReadInv, Entries
      <4>4. Delivered(t) = Into(t) - 1 /\ Delivered(t)' = Into(t)
        BY <1>1, <2>2, <2>7, <4>1 DEF Delivered, Into
      <4>5. Prefix(t, Into(t) - 1)
        BY <1>1, <2>1, <4>4 DEF ReadInv, Underway
      <4>6. ASSUME NEW i \in 1 .. call[t].bytes
            PROVE  IF i <= Into(t) THEN IsFetched(t, i)' ELSE dst'[t][i] = << >>
        <5>1. CASE i = Into(t)
          <6>1. dst'[t][i] = <<c>> /\ c \in Cell /\ c.pos = call[t].offset + i - 1
                /\ c.ver >= floor[t][c.pos]
            BY <2>1, <2>4, <4>2, <5>1 DEF ReadInv, IsFor
          <6> QED
            BY <1>1, <4>1, <5>1, <6>1 DEF IsFetched
        <5>2. CASE i # Into(t)
          <6>1. dst'[t][i] = dst[t][i]
            BY <2>1, <4>2, <5>2 DEF ReadInv
          <6>2. IsFetched(t, i) => IsFetched(t, i)'
            BY <1>1, <6>1 DEF IsFetched
          <6> QED
            BY <4>1, <4>5, <5>2, <6>1, <6>2 DEF Prefix
        <5> QED
          BY <5>1, <5>2
      <4> QED
        BY <1>1, <4>3, <4>4, <4>6 DEF Prefix
    <3> QED
      BY <3>1, <3>2
  <2>11. Size(t)' = Size(t) /\ Len(got'[t]) <= Size(t)
    BY <1>1, <2>2, <2>7 DEF Size
  <2> QED
    BY <1>1, <2>1, <2>9, <2>10, <2>11 DEF ReadInv, Underway, AtRest
<1> QED
  BY <1>1, <1>2, <1>3, <1>4, OwnRead

(* A write only makes the file newer.                                      *)
LEMMA WriteCellReads == ASSUME IInv, IInv', Reads, NEW t \in Threads, WriteCell(t) PROVE Reads'
<1>1. /\ call[t].op # "read" /\ UNCHANGED <<vendor, pc, call, dst, status, floor>>
      /\ \A u \in Threads \ {t} : got'[u] = got[u]
  BY DEF WriteCell, Reading, IInv, Types
<1>2. file' = [file EXCEPT ![At(t)] = 1] \/ file' = file
  BY DEF WriteCell
<1>3. FloorInv' /\ DOMAIN dst' = Threads
  <2>1. \A p \in Positions : file[p] = 1 => file'[p] = 1
    BY <1>2 DEF IInv, Types
  <2> QED
    BY <1>1, <2>1, FloorStays DEF Reads, IInv
<1> QED
  BY <1>1, <1>3, OwnRead

LEMMA EndCellsReads == ASSUME IInv, IInv', Reads, NEW t \in Threads, EndCells(t) PROVE Reads'
<1>1. /\ pc[t] = "cells" /\ UNCHANGED <<vendor, file, call, dst, floor>>
      /\ call[t].op = "read" => ReadInv(t) /\ Reading(t)
  BY DEF EndCells, aux, Reads, Reading
<1>2. CASE ~Whole(t)
  <2>1. call[t].op = "read" => Result(t, "IoError")
    BY <1>1, StopsShort DEF Underway, Statuses
  <2> QED
    BY <1>1, <1>2, <2>1, ReadEnds DEF EndCells, Statuses
<1>3. CASE Whole(t)
  <2>1. /\ pc' = [pc EXCEPT ![t] = IF vendor = "Nvidia" /\ Reading(t) THEN "copy" ELSE "chunk"]
        /\ UNCHANGED <<got, status>> /\ Len(got[t]) = Size(t)
    BY <1>3 DEF EndCells, Goto, Whole
  <2>2. /\ pc'[t] = IF vendor = "Nvidia" /\ Reading(t) THEN "copy" ELSE "chunk"
        /\ \A u \in Threads \ {t} : pc'[u] = pc[u]
    BY <2>1 DEF IInv, Types
  <2>3. FloorInv' /\ DOMAIN dst' = Threads
    BY <1>1, FloorStays DEF Reads, IInv
  <2>4. ASSUME call[t].op = "read" PROVE ReadInv(t)'
    <3>1. Delivered(t)' = Delivered(t) /\ Size(t)' = Size(t)
      BY <1>1, <2>1, <2>2, <2>4 DEF Delivered, Size, Reads, FloorInv
    <3>2. Prefix(t, Delivered(t))'
      BY <1>1, <2>4, <3>1 DEF ReadInv, Underway, Prefix, IsFetched
    <3> QED
      BY <1>1, <2>1, <2>2, <2>4, <3>1, <3>2 DEF ReadInv, Underway, AtRest, IsFor
  <2> QED
    BY <1>1, <2>1, <2>2, <2>3, <2>4, OwnRead
<1> QED
  BY <1>2, <1>3

(* The bounce buffer holds the cells of the chunk in their order.          *)
LEMMA CopyToDeviceReads ==
  ASSUME IInv, IInv', Reads, NEW t \in Threads, CopyToDevice(t) PROVE Reads'
<1>1. pc[t] = "copy" /\ UNCHANGED <<vendor, file, call, floor>>
  BY DEF CopyToDevice, aux
<1>2. CASE End(t, "DriverError") /\ UNCHANGED dst
  <2>1. call[t].op = "read" => Result(t, "DriverError")
    BY <1>1, StopsShort DEF Reads, Underway, Statuses
  <2> QED
    BY <1>1, <1>2, <2>1, ReadEnds DEF Statuses
<1>3. CASE ~(End(t, "DriverError") /\ UNCHANGED dst)
  <2>1. /\ pc' = [pc EXCEPT ![t] = "chunk"] /\ UNCHANGED <<got, status>>
        /\ dst' = [dst EXCEPT ![t] =
                     [i \in DOMAIN dst[t] |-> IF i - call[t].off \in DOMAIN got[t]
                                              THEN <<got[t][i - call[t].off]>> ELSE dst[t][i]]]
    BY <1>3 DEF CopyToDevice, Goto
  <2>2. pc'[t] = "chunk" /\ \A u \in Threads \ {t} : pc'[u] = pc[u] /\ dst'[u] = dst[u]
    BY <2>1 DEF IInv, Types, Reads
  <2>3. FloorInv' /\ DOMAIN dst' = Threads
    BY <1>1, <2>1, FloorStays DEF Reads, IInv
  <2>4. ASSUME call[t].op = "read" PROVE ReadInv(t)'
    <3>1. /\ ReadInv(t) /\ Len(got[t]) = Size(t) /\ vendor = "Nvidia"
          /\ call[t].off < call[t].bytes /\ Prefix(t, Delivered(t))
      BY <1>1, <2>4 DEF Reads, ReadInv, Underway
    <3>2. /\ call[t].off \in Nat /\ call[t].bytes \in Nat /\ Len(got[t]) \in Nat
          /\ DOMAIN got[t] = 1 .. Len(got[t])
      BY DEF IInv, Types
    <3>3. Delivered(t) = call[t].off /\ Delivered(t)' = call[t].off + Len(got[t])
      BY <1>1, <2>1, <2>2, <3>1 DEF Delivered
    <3>4. dst'[t] = [i \in 1 .. call[t].bytes |->
                       IF i - call[t].off \in 1 .. Len(got[t])
                       THEN <<got[t][i - call[t].off]>> ELSE dst[t][i]]
      BY <2>1, <3>1, <3>2 DEF ReadInv, Reads
    <3>5. ASSUME NEW i \in 1 .. call[t].bytes
          PROVE  /\ dst'[t][i] \in Entries
                 /\ IF i <= call[t].off + Len(got[t]) THEN IsFetched(t, i)' ELSE dst'[t][i] = << >>
      <4>1. CASE i - call[t].off \in 1 .. Len(got[t])
        <5>1. dst'[t][i] = <<got[t][i - call[t].off]>>
          BY <3>4, <4>1
        <5>2. IsFor(t, call[t].off + (i - call[t].off), got[t][i - call[t].off])
          BY <3>1, <4>1 DEF ReadInv
        <5>3. call[t].off + (i - call[t].off) = i
          BY <3>2
        <5>4. IsFor(t, i, got[t][i - call[t].off])
          BY <5>2, <5>3
        <5>5. IsFetched(t, i)'
          BY <1>1, <5>1, <5>4 DEF IsFetched, IsFor
        <5>6. dst'[t][i] \in Entries
          BY <5>1, <5>4 DEF IsFor, Entries
        <5> QED
          BY <3>2, <4>1, <5>5, <5>6
      <4>2. CASE i - call[t].off \notin 1 .. Len(got[t])
        <5>1. dst'[t][i] = dst[t][i] /\ dst[t][i] \in Entries
          BY <3>1, <3>4, <4>2 DEF ReadInv
        <5>2. i <= call[t].off \/ ~(i <= call[t].off + Len(got[t]))
          BY <3>2, <4>2
        <5>3. IsFetched(t, i) => IsFetched(t, i)'
          BY <1>1, <5>1 DEF IsFetched
        <5> QED
          BY <3>1, <3>2, <3>3, <5>1, <5>2, <5>3 DEF Prefix
      <4> QED
        BY <4>1, <4>2
    <3>6. dst'[t] \in [1 .. call[t].bytes -> Entries]
      <4>1. dst'[t] = [i \in 1 .. call[t].bytes |-> dst'[t][i]]
        BY <3>4
      <4> QED
        BY <3>5, <4>1
    <3>7. Prefix(t, Delivered(t))'
      BY <1>1, <3>3, <3>5 DEF Prefix
    <3>8. Size(t)' = Size(t)
      BY <1>1 DEF Size
    <3> QED
      BY <1>1, <2>1, <2>2, <3>1, <3>2, <3>6, <3>7, <3>8 DEF ReadInv, Underway, AtRest, IsFor
  <2> QED
    BY <1>1, <2>1, <2>2, <2>3, <2>4, OwnRead
<1> QED
  BY <1>2, <1>3

(* The next chunk begins where this one ended, or past the end of the      *)
(* range.                                                                  *)
LEMMA EndChunkReads == ASSUME IInv, IInv', Reads, NEW t \in Threads, EndChunk(t) PROVE Reads'
<1>1. /\ pc[t] = "chunk" /\ pc' = [pc EXCEPT ![t] = "loop"]
      /\ call' = [call EXCEPT ![t].off = @ + call[t].chunk]
      /\ got' = [got EXCEPT ![t] = << >>]
      /\ UNCHANGED <<vendor, file, dst, status, floor>>
  BY DEF EndChunk, Goto, aux
<1>2. /\ pc'[t] = "loop" /\ got'[t] = << >>
      /\ call'[t].op = call[t].op /\ call'[t].offset = call[t].offset
      /\ call'[t].bytes = call[t].bytes /\ call'[t].chunk = call[t].chunk
      /\ call'[t].off = call[t].off + call[t].chunk
      /\ \A u \in Threads \ {t} : pc'[u] = pc[u] /\ call'[u] = call[u] /\ got'[u] = got[u]
  BY <1>1 DEF IInv, Types
<1>3. FloorInv' /\ DOMAIN dst' = Threads
  BY <1>1, FloorStays DEF Reads, IInv
<1>4. ASSUME call'[t].op = "read" PROVE ReadInv(t)'
  <2>1. /\ ReadInv(t) /\ Len(got[t]) = Size(t) /\ call[t].chunk # 0
        /\ call[t].off % call[t].chunk = 0
    BY <1>1, <1>2, <1>4 DEF Reads, ReadInv
  <2>2. /\ call[t].off \in Nat /\ call[t].bytes \in Nat /\ call[t].chunk \in Nat \ {0}
        /\ Len(got[t]) \in Nat
    BY <2>1 DEF IInv, Types
  <2>3. Prefix(t, call[t].off + Len(got[t]))
    BY <1>1, <2>1 DEF ReadInv, Underway, Delivered
  <2>4. (call[t].off + call[t].chunk) % call[t].chunk = 0
    BY <2>1, <2>2, NextMultiple
  <2>5. Delivered(t)' = call[t].off + call[t].chunk
    BY <1>1, <1>2, <2>2 DEF Delivered
  <2>6. \A i \in 1 .. call[t].bytes :
           i <= call[t].off + Len(got[t]) <=> i <= call[t].off + call[t].chunk
    BY <2>1, <2>2 DEF Size
  <2>7. Prefix(t, call[t].off + call[t].chunk)
    BY <2>3, <2>6 DEF Prefix
  <2>8. Prefix(t, Delivered(t))'
    BY <1>1, <1>2, <2>5, <2>7 DEF Prefix, IsFetched
  <2> QED
    BY <1>1, <1>2, <2>1, <2>4, <2>8 DEF ReadInv, Underway, AtRest
<1> QED
  BY <1>1, <1>2, <1>3, <1>4, OwnRead

(* Nothing else has a hand in a read.                                      *)
LEMMA QuietReads ==
  ASSUME IInv, IInv', Reads, NEW t \in Threads,
         FreeStaging(t) \/ Submit(t) \/ Wait(t) \/ UseCopy(t) \/ DeviceCopies(t)
  PROVE  Reads'
<1>1. /\ UNCHANGED <<vendor, file, call, got, dst, status, floor>>
      /\ \A u \in Threads \ {t} : pc'[u] = pc[u]
      /\ \/ pc[t] = "free"
         \/ pc'[t] = pc[t]
         \/ pc[t] \in AtRest /\ pc'[t] \in AtRest
  BY DEF FreeStaging, Submit, Wait, UseCopy, DeviceCopies, Goto, aux, AtRest, IInv, Types
<1>2. FloorInv' /\ DOMAIN dst' = Threads
  BY <1>1, FloorStays DEF Reads, IInv
<1>3. ASSUME call[t].op = "read" PROVE ReadInv(t)'
  <2>1. ReadInv(t)
    BY <1>3 DEF Reads
  <2>2. CASE pc'[t] = pc[t]
    BY <1>1, <2>1, <2>2 DEF ReadInv, IsFor, Prefix, IsFetched, Delivered, Result, Size
  <2>3. CASE pc[t] \in AtRest /\ pc'[t] \in AtRest
    <3>1. Result(t, status[t])
      BY <2>1, <2>3 DEF ReadInv
    <3>2. Result(t, status[t])'
      BY <1>1, <3>1 DEF Result, Prefix, IsFetched
    <3> QED
      BY <1>1, <2>1, <2>3, <3>2 DEF ReadInv, Underway, AtRest, IsFor
  <2> QED
    BY <1>1, <2>1, <2>2, <2>3 DEF ReadInv, Underway, AtRest
<1> QED
  BY <1>1, <1>2, <1>3, OwnRead

LEMMA NextReads == ASSUME IInv, IInv', Reads, [Next]_vars PROVE Reads'
<1>1. CASE Shutdown \/ UNCHANGED vars
  <2>1. UNCHANGED <<vendor, file, pc, call, got, dst, status, floor>>
    BY <1>1 DEF Shutdown, vars, aux
  <2> QED
    BY <2>1 DEF Reads, FloorInv, ReadInv, IsFor, Prefix, IsFetched, Delivered, Result, Size
<1>2. ASSUME NEW t \in Threads, Step(t) \/ Submit(t) \/ DeviceCopies(t) PROVE Reads'
  BY <1>2, LoopReads, OpenReads, ReadCellReads, WriteCellReads, EndCellsReads,
     CopyToDeviceReads, EndChunkReads, QuietReads DEF Step
<1> QED
  BY <1>1, <1>2, ReadBegins DEF Next

(* A gds_stream leaves the cells before a point of its destination read    *)
(* from the file, no older than when it began, and the rest untouched: all *)
(* of them if it returns Ok, whole chunks on CUDA if it does not.          *)
THEOREM ReadsAPrefix == Spec => []ReadsFetchPrefix
<1>1. IInv /\ Reads => ReadsFetchPrefix
  <2> SUFFICES ASSUME IInv, Reads, NEW t \in Threads, Returned(t, "read")
               PROVE  \E n \in 0 .. Len(dst[t]) :
                         /\ \A i \in DOMAIN dst[t] :
                               IF i <= n THEN IsFetched(t, i) ELSE dst[t][i] = << >>
                         /\ IF status[t] = "Ok" THEN n = Len(dst[t])
                            ELSE vendor = "Nvidia" => n % call[t].chunk = 0
    BY DEF ReadsFetchPrefix
  <2>1. Result(t, status[t]) /\ dst[t] \in [1 .. call[t].bytes -> Entries]
    BY DEF Reads, ReadInv, Returned, AtRest
  <2>2. call[t].bytes \in Nat
    BY DEF IInv, Types
  <2>3. Len(dst[t]) = call[t].bytes /\ DOMAIN dst[t] = 1 .. call[t].bytes
    <3>1. DOMAIN dst[t] = 1 .. call[t].bytes
      BY <2>1
    <3>2. dst[t] \in Seq(Entries)
      BY <2>1, <2>2, SeqDef
    <3>3. Len(dst[t]) \in Nat /\ DOMAIN dst[t] = 1 .. Len(dst[t])
      BY <3>2, LenProperties
    <3> QED
      BY <2>2, <3>1, <3>3
  <2> QED
    BY <2>1, <2>3 DEF Result, Prefix
<1>2. Init => Reads
  BY InitReads
<1>3. IInv /\ IInv' /\ Reads /\ [Next]_vars => Reads'
  BY NextReads
<1> QED
  BY <1>1, <1>2, <1>3, Invariance, PTL DEF Spec
=============================================================================
