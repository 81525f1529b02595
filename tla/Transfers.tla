----------------------------- MODULE Transfers -----------------------------
(***************************************************************************)
(* Transfers between a file and HBM: DmaEngine's gds_read, gds_write,      *)
(* submit and wait (src/firmware/dma_engine.cpp), with what the shims do   *)
(* for them, and their callers gds_fetch and gds_stream                    *)
(* (src/memory/gds_router.cpp), Pipeline::run_preprocess and               *)
(* PreprocessStage::run.                                                   *)
(*                                                                         *)
(* Threads transfer at the same time, and gds_enabled_ is cleared under    *)
(* them by a shutdown.  The file is a sequence of cells, of which a read   *)
(* or a write handles one at a time; a cell has a version, 0 until a write *)
(* makes it 1.  Allocations, fopen, the copies and the disk may fail.      *)
(***************************************************************************)
EXTENDS Integers, FiniteSets, Sequences

CONSTANTS Threads,
          FileLen,       \* cells of the file
          Sizes,         \* cells asked for
          Chunks,        \* chunk_bytes of gds_stream, 0 for the default
          DefaultChunk,  \* 16 MB
          MaxCalls       \* bound: calls by each thread

ASSUME TransfersAssumption ==
    /\ FileLen \in Nat \ {0} /\ Sizes \subseteq Nat /\ Chunks \subseteq Nat
    /\ DefaultChunk \in Nat \ {0} /\ MaxCalls \in Nat

VARIABLES vendor,   \* always the same
          gds,      \* gds_enabled_
          file,     \* position -> version
          pc, call, \* per thread: where it is, what it was asked for
          got,      \* per thread: cells of the chunk read or written so far
          host,     \* threads with a host-pinned bounce buffer
          staging,  \* threads with an HBM buffer for raw bytes
          dst,      \* per thread: the destination, one cell after another
          status,   \* per thread: what its last call returned
          floor,    \* per thread: the file when its call began
          asked,    \* positions that calls of gds_write cover
          lost,     \* positions whose bytes the C library lost at fclose
          inflight, \* threads whose asynchronous copy is not done
          calls     \* per thread: calls so far

aux == <<floor, asked, lost, calls>>
vars == <<vendor, gds, file, pc, call, got, host, staging, dst, status, inflight, aux>>

Positions == 0 .. FileLen - 1
Cell == [pos : Positions, ver : {0, 1}]

Statuses == {"Ok", "IoError", "DriverError", "OutOfMemory"}

TypeOK ==
    /\ vendor \in {"Nvidia", "Apple"} /\ gds \in BOOLEAN
    /\ file \in [Positions -> {0, 1}]
    /\ pc \in [Threads -> {"idle", "loop", "host", "fetch", "open", "cells", "copy",
                           "chunk", "free", "submitted", "waited"}]
    /\ \A t \in Threads :
          /\ call[t].op \in {"read", "stage", "write"}
          /\ call[t].off <= call[t].bytes + call[t].chunk
          /\ Len(got[t]) <= call[t].chunk
          /\ \A i \in DOMAIN dst[t] : dst[t][i] \in {<< >>} \cup {<<c>> : c \in Cell}
    /\ host \subseteq Threads /\ staging \subseteq Threads /\ inflight \subseteq Threads
    /\ status \in [Threads -> Statuses]
    /\ asked \subseteq Positions /\ lost \subseteq asked

(* A destination whose cells nobody has written.                           *)
Blank(n) == [i \in 1 .. n |-> << >>]

Nothing == [op |-> "read", offset |-> 0, bytes |-> 0, chunk |-> DefaultChunk, off |-> 0]

Init ==
    /\ vendor \in {"Nvidia", "Apple"} /\ gds = (vendor = "Nvidia")
    /\ file = [p \in Positions |-> 0]
    /\ pc = [t \in Threads |-> "idle"]
    /\ call = [t \in Threads |-> Nothing]
    /\ got = [t \in Threads |-> << >>]
    /\ host = {} /\ staging = {} /\ inflight = {}
    /\ dst = [t \in Threads |-> << >>]
    /\ status = [t \in Threads |-> "Ok"]
    /\ floor = [t \in Threads |-> file]
    /\ asked = {} /\ lost = {}
    /\ calls = [t \in Threads |-> 0]

Goto(t, from, to) == pc[t] = from /\ pc' = [pc EXCEPT ![t] = to]

(* DmaEngine::shutdown, of whoever shuts the context down.                 *)
Shutdown ==
    /\ gds /\ gds' = FALSE
    /\ UNCHANGED <<vendor, file, pc, call, got, host, staging, dst, status, inflight, aux>>

-----------------------------------------------------------------------------
Start(t, op, o, n, c) ==
    /\ calls[t] < MaxCalls /\ calls' = [calls EXCEPT ![t] = @ + 1]
    /\ call' = [call EXCEPT ![t] = [op |-> op, offset |-> o, bytes |-> n, chunk |-> c, off |-> 0]]
    /\ dst' = [dst EXCEPT ![t] = Blank(n)]
    /\ floor' = [floor EXCEPT ![t] = file]

(* Fault: chunks of 0 cells.                                               *)
ChunkGiven(c) == c

ChunkSize(c) == IF c = 0 THEN DefaultChunk ELSE c

(* gds_stream; a chunk no smaller than what is asked for is gds_fetch,     *)
(* which is gds_read.                                                      *)
Stream(t, o, n, c) ==
    /\ Goto(t, "idle", "loop")
    /\ Start(t, "read", o, n, ChunkSize(c))
    /\ UNCHANGED <<vendor, gds, file, got, host, staging, status, inflight, asked, lost>>

(* run_preprocess, PreprocessStage::run: an HBM buffer first.              *)
Stage(t, n) ==
    /\ pc[t] = "idle"
    /\ Start(t, "stage", 0, n, n)
    /\ \/ Goto(t, "idle", "loop") /\ staging' = staging \cup {t} /\ UNCHANGED status
       \/ status' = [status EXCEPT ![t] = "OutOfMemory"] /\ UNCHANGED <<pc, staging>>
    /\ UNCHANGED <<vendor, gds, file, got, host, inflight, asked, lost>>

(* gds_write.                                                              *)
Write(t, o, n) ==
    /\ o + n <= FileLen
    /\ Goto(t, "idle", "loop")
    /\ Start(t, "write", o, n, n)
    /\ asked' = asked \cup (o .. o + n - 1)
    /\ UNCHANGED <<vendor, gds, file, got, host, staging, status, inflight, lost>>

-----------------------------------------------------------------------------
Reading(t) == call[t].op # "write"

Size(t) ==
    LET left == call[t].bytes - call[t].off
    IN  IF call[t].chunk < left THEN call[t].chunk ELSE left

(* Faults: the bounce buffer or the HBM buffer is kept when the transfer   *)
(* fails.                                                                  *)
UnhostOk(t, s) == host' = IF s = "Ok" THEN host \ {t} ELSE host

Unhost(t, s) == host' = host \ {t}

UnstageOk(t, s) == IF s = "Ok" THEN "free" ELSE "idle"

Unstage(t, s) == IF t \in staging THEN "free" ELSE "idle"

(* The call returns, after PreprocessStage has freed its buffer.           *)
End(t, s) ==
    /\ status' = [status EXCEPT ![t] = s]
    /\ pc' = [pc EXCEPT ![t] = Unstage(t, s)]
    /\ got' = [got EXCEPT ![t] = << >>]

(* One round of gds_stream is one gds_read.  Whether gds_enabled_ is set   *)
(* or dma_submit is called, the shim does the same.                        *)
Loop(t) ==
    /\ pc[t] = "loop"
    /\ IF call[t].off >= call[t].bytes THEN End(t, "Ok")
       ELSE Goto(t, "loop", IF vendor = "Nvidia" THEN "host" ELSE "open") /\ UNCHANGED <<got, status>>
    /\ UNCHANGED <<vendor, gds, file, call, host, staging, dst, inflight, aux>>

HostBuffer(t) ==
    /\ pc[t] = "host"
    /\ \/ Goto(t, "host", IF Reading(t) THEN "open" ELSE "fetch")
          /\ host' = host \cup {t} /\ UNCHANGED <<got, status>>
       \/ End(t, "OutOfMemory") /\ UNCHANGED host
    /\ UNCHANGED <<vendor, gds, file, call, staging, dst, inflight, aux>>

(* A write copies from HBM before it opens the file.                       *)
CopyToHost(t) ==
    /\ pc[t] = "fetch"
    /\ \/ Goto(t, "fetch", "open") /\ UNCHANGED <<host, got, status>>
       \/ End(t, "DriverError") /\ Unhost(t, "DriverError")
    /\ UNCHANGED <<vendor, gds, file, call, staging, dst, inflight, aux>>

Open(t) ==
    /\ pc[t] = "open"
    /\ \/ Goto(t, "open", "cells") /\ UNCHANGED <<host, got, status>>
       \/ End(t, "IoError") /\ Unhost(t, "IoError")
    /\ UNCHANGED <<vendor, gds, file, call, staging, dst, inflight, aux>>

(* Fault: the offset of the chunk in the request is not added.             *)
AtChunk(t) == call[t].offset + Len(got[t])

At(t) == call[t].offset + call[t].off + Len(got[t])

Into(t) == call[t].off + Len(got[t]) + 1

(* fread: to the bounce buffer, or on Metal to where it is wanted.         *)
ReadCell(t) ==
    /\ pc[t] = "cells" /\ Reading(t)
    /\ Len(got[t]) < Size(t) /\ At(t) \in Positions
    /\ LET c == [pos |-> At(t), ver |-> file[At(t)]]
       IN  /\ got' = [got EXCEPT ![t] = Append(@, c)]
           /\ dst' = IF vendor = "Nvidia" THEN dst ELSE [dst EXCEPT ![t][Into(t)] = <<c>>]
    /\ UNCHANGED <<vendor, gds, file, pc, call, host, staging, status, inflight, aux>>

(* fwrite and fclose: what is still buffered may be lost at fclose, whose  *)
(* result nobody looks at.                                                 *)
WriteCell(t) ==
    /\ pc[t] = "cells" /\ ~Reading(t)
    /\ Len(got[t]) < Size(t)
    /\ got' = [got EXCEPT ![t] = Append(@, [pos |-> At(t), ver |-> 1])]
    /\ \/ file' = [file EXCEPT ![At(t)] = 1] /\ UNCHANGED lost
       \/ lost' = lost \cup {At(t)} /\ UNCHANGED file
    /\ UNCHANGED <<vendor, gds, pc, call, host, staging, dst, status, inflight,
                   floor, asked, calls>>

(* Fault: a short transfer passes.                                         *)
WholeOrPart(t) == TRUE

Whole(t) == Len(got[t]) = Size(t)

(* The end of the request, of the file, or of the disk's patience.         *)
EndCells(t) ==
    /\ pc[t] = "cells"
    /\ IF ~Whole(t) THEN End(t, "IoError") /\ Unhost(t, "IoError")
       ELSE IF vendor = "Nvidia" /\ Reading(t)
       THEN Goto(t, "cells", "copy") /\ UNCHANGED <<host, got, status>>
       ELSE Goto(t, "cells", "chunk") /\ Unhost(t, "Ok") /\ UNCHANGED <<got, status>>
    /\ UNCHANGED <<vendor, gds, file, call, staging, dst, inflight, aux>>

CopyToDevice(t) ==
    /\ pc[t] = "copy"
    /\ \/ /\ Goto(t, "copy", "chunk") /\ Unhost(t, "Ok") /\ UNCHANGED <<got, status>>
          /\ dst' = [dst EXCEPT ![t] =
                       [i \in DOMAIN @ |-> IF i - call[t].off \in DOMAIN got[t]
                                           THEN <<got[t][i - call[t].off]>> ELSE @[i]]]
       \/ End(t, "DriverError") /\ Unhost(t, "DriverError") /\ UNCHANGED dst
    /\ UNCHANGED <<vendor, gds, file, call, staging, inflight, aux>>

(* wait is given no event, as the transfer is done; the next chunk.        *)
EndChunk(t) ==
    /\ Goto(t, "chunk", "loop")
    /\ call' = [call EXCEPT ![t].off = @ + call[t].chunk]
    /\ got' = [got EXCEPT ![t] = << >>]
    /\ UNCHANGED <<vendor, gds, file, host, staging, dst, status, inflight, aux>>

FreeStaging(t) ==
    /\ Goto(t, "free", "idle")
    /\ staging' = staging \ {t}
    /\ UNCHANGED <<vendor, gds, file, call, got, host, dst, status, inflight, aux>>

-----------------------------------------------------------------------------
(* submit of an H2D, D2H or D2D copy on CUDA, on the stream dma_root, which *)
(* nothing ever sets: the event handed out is the null stream.             *)
Submit(t) ==
    /\ vendor = "Nvidia" /\ calls[t] < MaxCalls
    /\ Goto(t, "idle", "submitted")
    /\ calls' = [calls EXCEPT ![t] = @ + 1]
    /\ inflight' = inflight \cup {t}
    /\ UNCHANGED <<vendor, gds, file, call, got, host, staging, dst, status, floor, asked, lost>>

(* wait takes that for no event and returns Ok.                            *)
Wait(t) ==
    /\ Goto(t, "submitted", "waited")
    /\ UNCHANGED <<vendor, gds, file, call, got, host, staging, dst, status, inflight, aux>>

UseCopy(t) ==
    /\ Goto(t, "waited", "idle")
    /\ UNCHANGED <<vendor, gds, file, call, got, host, staging, dst, status, inflight, aux>>

DeviceCopies(t) ==
    /\ t \in inflight /\ inflight' = inflight \ {t}
    /\ UNCHANGED <<vendor, gds, file, pc, call, got, host, staging, dst, status, aux>>

Step(t) ==
    \/ Loop(t) \/ HostBuffer(t) \/ CopyToHost(t) \/ Open(t)
    \/ ReadCell(t) \/ WriteCell(t) \/ EndCells(t) \/ CopyToDevice(t) \/ EndChunk(t)
    \/ FreeStaging(t) \/ Wait(t) \/ UseCopy(t)

Next ==
    \/ Shutdown
    \/ \E t \in Threads :
          \/ Step(t) \/ Submit(t) \/ DeviceCopies(t)
          \/ \E o \in Positions, n \in Sizes : Write(t, o, n) \/ \E c \in Chunks : Stream(t, o, n, c)
          \/ \E n \in Sizes : Stage(t, n)

(* A transfer under way goes on: the file system and the driver answer.    *)
Fairness == \A t \in Threads : WF_vars(Step(t))

Spec == Init /\ [][Next]_vars /\ Fairness

-----------------------------------------------------------------------------
Returned(t, op) == pc[t] = "idle" /\ call[t].op = op

(* Cell i of the destination is the file's at its place, no older than     *)
(* when the call began.                                                    *)
IsFetched(t, i) ==
    LET p == call[t].offset + i - 1
    IN  \E c \in Cell : dst[t][i] = <<c>> /\ c.pos = p /\ c.ver >= floor[t][p]

(* A read leaves the cells before a point of the destination fetched and   *)
(* the rest as they were: all of them fetched if it returns Ok, whole      *)
(* chunks on CUDA if it does not, whatever the chunks and offsets, and     *)
(* whether or not gds_enabled_ was cleared or the file written meanwhile.  *)
ReadsFetchPrefix ==
    \A t \in Threads : Returned(t, "read") =>
        \E n \in 0 .. Len(dst[t]) :
            /\ \A i \in DOMAIN dst[t] : IF i <= n THEN IsFetched(t, i) ELSE dst[t][i] = << >>
            /\ IF status[t] = "Ok" THEN n = Len(dst[t])
               ELSE vendor = "Nvidia" => n % call[t].chunk = 0

(* A write that returns Ok has written all it was asked to, but for what   *)
(* fclose lost; and no write touches anything else.                        *)
OkWriteIsWritten ==
    /\ \A p \in Positions : file[p] = 1 => p \in asked
    /\ \A t \in Threads : Returned(t, "write") /\ status[t] = "Ok" =>
          \A p \in call[t].offset .. call[t].offset + call[t].bytes - 1 : file[p] = 1 \/ p \in lost

(* Whichever step fails, a call leaves neither a bounce buffer nor an HBM  *)
(* buffer behind.                                                          *)
NothingLeaked == \A t \in Threads : pc[t] = "idle" => t \notin host \cup staging

(* Every call returns.                                                     *)
CallsReturn == \A t \in Threads : pc[t] # "idle" ~> pc[t] = "idle"

(* What dma_engine.hpp says of submit: use wait to synchronize.            *)
WaitSynchronizes == \A t \in Threads : pc[t] = "waited" => t \notin inflight
=============================================================================
