---------------------------- MODULE FaultHandler ----------------------------
(***************************************************************************)
(* FaultHandler (src/firmware/fault_handler.cpp) where it has a buffer,    *)
(* which is on Metal: install makes the buffer and starts the poller,      *)
(* uninstall stops it, and in between the poller sweeps the records while  *)
(* the device writes new ones.                                             *)
(*                                                                         *)
(* The device's side is external: a record is its address and then its     *)
(* status, written without a lock into a slot whose fault has been dealt   *)
(* with (status is not 0), and it writes none once uninstall has begun.    *)
(* `waiting` are the faults it has logged and whose page nobody has tried  *)
(* to bring in yet.                                                        *)
(***************************************************************************)
EXTENDS Integers, FiniteSets

CONSTANTS BufferSlots,  \* buffer_slots_
          Faults,       \* addresses the device faults on
          NoFault,      \* address 0, in a record nobody has written
          MaxLogs       \* bound: faults logged

ASSUME FaultHandlerAssumption ==
    /\ BufferSlots \in Nat \ {0} /\ MaxLogs \in Nat
    /\ NoFault \notin Faults

(* status: 0 pending, 1 resolved, 2 failed.                                *)
Record == [faulting_addr : Faults \cup {NoFault}, status : 0 .. 2]

VARIABLES buffer,    \* the records behind hbm_fault_buffer_
          allocated, \* has the platform the buffer? (hbm_fault_buffer_ # nullptr)
          stop,      \* stop_
          owner,     \* where the thread is that installs and uninstalls
          poller,    \* where the poller is
          slot,      \* its i
          log,       \* the slot whose record the device is writing, or 0
          total, resolved, failed,   \* the counters
          waiting, logs

devVars == <<log, waiting, logs>>
counters == <<total, resolved, failed>>
fvars == <<buffer, allocated, stop, owner, poller, slot, log, total, resolved, failed,
          waiting, logs>>

FTypeOK ==
    /\ buffer \in [1 .. BufferSlots -> Record]
    /\ allocated \in BOOLEAN /\ stop \in BOOLEAN
    /\ owner \in {"new", "installed", "join", "free", "uninstalled"}
    /\ poller \in {"none", "loop", "slot", "resolve", "mark", "ended"}
    /\ slot \in 1 .. BufferSlots + 1
    /\ log \in 0 .. BufferSlots
    /\ {total, resolved, failed} \subseteq 0 .. BufferSlots + MaxLogs
    /\ waiting \subseteq Faults /\ logs \in 0 .. MaxLogs

Empty == [faulting_addr |-> NoFault, status |-> 0]

FInit ==
    /\ buffer = [i \in 1 .. BufferSlots |-> Empty] /\ allocated = FALSE
    /\ stop = FALSE /\ owner = "new"
    /\ poller = "none" /\ slot = 1
    /\ log = 0
    /\ total = 0 /\ resolved = 0 /\ failed = 0
    /\ waiting = {} /\ logs = 0

-----------------------------------------------------------------------------
(* install.  memset clears the records: status 0, as if pending.  A failed *)
(* allocation ends the boot before there is a poller.                      *)
Install ==
    /\ owner = "new" /\ owner' = "installed"
    /\ allocated' = TRUE
    /\ buffer' = [i \in 1 .. BufferSlots |-> Empty]
    /\ stop' = FALSE
    /\ poller' = "loop"
    /\ UNCHANGED <<slot, counters, devVars>>

(* Fault: uninstall does not set stop_.                                    *)
RequestNothing == UNCHANGED stop

RequestStop == stop' = TRUE

(* Fault: uninstall does not join.                                         *)
JoinedAtOnce == TRUE

Joined == poller = "ended"

(* uninstall, of shutdown or of the destructor: the second one finds no    *)
(* buffer.                                                                 *)
Uninstall ==
    /\ owner = "installed" /\ owner' = "join"
    /\ log = 0
    /\ RequestStop
    /\ UNCHANGED <<buffer, allocated, poller, slot, counters, devVars>>

Join ==
    /\ owner = "join" /\ Joined
    /\ owner' = "free"
    /\ UNCHANGED <<buffer, allocated, stop, poller, slot, counters, devVars>>

FreeBuffer ==
    /\ owner = "free" /\ owner' = "uninstalled"
    /\ allocated' = FALSE
    /\ UNCHANGED <<buffer, stop, poller, slot, counters, devVars>>

-----------------------------------------------------------------------------
(* Fault: the poller ends when it finds nothing to do.                     *)
StoppingWhenIdle == stop \/ \A i \in 1 .. BufferSlots : buffer[i].status # 0

Stopping == stop

(* poll_loop.  stop_ is looked at before each sweep, not in it; between    *)
(* two sweeps the poller may sleep.                                        *)
Sweep ==
    /\ poller = "loop"
    /\ poller' = IF Stopping THEN "ended" ELSE "slot"
    /\ slot' = 1
    /\ UNCHANGED <<buffer, allocated, stop, owner, counters, devVars>>

Swept(i) == i > BufferSlots

EndSweep ==
    /\ poller = "slot" /\ Swept(slot)
    /\ poller' = "loop"
    /\ UNCHANGED <<buffer, allocated, stop, owner, slot, counters, devVars>>

IsPending(r) == r.status = 0

(* Fault: the status is written before the page is brought in.             *)
LookMarksFirst ==
    /\ poller = "slot" /\ ~Swept(slot)
    /\ IF ~IsPending(buffer[slot])
       THEN slot' = slot + 1 /\ UNCHANGED <<poller, total, buffer>>
       ELSE /\ poller' = "resolve" /\ total' = total + 1 /\ UNCHANGED slot
            /\ buffer' = [buffer EXCEPT ![slot].status = 1]
    /\ UNCHANGED <<allocated, stop, owner, resolved, failed, devVars>>

Look ==
    /\ poller = "slot" /\ ~Swept(slot)
    /\ IF ~IsPending(buffer[slot])
       THEN slot' = slot + 1 /\ UNCHANGED <<poller, total>>
       ELSE poller' = "resolve" /\ total' = total + 1 /\ UNCHANGED slot
    /\ UNCHANGED <<buffer, allocated, stop, owner, resolved, failed, devVars>>

(* Fault: a failed fetch is counted twice.                                 *)
CountedTwice(s) ==
    IF s = 1 THEN resolved' = resolved + 1 /\ UNCHANGED failed
    ELSE failed' = failed + 1 /\ resolved' = resolved + 1

Counted(s) ==
    IF s = 1 THEN resolved' = resolved + 1 /\ UNCHANGED failed
    ELSE failed' = failed + 1 /\ UNCHANGED resolved

(* The address is read, and its page brought in or not ...                 *)
Resolve ==
    /\ poller = "resolve"
    /\ poller' = "mark"
    /\ waiting' = waiting \ {buffer[slot].faulting_addr}
    /\ UNCHANGED <<buffer, allocated, stop, owner, slot, counters, log, logs>>

(* ... and then the status written, whatever the record holds by now.      *)
Mark ==
    /\ poller = "mark"
    /\ poller' = "slot"
    /\ \E s \in {1, 2} : buffer' = [buffer EXCEPT ![slot].status = s] /\ Counted(s)
    /\ slot' = slot + 1
    /\ UNCHANGED <<allocated, stop, owner, total, devVars>>

-----------------------------------------------------------------------------
(* The device logs a fault.                                                *)
LogAddress(i, f) ==
    /\ owner = "installed"
    /\ log = 0 /\ logs < MaxLogs
    /\ buffer[i].status # 0
    /\ f \notin waiting
    /\ buffer' = [buffer EXCEPT ![i].faulting_addr = f]
    /\ log' = i /\ logs' = logs + 1
    /\ waiting' = waiting \cup {f}
    /\ UNCHANGED <<allocated, stop, owner, poller, slot, counters>>

LogStatus ==
    /\ log # 0
    /\ buffer' = [buffer EXCEPT ![log].status = 0]
    /\ log' = 0
    /\ UNCHANGED <<allocated, stop, owner, poller, slot, counters, waiting, logs>>

PollerStep == Sweep \/ EndSweep \/ Look \/ Resolve \/ Mark
OwnerStep  == Join \/ FreeBuffer

FNext ==
    \/ Install \/ Uninstall \/ OwnerStep \/ PollerStep
    \/ \E i \in 1 .. BufferSlots, f \in Faults : LogAddress(i, f)
    \/ LogStatus

(* The poller's thread is scheduled, an uninstall under way goes on, and   *)
(* the device ends the record it has begun.                                *)
FFairness == WF_fvars(PollerStep) /\ WF_fvars(OwnerStep) /\ WF_fvars(LogStatus)

FSpec == FInit /\ [][FNext]_fvars /\ FFairness

-----------------------------------------------------------------------------
(* The poller reads and writes records only while the platform has the     *)
(* buffer: uninstall frees it after the poller's last sweep.               *)
PollerHasBuffer == poller \in {"slot", "resolve", "mark"} => allocated

(* The record the poller has counted and not yet marked.                   *)
InProgress == IF poller \in {"resolve", "mark"} THEN {slot} ELSE {}

Pending == {i \in 1 .. BufferSlots : buffer[i].status = 0}

(* Every record is counted exactly once: the ones the device has logged    *)
(* and, as install clears the buffer to the status of a pending fault, one *)
(* for each slot.  What is counted is in progress, resolved or failed.     *)
RecordsCountedOnce ==
    /\ total = resolved + failed + Cardinality(InProgress)
    /\ owner # "new" =>
          total + Cardinality(Pending \ InProgress)
                = BufferSlots + logs - (IF log = 0 THEN 0 ELSE 1)

(* A page the device waits for has a record that says so, which the poller *)
(* has yet to resolve: no status write of the poller hits a record that    *)
(* the device has reused meanwhile.                                        *)
WaitingIsPending ==
    \A f \in waiting : \E i \in 1 .. BufferSlots :
        buffer[i].faulting_addr = f /\ (i \in Pending \/ log = i)

(* A fault is looked at in the end, unless the handler is taken down ...   *)
FaultsHandled == \A f \in Faults : f \in waiting ~> (f \notin waiting \/ owner # "installed")

(* ... and uninstall returns, also when the device has kept the poller     *)
(* busy.                                                                   *)
UninstallReturns == owner = "join" ~> owner = "uninstalled"

PollerServes == FaultsHandled /\ UninstallReturns
=============================================================================
