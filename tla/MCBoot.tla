------------------------------- MODULE MCBoot -------------------------------
(* Small instances of Boot for TLC.                                        *)
EXTENDS Boot

Device(v, vmm, gds, grdma, ilc) ==
    [vendor |-> v, vmm |-> vmm, gds |-> gds, grdma |-> grdma, ilc |-> ilc]

(* An H100, a T4 without GRDMA, an M1.                                     *)
SomeDevices == {Device("Nvidia", TRUE, TRUE, TRUE, TRUE),
                Device("Nvidia", FALSE, TRUE, FALSE, FALSE),
                Device("Apple", FALSE, FALSE, FALSE, FALSE)}
=============================================================================
