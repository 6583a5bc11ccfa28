---------------------------- MODULE MCUsbNotify ----------------------------
(* A restore tool that waits for recovery and RestoreOS, and for the       *)
(* removal of recovery, with its callbacks on one queue.                   *)
EXTENDS UsbNotify

CONSTANTS recovery, restoreos, restore

MCProducts == {recovery, restoreos}
MCOneQueue == {restore}

Slot(termination, product, q) ==
    [termination |-> termination, product |-> product, queue |-> q]

MCOnOneQueue == <<Slot(FALSE, restoreos, restore),
                  Slot(TRUE, recovery, restore),
                  Slot(FALSE, recovery, restore)>>
=============================================================================
