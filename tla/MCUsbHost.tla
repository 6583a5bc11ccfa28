----------------------------- MODULE MCUsbHost -----------------------------
(* Three restore personalities, a fault-prone controller, up to three      *)
(* reconnections and two stall retries.                                    *)
EXTENDS UsbHost

CONSTANTS dfu, recovery, restoreos

MCProducts == {dfu, recovery, restoreos}
=============================================================================
