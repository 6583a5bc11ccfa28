---------------------------- MODULE MCUsbBridge ----------------------------
(* A bridge client and the worker against one reconnection.                *)
EXTENDS UsbBridge

CONSTANTS recovery, restoreos, c1

MCProducts == {recovery, restoreos}
MCOneClient == {c1}
=============================================================================
