------------------------------ MODULE MCInstall ------------------------------
(* Two attempts with two names, a death and a cancellation.                *)
EXTENDS Install
=============================================================================
