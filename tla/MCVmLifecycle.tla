--------------------------- MODULE MCVmLifecycle ---------------------------
(* Two boots of two bundles, in every mode of VmLifecycle.                 *)
EXTENDS VmLifecycle

\* The iPadOS 14 start alone, so that the counterexample is about its window.
BackgroundInit == Init /\ mode = [background |-> TRUE, asks |-> FALSE]
BackgroundSpec == BackgroundInit /\ [][Next]_vars
=============================================================================
