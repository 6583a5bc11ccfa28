---------------------------- MODULE MCFairLease ----------------------------
(* Requests that compete for the helper, and tickets of an earlier boot.   *)
EXTENDS FairLease, TLC

CONSTANTS r1, r2, r3, r4

MCThree == {r1, r2, r3}
MCFour == {r1, r2, r3, r4}
MCOld == {r3}
MCSymmetry == Permutations({r1, r2, r4})
=============================================================================
