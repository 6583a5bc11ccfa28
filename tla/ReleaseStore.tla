---------------------------- MODULE ReleaseStore ----------------------------
(***************************************************************************)
(* What the release scripts promise of the packages they produce: a        *)
(* package is published under a name that is free, is taken off the shelf  *)
(* only into the archive, and is never overwritten or lost.                *)
(***************************************************************************)
VARIABLES shelf, kept     \* published packages, and the archived ones

storeVars == <<shelf, kept>>

Init == shelf = {} /\ kept = {}

Publish(p) ==
  /\ \A q \in shelf : q.name # p.name
  /\ shelf' = shelf \cup {p}
  /\ UNCHANGED kept

Retire(p) ==
  /\ p \in shelf
  /\ shelf' = shelf \ {p}
  /\ kept' = kept \cup {p}

Next == (\E p \in shelf' : Publish(p)) \/ (\E p \in shelf : Retire(p))

Spec == Init /\ [][Next]_storeVars

\* Every package that was ever published is still there.
NothingLost == [][shelf \cup kept \subseteq shelf' \cup kept']_storeVars
=============================================================================
