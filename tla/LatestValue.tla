----------------------------- MODULE LatestValue -----------------------------
(* What a publisher of the latest value promises: a reader is shown moments   *)
(* of a history that grows, part by part, none of them from the future and,   *)
(* while no message overtakes another, none older than it was shown before.   *)
EXTENDS Naturals

CONSTANT Part         \* the parts of the value, each taken at a moment of its own

VARIABLES latest,     \* the newest moment
          shown,      \* [Part -> the moment the reader was last shown, 0 for none]
          overtaken   \* a message on its way was overtaken by a later one

Init == latest = 1 /\ shown = [p \in Part |-> 0] /\ overtaken = FALSE

Advance == latest' = latest + 1 /\ UNCHANGED shown

\* The reader is shown a moment.
Follow ==
  /\ shown' \in [Part -> 0..latest]
  /\ (\A p \in Part : shown[p] <= shown'[p]) \/ overtaken \/ overtaken'
  /\ UNCHANGED latest

Spec == Init /\ [][Advance \/ Follow]_<<latest, shown>>
=============================================================================
