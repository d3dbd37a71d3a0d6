--------------------------- MODULE MC_FanController ---------------------------
(* Small controllers for the model checker. *)
EXTENDS Snapshot

\* Two plateaus below and above 21 degrees.
TwoLevels == [t \in 0..100 |-> IF t <= 20 THEN 30 ELSE IF t <= 21 THEN 45 ELSE 60]
=============================================================================
