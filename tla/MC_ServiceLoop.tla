--------------------------- MODULE MC_ServiceLoop ---------------------------
(* Small installations for the model checker. *)
EXTENDS ServiceLoop

\* CPU on zone 0, HD on zones 0 and 1, CONST on zone 0: zone 0 is shared, zone 1
\* has one controller that is deferred because of zone 0.
SharedZonesOf == <<{0}, {0, 1}, {0}>>
SharedCurve == <<{1, 3}, {0, 2}, {2}>>

\* CPU on zones 0 and 1; HD on zone 2, which its list names twice, so that it is
\* deferred without sharing; CONST on zone 3: both kinds of direct writers.
MixedZonesOf == <<{0, 1}, {2}, {3}>>
MixedRepeats == <<{}, {2}, {}>>
MixedCurve == <<{1, 2}, {0, 2}, {1}>>

NoRepeats == [c \in 1..N |-> {}]
\* The BMC only leaves FULL; or somebody may also put it back.
Drifted == {0}
DriftedAndBack == {0, FULL}
=============================================================================
