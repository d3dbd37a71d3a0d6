------------------------- MODULE MC_ServiceLifecycle -------------------------
(* Small installations for the model checker. *)
EXTENDS ServiceLifecycle

\* Two controllers with a zone each; the hardware has a third zone.
TwoZonesOf == <<{0}, {1}>>

\* The second controller also names a zone the platform does not have.
BadZonesOf == <<{0}, {1, 3}>>
=============================================================================
