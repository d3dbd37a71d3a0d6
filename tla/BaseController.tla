---------------------------- MODULE BaseController ----------------------------
(***************************************************************************)
(* What the main loop relies on of a temperature-driven fan controller,    *)
(* free of temperatures, devices and zones: the only levels it takes are   *)
(* those of its curve, and unless it leaves the writing to the arbiter it  *)
(* hands a level over before it takes the next one, or leaves run().       *)
(* FanController implements it, and the controllers of ServiceLoop do.     *)
(***************************************************************************)
EXTENDS Integers

CONSTANTS
  Curve,           \* the levels in levels_lut
  DeferredApply    \* deferred_apply

VARIABLES
  phase,   \* "ready", "apply" while a level is being handed to ipmi, "left" for ever
  level    \* last_level

vars == <<phase, level>>

Init == phase = "ready" /\ level = 0

\* run() finds another level for the temperature.
TakeLevel ==
  /\ phase = "ready"
  /\ \E l \in Curve \ {level} : level' = l
  /\ phase' = IF DeferredApply THEN "ready" ELSE "apply"

HandOver == phase = "apply" /\ phase' = "ready" /\ UNCHANGED level

\* An exception, wherever the controller is.
Leave == phase # "left" /\ phase' = "left" /\ UNCHANGED level

Next == TakeLevel \/ HandOver \/ Leave

Spec == Init /\ [][Next]_vars
=============================================================================
