----------------------------- MODULE ZoneControl -----------------------------
(***************************************************************************)
(* What fan control promises, free of how it is done: every fan controller *)
(* has a demand, and the only level a zone is ever commanded to is the     *)
(* greatest demand among the controllers of that zone.  There is no        *)
(* arbiter, no cache, no loop and no BMC here; ServiceLoop implements it.  *)
(***************************************************************************)
EXTENDS Integers

CONSTANTS
  Controllers,   \* the enabled fan controllers
  Zones,         \* the IPMI zones
  ZonesOf,       \* ZonesOf[c]: the zones of controller c
  Levels         \* fan levels in percent

VARIABLES
  demand,    \* demand[c]: the level controller c asks for
  command,   \* command[z]: the level zone z was last commanded to
  up         \* the service is running

vars == <<demand, command, up>>

NoLevel == -1

Demands(z) == {demand[c] : c \in {d \in Controllers : z \in ZonesOf[d]}}

IsTop(l, S) == l \in S /\ \A k \in S : k <= l

Init ==
  /\ demand \in [Controllers -> Levels]
  /\ command = [z \in Zones |-> NoLevel]
  /\ up = TRUE

Redemand(c) ==
  /\ up
  /\ \E l \in Levels : demand' = [demand EXCEPT ![c] = l]
  /\ UNCHANGED <<command, up>>

Serve(z) ==
  /\ up
  /\ \E l \in Levels :
       /\ IsTop(l, Demands(z))
       /\ command' = [command EXCEPT ![z] = l]
  /\ UNCHANGED <<demand, up>>

Stop == up /\ up' = FALSE /\ UNCHANGED <<demand, command>>

Next ==
  \/ \E c \in Controllers : Redemand(c)
  \/ \E z \in Zones : Serve(z)
  \/ Stop

SafeSpec == Init /\ [][Next]_vars

\* A zone somebody wants moving is served while the service stays up.
ServeWanted(z) == Serve(z) /\ \E l \in Demands(z) : l > 0

Spec == SafeSpec /\ \A z \in Zones : WF_vars(ServeWanted(z))
=============================================================================
