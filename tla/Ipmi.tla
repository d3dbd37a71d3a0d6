--------------------------------- MODULE Ipmi ---------------------------------
(***************************************************************************)
(* The Ipmi object against a BMC that boots, is reset and drifts at any    *)
(* moment: the readiness gate of its constructor, the choice of the        *)
(* platform, its start(), and then the calls that write levels, down to    *)
(* the single ipmitool command.  It is built by the service, which then    *)
(* controls the fans, and by smfc-client (inClient), which only reads.     *)
(*                                                                         *)
(*   sdr              the gate is about to call `ipmitool sdr`             *)
(*   waitBmc waitFans the gate sleeps 5 s, for condition (a) or (b)        *)
(*   info create      `bmc info`, create_platform                          *)
(*   program          start(): one unit after another is put into manual   *)
(*                    control, by the constructor or by a later write      *)
(*   idle             no call in progress; raised: the constructor raised  *)
(*   write release    the zones are written; X14 only: manual mode is      *)
(*                    released zone by zone                                *)
(*                                                                         *)
(* Negative delays are rejected by config.py before the constructor is.    *)
(* The fan mode is in ServiceLoop; here the BMC is in FULL mode.           *)
(***************************************************************************)
EXTENDS Integers, Platform

CONSTANTS
  Zones,          \* zones of the board, or as many as its platform always has
  NamedZones,     \* zones a caller may name
  Registers,      \* what start() of the X10QBi programs
  Values,         \* levels written
  ServiceBudget,  \* BMC_INIT_TIMEOUT in steps of 5 s
  ClientBudget    \* CLIENT_BMC_INIT_TIMEOUT in steps of 5 s

ASSUME ZonesAssumption == Zones \subseteq NamedZones
ASSUME BudgetAssumption == ServiceBudget \in Nat /\ ClientBudget \in Nat
ASSUME ValuesAssumption == "auto" \notin Values

VARIABLES
  inClient,  \* the caller is smfc-client
  name,      \* platform_name=
  product,   \* what `bmc info` says
  pc,
  waited,    \* bmc_timeout in steps of 5 s
  platform,  \* the platform object, "none" before it exists
  op,        \* the call in progress or the last one: start, set, end
  target,    \* its zones
  value,     \* its level
  todo,      \* units or zones it has still to handle
  result,    \* how the last call went: none, ok, failed, rejected
  stage,     \* the BMC: down, booting (answers, fans not settled), settled
  manual,    \* units of the board under manual control
  chip,      \* chip[z]: the level in force, "auto" when the board decides
  upset,     \* history: the BMC was reset since the last `sdr` answer
  calm,      \* history: the board has not moved since its preparation began
  sent       \* history: a command that changes the BMC was sent

callVars == <<op, target, value, todo, result>>
gateVars == <<inClient, name, product, waited>>
bmcVars == <<stage, manual, chip>>
vars == <<inClient, name, product, pc, waited, platform, op, target, value, todo, result,
          stage, manual, chip, upset, calm, sent>>

Gate == {"sdr", "waitBmc", "waitFans"}

Budget == IF inClient THEN ClientBudget ELSE ServiceBudget

\* What start() of a platform has to bring under manual control.
Units(p) == CASE p = "generic_x14" -> Zones [] p = "X10QBi" -> Registers [] OTHER -> {}

\* The zones a platform accepts: the generic one 0 to 100, whatever the board has.
Accepted == IF platform = "generic" THEN NamedZones ELSE Zones

-----------------------------------------------------------------------------
(* The readiness gate.                                                     *)

\* Mutant of SdrAnswers: an answer is enough.
SdrAnswersOnce ==
  /\ pc = "sdr" /\ stage # "down"
  /\ pc' = "info"
  /\ upset' = FALSE
  /\ UNCHANGED <<gateVars, platform, callVars, bmcVars, calm, sent>>

\* rc = 0: (a) holds.  A live fan sensor means that the fan subsystem has settled;
\* there may be none even then, on a board whose headers are not in use.
SdrAnswers ==
  /\ pc = "sdr" /\ stage # "down"
  /\ \E live \in BOOLEAN :
       /\ live => stage = "settled"
       /\ pc' = IF inClient \/ live \/ waited >= Budget THEN "info" ELSE "waitFans"
  /\ upset' = FALSE
  /\ UNCHANGED <<gateVars, platform, callVars, bmcVars, calm, sent>>

\* rc # 0.  A message that names ipmitool is taken for a BMC that is not ready (also
\* that of a sudo which does not find it); another one, and a missing command, end it.
SdrFails ==
  /\ pc = "sdr"
  /\ pc' \in {"waitBmc", "raised"}
  /\ UNCHANGED <<gateVars, platform, callVars, bmcVars, upset, calm, sent>>

\* Mutant of WaitBmc: the budget is not looked at.
WaitBmcForever ==
  /\ pc = "waitBmc" /\ waited' = waited + 1 /\ pc' = "sdr"
  /\ UNCHANGED <<inClient, name, product, platform, callVars, bmcVars, upset, calm, sent>>

WaitBmc ==
  /\ pc = "waitBmc"
  /\ waited' = waited + 1
  /\ pc' = IF waited' < Budget THEN "sdr" ELSE "raised"
  /\ UNCHANGED <<inClient, name, product, platform, callVars, bmcVars, upset, calm, sent>>

\* Mutant of WaitFans: the time is not counted.
WaitFansUncounted ==
  /\ pc = "waitFans" /\ pc' = "sdr"
  /\ UNCHANGED <<gateVars, platform, callVars, bmcVars, upset, calm, sent>>

WaitFans ==
  /\ pc = "waitFans"
  /\ waited' = waited + 1
  /\ pc' = "sdr"
  /\ UNCHANGED <<inClient, name, product, platform, callVars, bmcVars, upset, calm, sent>>

\* `bmc info` fails, or its answer cannot be parsed.
ReadInfo ==
  /\ pc = "info"
  /\ \/ stage # "down" /\ pc' = "create"
     \/ pc' = "raised"
  /\ UNCHANGED <<gateVars, platform, callVars, bmcVars, upset, calm, sent>>

-----------------------------------------------------------------------------
(* The platform.                                                           *)

Named == IF name = "auto" THEN product ELSE name

\* Mutant of Create: the client starts the platform too.
CreateAndStart ==
  /\ pc = "create"
  /\ platform' = CreatePlatform(Named)
  /\ op' = "start" /\ todo' = Units(platform')
  /\ pc' = IF todo' = {} THEN "idle" ELSE "program"
  /\ calm' = (stage = "settled")
  /\ UNCHANGED <<gateVars, target, value, result, bmcVars, upset, sent>>

\* create_platform, and start() for the service.
Create ==
  /\ pc = "create"
  /\ platform' = CreatePlatform(Named)
  /\ op' = "start"
  /\ todo' = IF inClient THEN {} ELSE Units(platform')
  /\ pc' = IF todo' = {} THEN "idle" ELSE "program"
  /\ calm' = (stage = "settled")
  /\ UNCHANGED <<gateVars, target, value, result, bmcVars, upset, sent>>

\* What a command does to the board once ipmitool has sent it: a booting board may
\* not keep what it is told, and ignores levels.
Programmed(u) ==
  /\ manual' \in IF stage = "settled" THEN {manual \cup {u}} ELSE {manual, manual \cup {u}}
  /\ UNCHANGED <<stage, chip>>

Obeys(z) ==
  /\ z \in Zones /\ stage = "settled"
  /\ platform = "generic_x14" => z \in manual
  /\ platform = "X10QBi" => Registers \subseteq manual

Written(z) ==
  /\ chip' = [y \in Zones |-> IF y = z /\ Obeys(z) THEN value ELSE chip[y]]
  /\ UNCHANGED <<stage, manual>>

Released(z) ==
  /\ manual' = manual \ {z}
  /\ chip' = [chip EXCEPT ![z] = "auto"]
  /\ UNCHANGED stage

\* One command of start(): a latch of the X14, a register of the X10QBi.
Program ==
  /\ pc = "program" /\ stage # "down"
  /\ \E u \in todo :
       /\ Programmed(u)
       /\ IF todo # {u} THEN todo' = todo \ {u} /\ UNCHANGED pc
          ELSE IF op = "start" THEN todo' = {} /\ pc' = "idle"
               ELSE todo' = target /\ pc' = "write"
  /\ sent' = TRUE
  /\ UNCHANGED <<gateVars, platform, op, target, value, result, upset, calm>>

\* Mutant of Call: the X10QBi writes levels without start().
CallUnprepared ==
  /\ pc = "idle" /\ ~inClient /\ op # "end"
  /\ \E o \in {"set", "end"}, S \in (SUBSET NamedZones) \ {{}}, v \in Values :
       IF S \subseteq Accepted
       THEN /\ op' = o /\ target' = S /\ value' = v /\ result' = "none"
            /\ pc' = "write" /\ todo' = S
            /\ calm' = IF platform = "generic_x14" THEN calm ELSE stage = "settled"
       ELSE result' = "rejected" /\ UNCHANGED <<pc, op, target, value, todo, calm>>
  /\ UNCHANGED <<gateVars, platform, bmcVars, upset, sent>>

\* set_fan_level, set_multiple_fan_levels or end() is called.  All zones are checked
\* before the first command.  The X10QBi repeats start() before every write.
Call ==
  /\ pc = "idle" /\ ~inClient /\ op # "end"
  /\ \E o \in {"set", "end"}, S \in (SUBSET NamedZones) \ {{}}, v \in Values :
       IF S \subseteq Accepted
       THEN /\ op' = o /\ target' = S /\ value' = v /\ result' = "none"
            /\ pc' = IF platform = "X10QBi" /\ Registers # {} THEN "program" ELSE "write"
            /\ todo' = IF pc' = "program" THEN Registers ELSE S
            /\ calm' = IF platform = "generic_x14" THEN calm ELSE stage = "settled"
       ELSE result' = "rejected" /\ UNCHANGED <<pc, op, target, value, todo, calm>>
  /\ UNCHANGED <<gateVars, platform, bmcVars, upset, sent>>

WriteZone ==
  /\ pc = "write" /\ stage # "down"
  /\ \E z \in todo :
       /\ Written(z)
       /\ CASE todo # {z} -> todo' = todo \ {z} /\ UNCHANGED <<pc, result>>
            [] todo = {z} /\ op = "end" /\ platform = "generic_x14" ->
                 todo' = Zones /\ pc' = "release" /\ UNCHANGED result
            [] OTHER -> todo' = {} /\ pc' = "idle" /\ result' = "ok"
  /\ sent' = TRUE
  /\ UNCHANGED <<gateVars, platform, op, target, value, upset, calm>>

\* The second loop of end() of the X14
Release ==
  /\ pc = "release" /\ stage # "down"
  /\ \E z \in todo :
       /\ Released(z)
       /\ todo' = todo \ {z}
       /\ IF todo' # {} THEN UNCHANGED <<pc, result>> ELSE pc' = "idle" /\ result' = "ok"
  /\ sent' = TRUE
  /\ UNCHANGED <<gateVars, platform, op, target, value, upset, calm>>

\* A command returns an error, whether the board took it or not.
CommandFails ==
  /\ pc \in {"program", "write", "release"}
  /\ \/ UNCHANGED bmcVars
     \/ /\ stage # "down"
        /\ \E u \in todo : \/ pc = "program" /\ Programmed(u)
                           \/ pc = "write" /\ Written(u)
                           \/ pc = "release" /\ Released(u)
  /\ pc' = IF op = "start" THEN "raised" ELSE "idle"
  /\ result' = "failed"
  /\ sent' = TRUE
  /\ UNCHANGED <<gateVars, platform, op, target, value, todo, upset, calm>>

-----------------------------------------------------------------------------
(* The BMC and the board.                                                  *)

Boot ==
  /\ \/ stage = "down" /\ stage' = "booting"
     \/ stage = "booting" /\ stage' = "settled"
  /\ UNCHANGED <<gateVars, pc, platform, callVars, manual, chip, upset, calm, sent>>

Moves(units) ==
  /\ manual' = units
  /\ chip' = [z \in Zones |-> "auto"]
  /\ calm' = FALSE
  /\ UNCHANGED <<gateVars, pc, platform, callVars, sent>>

\* A cold reset, a BIOS change, a power cut
Reset ==
  /\ stage' = "down" /\ upset' = TRUE
  /\ Moves({})

\* The chip of the X10QBi falls back to SmartFan mode on its own.
Drift ==
  /\ platform = "X10QBi"
  /\ \E units \in SUBSET manual : units # manual /\ Moves(units)
  /\ UNCHANGED <<stage, upset>>

-----------------------------------------------------------------------------

Init ==
  /\ inClient \in BOOLEAN
  /\ \/ name = "auto" /\ product \in Products
     \/ name \in Platforms /\ product = "X11"
  /\ pc = "sdr" /\ waited = 0 /\ platform = "none"
  /\ op = "start" /\ target = {} /\ value = "auto" /\ todo = {} /\ result = "none"
  /\ stage \in {"down", "booting", "settled"}
  /\ manual = {} /\ chip = [z \in Zones |-> "auto"]
  /\ upset = FALSE /\ calm = FALSE /\ sent = FALSE

Construct == SdrAnswers \/ SdrFails \/ WaitBmc \/ WaitFans \/ ReadInfo \/ Create

Next ==
  \/ Construct \/ Program \/ Call \/ WriteZone \/ Release \/ CommandFails
  \/ Boot \/ Reset \/ Drift

Spec == Init /\ [][Next]_vars

\* The constructor runs; the BMC need never come up, nor stay up.
FairSpec == Spec /\ WF_vars(Construct)

-----------------------------------------------------------------------------
(* Properties.                                                             *)

TypeOK ==
  /\ inClient \in BOOLEAN
  /\ name \in {"auto"} \cup Platforms /\ product \in Products
  /\ pc \in Gate \cup {"info", "create", "program", "idle", "write", "release", "raised"}
  /\ waited \in Nat
  /\ platform \in {"none"} \cup Platforms
  /\ op \in {"start", "set", "end"}
  /\ target \in SUBSET NamedZones
  /\ value \in Values \cup {"auto"}
  /\ todo \in SUBSET (NamedZones \cup Registers)
  /\ result \in {"none", "ok", "failed", "rejected"}
  /\ stage \in {"down", "booting", "settled"}
  /\ manual \in SUBSET (Zones \cup Registers)
  /\ chip \in [Zones -> Values \cup {"auto"}]
  /\ upset \in BOOLEAN /\ calm \in BOOLEAN /\ sent \in BOOLEAN

\* ARCHITECTURE.md 6.4: a level written before the fans have settled sticks at 100%
\* until the next poll.  So nothing is written to a BMC whose fans have not settled,
\* unless the budget is spent or the BMC was reset behind the gate's back.
SettledBeforeControl ==
  pc \in {"program", "idle", "write", "release"} /\ ~inClient /\ ~upset /\ waited < Budget
    => stage = "settled"

\* The two conditions share one budget: whatever the BMC answers, the constructor
\* sleeps at most one step more than it (the call after the last step may fail).
WaitBounded == waited <= Budget + 1

\* README 12: smfc-client never changes any fan state, start() included.
ClientChangesNothing == inClient => ~sent

\* A call that reports success has put its level in force on every zone of the board,
\* whatever the board did before it: the X10QBi is prepared again by every write, the X14 only
\* once, by start(), so there the board must not have been reset since.
LevelsLand ==
  /\ pc = "idle" /\ result = "ok" /\ calm
  /\ op = "set" \/ (op = "end" /\ platform # "generic_x14")
  => \A z \in target \cap Zones : chip[z] = value

\* The constructor does not wait for ever, even for a BMC that never comes up, that
\* is reset again and again or that has no fan sensor.
GateEnds == pc \in Gate ~> pc \notin Gate
=============================================================================
