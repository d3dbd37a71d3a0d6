------------------------------ MODULE Ipmi_proofs ------------------------------
(***************************************************************************)
(* Proofs about Ipmi, for every set of zones and registers and for every   *)
(* budget.  Each part of the inductive invariant is preserved on its own,  *)
(* given the types.                                                        *)
(***************************************************************************)
EXTENDS Ipmi, TLAPS

USE ZonesAssumption, BudgetAssumption, ValuesAssumption
USE DEF gateVars, callVars, bmcVars

\* The readiness gate has counted its steps, and the fans had settled when it let the
\* constructor go on.
GateInv ==
  /\ pc \in {"sdr", "waitBmc"} => waited <= Budget
  /\ pc = "waitFans" => waited < Budget
  /\ waited <= Budget + 1
  /\ pc \in {"info", "create", "program", "idle", "write", "release"}
       /\ inClient = FALSE /\ upset = FALSE /\ waited < Budget => stage = "settled"

ClientInv == inClient = TRUE => sent = FALSE /\ pc \notin {"program", "write", "release"}

\* While the board is calm, the units that have been handled are under manual control,
\* and the zones that have been written are at the level.
BoardInv ==
  calm = TRUE =>
    /\ stage = "settled"
    /\ inClient = FALSE /\ platform = "generic_x14" =>
         /\ pc = "program" => op = "start" /\ Zones \ todo \subseteq manual
         /\ pc = "write" => Zones \subseteq manual
         /\ pc = "idle" /\ op # "end" => Zones \subseteq manual
    /\ platform = "X10QBi" =>
         /\ pc = "program" => Registers \ todo \subseteq manual
         /\ pc = "write" => Registers \subseteq manual
    /\ pc = "write" => \A z \in (target \ todo) \cap Zones : chip[z] = value
    /\ LevelsLand

\* Where the lists that are worked off come from.
ListInv ==
  /\ pc = "write" => todo \subseteq target
  /\ pc = "write" => op # "start" /\ inClient = FALSE
  /\ pc = "program" => inClient = FALSE
  /\ pc = "program" /\ platform = "generic_x14" => todo \subseteq Zones
  /\ pc = "program" /\ platform = "X10QBi" => todo \subseteq Registers
  /\ pc = "release" => op = "end" /\ platform = "generic_x14"
  /\ pc = "program" => platform \in {"generic_x14", "X10QBi"}
  /\ pc \notin {"idle", "raised"} => result = "none"

IInv == TypeOK /\ ListInv /\ GateInv /\ ClientInv /\ BoardInv

LEMMA PlatformsTyped == \A n : CreatePlatform(n) \in Platforms
BY DEF CreatePlatform, Platforms

LEMMA InitInv == Init => IInv
<1> SUFFICES ASSUME Init PROVE IInv
  OBVIOUS
<1>1. TypeOK
  BY DEF Init, TypeOK, Gate, Products
<1>2. ListInv /\ GateInv /\ ClientInv /\ BoardInv
  BY DEF Init, ListInv, GateInv, ClientInv, BoardInv, Budget
<1>3. QED
  BY <1>1, <1>2 DEF IInv

LEMMA SdrAnswersKeeps == ASSUME IInv, SdrAnswers PROVE IInv'
<1>1. TypeOK'
  BY DEF Budget, SdrAnswers, IInv, TypeOK, Gate
<1>2. ListInv'
  BY DEF Budget, SdrAnswers, IInv, TypeOK, Gate, ListInv
<1>3. GateInv'
  BY DEF SdrAnswers, IInv, TypeOK, Gate, GateInv, Budget
<1>4. ClientInv'
  BY DEF Budget, SdrAnswers, IInv, TypeOK, Gate, ListInv, ClientInv
<1>5. BoardInv'
  BY DEF Budget, SdrAnswers, IInv, TypeOK, Gate, ListInv, BoardInv, LevelsLand
<1>6. QED
  BY <1>1, <1>2, <1>3, <1>4, <1>5 DEF IInv

LEMMA SdrFailsKeeps == ASSUME IInv, SdrFails PROVE IInv'
<1>1. TypeOK'
  BY DEF SdrFails, IInv, TypeOK, Gate
<1>2. ListInv'
  BY DEF SdrFails, IInv, TypeOK, Gate, ListInv
<1>3. GateInv'
  BY DEF SdrFails, IInv, TypeOK, Gate, GateInv, Budget
<1>4. ClientInv'
  BY DEF SdrFails, IInv, TypeOK, Gate, ListInv, ClientInv
<1>5. BoardInv'
  BY DEF SdrFails, IInv, TypeOK, Gate, ListInv, BoardInv, LevelsLand
<1>6. QED
  BY <1>1, <1>2, <1>3, <1>4, <1>5 DEF IInv

LEMMA WaitBmcKeeps == ASSUME IInv, WaitBmc PROVE IInv'
<1>1. TypeOK'
  BY DEF WaitBmc, IInv, TypeOK, Gate
<1>2. ListInv'
  BY DEF WaitBmc, IInv, TypeOK, Gate, ListInv
<1>3. GateInv'
  BY DEF WaitBmc, IInv, TypeOK, Gate, GateInv, Budget
<1>4. ClientInv'
  BY DEF WaitBmc, IInv, TypeOK, Gate, ListInv, ClientInv
<1>5. BoardInv'
  BY DEF WaitBmc, IInv, TypeOK, Gate, ListInv, BoardInv, LevelsLand
<1>6. QED
  BY <1>1, <1>2, <1>3, <1>4, <1>5 DEF IInv

LEMMA WaitFansKeeps == ASSUME IInv, WaitFans PROVE IInv'
<1>1. TypeOK'
  BY DEF WaitFans, IInv, TypeOK, Gate
<1>2. ListInv'
  BY DEF WaitFans, IInv, TypeOK, Gate, ListInv
<1>3. GateInv'
  BY DEF WaitFans, IInv, TypeOK, Gate, GateInv, Budget
<1>4. ClientInv'
  BY DEF WaitFans, IInv, TypeOK, Gate, ListInv, ClientInv
<1>5. BoardInv'
  BY DEF WaitFans, IInv, TypeOK, Gate, ListInv, BoardInv, LevelsLand
<1>6. QED
  BY <1>1, <1>2, <1>3, <1>4, <1>5 DEF IInv

LEMMA ReadInfoKeeps == ASSUME IInv, ReadInfo PROVE IInv'
<1>1. TypeOK'
  BY DEF ReadInfo, IInv, TypeOK, Gate
<1>2. ListInv'
  BY DEF ReadInfo, IInv, TypeOK, Gate, ListInv
<1>3. GateInv'
  BY DEF ReadInfo, IInv, TypeOK, Gate, GateInv, Budget
<1>4. ClientInv'
  BY DEF ReadInfo, IInv, TypeOK, Gate, ListInv, ClientInv
<1>5. BoardInv'
  BY DEF ReadInfo, IInv, TypeOK, Gate, ListInv, BoardInv, LevelsLand
<1>6. QED
  BY <1>1, <1>2, <1>3, <1>4, <1>5 DEF IInv

LEMMA CreateKeeps == ASSUME IInv, Create PROVE IInv'
<1>1. TypeOK'
  BY PlatformsTyped DEF Units, Create, IInv, TypeOK, Gate
<1>2. ListInv'
  BY DEF Units, Create, IInv, TypeOK, Gate, ListInv
<1>3. GateInv'
  BY DEF Units, Create, IInv, TypeOK, Gate, GateInv, Budget
<1>4. ClientInv'
  BY DEF Units, Create, IInv, TypeOK, Gate, ListInv, ClientInv
<1>5. BoardInv'
  BY DEF Units, Create, IInv, TypeOK, Gate, ListInv, BoardInv, LevelsLand
<1>6. QED
  BY <1>1, <1>2, <1>3, <1>4, <1>5 DEF IInv

LEMMA ProgramKeeps == ASSUME IInv, Program PROVE IInv'
<1>1. TypeOK'
  BY DEF Programmed, Program, IInv, TypeOK, ListInv, Gate
<1>2. ListInv'
  BY DEF Programmed, Program, IInv, TypeOK, Gate, ListInv
<1>3. GateInv'
  BY DEF Programmed, Program, IInv, TypeOK, Gate, GateInv, Budget
<1>4. ClientInv'
  BY DEF Programmed, Program, IInv, TypeOK, Gate, ListInv, ClientInv
<1>5. BoardInv'
  BY DEF Programmed, Program, IInv, TypeOK, Gate, ListInv, BoardInv, LevelsLand
<1>6. QED
  BY <1>1, <1>2, <1>3, <1>4, <1>5 DEF IInv

LEMMA CallKeeps == ASSUME IInv, Call PROVE IInv'
<1>1. TypeOK'
  <2>1. pc' \in Gate \cup {"info", "create", "program", "idle", "write", "release", "raised"}
        /\ op' \in {"start", "set", "end"} /\ result' \in {"none", "ok", "failed", "rejected"}
    BY DEF Accepted, Call, IInv, TypeOK, Gate
  <2>2. target' \in SUBSET NamedZones /\ todo' \in SUBSET (NamedZones \cup Registers)
        /\ value' \in Values \cup {"auto"}
    BY DEF Accepted, Call, IInv, TypeOK
  <2>3. /\ manual' \in SUBSET (Zones \cup Registers)
        /\ chip' \in [Zones -> Values \cup {"auto"}]
    BY DEF Accepted, Call, IInv, TypeOK
  <2>4. calm' \in BOOLEAN
    BY DEF Accepted, Call, IInv, TypeOK
  <2>5. /\ inClient' \in BOOLEAN /\ upset' \in BOOLEAN /\ sent' \in BOOLEAN
        /\ name' \in {"auto"} \cup Platforms /\ product' \in Products /\ waited' \in Nat
        /\ platform' \in {"none"} \cup Platforms /\ stage' \in {"down", "booting", "settled"}
    BY DEF Accepted, Call, IInv, TypeOK
  <2>6. QED
    BY <2>1, <2>2, <2>3, <2>4, <2>5 DEF TypeOK
<1>2. ListInv'
  BY DEF Accepted, Call, IInv, TypeOK, Gate, ListInv
<1>3. GateInv'
  BY DEF Accepted, Call, IInv, TypeOK, Gate, GateInv, Budget
<1>4. ClientInv'
  BY DEF Accepted, Call, IInv, TypeOK, Gate, ListInv, ClientInv
<1>5. BoardInv'
  <2>1. CASE result' = "rejected" /\ UNCHANGED <<pc, op, target, value, todo, calm>>
    <3>1. UNCHANGED <<platform, inClient, manual, chip, stage>>
      BY DEF Call
    <3>2. QED
      BY <2>1, <3>1 DEF IInv, BoardInv, LevelsLand
  <2>2. CASE op' \in {"set", "end"} /\ result' = "none"
             /\ pc' = (IF platform = "X10QBi" /\ Registers # {} THEN "program" ELSE "write")
             /\ todo' = (IF pc' = "program" THEN Registers ELSE target')
             /\ calm' = IF platform = "generic_x14" THEN calm ELSE stage = "settled"
    <3>1. pc = "idle" /\ op # "end" /\ inClient = FALSE
          /\ UNCHANGED <<platform, inClient, manual, chip, stage>>
      BY DEF Accepted, Call, IInv, TypeOK
    <3>2. calm' = TRUE => stage = "settled" /\ (platform = "generic_x14" => Zones \subseteq manual)
      BY <2>2, <3>1 DEF IInv, BoardInv
    <3>3. QED
      BY <2>2, <3>1, <3>2 DEF BoardInv, LevelsLand
  <2>3. QED
    BY <2>1, <2>2 DEF Call
<1>6. QED
  BY <1>1, <1>2, <1>3, <1>4, <1>5 DEF IInv

LEMMA WriteZoneKeeps == ASSUME IInv, WriteZone PROVE IInv'
<1>1. TypeOK'
  <2>1. pc' \in Gate \cup {"info", "create", "program", "idle", "write", "release", "raised"}
        /\ op' \in {"start", "set", "end"} /\ result' \in {"none", "ok", "failed", "rejected"}
    BY DEF Written, Obeys, WriteZone, IInv, TypeOK, Gate
  <2>2. target' \in SUBSET NamedZones /\ todo' \in SUBSET (NamedZones \cup Registers)
        /\ value' \in Values \cup {"auto"}
    BY DEF Written, Obeys, WriteZone, IInv, TypeOK
  <2>3. /\ manual' \in SUBSET (Zones \cup Registers)
        /\ chip' \in [Zones -> Values \cup {"auto"}]
    BY DEF Written, Obeys, WriteZone, IInv, TypeOK
  <2>4. calm' \in BOOLEAN
    BY DEF Written, Obeys, WriteZone, IInv, TypeOK
  <2>5. /\ inClient' \in BOOLEAN /\ upset' \in BOOLEAN /\ sent' \in BOOLEAN
        /\ name' \in {"auto"} \cup Platforms /\ product' \in Products /\ waited' \in Nat
        /\ platform' \in {"none"} \cup Platforms /\ stage' \in {"down", "booting", "settled"}
    BY DEF Written, Obeys, WriteZone, IInv, TypeOK
  <2>6. QED
    BY <2>1, <2>2, <2>3, <2>4, <2>5 DEF TypeOK
<1>2. ListInv'
  BY DEF Written, Obeys, WriteZone, IInv, TypeOK, Gate, ListInv
<1>3. GateInv'
  BY DEF Written, Obeys, WriteZone, IInv, TypeOK, Gate, GateInv, Budget
<1>4. ClientInv'
  BY DEF Written, Obeys, WriteZone, IInv, TypeOK, Gate, ListInv, ClientInv
<1>5. BoardInv'
  BY DEF Written, Obeys, WriteZone, IInv, TypeOK, Gate, ListInv, BoardInv, LevelsLand
<1>6. QED
  BY <1>1, <1>2, <1>3, <1>4, <1>5 DEF IInv

LEMMA ReleaseKeeps == ASSUME IInv, Release PROVE IInv'
<1>1. TypeOK'
  BY DEF Released, Release, IInv, TypeOK, Gate
<1>2. ListInv'
  BY DEF Released, Release, IInv, TypeOK, Gate, ListInv
<1>3. GateInv'
  BY DEF Released, Release, IInv, TypeOK, Gate, GateInv, Budget
<1>4. ClientInv'
  BY DEF Released, Release, IInv, TypeOK, Gate, ListInv, ClientInv
<1>5. BoardInv'
  BY DEF Released, Release, IInv, TypeOK, Gate, ListInv, BoardInv, LevelsLand
<1>6. QED
  BY <1>1, <1>2, <1>3, <1>4, <1>5 DEF IInv

LEMMA CommandFailsKeeps == ASSUME IInv, CommandFails PROVE IInv'
<1>1. TypeOK'
  BY DEF Programmed, Written, Released, Obeys, CommandFails, IInv, TypeOK, ListInv, Gate
<1>2. ListInv'
  BY DEF Programmed, Written, Released, Obeys, CommandFails, IInv, TypeOK, Gate, ListInv
<1>3. GateInv'
  BY DEF Programmed, Written, Released, Obeys, CommandFails, IInv, TypeOK, Gate, GateInv, Budget
<1>4. ClientInv'
  BY DEF Programmed, Written, Released, Obeys, CommandFails, IInv, TypeOK, Gate, ListInv, ClientInv
<1>5. BoardInv'
  BY DEF Programmed, Written, Released, Obeys, CommandFails, IInv, TypeOK, Gate, ListInv, BoardInv, LevelsLand
<1>6. QED
  BY <1>1, <1>2, <1>3, <1>4, <1>5 DEF IInv

LEMMA BootKeeps == ASSUME IInv, Boot PROVE IInv'
<1>1. TypeOK'
  BY DEF Boot, IInv, TypeOK, Gate
<1>2. ListInv'
  BY DEF Boot, IInv, TypeOK, Gate, ListInv
<1>3. GateInv'
  BY DEF Boot, IInv, TypeOK, Gate, GateInv, Budget
<1>4. ClientInv'
  BY DEF Boot, IInv, TypeOK, Gate, ListInv, ClientInv
<1>5. BoardInv'
  BY DEF Boot, IInv, TypeOK, Gate, ListInv, BoardInv, LevelsLand
<1>6. QED
  BY <1>1, <1>2, <1>3, <1>4, <1>5 DEF IInv

LEMMA ResetKeeps == ASSUME IInv, Reset PROVE IInv'
<1>1. TypeOK'
  <2>1. chip' \in [Zones -> Values \cup {"auto"}]
    BY DEF Moves, Reset
  <2>2. /\ manual' \in SUBSET (Zones \cup Registers) /\ stage' \in {"down", "booting", "settled"}
        /\ upset' \in BOOLEAN /\ calm' \in BOOLEAN /\ sent' \in BOOLEAN
    BY DEF Moves, Reset, IInv, TypeOK
  <2>3. UNCHANGED <<inClient, name, product, pc, waited, platform, op, target, value, todo, result>>
    BY DEF Moves, Reset
  <2>4. QED
    BY <2>1, <2>2, <2>3 DEF IInv, TypeOK, Gate
<1>2. ListInv'
  BY DEF Moves, Reset, IInv, TypeOK, Gate, ListInv
<1>3. GateInv'
  BY DEF Moves, Reset, IInv, TypeOK, Gate, GateInv, Budget
<1>4. ClientInv'
  BY DEF Moves, Reset, IInv, TypeOK, Gate, ListInv, ClientInv
<1>5. BoardInv'
  BY DEF Moves, Reset, IInv, TypeOK, Gate, ListInv, BoardInv, LevelsLand
<1>6. QED
  BY <1>1, <1>2, <1>3, <1>4, <1>5 DEF IInv

LEMMA DriftKeeps == ASSUME IInv, Drift PROVE IInv'
<1>1. TypeOK'
  <2>1. pc' \in Gate \cup {"info", "create", "program", "idle", "write", "release", "raised"}
        /\ op' \in {"start", "set", "end"} /\ result' \in {"none", "ok", "failed", "rejected"}
    BY DEF Moves, Drift, IInv, TypeOK, Gate
  <2>2. target' \in SUBSET NamedZones /\ todo' \in SUBSET (NamedZones \cup Registers)
        /\ value' \in Values \cup {"auto"}
    BY DEF Moves, Drift, IInv, TypeOK
  <2>3. /\ manual' \in SUBSET (Zones \cup Registers)
        /\ chip' \in [Zones -> Values \cup {"auto"}]
    BY DEF Moves, Drift, IInv, TypeOK
  <2>4. calm' \in BOOLEAN
    BY DEF Moves, Drift, IInv, TypeOK
  <2>5. /\ inClient' \in BOOLEAN /\ upset' \in BOOLEAN /\ sent' \in BOOLEAN
        /\ name' \in {"auto"} \cup Platforms /\ product' \in Products /\ waited' \in Nat
        /\ platform' \in {"none"} \cup Platforms /\ stage' \in {"down", "booting", "settled"}
    BY DEF Moves, Drift, IInv, TypeOK
  <2>6. QED
    BY <2>1, <2>2, <2>3, <2>4, <2>5 DEF TypeOK
<1>2. ListInv'
  BY DEF Moves, Drift, IInv, TypeOK, Gate, ListInv
<1>3. GateInv'
  BY DEF Moves, Drift, IInv, TypeOK, Gate, GateInv, Budget
<1>4. ClientInv'
  BY DEF Moves, Drift, IInv, TypeOK, Gate, ListInv, ClientInv
<1>5. BoardInv'
  BY DEF Moves, Drift, IInv, TypeOK, Gate, ListInv, BoardInv, LevelsLand
<1>6. QED
  BY <1>1, <1>2, <1>3, <1>4, <1>5 DEF IInv

LEMMA StutterKeeps == ASSUME IInv, UNCHANGED vars PROVE IInv'
<1>1. TypeOK'
  BY DEF vars, IInv, TypeOK
<1>2. ListInv' /\ ClientInv'
  BY DEF vars, IInv, ListInv, ClientInv
<1>3. GateInv'
  BY DEF vars, IInv, GateInv, Budget
<1>4. BoardInv'
  BY DEF vars, IInv, BoardInv, LevelsLand
<1>5. QED
  BY <1>1, <1>2, <1>3, <1>4 DEF IInv

LEMMA StepKeeps == IInv /\ [Next]_vars => IInv'
BY SdrAnswersKeeps, SdrFailsKeeps, WaitBmcKeeps, WaitFansKeeps, ReadInfoKeeps, CreateKeeps, ProgramKeeps, CallKeeps, WriteZoneKeeps, ReleaseKeeps, CommandFailsKeeps, BootKeeps, ResetKeeps, DriftKeeps,
   StutterKeeps DEF Next, Construct

THEOREM Invariant == Spec => []IInv
<1>1. Init => IInv
  BY InitInv
<1>2. IInv /\ [Next]_vars => IInv'
  BY StepKeeps
<1>3. QED
  BY <1>1, <1>2, PTL DEF Spec

\* Every variable of the Ipmi object and of the board keeps its type.
THEOREM TypeCorrect == Spec => []TypeOK
<1>1. IInv => TypeOK
  BY DEF IInv
<1>2. QED
  BY <1>1, Invariant, PTL

\* Nothing is written to a BMC that has not settled, unless the budget is spent or the
\* BMC was reset after it was found ready.
THEOREM SettledFirst == Spec => []SettledBeforeControl
<1>1. IInv => SettledBeforeControl
  BY DEF IInv, GateInv, TypeOK, Gate, SettledBeforeControl
<1>2. QED
  BY <1>1, Invariant, PTL

\* The constructor sleeps at most one step more than its budget, whatever the budget.
THEOREM Bounded == Spec => []WaitBounded
<1>1. IInv => WaitBounded
  BY DEF IInv, GateInv, WaitBounded
<1>2. QED
  BY <1>1, Invariant, PTL

\* smfc-client sends no command that changes the BMC.
THEOREM ReadOnly == Spec => []ClientChangesNothing
<1>1. IInv => ClientChangesNothing
  BY DEF IInv, ClientInv, TypeOK, ClientChangesNothing
<1>2. QED
  BY <1>1, Invariant, PTL

\* A call that reports success has put its level in force, for every set of zones.
THEOREM Landed == Spec => []LevelsLand
<1>1. IInv => LevelsLand
  BY DEF IInv, BoardInv, LevelsLand
<1>2. QED
  BY <1>1, Invariant, PTL
=============================================================================
