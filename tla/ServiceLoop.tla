----------------------------- MODULE ServiceLoop -----------------------------
(***************************************************************************)
(* The main loop of Service.run() (src/smfc/service.py) together with the  *)
(* run() methods of the fan controllers it drives, and the BMC it drives   *)
(* them against.  One step per ipmitool call, so that the BMC, a failing   *)
(* call or SIGTERM can come between any two of them.                       *)
(*                                                                         *)
(* One iteration of the loop:                                              *)
(*   turn      fc.run() of the next controller: poll or skip               *)
(*   write     FanController.set_fan_level, zone by zone                   *)
(*   verify    ConstFc.run reads a zone back, and rewrites it if wrong     *)
(*   record    applied_levels of a controller that is not deferred         *)
(*   arbitrate, apply  _apply_fan_levels, when some zone is shared         *)
(*   mode, restore, reapply  _check_fan_mode                               *)
(*   sleep     time.sleep(wait)                                            *)
(*   exit      SystemExit or an uncaught exception left run()              *)
(***************************************************************************)
EXTENDS Integers

CONSTANTS
  N,            \* number of enabled controllers; they run in the order 1..N
  Zones,        \* IPMI zones
  ZonesOf,      \* ZonesOf[c]: the zones in the ipmi_zone list of controller c
  Repeats,      \* Repeats[c]: the zones that list names more than once
  ConstFcs,     \* the controllers that are ConstFc; the rest are FanController
  Curve,        \* Curve[c]: the levels in levels_lut of c ({level} for a ConstFc)
  DriftModes,   \* the fan modes somebody else may set; FULL to undo a drift
  BmcLevels,    \* the levels a zone may have that smfc did not set
  MaxDrifts,    \* bound: times somebody else sets the fan mode
  MaxFaults     \* bound: failures _check_fan_mode catches

Controllers == 1..N
Levels == 0..100
NoLevel == -1          \* the zone is no key of the dictionary
FULL == 1              \* FanMode.FULL
NoExit == -1

ASSUME NAssumption == N \in Nat \ {0}
ASSUME ZonesAssumption ==
  /\ ZonesOf \in [Controllers -> (SUBSET Zones) \ {{}}]
  /\ Repeats \in [Controllers -> SUBSET Zones]
  /\ \A c \in Controllers : Repeats[c] \subseteq ZonesOf[c]
ASSUME CurveAssumption ==
  /\ ConstFcs \subseteq Controllers
  /\ Curve \in [Controllers -> SUBSET Levels]
  /\ \A c \in ConstFcs : \E l \in 1..100 : Curve[c] = {l}
ASSUME BmcAssumption ==
  /\ DriftModes \subseteq Int
  /\ BmcLevels \subseteq Levels
  /\ MaxDrifts \in Nat
  /\ MaxFaults \in Nat

VARIABLES
  pc,          \* where the loop is
  cur,         \* index of the controller whose turn it is
  todo,        \* zones the current loop over zones has still to handle
  wrong,       \* the zone ConstFc.run has read another level from, if any
  lastLevel,   \* fc.last_level
  polled,      \* whether the controller has polled yet
  enforceFanMode,   \* [Ipmi] enforce_fan_mode; no step changes it
  applied,     \* Service.applied_levels
  lastMode,    \* Service.last_fan_mode
  enforced,    \* Service.fan_mode_enforced_count
  exitCode,    \* status the process is about to exit with
  bmcMode,     \* the fan mode of the BMC
  bmcLevel,    \* the level each zone of the BMC has
  drifts,      \* times somebody else set the fan mode
  faults,      \* failures _check_fan_mode caught
  cmd,         \* history: the level smfc last wrote to, or read from and accepted in, a zone
  writes       \* history: control writes to a zone in this iteration

loopVars == <<pc, cur, todo, wrong>>
fcVars == <<lastLevel, polled, enforceFanMode>>
svcVars == <<applied, lastMode, enforced, exitCode>>
bmcVars == <<bmcMode, bmcLevel, drifts, faults>>
histVars == <<cmd, writes>>
vars == <<pc, cur, todo, wrong, lastLevel, polled, enforceFanMode, applied, lastMode,
          enforced, exitCode, bmcMode, bmcLevel, drifts, faults, cmd, writes>>

-----------------------------------------------------------------------------
(* Arbitration.                                                            *)

Owners(z) == {c \in Controllers : z \in ZonesOf[c]}

\* _check_shared_zones counts the names per zone: a zone repeated in one
\* list is shared as well.
SharedZones ==
  {z \in Zones : \/ \E c, d \in Owners(z) : c # d
                 \/ \E c \in Controllers : z \in Repeats[c]}

\* Mutant of Deferred: only a controller all of whose zones are shared defers.
DeferredWhenAllShared(c) == ZonesOf[c] \subseteq SharedZones

Deferred(c) == ZonesOf[c] \cap SharedZones # {}

\* Mutant of Desired: a controller states no level before its first poll.
DesiredOncePolled(z) ==
  {lastLevel[c] : c \in {d \in Owners(z) : Deferred(d) /\ polled[d] /\ lastLevel[d] > 0}}

\* _collect_desired_levels, seen from one zone
Desired(z) == {lastLevel[c] : c \in {d \in Owners(z) : Deferred(d) /\ lastLevel[d] > 0}}

IsTop(l, S) == l \in S /\ \A k \in S : k <= l

\* Mutant of Outdated: the arbiter raises levels and never lowers them.
RaisedOnly ==
  {z \in Zones : Desired(z) # {} /\ \E l \in Desired(z) : IsTop(l, Desired(z)) /\ l > applied[z]}

\* The zones whose maximum the cache does not already hold.
Outdated == {z \in Zones : Desired(z) # {} /\ ~IsTop(applied[z], Desired(z))}

\* [CONST] level=
ConstLevel(c) == CHOOSE l \in Curve[c] : TRUE

-----------------------------------------------------------------------------
(* The BMC.                                                                *)

\* A level write that ipmitool reports as done.  Out of FULL mode the BMC may
\* run its own profile and ignore the level.
Lands(z, l) ==
  \/ bmcLevel' = [bmcLevel EXCEPT ![z] = l]
  \/ bmcMode # FULL /\ UNCHANGED bmcLevel

\* A level write that ipmitool reports as failed, done or not.
MayLand(z, l) == bmcLevel' \in {bmcLevel, [bmcLevel EXCEPT ![z] = l]}

\* Some firmwares reset the levels when the mode changes.
MayReset == UNCHANGED bmcLevel \/ bmcLevel' \in [Zones -> BmcLevels]

\* Something other than smfc changes the fan mode: out of FULL, or back to it.
Drift ==
  /\ pc # "exit"
  /\ drifts < MaxDrifts
  /\ bmcMode' \in DriftModes \ {bmcMode}
  /\ MayReset
  /\ drifts' = drifts + 1
  /\ UNCHANGED <<loopVars, fcVars, svcVars, faults, histVars>>

-----------------------------------------------------------------------------
(* The process: leaving run().                                             *)

Exit(code) ==
  /\ pc' = "exit"
  /\ exitCode' = code
  /\ UNCHANGED <<cur, todo, wrong, applied>>

\* _sigterm_handler; SystemExit is raised wherever the loop is.
Sigterm ==
  /\ pc # "exit"
  /\ Exit(0)
  /\ UNCHANGED <<fcVars, lastMode, enforced, bmcVars, histVars>>

-----------------------------------------------------------------------------
(* fc.run() of the controller whose turn it is.                            *)

Turn(next) == pc = "turn" /\ pc' = next

\* The polling interval has not elapsed.  FanController.__init__ sets last_time
\* so that its first poll is due at once; ConstFc.__init__ sets it to 0.0, the
\* boot of the machine, so its first poll may not be.
SkipPoll ==
  /\ polled[cur] \/ cur \in ConstFcs
  /\ Turn("record")
  /\ UNCHANGED <<cur, todo, wrong, fcVars, svcVars, bmcVars, histVars>>

Polled == polled' = [polled EXCEPT ![cur] = TRUE]

\* FanController: the change is below the sensitivity, or the level is the same.
HoldLevel ==
  /\ cur \notin ConstFcs
  /\ Turn("record")
  /\ Polled
  /\ UNCHANGED <<cur, todo, wrong, lastLevel, enforceFanMode, svcVars, bmcVars, histVars>>

\* FanController: levels_lut asks for another level; set_fan_level writes it
\* unless the controller is deferred.
ChangeLevel ==
  /\ cur \notin ConstFcs
  /\ Polled
  /\ \E l \in Curve[cur] \ {lastLevel[cur]} :
       lastLevel' = [lastLevel EXCEPT ![cur] = l]
  /\ \/ Deferred(cur)  /\ Turn("record") /\ UNCHANGED todo
     \/ ~Deferred(cur) /\ Turn("write")  /\ todo' = ZonesOf[cur]
  /\ UNCHANGED <<cur, wrong, enforceFanMode, svcVars, bmcVars, histVars>>

\* get_temp gave up, or another exception left fc.run()
SensorFails ==
  /\ pc = "turn"
  /\ cur \notin ConstFcs
  /\ Polled
  /\ Exit(1)
  /\ UNCHANGED <<lastLevel, enforceFanMode, lastMode, enforced, bmcVars, histVars>>

\* ConstFc: deferred, it only states its level; otherwise it checks its zones.
PollConst ==
  /\ cur \in ConstFcs
  /\ Polled
  /\ \/ /\ Deferred(cur)
        /\ Turn("record")
        /\ lastLevel' = [lastLevel EXCEPT ![cur] = ConstLevel(cur)]
        /\ UNCHANGED todo
     \/ /\ ~Deferred(cur)
        /\ Turn("verify")
        /\ todo' = ZonesOf[cur]
        /\ UNCHANGED lastLevel
  /\ UNCHANGED <<cur, wrong, enforceFanMode, svcVars, bmcVars, histVars>>

\* One zone of the current loop over zones is done.
Done(z, next) ==
  /\ todo' = todo \ {z}
  /\ pc' = IF todo = {z} THEN next ELSE pc

\* A level write of the control path came back as done.
Write(z, l) ==
  /\ Lands(z, l)
  /\ cmd' = [cmd EXCEPT ![z] = l]
  /\ writes' = [writes EXCEPT ![z] = @ + 1]
  /\ UNCHANGED <<bmcMode, drifts, faults>>

\* FanController.set_fan_level -> Ipmi.set_multiple_fan_levels
DirectWrite(z) ==
  /\ pc = "write" /\ z \in todo
  /\ Write(z, lastLevel[cur])
  /\ Done(z, "record")
  /\ UNCHANGED <<cur, wrong, fcVars, svcVars>>

ConstRead(z) ==
  /\ pc = "verify" /\ wrong = {} /\ z \in todo
  /\ \/ /\ bmcLevel[z] = lastLevel[cur]
        /\ cmd' = [cmd EXCEPT ![z] = bmcLevel[z]]
        /\ Done(z, "record")
        /\ UNCHANGED wrong
     \/ /\ bmcLevel[z] # lastLevel[cur]
        /\ wrong' = {z}
        /\ UNCHANGED <<pc, todo, cmd>>
  /\ UNCHANGED <<cur, fcVars, svcVars, bmcVars, writes>>

ConstWrite(z) ==
  /\ pc = "verify" /\ z \in wrong
  /\ Write(z, lastLevel[cur])
  /\ Done(z, "record")
  /\ wrong' = {}
  /\ UNCHANGED <<cur, fcVars, svcVars>>

\* An ipmitool call of fc.run() fails: nothing on the way out catches it.
ControlFails(z) ==
  /\ z \in todo
  /\ \/ pc = "write" /\ MayLand(z, lastLevel[cur])
     \/ pc = "verify" /\ z \in wrong /\ MayLand(z, lastLevel[cur])
     \/ pc = "verify" /\ wrong = {} /\ UNCHANGED bmcLevel
  /\ Exit(1)
  /\ UNCHANGED <<fcVars, lastMode, enforced, bmcMode, drifts, faults, histVars>>

\* Mutant of Record: the cache also gets the levels of deferred controllers.
RecordAll ==
  /\ pc = "record"
  /\ applied' = [z \in Zones |-> IF z \in ZonesOf[cur] THEN lastLevel[cur] ELSE applied[z]]
  /\ \/ cur < N /\ cur' = cur + 1 /\ pc' = "turn"
     \/ cur = N /\ UNCHANGED cur
        /\ pc' = IF SharedZones # {} THEN "arbitrate" ELSE "mode"
  /\ UNCHANGED <<todo, wrong, fcVars, lastMode, enforced, exitCode, bmcVars, histVars>>

\* Mutant of Record: the arbiter is called only when several controllers share a zone.
RecordSkipsArbiter ==
  /\ pc = "record"
  /\ applied' = [z \in Zones |-> IF ~Deferred(cur) /\ z \in ZonesOf[cur]
                                 THEN lastLevel[cur] ELSE applied[z]]
  /\ \/ cur < N /\ cur' = cur + 1 /\ pc' = "turn"
     \/ cur = N /\ UNCHANGED cur
        /\ pc' = IF \E c, d \in Controllers : c # d /\ ZonesOf[c] \cap ZonesOf[d] # {}
                 THEN "arbitrate" ELSE "mode"
  /\ UNCHANGED <<todo, wrong, fcVars, lastMode, enforced, exitCode, bmcVars, histVars>>

\* run() records what a controller that is not deferred asks for, whether or not
\* this turn wrote it.
Record ==
  /\ pc = "record"
  /\ applied' = [z \in Zones |-> IF ~Deferred(cur) /\ z \in ZonesOf[cur]
                                 THEN lastLevel[cur] ELSE applied[z]]
  /\ \/ cur < N /\ cur' = cur + 1 /\ pc' = "turn"
     \/ cur = N /\ UNCHANGED cur
        /\ pc' = IF SharedZones # {} THEN "arbitrate" ELSE "mode"
  /\ UNCHANGED <<todo, wrong, fcVars, lastMode, enforced, exitCode, bmcVars, histVars>>

-----------------------------------------------------------------------------
(* _apply_fan_levels                                                       *)

Arbitrate ==
  /\ pc = "arbitrate"
  /\ todo' = Outdated
  /\ pc' = IF Outdated = {} THEN "mode" ELSE "apply"
  /\ UNCHANGED <<cur, wrong, fcVars, svcVars, bmcVars, histVars>>

\* Mutant of ApplyWrite: any contributor may win, not only the highest.
ApplyAny(z) ==
  /\ pc = "apply" /\ z \in todo
  /\ \E l \in Desired(z) :
       /\ Write(z, l)
       /\ applied' = [applied EXCEPT ![z] = l]
  /\ Done(z, "mode")
  /\ UNCHANGED <<cur, wrong, fcVars, lastMode, enforced, exitCode>>

ApplyWrite(z) ==
  /\ pc = "apply" /\ z \in todo
  /\ \E l \in Desired(z) :
       /\ IsTop(l, Desired(z))
       /\ Write(z, l)
       /\ applied' = [applied EXCEPT ![z] = l]
  /\ Done(z, "mode")
  /\ UNCHANGED <<cur, wrong, fcVars, lastMode, enforced, exitCode>>

ApplyFails(z) ==
  /\ pc = "apply" /\ z \in todo
  /\ \E l \in Desired(z) : IsTop(l, Desired(z)) /\ MayLand(z, l)
  /\ Exit(1)
  /\ UNCHANGED <<fcVars, lastMode, enforced, bmcMode, drifts, faults, histVars>>

-----------------------------------------------------------------------------
(* _check_fan_mode                                                         *)

\* Mutant of ReadMode: only a change of the observed mode is a drift.
ReadModeEdge ==
  /\ pc = "mode"
  /\ lastMode' = bmcMode
  /\ \/ /\ bmcMode = FULL \/ bmcMode = lastMode
        /\ pc' = "sleep"
        /\ UNCHANGED enforced
     \/ /\ bmcMode # FULL /\ bmcMode # lastMode
        /\ enforced' = enforced + 1
        /\ pc' = "restore"
  /\ UNCHANGED <<todo, wrong, cur, applied, exitCode, fcVars, bmcVars, histVars>>

ReadMode ==
  /\ pc = "mode"
  /\ lastMode' = bmcMode
  /\ \/ /\ bmcMode = FULL
        /\ pc' = "sleep"
        /\ UNCHANGED <<todo, wrong, cur, applied, enforced, exitCode>>
     \/ /\ bmcMode # FULL
        /\ ~enforceFanMode
        /\ Exit(11)
        /\ UNCHANGED enforced
     \/ /\ bmcMode # FULL
        /\ enforceFanMode
        /\ enforced' = enforced + 1
        /\ pc' = "restore"
        /\ UNCHANGED <<todo, wrong, cur, applied, exitCode>>
  /\ UNCHANGED <<fcVars, bmcVars, histVars>>

\* Mutant of RestoreMode: the levels are not re-applied.
RestoreModeOnly ==
  /\ pc = "restore"
  /\ bmcMode' = FULL
  /\ MayReset
  /\ lastMode' = FULL
  /\ pc' = "sleep"
  /\ UNCHANGED <<cur, todo, wrong, fcVars, applied, enforced, exitCode, drifts, faults, histVars>>

\* Ipmi.set_fan_mode(FULL), then the loop over applied_levels is entered.
RestoreMode ==
  /\ pc = "restore"
  /\ bmcMode' = FULL
  /\ MayReset
  /\ lastMode' = FULL
  /\ todo' = {z \in Zones : applied[z] # NoLevel}
  /\ pc' = IF todo' = {} THEN "sleep" ELSE "reapply"
  /\ UNCHANGED <<cur, wrong, fcVars, applied, enforced, exitCode, drifts, faults, histVars>>

Reapply(z) ==
  /\ pc = "reapply" /\ z \in todo
  /\ Lands(z, applied[z])
  /\ cmd' = [cmd EXCEPT ![z] = applied[z]]
  /\ Done(z, "sleep")
  /\ UNCHANGED <<cur, wrong, fcVars, svcVars, bmcMode, drifts, faults, writes>>

\* A failing call of _check_fan_mode may still have changed the BMC.
ModeCallEffect ==
  \/ pc = "mode" /\ UNCHANGED <<bmcMode, bmcLevel>>
  \/ pc = "restore" /\ UNCHANGED <<bmcMode, bmcLevel>>
  \/ pc = "restore" /\ bmcMode' = FULL /\ MayReset
  \/ pc = "reapply" /\ UNCHANGED bmcMode /\ \E z \in todo : MayLand(z, applied[z])

\* RuntimeError or ValueError: logged, the rest of the check is skipped.
CheckFails ==
  /\ faults < MaxFaults
  /\ ModeCallEffect
  /\ faults' = faults + 1
  /\ pc' = "sleep"
  /\ todo' = {}
  /\ UNCHANGED <<cur, wrong, fcVars, svcVars, drifts, histVars>>

\* FileNotFoundError (ipmitool is gone) is not caught.
CheckCrashes ==
  /\ ModeCallEffect
  /\ Exit(1)
  /\ UNCHANGED <<fcVars, lastMode, enforced, drifts, faults, histVars>>

\* time.sleep(wait) is over, the next iteration starts.
Wake ==
  /\ pc = "sleep"
  /\ pc' = "turn"
  /\ cur' = 1
  /\ writes' = [z \in Zones |-> 0]
  /\ UNCHANGED <<todo, wrong, fcVars, svcVars, bmcVars, cmd>>

-----------------------------------------------------------------------------

\* The loop is entered with the BMC in FULL mode, its levels whatever they were.
Init ==
  /\ pc = "turn" /\ cur = 1 /\ todo = {} /\ wrong = {}
  /\ lastLevel = [c \in Controllers |-> IF c \in ConstFcs THEN ConstLevel(c) ELSE 0]
  /\ polled = [c \in Controllers |-> FALSE]
  /\ enforceFanMode \in BOOLEAN
  /\ applied = [z \in Zones |-> NoLevel]
  /\ lastMode = FULL
  /\ enforced = 0
  /\ exitCode = NoExit
  /\ bmcMode = FULL
  /\ bmcLevel \in [Zones -> BmcLevels]
  /\ drifts = 0
  /\ faults = 0
  /\ cmd = [z \in Zones |-> NoLevel]
  /\ writes = [z \in Zones |-> 0]

Poll == HoldLevel \/ ChangeLevel \/ PollConst

\* Everything the process itself does
Step ==
  \/ SkipPoll \/ Poll \/ SensorFails
  \/ \E z \in Zones : DirectWrite(z) \/ ConstRead(z) \/ ConstWrite(z) \/ ControlFails(z)
  \/ Record
  \/ Arbitrate
  \/ \E z \in Zones : ApplyWrite(z) \/ ApplyFails(z)
  \/ ReadMode \/ RestoreMode
  \/ \E z \in Zones : Reapply(z)
  \/ CheckFails \/ CheckCrashes
  \/ Wake

Next == Step \/ Sigterm \/ Drift

Spec == Init /\ [][Next]_vars

\* The process is scheduled, and sleep() ends: the loop never stays where it is.
\* Time passes in every iteration, so a controller that is asked again and again
\* finds its polling interval elapsed.  Nothing else is fair: no drift, signal or
\* change of temperature has to happen.
Fairness ==
  /\ WF_vars(Step)
  /\ \A c \in Controllers : SF_vars(Poll /\ cur = c)

FairSpec == Spec /\ Fairness

-----------------------------------------------------------------------------
(* Properties.                                                             *)

LoopType ==
  /\ pc \in {"turn", "write", "verify", "record", "arbitrate", "apply",
             "mode", "restore", "reapply", "sleep", "exit"}
  /\ cur \in Controllers
  /\ todo \in SUBSET Zones
  /\ wrong \in SUBSET Zones

FcType ==
  /\ lastLevel \in [Controllers -> Levels]
  /\ polled \in [Controllers -> BOOLEAN]
  /\ enforceFanMode \in BOOLEAN

SvcType ==
  /\ applied \in [Zones -> Levels \cup {NoLevel}]
  /\ lastMode \in DriftModes \cup {FULL}
  /\ enforced \in Nat
  /\ exitCode \in {NoExit, 0, 1, 11}

BmcType ==
  /\ bmcMode \in DriftModes \cup {FULL}
  /\ bmcLevel \in [Zones -> Levels]
  /\ drifts \in 0..MaxDrifts
  /\ faults \in 0..MaxFaults

HistType ==
  /\ cmd \in [Zones -> Levels \cup {NoLevel}]
  /\ writes \in [Zones -> Nat]

TypeOK == LoopType /\ FcType /\ SvcType /\ BmcType /\ HistType

\* Every controller has had its turn and the arbiter is through.
Settled == pc \in {"mode", "restore", "reapply", "sleep"}

\* README 1.3: the highest requested fan level wins on a shared zone.  From the
\* end of the apply phase to the next iteration, and all through a recovery,
\* the level last commanded to a zone of the arbiter is the greatest level its
\* controllers ask for, skipped polls and earlier iterations notwithstanding.
HighestDemandWins ==
  Settled => \A z \in Zones : Desired(z) # {} => IsTop(cmd[z], Desired(z))

\* What the service believes of a zone it has ever commanded is what it last
\* commanded, so a recovery re-applies neither an older nor a newer level.
CacheIsCommand ==
  Settled => \A z \in Zones : cmd[z] # NoLevel => applied[z] = cmd[z]

\* README 1.3: only one IPMI command is sent per zone.  However the zones
\* overlap, no zone is written twice in one iteration: a controller that writes
\* its own zones and the arbiter never both drive a zone.
OneWritePerIteration == \A z \in Zones : writes[z] <= 1

\* README 1.3: the level of a CONST controller is a guaranteed minimum of its
\* zones.  No command takes a zone below it: not before the first poll of the
\* controller, not when the others cool down, and not in a recovery.
ConstIsFloor ==
  \A c \in ConstFcs : \A z \in ZonesOf[c] : cmd[z] # NoLevel => cmd[z] >= ConstLevel(c)

\* fan_mode_enforced_count counts corrections of drift: every one of them is
\* explained by a change of mode of its own or by a check that failed.
EnforcementsHaveCauses == enforced <= drifts + faults

\* The two-phase loop with its cache implements the promise that a zone is only
\* ever commanded to the greatest demand of its controllers.
Abstract == INSTANCE ZoneControl WITH
  demand <- lastLevel, command <- cmd, up <- pc # "exit"

ImplementsZoneControl == Abstract!SafeSpec

\* ... and a zone whose demand is positive is served while the service is up.
ServesWanted == Abstract!Spec

\* Every controller but a ConstFc behaves as BaseController allows, also when SIGTERM
\* or a failing call comes between the writes of its zones.
Base(c) == INSTANCE BaseController WITH
  Curve <- Curve[c],
  DeferredApply <- Deferred(c),
  phase <- IF pc = "exit" THEN "left"
           ELSE IF pc = "write" /\ cur = c THEN "apply" ELSE "ready",
  level <- lastLevel[c]

Stopped == pc = "exit"

\* README 1.5: FULL mode is re-asserted after a drift, or the service stops, which
\* it does with enforce_fan_mode=0; even when calls of the check fail.
ModeRestored == bmcMode # FULL ~> (bmcMode = FULL \/ Stopped)

\* README 1.5: ... plus all zone levels.  A zone whose level the BMC lost, or
\* did not take because it was out of FULL mode, gets it back.
LevelsRestored ==
  \A z \in Zones :
    (cmd[z] # NoLevel /\ bmcLevel[z] # cmd[z]) ~> (bmcLevel[z] = cmd[z] \/ Stopped)

\* Disagrees with the code.  service.py:280, of a recovery that failed: "the next
\* loop iteration will try again", so the level a zone lost with FULL mode comes
\* back also when one call of the recovery fails once.
FailedRecoveryIsRetried ==
  \A z \in Zones :
    (faults > 0 /\ cmd[z] # NoLevel /\ bmcLevel[z] # cmd[z])
      ~> (bmcLevel[z] = cmd[z] \/ Stopped)

-----------------------------------------------------------------------------
(* The inductive invariant behind HighestDemandWins, CacheIsCommand,       *)
(* OneWritePerIteration and EnforcementsHaveCauses.                        *)

\* Some controller drives zone z itself.
Direct(z) == \E c \in Owners(z) : ~Deferred(c)

\* In this iteration the turn of controller c has been recorded.
Recorded(c) == c < cur \/ pc \in {"arbitrate", "apply"} \/ Settled

\* Where the loop is, and what its inner loops have left to do.
PhaseInv ==
  /\ pc \in {"write", "verify"} => ~Deferred(cur) /\ todo \subseteq ZonesOf[cur]
  /\ pc = "verify" => wrong \subseteq todo
  /\ pc \notin {"verify", "exit"} => wrong = {}
  /\ (pc \in {"arbitrate", "apply"} \/ Settled) => cur = N
  /\ pc = "apply" => todo = Outdated
  /\ Settled => Outdated = {}

\* A zone driven directly has had no command but the level of its controller,
\* and has that level in the cache once the turn is recorded.
DirectInv ==
  \A c \in Controllers : ~Deferred(c) => \A z \in ZonesOf[c] :
    /\ Recorded(c) => applied[z] = lastLevel[c]
    /\ \/ pc = "exit"
       \/ c = cur /\ pc \in {"write", "verify"} /\ z \in todo
       \/ cmd[z] \in {NoLevel, lastLevel[c]}

\* In the zones of the arbiter the cache and the commands move together.
ArbiterInv == \A z \in Zones : ~Direct(z) => applied[z] = cmd[z]

\* The writer of zone z still has its write of this iteration ahead.
Unwritten(z) ==
  \/ /\ ~Direct(z)
     /\ \/ pc \in {"turn", "write", "verify", "record", "arbitrate"}
        \/ pc = "apply" /\ z \in todo
  \/ \E c \in Owners(z) :
       /\ ~Deferred(c)
       /\ \/ c > cur /\ pc \in {"turn", "write", "verify", "record"}
          \/ c = cur /\ pc = "turn"
          \/ c = cur /\ pc \in {"write", "verify"} /\ z \in todo

WritesInv == \A z \in Zones : writes[z] <= 1 /\ (Unwritten(z) => writes[z] = 0)

\* A drift not yet noticed has not been counted as a cause.
CausesInv ==
  /\ enforced <= drifts + faults
  /\ (bmcMode # FULL /\ pc \notin {"restore", "exit"}) => enforced < drifts + faults

IInv == PhaseInv /\ DirectInv /\ ArbiterInv /\ WritesInv /\ CausesInv
=============================================================================
