------------------------- MODULE ServiceLoop_proofs -------------------------
(***************************************************************************)
(* Proofs about ServiceLoop, for every number of controllers, every layout *)
(* of zones, every curve and every bound on drifts and faults.             *)
(***************************************************************************)
EXTENDS ServiceLoop, TLAPS

USE DEF NoLevel, FULL, NoExit, Levels, Controllers

\* A zone of a controller that writes directly has no other controller: if it
\* had one it would be shared and the controller deferred.
LEMMA SoleOwner ==
  ASSUME NEW c \in Controllers, NEW d \in Controllers, NEW z \in Zones,
         ~Deferred(c), z \in ZonesOf[c], z \in ZonesOf[d]
  PROVE  c = d
<1>1. SUFFICES ASSUME c # d PROVE FALSE
  OBVIOUS
<1>2. z \in SharedZones
  BY <1>1 DEF SharedZones, Owners
<1>3. QED
  BY <1>2 DEF Deferred

LEMMA ConstLevelIsLevel ==
  ASSUME NEW c \in ConstFcs
  PROVE  ConstLevel(c) \in Levels /\ Curve[c] = {ConstLevel(c)}
BY CurveAssumption DEF ConstLevel

-----------------------------------------------------------------------------
(* Type correctness.                                                       *)

\* A recovery re-applies levels the cache has.
ReappliesKnown == pc = "reapply" => \A z \in todo : applied[z] # NoLevel

TypeInv == TypeOK /\ ReappliesKnown

LEMMA InitType == Init => TypeInv
<1> SUFFICES ASSUME Init PROVE TypeInv
  OBVIOUS
<1>1. FcType
  <2>1. \A c \in Controllers : (IF c \in ConstFcs THEN ConstLevel(c) ELSE 0) \in Levels
    BY ConstLevelIsLevel
  <2>2. QED
    BY <2>1 DEF Init, FcType
<1>2. BmcType
  <2>1. bmcLevel \in [Zones -> Levels]
    BY BmcAssumption DEF Init
  <2>2. QED
    BY <2>1, BmcAssumption DEF Init, BmcType
<1>3. LoopType /\ SvcType /\ HistType /\ ReappliesKnown
  BY NAssumption DEF Init, LoopType, SvcType, HistType, ReappliesKnown
<1>4. QED
  BY <1>1, <1>2, <1>3 DEF TypeInv, TypeOK

LEMMA LandsType ==
  ASSUME BmcType, NEW z \in Zones, NEW l \in Levels, Lands(z, l) \/ MayLand(z, l)
  PROVE  bmcLevel' \in [Zones -> Levels]
BY DEF BmcType, Lands, MayLand

LEMMA ResetType ==
  ASSUME BmcType, MayReset
  PROVE  bmcLevel' \in [Zones -> Levels]
BY BmcAssumption DEF BmcType, MayReset

\* A write of the control path keeps the BMC's and the histories' types.
LEMMA WriteType ==
  ASSUME BmcType, HistType, NEW z \in Zones, NEW l \in Levels, Write(z, l)
  PROVE  BmcType' /\ HistType'
<1>1. bmcLevel' \in [Zones -> Levels]
  BY LandsType DEF Write
<1>2. BmcType'
  BY <1>1 DEF BmcType, Write
<1>3. cmd' \in [Zones -> Levels \cup {NoLevel}]
  BY DEF HistType, Write
<1>4. writes' \in [Zones -> Nat]
  BY DEF HistType, Write
<1>5. QED
  BY <1>2, <1>3, <1>4 DEF HistType

LEMMA ModeCallType ==
  ASSUME TypeInv, ModeCallEffect
  PROVE  bmcMode' \in DriftModes \cup {FULL} /\ bmcLevel' \in [Zones -> Levels]
<1> USE DEF TypeInv, TypeOK
<1>1. CASE pc = "reapply" /\ UNCHANGED bmcMode /\ \E z \in todo : MayLand(z, applied[z])
  <2>1. PICK z \in todo : MayLand(z, applied[z])
    BY <1>1
  <2>2. z \in Zones /\ applied[z] \in Levels
    BY <1>1 DEF ReappliesKnown, SvcType, LoopType
  <2>3. QED
    BY <1>1, <2>1, <2>2, LandsType DEF BmcType
<1>2. CASE pc = "restore" /\ bmcMode' = FULL /\ MayReset
  BY <1>2, ResetType
<1>3. CASE UNCHANGED <<bmcMode, bmcLevel>>
  BY <1>3 DEF BmcType
<1>4. QED
  BY <1>1, <1>2, <1>3 DEF ModeCallEffect

LEMMA DesiredIsLevel ==
  ASSUME FcType, NEW z \in Zones, NEW l \in Desired(z)
  PROVE  l \in Levels /\ l > 0
<1>1. PICK c \in Controllers : l = lastLevel[c] /\ lastLevel[c] > 0
  BY DEF Desired, Owners
<1>2. QED
  BY <1>1 DEF FcType

\* A group of variables that does not move keeps its type.
LEMMA Unmoved ==
  ASSUME TypeOK
  PROVE  /\ UNCHANGED loopVars => LoopType'
         /\ UNCHANGED fcVars => FcType'
         /\ UNCHANGED svcVars => SvcType'
         /\ UNCHANGED bmcVars => BmcType'
         /\ UNCHANGED histVars => HistType'
<1> USE DEF TypeOK
<1>1. UNCHANGED loopVars => LoopType'
  BY DEF loopVars, LoopType
<1>2. UNCHANGED fcVars => FcType'
  BY DEF fcVars, FcType
<1>3. UNCHANGED svcVars => SvcType'
  BY DEF svcVars, SvcType
<1>4. UNCHANGED bmcVars => BmcType'
  BY DEF bmcVars, BmcType
<1>5. UNCHANGED histVars => HistType'
  BY DEF histVars, HistType
<1>6. QED
  BY <1>1, <1>2, <1>3, <1>4, <1>5

LEMMA NextType == TypeInv /\ [Next]_vars => TypeInv'
<1> SUFFICES ASSUME TypeInv, [Next]_vars PROVE TypeInv'
  OBVIOUS
<1> USE DEF TypeInv, TypeOK
<1>1. CASE SkipPoll
  <2>1. LoopType'
    BY <1>1 DEF SkipPoll, Turn, loopVars, LoopType
  <2>2. FcType' /\ SvcType' /\ BmcType' /\ HistType'
    BY <1>1, Unmoved DEF SkipPoll, fcVars, svcVars, bmcVars, histVars
  <2>3. pc' # "reapply"
    BY <1>1 DEF SkipPoll, Turn
  <2>4. QED
    BY <2>1, <2>2, <2>3 DEF ReappliesKnown
<1>2. CASE HoldLevel
  <2>1. LoopType'
    BY <1>2 DEF HoldLevel, Turn, loopVars, LoopType
  <2>2. FcType'
    BY <1>2 DEF HoldLevel, Polled, fcVars, FcType
  <2>3. SvcType' /\ BmcType' /\ HistType'
    BY <1>2, Unmoved DEF HoldLevel, svcVars, bmcVars, histVars
  <2>4. pc' # "reapply"
    BY <1>2 DEF HoldLevel, Turn
  <2>5. QED
    BY <2>1, <2>2, <2>3, <2>4 DEF ReappliesKnown
<1>3. CASE ChangeLevel
  <2>1. PICK l \in Curve[cur] : lastLevel' = [lastLevel EXCEPT ![cur] = l]
    BY <1>3 DEF ChangeLevel
  <2>2. l \in Levels
    BY CurveAssumption DEF LoopType
  <2>3. LoopType'
    BY <1>3, ZonesAssumption DEF ChangeLevel, Turn, loopVars, LoopType
  <2>4. FcType'
    BY <1>3, <2>1, <2>2 DEF ChangeLevel, Polled, fcVars, FcType
  <2>5. SvcType' /\ BmcType' /\ HistType'
    BY <1>3, Unmoved DEF ChangeLevel, svcVars, bmcVars, histVars
  <2>6. pc' # "reapply"
    BY <1>3 DEF ChangeLevel, Turn
  <2>7. QED
    BY <2>3, <2>4, <2>5, <2>6 DEF ReappliesKnown
<1>4. CASE PollConst
  <2>1. ConstLevel(cur) \in Levels
    BY <1>4, ConstLevelIsLevel DEF PollConst
  <2>2. LoopType'
    BY <1>4, ZonesAssumption DEF PollConst, Turn, loopVars, LoopType
  <2>3. FcType'
    BY <1>4, <2>1 DEF PollConst, Polled, fcVars, FcType
  <2>4. SvcType' /\ BmcType' /\ HistType'
    BY <1>4, Unmoved DEF PollConst, svcVars, bmcVars, histVars
  <2>5. pc' # "reapply"
    BY <1>4 DEF PollConst, Turn
  <2>6. QED
    BY <2>2, <2>3, <2>4, <2>5 DEF ReappliesKnown
<1>5. CASE SensorFails
  <2>1. LoopType'
    BY <1>5 DEF SensorFails, Exit, loopVars, LoopType
  <2>2. FcType'
    BY <1>5 DEF SensorFails, Polled, fcVars, FcType
  <2>3. SvcType'
    BY <1>5 DEF SensorFails, Exit, svcVars, SvcType
  <2>4. BmcType' /\ HistType'
    BY <1>5, Unmoved DEF SensorFails, bmcVars, histVars
  <2>5. pc' # "reapply"
    BY <1>5 DEF SensorFails, Exit
  <2>6. QED
    BY <2>1, <2>2, <2>3, <2>4, <2>5 DEF ReappliesKnown
<1>6. ASSUME NEW z \in Zones, DirectWrite(z) PROVE TypeInv'
  <2>1. BmcType' /\ HistType'
    BY <1>6, WriteType DEF DirectWrite, FcType, LoopType
  <2>2. LoopType'
    BY <1>6 DEF DirectWrite, Done, loopVars, LoopType
  <2>3. FcType' /\ SvcType'
    BY <1>6, Unmoved DEF DirectWrite, fcVars, svcVars
  <2>4. pc' # "reapply"
    BY <1>6 DEF DirectWrite, Done
  <2>5. QED
    BY <2>2, <2>1, <2>3, <2>4 DEF ReappliesKnown
<1>7. ASSUME NEW z \in Zones, ConstRead(z) PROVE TypeInv'
  <2>1. LoopType'
    BY <1>7 DEF ConstRead, Done, loopVars, LoopType
  <2>2. HistType'
    BY <1>7 DEF ConstRead, BmcType, histVars, HistType
  <2>3. FcType' /\ SvcType' /\ BmcType'
    BY <1>7, Unmoved DEF ConstRead, fcVars, svcVars, bmcVars
  <2>4. pc' # "reapply"
    BY <1>7 DEF ConstRead, Done
  <2>5. QED
    BY <2>1, <2>2, <2>3, <2>4 DEF ReappliesKnown
<1>8. ASSUME NEW z \in Zones, ConstWrite(z) PROVE TypeInv'
  <2>1. BmcType' /\ HistType'
    BY <1>8, WriteType DEF ConstWrite, FcType, LoopType
  <2>2. LoopType'
    BY <1>8 DEF ConstWrite, Done, loopVars, LoopType
  <2>3. FcType' /\ SvcType'
    BY <1>8, Unmoved DEF ConstWrite, fcVars, svcVars
  <2>4. pc' # "reapply"
    BY <1>8 DEF ConstWrite, Done
  <2>5. QED
    BY <2>2, <2>1, <2>3, <2>4 DEF ReappliesKnown
<1>9. ASSUME NEW z \in Zones, ControlFails(z) PROVE TypeInv'
  <2>1. bmcLevel' \in [Zones -> Levels]
    BY <1>9, LandsType DEF ControlFails, FcType, LoopType, BmcType
  <2>2. LoopType'
    BY <1>9 DEF ControlFails, Exit, loopVars, LoopType
  <2>3. SvcType'
    BY <1>9 DEF ControlFails, Exit, svcVars, SvcType
  <2>4. BmcType'
    BY <1>9, <2>1 DEF ControlFails, bmcVars, BmcType
  <2>5. FcType' /\ HistType'
    BY <1>9, Unmoved DEF ControlFails, fcVars, histVars
  <2>6. pc' # "reapply"
    BY <1>9 DEF ControlFails, Exit
  <2>7. QED
    BY <2>2, <2>3, <2>4, <2>5, <2>6 DEF ReappliesKnown
<1>10. CASE Record
  <2>1. applied' \in [Zones -> Levels \cup {NoLevel}]
    BY <1>10 DEF Record, FcType, LoopType, SvcType
  <2>2. LoopType'
    BY <1>10, NAssumption DEF Record, loopVars, LoopType
  <2>3. SvcType'
    BY <1>10, <2>1 DEF Record, svcVars, SvcType
  <2>4. FcType' /\ BmcType' /\ HistType'
    BY <1>10, Unmoved DEF Record, fcVars, bmcVars, histVars
  <2>5. pc' # "reapply"
    BY <1>10 DEF Record
  <2>6. QED
    BY <2>2, <2>3, <2>4, <2>5 DEF ReappliesKnown
<1>11. CASE Arbitrate
  <2>1. LoopType'
    BY <1>11 DEF Arbitrate, Outdated, loopVars, LoopType
  <2>2. FcType' /\ SvcType' /\ BmcType' /\ HistType'
    BY <1>11, Unmoved DEF Arbitrate, fcVars, svcVars, bmcVars, histVars
  <2>3. pc' # "reapply"
    BY <1>11 DEF Arbitrate
  <2>4. QED
    BY <2>1, <2>2, <2>3 DEF ReappliesKnown
<1>12. ASSUME NEW z \in Zones, ApplyWrite(z) PROVE TypeInv'
  <2>1. PICK l \in Desired(z) : Write(z, l) /\ applied' = [applied EXCEPT ![z] = l]
    BY <1>12 DEF ApplyWrite
  <2>2. l \in Levels
    BY DesiredIsLevel
  <2>3. BmcType' /\ HistType'
    BY <2>1, <2>2, WriteType
  <2>4. LoopType'
    BY <1>12 DEF ApplyWrite, Done, loopVars, LoopType
  <2>5. SvcType'
    BY <1>12, <2>1, <2>2 DEF ApplyWrite, svcVars, SvcType
  <2>6. FcType'
    BY <1>12, Unmoved DEF ApplyWrite, fcVars
  <2>7. pc' # "reapply"
    BY <1>12 DEF ApplyWrite, Done
  <2>8. QED
    BY <2>4, <2>5, <2>3, <2>6, <2>7 DEF ReappliesKnown
<1>13. ASSUME NEW z \in Zones, ApplyFails(z) PROVE TypeInv'
  <2>1. PICK l \in Desired(z) : MayLand(z, l)
    BY <1>13 DEF ApplyFails
  <2>2. bmcLevel' \in [Zones -> Levels]
    BY <2>1, DesiredIsLevel, LandsType
  <2>3. LoopType'
    BY <1>13 DEF ApplyFails, Exit, loopVars, LoopType
  <2>4. SvcType'
    BY <1>13 DEF ApplyFails, Exit, svcVars, SvcType
  <2>5. BmcType'
    BY <1>13, <2>2 DEF ApplyFails, bmcVars, BmcType
  <2>6. FcType' /\ HistType'
    BY <1>13, Unmoved DEF ApplyFails, fcVars, histVars
  <2>7. pc' # "reapply"
    BY <1>13 DEF ApplyFails, Exit
  <2>8. QED
    BY <2>3, <2>4, <2>5, <2>6, <2>7 DEF ReappliesKnown
<1>14. CASE ReadMode
  <2>1. LoopType'
    BY <1>14 DEF ReadMode, Exit, loopVars, LoopType
  <2>2. SvcType'
    BY <1>14 DEF ReadMode, Exit, BmcType, svcVars, SvcType
  <2>3. FcType' /\ BmcType' /\ HistType'
    BY <1>14, Unmoved DEF ReadMode, fcVars, bmcVars, histVars
  <2>4. pc' # "reapply"
    BY <1>14 DEF ReadMode, Exit
  <2>5. QED
    BY <2>1, <2>2, <2>3, <2>4 DEF ReappliesKnown
<1>15. CASE RestoreMode
  <2>1. LoopType'
    BY <1>15 DEF RestoreMode, loopVars, LoopType
  <2>2. SvcType'
    BY <1>15 DEF RestoreMode, svcVars, SvcType
  <2>3. BmcType'
    BY <1>15, ResetType DEF RestoreMode, bmcVars, BmcType
  <2>4. FcType' /\ HistType'
    BY <1>15, Unmoved DEF RestoreMode, fcVars, histVars
  <2>5. ReappliesKnown'
    BY <1>15 DEF ReappliesKnown, RestoreMode
  <2>6. QED
    BY <2>1, <2>2, <2>3, <2>4, <2>5
<1>16. ASSUME NEW z \in Zones, Reapply(z) PROVE TypeInv'
  <2>1. applied[z] \in Levels
    BY <1>16 DEF Reapply, ReappliesKnown, SvcType
  <2>2. bmcLevel' \in [Zones -> Levels]
    BY <1>16, <2>1, LandsType DEF Reapply
  <2>3. LoopType'
    BY <1>16 DEF Reapply, Done, loopVars, LoopType
  <2>4. BmcType'
    BY <1>16, <2>2 DEF Reapply, bmcVars, BmcType
  <2>5. HistType'
    BY <1>16, <2>1 DEF Reapply, histVars, HistType
  <2>6. FcType' /\ SvcType'
    BY <1>16, Unmoved DEF Reapply, fcVars, svcVars
  <2>7. ReappliesKnown'
    BY <1>16 DEF ReappliesKnown, Reapply, Done, svcVars
  <2>8. QED
    BY <2>3, <2>4, <2>5, <2>6, <2>7
<1>17. CASE CheckFails
  <2>1. LoopType'
    BY <1>17 DEF CheckFails, loopVars, LoopType
  <2>2. BmcType'
    BY <1>17, ModeCallType, BmcAssumption DEF CheckFails, bmcVars, BmcType
  <2>3. FcType' /\ SvcType' /\ HistType'
    BY <1>17, Unmoved DEF CheckFails, fcVars, svcVars, histVars
  <2>4. pc' # "reapply"
    BY <1>17 DEF CheckFails
  <2>5. QED
    BY <2>1, <2>2, <2>3, <2>4 DEF ReappliesKnown
<1>18. CASE CheckCrashes
  <2>1. LoopType'
    BY <1>18 DEF CheckCrashes, Exit, loopVars, LoopType
  <2>2. SvcType'
    BY <1>18 DEF CheckCrashes, Exit, svcVars, SvcType
  <2>3. BmcType'
    BY <1>18, ModeCallType DEF CheckCrashes, bmcVars, BmcType
  <2>4. FcType' /\ HistType'
    BY <1>18, Unmoved DEF CheckCrashes, fcVars, histVars
  <2>5. pc' # "reapply"
    BY <1>18 DEF CheckCrashes, Exit
  <2>6. QED
    BY <2>1, <2>2, <2>3, <2>4, <2>5 DEF ReappliesKnown
<1>19. CASE Wake
  <2>1. LoopType'
    BY <1>19, NAssumption DEF Wake, loopVars, LoopType
  <2>2. HistType'
    BY <1>19 DEF Wake, histVars, HistType
  <2>3. FcType' /\ SvcType' /\ BmcType'
    BY <1>19, Unmoved DEF Wake, fcVars, svcVars, bmcVars
  <2>4. pc' # "reapply"
    BY <1>19 DEF Wake
  <2>5. QED
    BY <2>1, <2>2, <2>3, <2>4 DEF ReappliesKnown
<1>20. CASE Sigterm
  <2>1. LoopType'
    BY <1>20 DEF Sigterm, Exit, loopVars, LoopType
  <2>2. SvcType'
    BY <1>20 DEF Sigterm, Exit, svcVars, SvcType
  <2>3. FcType' /\ BmcType' /\ HistType'
    BY <1>20, Unmoved DEF Sigterm, fcVars, bmcVars, histVars
  <2>4. pc' # "reapply"
    BY <1>20 DEF Sigterm, Exit
  <2>5. QED
    BY <2>1, <2>2, <2>3, <2>4 DEF ReappliesKnown
<1>21. CASE Drift
  <2>1. BmcType'
    BY <1>21, ResetType, BmcAssumption DEF Drift, bmcVars, BmcType
  <2>2. LoopType' /\ FcType' /\ SvcType' /\ HistType'
    BY <1>21, Unmoved DEF Drift, loopVars, fcVars, svcVars, histVars
  <2>3. ReappliesKnown'
    BY <1>21 DEF ReappliesKnown, Drift, loopVars, svcVars
  <2>4. QED
    BY <2>1, <2>2, <2>3
<1>22. CASE UNCHANGED vars
  BY <1>22, Unmoved DEF vars, loopVars, fcVars, svcVars, bmcVars, histVars, ReappliesKnown
<1>23. QED
  BY <1>1, <1>2, <1>3, <1>4, <1>5, <1>6, <1>7, <1>8, <1>9, <1>10, <1>11,
     <1>12, <1>13, <1>14, <1>15, <1>16, <1>17, <1>18, <1>19, <1>20, <1>21,
     <1>22
  DEF Next, Step, Poll

\* Every variable keeps its type: no level outside 0..100 is ever commanded or
\* cached, and a recovery only re-applies levels the cache has.
THEOREM TypeCorrect == Spec => []TypeOK
<1>1. TypeInv => TypeOK
  BY DEF TypeInv
<1>2. QED
  BY <1>1, InitType, NextType, PTL DEF Spec

-----------------------------------------------------------------------------
(* The inductive invariant.                                                *)

\* The zones of a controller that writes itself are zones, and no zone of the
\* arbiter is among them.
LEMMA DirectZones ==
  ASSUME NEW c \in Controllers, NEW z \in ZonesOf[c]
  PROVE  z \in Zones /\ c \in Owners(z) /\ (~Deferred(c) => Direct(z))
BY ZonesAssumption DEF Owners, Direct

\* The arbiter has nothing to do with a zone that a controller drives itself.
LEMMA OutdatedIsArbitrated ==
  ASSUME NEW z \in Outdated
  PROVE  z \in Zones /\ ~Direct(z)
<1>1. PICK d \in Owners(z) : Deferred(d)
  BY DEF Outdated, Desired
<1>2. SUFFICES ASSUME NEW c \in Owners(z), ~Deferred(c) PROVE FALSE
  BY DEF Outdated, Direct
<1>3. c = d
  BY <1>1, <1>2, SoleOwner DEF Owners, Outdated
<1>4. QED
  BY <1>1, <1>2, <1>3

\* What the arbiter has to do depends on the levels and on the cache only.
LEMMA SameDesires ==
  ASSUME UNCHANGED lastLevel
  PROVE  /\ \A z : Desired(z)' = Desired(z)
         /\ UNCHANGED applied => Outdated' = Outdated
BY DEF Desired, Outdated, Owners

LEMMA InitIInv == Init => IInv
<1> SUFFICES ASSUME Init PROVE IInv
  OBVIOUS
<1>1. PhaseInv
  BY DEF Init, PhaseInv, Settled
<1>2. DirectInv
  BY ZonesAssumption DEF Init, DirectInv, Recorded, Settled
<1>3. ArbiterInv
  BY DEF Init, ArbiterInv
<1>4. WritesInv
  BY DEF Init, WritesInv
<1>5. CausesInv
  BY DEF Init, CausesInv
<1>6. QED
  BY <1>1, <1>2, <1>3, <1>4, <1>5 DEF IInv

\* Leaving the loop keeps the invariant, wherever the loop is left.
LEMMA ExitKeeps ==
  ASSUME IInv, pc' = "exit",
         UNCHANGED <<cur, lastLevel, applied, cmd, writes, enforced, drifts, faults>>
  PROVE  IInv'
<1> USE DEF IInv
<1>1. PhaseInv'
  BY DEF PhaseInv, Settled
<1>2. DirectInv'
  BY DEF DirectInv, Recorded, Settled
<1>3. ArbiterInv'
  BY DEF ArbiterInv
<1>4. WritesInv'
  BY DEF WritesInv, Unwritten
<1>5. CausesInv'
  BY DEF CausesInv
<1>6. QED
  BY <1>1, <1>2, <1>3, <1>4, <1>5

\* While the fan mode is checked the zones are left alone.
LEMMA SettledKeeps ==
  ASSUME IInv, Settled, Settled',
         UNCHANGED <<cur, wrong, lastLevel, applied, cmd, writes>>
  PROVE  PhaseInv' /\ DirectInv' /\ ArbiterInv' /\ WritesInv'
<1> USE DEF IInv
<1>1. PhaseInv'
  BY SameDesires DEF PhaseInv, Settled
<1>2. DirectInv'
  BY DEF DirectInv, Recorded, Settled
<1>3. ArbiterInv'
  BY DEF ArbiterInv
<1>4. WritesInv'
  BY DEF WritesInv, Unwritten, Settled
<1>5. QED
  BY <1>1, <1>2, <1>3, <1>4

\* A step that is neither a drift nor part of the mode check moves no cause.
LEMMA CausesKeep ==
  ASSUME CausesInv, pc \notin {"restore", "exit"},
         UNCHANGED <<enforced, bmcMode, drifts, faults>>
  PROVE  CausesInv'
BY DEF CausesInv

\* A turn that ends without a write: the levels of the controllers that write
\* themselves are as they were.
LEMMA TurnKeeps ==
  ASSUME TypeInv, IInv, pc = "turn", pc' = "record",
         lastLevel' = lastLevel \/ (Deferred(cur) /\ \E l \in Levels : lastLevel' = [lastLevel EXCEPT ![cur] = l]),
         UNCHANGED <<cur, wrong, applied, cmd, writes, enforced, bmcMode, drifts, faults>>
  PROVE  IInv'
<1> USE DEF IInv
<1>1. PhaseInv'
  BY DEF PhaseInv, Settled
<1>2. \A c \in Controllers : ~Deferred(c) => lastLevel'[c] = lastLevel[c]
  BY DEF TypeInv, TypeOK, FcType
<1>3. DirectInv'
  BY <1>2 DEF DirectInv, Recorded, Settled
<1>4. ArbiterInv'
  BY DEF ArbiterInv
<1>5. WritesInv'
  BY DEF WritesInv, Unwritten
<1>6. CausesInv'
  BY CausesKeep
<1>7. QED
  BY <1>1, <1>3, <1>4, <1>5, <1>6

\* A turn that starts a loop over the zones of a controller.
LEMMA TurnStarts ==
  ASSUME TypeInv, IInv, pc = "turn", pc' \in {"write", "verify"}, ~Deferred(cur),
         todo' = ZonesOf[cur],
         \E l \in Levels : lastLevel' = [lastLevel EXCEPT ![cur] = l],
         UNCHANGED <<cur, wrong, applied, cmd, writes, enforced, bmcMode, drifts, faults>>
  PROVE  IInv'
<1> USE DEF IInv
<1>1. PhaseInv'
  BY DEF PhaseInv, Settled
<1>2. \A c \in Controllers : c # cur => lastLevel'[c] = lastLevel[c]
  BY DEF TypeInv, TypeOK, FcType
<1>3. DirectInv'
  <2>1. SUFFICES ASSUME NEW c \in Controllers, ~Deferred(c), NEW z \in ZonesOf[c]
                 PROVE  /\ Recorded(c)' => applied'[z] = lastLevel'[c]
                        /\ \/ c = cur /\ z \in todo'
                           \/ cmd'[z] \in {NoLevel, lastLevel'[c]}
    BY DEF DirectInv
  <2>2. CASE c = cur
    BY <2>2 DEF Recorded, Settled, TypeInv, TypeOK, LoopType
  <2>3. CASE c # cur
    BY <2>1, <2>3, <1>2 DEF DirectInv, Recorded, Settled
  <2>4. QED
    BY <2>2, <2>3
<1>4. ArbiterInv'
  BY DEF ArbiterInv
<1>5. WritesInv'
  <2>1. ASSUME NEW z \in Zones PROVE Unwritten(z)' => Unwritten(z)
    BY DEF Unwritten
  <2>2. QED
    BY <2>1 DEF WritesInv
<1>6. CausesInv'
  BY CausesKeep
<1>7. QED
  BY <1>1, <1>3, <1>4, <1>5, <1>6

\* One zone of such a loop is brought to, or found at, the level of its
\* controller.
LEMMA ZoneDone ==
  ASSUME TypeInv, IInv, pc \in {"write", "verify"}, NEW z \in todo, Done(z, "record"),
         cmd' = [cmd EXCEPT ![z] = lastLevel[cur]],
         writes' \in {writes, [writes EXCEPT ![z] = @ + 1]},
         wrong' = {},
         UNCHANGED <<cur, lastLevel, applied, enforced, bmcMode, drifts, faults>>
  PROVE  IInv'
<1> USE DEF IInv
<1>a. z \in Zones /\ z \in ZonesOf[cur] /\ ~Deferred(cur) /\ cur \in Controllers
  BY DEF PhaseInv, TypeInv, TypeOK, LoopType
<1>b. \A c \in Controllers : z \in ZonesOf[c] => c = cur
  BY <1>a, SoleOwner
<1>1. PhaseInv'
  BY DEF PhaseInv, Settled, Done
<1>2. DirectInv'
  <2>1. SUFFICES ASSUME NEW c \in Controllers, ~Deferred(c), NEW y \in ZonesOf[c]
                 PROVE  /\ Recorded(c)' => applied'[y] = lastLevel'[c]
                        /\ \/ c = cur /\ pc' \in {"write", "verify"} /\ y \in todo'
                           \/ cmd'[y] \in {NoLevel, lastLevel'[c]}
    BY DEF DirectInv
  <2>2. Recorded(c)' => Recorded(c)
    BY DEF Recorded, Settled, Done
  <2>3. CASE y = z
    BY <1>a, <1>b, <2>2, <2>3, <2>1 DEF DirectInv, TypeInv, TypeOK, HistType
  <2>4. CASE y # z
    BY <2>1, <2>2, <2>4 DEF DirectInv, Done, TypeInv, TypeOK, HistType
  <2>5. QED
    BY <2>3, <2>4
<1>3. ArbiterInv'
  <2>1. Direct(z)
    BY <1>a, DirectZones
  <2>2. QED
    BY <2>1 DEF ArbiterInv, TypeInv, TypeOK, HistType
<1>4. WritesInv'
  <2>1. SUFFICES ASSUME NEW y \in Zones
                 PROVE  writes'[y] <= 1 /\ (Unwritten(y)' => writes'[y] = 0)
    BY DEF WritesInv
  <2>2. Unwritten(z)
    BY <1>a DEF Unwritten, Owners
  <2>3. ~Unwritten(z)'
    BY <1>a, <1>b, DirectZones DEF Unwritten, Owners, Done, TypeInv, TypeOK, LoopType
  <2>4. CASE y = z
    BY <1>a, <2>2, <2>3, <2>4 DEF WritesInv, TypeInv, TypeOK, HistType
  <2>5. CASE y # z
    <3>1. Unwritten(y)' => Unwritten(y)
      BY <2>5 DEF Unwritten, Done
    <3>2. writes'[y] = writes[y]
      BY <1>a, <2>5 DEF TypeInv, TypeOK, HistType
    <3>3. QED
      BY <3>1, <3>2 DEF WritesInv
  <2>6. QED
    BY <2>4, <2>5
<1>5. CausesInv'
  BY CausesKeep
<1>6. QED
  BY <1>1, <1>2, <1>3, <1>4, <1>5

LEMMA RecordKeeps == ASSUME TypeInv, IInv, Record PROVE IInv'
<1> USE DEF IInv
<1>a. cur \in Controllers /\ wrong = {} /\ lastLevel' = lastLevel /\ cmd' = cmd /\ writes' = writes
  BY DEF Record, fcVars, histVars, TypeInv, TypeOK, LoopType, PhaseInv
<1>b. \A z \in Zones : applied'[z] = IF ~Deferred(cur) /\ z \in ZonesOf[cur]
                                      THEN lastLevel[cur] ELSE applied[z]
  BY DEF Record
<1>c. pc = "record" /\ \/ cur < N /\ cur' = cur + 1 /\ pc' = "turn"
                       \/ cur = N /\ cur' = cur /\ pc' = "arbitrate"
                       \/ cur = N /\ cur' = cur /\ pc' = "mode" /\ SharedZones = {}
  BY DEF Record
<1>1. PhaseInv'
  <2>1. SharedZones = {} => Outdated' = {}
    BY DEF Outdated, Desired, Owners, Deferred
  <2>2. wrong' = {}
    BY <1>a DEF Record
  <2>3. QED
    BY <1>c, <2>1, <2>2 DEF PhaseInv, Settled
<1>2. DirectInv'
  <2>1. SUFFICES ASSUME NEW c \in Controllers, ~Deferred(c), NEW z \in ZonesOf[c]
                 PROVE  /\ Recorded(c)' => applied'[z] = lastLevel[c]
                        /\ cmd[z] \in {NoLevel, lastLevel[c]}
    BY <1>a DEF DirectInv
  <2>2. cmd[z] \in {NoLevel, lastLevel[c]}
    BY <1>c, <2>1 DEF DirectInv
  <2>3. z \in Zones
    BY DirectZones
  <2>4. CASE c = cur
    BY <1>b, <2>1, <2>2, <2>3, <2>4
  <2>5. CASE c # cur
    <3>1. z \notin ZonesOf[cur] \/ Deferred(cur)
      BY <1>a, <2>1, <2>3, <2>5, SoleOwner
    <3>2. applied'[z] = applied[z]
      BY <1>b, <2>3, <3>1
    <3>3. Recorded(c)' => Recorded(c)
      BY <1>a, <1>c, <2>5, NAssumption DEF Recorded, Settled
    <3>4. QED
      BY <2>1, <2>2, <3>2, <3>3 DEF DirectInv
  <2>6. QED
    BY <2>4, <2>5
<1>3. ArbiterInv'
  BY <1>a, <1>b, DirectZones DEF ArbiterInv
<1>4. WritesInv'
  <2>1. ASSUME NEW z \in Zones PROVE Unwritten(z)' => Unwritten(z)
    <3>1. \A c \in Controllers : cur < N /\ c >= cur + 1 => c > cur
      BY <1>a
    <3>2. \A c \in Controllers : cur = N => ~(c > cur)
      BY <1>a
    <3>3. QED
      BY <1>a, <1>c, <3>1, <3>2 DEF Unwritten, Owners
  <2>2. QED
    BY <1>a, <2>1 DEF WritesInv
<1>5. CausesInv'
  BY CausesKeep DEF Record, bmcVars
<1>6. QED
  BY <1>1, <1>2, <1>3, <1>4, <1>5

LEMMA ArbitrateKeeps == ASSUME TypeInv, IInv, Arbitrate PROVE IInv'
<1> USE DEF IInv
<1>a. /\ UNCHANGED <<cur, wrong, lastLevel, applied, cmd, writes>>
      /\ pc = "arbitrate" /\ pc' \in {"apply", "mode"}
      /\ todo' = Outdated /\ (pc' = "mode" => Outdated = {})
  BY DEF Arbitrate, fcVars, svcVars, histVars
<1>1. PhaseInv'
  <2>1. Outdated' = Outdated
    BY <1>a, SameDesires
  <2>2. QED
    BY <1>a, <2>1 DEF PhaseInv, Settled
<1>2. DirectInv'
  BY <1>a DEF DirectInv, Recorded, Settled
<1>3. ArbiterInv'
  BY <1>a DEF ArbiterInv
<1>4. WritesInv'
  <2>1. ASSUME NEW z \in Zones PROVE Unwritten(z)' => Unwritten(z)
    BY <1>a, OutdatedIsArbitrated DEF Unwritten
  <2>2. QED
    BY <1>a, <2>1 DEF WritesInv
<1>5. CausesInv'
  BY CausesKeep DEF Arbitrate, svcVars, bmcVars
<1>6. QED
  BY <1>1, <1>2, <1>3, <1>4, <1>5

LEMMA ApplyKeeps == ASSUME TypeInv, IInv, NEW z \in Zones, ApplyWrite(z) PROVE IInv'
<1> USE DEF IInv
<1>a. PICK l \in Desired(z) :
        /\ IsTop(l, Desired(z))
        /\ applied' = [applied EXCEPT ![z] = l]
        /\ cmd' = [cmd EXCEPT ![z] = l]
        /\ writes' = [writes EXCEPT ![z] = @ + 1]
  BY DEF ApplyWrite, Write
<1>b. /\ pc = "apply" /\ z \in todo /\ todo = Outdated /\ ~Direct(z)
      /\ UNCHANGED <<cur, wrong, lastLevel>>
      /\ todo' = todo \ {z}
      /\ pc' = IF todo = {z} THEN "mode" ELSE "apply"
  BY OutdatedIsArbitrated DEF ApplyWrite, Done, PhaseInv, fcVars
<1>c. Outdated' = Outdated \ {z}
  <2>1. \A y \in Zones : y # z => applied'[y] = applied[y]
    BY <1>a DEF TypeInv, TypeOK, SvcType
  <2>2. applied'[z] = l
    BY <1>a DEF TypeInv, TypeOK, SvcType
  <2>3. \A y : Desired(y)' = Desired(y)
    BY <1>b, SameDesires
  <2>4. \A y \in Zones : y \in Outdated' <=> y \in Outdated \ {z}
    BY <1>a, <2>1, <2>2, <2>3 DEF Outdated, IsTop
  <2>5. QED
    BY <2>4 DEF Outdated
<1>1. PhaseInv'
  BY <1>b, <1>c DEF PhaseInv, Settled
<1>2. DirectInv'
  <2>1. SUFFICES ASSUME NEW c \in Controllers, ~Deferred(c), NEW y \in ZonesOf[c]
                 PROVE  applied'[y] = lastLevel[c] /\ cmd'[y] \in {NoLevel, lastLevel[c]}
    BY <1>b DEF DirectInv
  <2>2. y # z /\ y \in Zones
    BY <1>b, <2>1, DirectZones
  <2>3. applied'[y] = applied[y] /\ cmd'[y] = cmd[y]
    BY <1>a, <2>2 DEF TypeInv, TypeOK, SvcType, HistType
  <2>4. QED
    BY <1>b, <2>1, <2>3 DEF DirectInv, Recorded
<1>3. ArbiterInv'
  BY <1>a DEF ArbiterInv, TypeInv, TypeOK, SvcType, HistType
<1>4. WritesInv'
  <2>1. SUFFICES ASSUME NEW y \in Zones
                 PROVE  writes'[y] <= 1 /\ (Unwritten(y)' => writes'[y] = 0)
    BY DEF WritesInv
  <2>2. CASE y = z
    <3>1. Unwritten(z) /\ ~Unwritten(z)'
      BY <1>b DEF Unwritten
    <3>2. QED
      BY <1>a, <2>2, <3>1 DEF WritesInv, TypeInv, TypeOK, HistType
  <2>3. CASE y # z
    <3>1. Unwritten(y)' => Unwritten(y)
      BY <1>b, <2>3 DEF Unwritten
    <3>2. writes'[y] = writes[y]
      BY <1>a, <2>3 DEF TypeInv, TypeOK, HistType
    <3>3. QED
      BY <3>1, <3>2 DEF WritesInv
  <2>4. QED
    BY <2>2, <2>3
<1>5. CausesInv'
  BY CausesKeep DEF ApplyWrite, Write
<1>6. QED
  BY <1>1, <1>2, <1>3, <1>4, <1>5

LEMMA ReapplyKeeps == ASSUME TypeInv, IInv, NEW z \in Zones, Reapply(z) PROVE IInv'
<1> USE DEF IInv
<1>a. /\ pc = "reapply" /\ pc' \in {"reapply", "sleep"}
      /\ UNCHANGED <<cur, wrong, lastLevel, applied, writes>>
      /\ cmd' = [cmd EXCEPT ![z] = applied[z]]
  BY DEF Reapply, Done, fcVars, svcVars
<1>1. PhaseInv'
  BY <1>a, SameDesires DEF PhaseInv, Settled
<1>2. DirectInv'
  BY <1>a, DirectZones DEF DirectInv, Recorded, Settled, TypeInv, TypeOK, HistType
<1>3. ArbiterInv'
  BY <1>a DEF ArbiterInv, TypeInv, TypeOK, HistType
<1>4. WritesInv'
  BY <1>a DEF WritesInv, Unwritten
<1>5. CausesInv'
  BY CausesKeep DEF Reapply, svcVars
<1>6. QED
  BY <1>1, <1>2, <1>3, <1>4, <1>5

LEMMA WakeKeeps == ASSUME TypeInv, IInv, Wake PROVE IInv'
<1> USE DEF IInv
<1>a. /\ pc = "sleep" /\ pc' = "turn" /\ cur' = 1
      /\ UNCHANGED <<wrong, lastLevel, applied, cmd>>
      /\ writes' = [z \in Zones |-> 0]
  BY DEF Wake, fcVars, svcVars
<1>1. PhaseInv'
  BY <1>a DEF PhaseInv, Settled
<1>2. DirectInv'
  BY <1>a DEF DirectInv, Recorded, Settled
<1>3. ArbiterInv'
  BY <1>a DEF ArbiterInv
<1>4. WritesInv'
  BY <1>a DEF WritesInv
<1>5. CausesInv'
  BY CausesKeep DEF Wake, svcVars, bmcVars
<1>6. QED
  BY <1>1, <1>2, <1>3, <1>4, <1>5

LEMMA DriftKeeps == ASSUME TypeInv, IInv, Drift PROVE IInv'
<1> USE DEF IInv
<1>a. UNCHANGED <<pc, cur, todo, wrong, lastLevel, applied, cmd, writes>>
  BY DEF Drift, loopVars, fcVars, svcVars, histVars
<1>1. PhaseInv'
  BY <1>a, SameDesires DEF PhaseInv, Settled
<1>2. DirectInv'
  BY <1>a DEF DirectInv, Recorded, Settled
<1>3. ArbiterInv'
  BY <1>a DEF ArbiterInv
<1>4. WritesInv'
  BY <1>a DEF WritesInv, Unwritten
<1>5. CausesInv'
  BY <1>a DEF CausesInv, Drift, svcVars, TypeInv, TypeOK, BmcType, SvcType
<1>6. QED
  BY <1>1, <1>2, <1>3, <1>4, <1>5

\* _check_fan_mode touches the BMC and its own record of it.
LEMMA ReadModeKeeps == ASSUME TypeInv, IInv, ReadMode PROVE IInv'
<1> USE DEF IInv
<1>a. UNCHANGED <<cur, wrong, lastLevel, applied, cmd, writes, bmcMode, drifts, faults>>
  BY DEF ReadMode, Exit, fcVars, bmcVars, histVars
<1>1. CASE pc' = "exit"
  BY <1>1, <1>a, ExitKeeps DEF ReadMode
<1>2. CASE pc' # "exit"
  <2>1. /\ pc = "mode"
        /\ \/ pc' = "sleep" /\ bmcMode = FULL /\ enforced' = enforced
           \/ pc' = "restore" /\ bmcMode # FULL /\ enforced' = enforced + 1
    BY <1>2 DEF ReadMode, Exit
  <2>2. CausesInv'
    BY <1>a, <2>1 DEF CausesInv, TypeInv, TypeOK, BmcType, SvcType
  <2>3. QED
    BY <1>a, <2>1, <2>2, SettledKeeps DEF Settled
<1>3. QED
  BY <1>1, <1>2

LEMMA RestoreModeKeeps == ASSUME TypeInv, IInv, RestoreMode PROVE IInv'
<1> USE DEF IInv
<1>1. CausesInv'
  BY DEF RestoreMode, CausesInv
<1>2. QED
  BY <1>1, SettledKeeps DEF RestoreMode, Settled, fcVars, histVars

LEMMA CheckFailsKeeps == ASSUME TypeInv, IInv, CheckFails PROVE IInv'
<1> USE DEF IInv
<1>1. pc \in {"mode", "restore", "reapply"} /\ pc' = "sleep"
  BY DEF CheckFails, ModeCallEffect
<1>2. CausesInv'
  <2>1. enforced' = enforced /\ drifts' = drifts /\ faults' = faults + 1
    BY DEF CheckFails, svcVars
  <2>2. QED
    BY <1>1, <2>1 DEF CausesInv, TypeInv, TypeOK, BmcType, SvcType
<1>3. QED
  BY <1>1, <1>2, SettledKeeps DEF CheckFails, Settled, fcVars, svcVars, histVars

LEMMA NextIInv == TypeInv /\ IInv /\ [Next]_vars => IInv'
<1> SUFFICES ASSUME TypeInv, IInv, [Next]_vars PROVE IInv'
  OBVIOUS
<1>1. CASE SkipPoll
  BY <1>1, TurnKeeps DEF SkipPoll, Turn, fcVars, svcVars, bmcVars, histVars
<1>2. CASE HoldLevel
  BY <1>2, TurnKeeps DEF HoldLevel, Turn, svcVars, bmcVars, histVars
<1>3. CASE ChangeLevel
  <2>1. PICK l \in Curve[cur] : lastLevel' = [lastLevel EXCEPT ![cur] = l]
    BY <1>3 DEF ChangeLevel
  <2>2. l \in Levels
    BY CurveAssumption DEF TypeInv, TypeOK, LoopType
  <2>3. CASE Deferred(cur)
    BY <1>3, <2>1, <2>2, <2>3, TurnKeeps DEF ChangeLevel, Turn, svcVars, bmcVars, histVars
  <2>4. CASE ~Deferred(cur)
    BY <1>3, <2>1, <2>2, <2>4, TurnStarts DEF ChangeLevel, Turn, svcVars, bmcVars, histVars
  <2>5. QED
    BY <2>3, <2>4
<1>4. CASE PollConst
  <2>1. ConstLevel(cur) \in Levels
    BY <1>4, ConstLevelIsLevel DEF PollConst
  <2>2. CASE Deferred(cur)
    BY <1>4, <2>1, <2>2, TurnKeeps DEF PollConst, Turn, svcVars, bmcVars, histVars
  <2>3. CASE ~Deferred(cur)
    <3>1. lastLevel' = [lastLevel EXCEPT ![cur] = lastLevel[cur]] /\ lastLevel[cur] \in Levels
      BY <1>4, <2>3 DEF PollConst, TypeInv, TypeOK, FcType, LoopType
    <3>2. QED
      BY <1>4, <2>3, <3>1, TurnStarts DEF PollConst, Turn, svcVars, bmcVars, histVars
  <2>4. QED
    BY <2>2, <2>3
<1>5. CASE SensorFails
  BY <1>5, ExitKeeps DEF SensorFails, Exit, bmcVars, histVars
<1>6. ASSUME NEW z \in Zones, DirectWrite(z) PROVE IInv'
  <2>1. wrong = {}
    BY <1>6 DEF DirectWrite, IInv, PhaseInv
  <2>2. QED
    BY <1>6, <2>1, ZoneDone DEF DirectWrite, Write, fcVars, svcVars
<1>7. ASSUME NEW z \in Zones, ConstRead(z) PROVE IInv'
  <2>1. CASE bmcLevel[z] = lastLevel[cur]
    BY <1>7, <2>1, ZoneDone DEF ConstRead, fcVars, svcVars, bmcVars
  <2>2. CASE bmcLevel[z] # lastLevel[cur]
    <3>1. /\ pc = "verify" /\ z \in todo /\ wrong' = {z}
          /\ UNCHANGED <<pc, cur, todo, lastLevel, applied, cmd, writes>>
          /\ UNCHANGED <<enforced, bmcMode, drifts, faults>>
      BY <1>7, <2>2 DEF ConstRead, fcVars, svcVars, bmcVars
    <3>2. PhaseInv'
      BY <3>1 DEF IInv, PhaseInv, Settled
    <3>3. DirectInv'
      BY <3>1 DEF IInv, DirectInv, Recorded, Settled
    <3>4. ArbiterInv' /\ WritesInv' /\ CausesInv'
      BY <3>1 DEF IInv, ArbiterInv, WritesInv, Unwritten, CausesInv
    <3>5. QED
      BY <3>2, <3>3, <3>4 DEF IInv
  <2>3. QED
    BY <2>1, <2>2
<1>8. ASSUME NEW z \in Zones, ConstWrite(z) PROVE IInv'
  <2>1. z \in todo
    BY <1>8 DEF ConstWrite, IInv, PhaseInv
  <2>2. QED
    BY <1>8, <2>1, ZoneDone DEF ConstWrite, Write, fcVars, svcVars
<1>9. ASSUME NEW z \in Zones, ControlFails(z) PROVE IInv'
  BY <1>9, ExitKeeps DEF ControlFails, Exit, fcVars, histVars
<1>10. CASE Record
  BY <1>10, RecordKeeps
<1>11. CASE Arbitrate
  BY <1>11, ArbitrateKeeps
<1>12. ASSUME NEW z \in Zones, ApplyWrite(z) PROVE IInv'
  BY <1>12, ApplyKeeps
<1>13. ASSUME NEW z \in Zones, ApplyFails(z) PROVE IInv'
  BY <1>13, ExitKeeps DEF ApplyFails, Exit, fcVars, histVars
<1>14. CASE ReadMode
  BY <1>14, ReadModeKeeps
<1>15. CASE RestoreMode
  BY <1>15, RestoreModeKeeps
<1>16. ASSUME NEW z \in Zones, Reapply(z) PROVE IInv'
  BY <1>16, ReapplyKeeps
<1>17. CASE CheckFails
  BY <1>17, CheckFailsKeeps
<1>18. CASE CheckCrashes
  BY <1>18, ExitKeeps DEF CheckCrashes, Exit, fcVars, histVars
<1>19. CASE Wake
  BY <1>19, WakeKeeps
<1>20. CASE Sigterm
  BY <1>20, ExitKeeps DEF Sigterm, Exit, fcVars, bmcVars, histVars
<1>21. CASE Drift
  BY <1>21, DriftKeeps
<1>22. CASE UNCHANGED vars
  <2>1. UNCHANGED <<pc, cur, todo, wrong, lastLevel, applied, cmd, writes>>
    BY <1>22 DEF vars
  <2>2. PhaseInv'
    BY <2>1, SameDesires DEF IInv, PhaseInv, Settled
  <2>3. DirectInv' /\ ArbiterInv'
    BY <2>1 DEF IInv, DirectInv, ArbiterInv, Recorded, Settled
  <2>4. WritesInv'
    BY <2>1 DEF IInv, WritesInv, Unwritten
  <2>5. CausesInv'
    BY <1>22 DEF vars, IInv, CausesInv
  <2>6. QED
    BY <2>2, <2>3, <2>4, <2>5 DEF IInv
<1>23. QED
  BY <1>1, <1>2, <1>3, <1>4, <1>5, <1>6, <1>7, <1>8, <1>9, <1>10, <1>11, <1>12,
     <1>13, <1>14, <1>15, <1>16, <1>17, <1>18, <1>19, <1>20, <1>21, <1>22
  DEF Next, Step, Poll

THEOREM Inductive == Spec => [](TypeInv /\ IInv)
BY InitType, InitIInv, NextType, NextIInv, PTL DEF Spec

-----------------------------------------------------------------------------
(* What the invariant is for.                                              *)

\* README 1.3, the highest requested fan level wins, for every layout of zones
\* and controllers: _collect_desired_levels, _apply_fan_levels and the cache.
THEOREM HighestDemandWinsAlways == Spec => []HighestDemandWins
<1>1. ASSUME IInv PROVE HighestDemandWins
  <2>1. SUFFICES ASSUME Settled, NEW z \in Zones, Desired(z) # {}
                 PROVE  IsTop(cmd[z], Desired(z))
    BY DEF HighestDemandWins
  <2>2. IsTop(applied[z], Desired(z))
    BY <1>1, <2>1 DEF IInv, PhaseInv, Outdated
  <2>3. PICK d \in Owners(z) : Deferred(d)
    BY <2>1 DEF Desired
  <2>4. ~Direct(z)
    BY <2>3, SoleOwner DEF Direct, Owners
  <2>5. QED
    BY <1>1, <2>2, <2>4 DEF IInv, ArbiterInv
<1>2. QED
  BY <1>1, Inductive, PTL

\* The cache _check_fan_mode re-applies agrees with the last command of every
\* zone that has had one.
THEOREM CacheIsCommandAlways == Spec => []CacheIsCommand
<1>1. ASSUME IInv PROVE CacheIsCommand
  <2>1. SUFFICES ASSUME Settled, NEW z \in Zones, cmd[z] # NoLevel
                 PROVE  applied[z] = cmd[z]
    BY DEF CacheIsCommand
  <2>2. CASE Direct(z)
    <3>1. PICK c \in Controllers : z \in ZonesOf[c] /\ ~Deferred(c)
      BY <2>2 DEF Direct, Owners
    <3>2. Recorded(c) /\ pc \notin {"exit", "write", "verify"}
      BY <2>1 DEF Recorded, Settled
    <3>3. QED
      BY <1>1, <2>1, <3>1, <3>2 DEF IInv, DirectInv
  <2>3. CASE ~Direct(z)
    BY <1>1, <2>3 DEF IInv, ArbiterInv
  <2>4. QED
    BY <2>2, <2>3
<1>2. QED
  BY <1>1, Inductive, PTL

\* A controller that writes its zones and the arbiter never drive the same zone.
THEOREM OneWritePerIterationAlways == Spec => []OneWritePerIteration
<1>1. IInv => OneWritePerIteration
  BY DEF IInv, WritesInv, OneWritePerIteration
<1>2. QED
  BY <1>1, Inductive, PTL

\* fan_mode_enforced_count never counts a correction nothing caused.
THEOREM EnforcementsHaveCausesAlways == Spec => []EnforcementsHaveCauses
<1>1. IInv => EnforcementsHaveCauses
  BY DEF IInv, CausesInv, EnforcementsHaveCauses
<1>2. QED
  BY <1>1, Inductive, PTL

-----------------------------------------------------------------------------
(* The loop implements ZoneControl.                                        *)

\* A controller that writes itself is the only one its zones listen to.
LEMMA DirectTop ==
  ASSUME TypeOK, NEW c \in Controllers, ~Deferred(c), NEW z \in ZonesOf[c]
  PROVE  Abstract!IsTop(lastLevel[c], Abstract!Demands(z))
<1>1. \A d \in Controllers : z \in ZonesOf[d] => d = c
  BY SoleOwner, DirectZones
<1>2. Abstract!Demands(z) = {lastLevel[c]}
  BY <1>1 DEF Abstract!Demands
<1>3. lastLevel[c] \in 0..100
  BY DEF TypeOK, FcType
<1>4. QED
  BY <1>2, <1>3 DEF Abstract!IsTop

\* The greatest positive demand of deferred controllers is the greatest of all.
LEMMA ArbiterTop ==
  ASSUME TypeOK, NEW z \in Zones, NEW l \in Desired(z), IsTop(l, Desired(z))
  PROVE  Abstract!IsTop(l, Abstract!Demands(z))
<1>1. PICK c \in Owners(z) : Deferred(c) /\ l = lastLevel[c] /\ l > 0
  BY DEF Desired
<1>2. l \in Abstract!Demands(z)
  BY <1>1 DEF Abstract!Demands, Owners
<1>3. ASSUME NEW k \in Abstract!Demands(z) PROVE k <= l
  <2>1. PICK d \in Controllers : z \in ZonesOf[d] /\ k = lastLevel[d]
    BY <1>3 DEF Abstract!Demands
  <2>2. Deferred(d)
    BY <1>1, <2>1, SoleOwner DEF Owners
  <2>3. k \in 0..100 /\ l \in 0..100
    BY <1>1, <2>1 DEF TypeOK, FcType, Owners
  <2>4. CASE k > 0
    BY <2>1, <2>2, <2>4 DEF IsTop, Desired, Owners
  <2>5. CASE ~(k > 0)
    BY <1>1, <2>3, <2>5
  <2>6. QED
    BY <2>4, <2>5
<1>4. QED
  BY <1>2, <1>3 DEF Abstract!IsTop

\* The three ways a step of the loop is seen from outside, and the fourth: not
\* at all.
LEMMA SeenAsServe ==
  ASSUME NEW z \in Zones, NEW l \in Levels, pc # "exit", pc' # "exit",
         Abstract!IsTop(l, Abstract!Demands(z)),
         cmd' = [cmd EXCEPT ![z] = l], lastLevel' = lastLevel
  PROVE  Abstract!Next
BY DEF Abstract!Next, Abstract!Serve

LEMMA SeenAsRedemand ==
  ASSUME cur \in Controllers, pc # "exit", pc' # "exit", cmd' = cmd,
         \E l \in Levels : lastLevel' = [lastLevel EXCEPT ![cur] = l]
  PROVE  Abstract!Next
BY DEF Abstract!Next, Abstract!Redemand

LEMMA SeenAsStop ==
  ASSUME pc # "exit", pc' = "exit", cmd' = cmd, lastLevel' = lastLevel
  PROVE  Abstract!Next
BY DEF Abstract!Next, Abstract!Stop

LEMMA Unseen ==
  ASSUME cmd' = cmd, lastLevel' = lastLevel, pc = "exit" <=> pc' = "exit"
  PROVE  UNCHANGED Abstract!vars
BY DEF Abstract!vars

LEMMA NextImplements == TypeInv /\ IInv /\ [Next]_vars => [Abstract!Next]_Abstract!vars
<1> SUFFICES ASSUME TypeInv, IInv, [Next]_vars PROVE Abstract!Next \/ UNCHANGED Abstract!vars
  OBVIOUS
<1>a. TypeOK /\ FcType /\ LoopType /\ HistType
  BY DEF TypeInv, TypeOK
<1>1. CASE SkipPoll
  BY <1>1, Unseen DEF SkipPoll, Turn, fcVars, histVars
<1>2. CASE HoldLevel
  BY <1>2, Unseen DEF HoldLevel, Turn, histVars
<1>3. CASE ChangeLevel
  <2>1. PICK l \in Curve[cur] : lastLevel' = [lastLevel EXCEPT ![cur] = l]
    BY <1>3 DEF ChangeLevel
  <2>2. l \in Levels /\ cur \in Controllers
    BY <1>a, CurveAssumption DEF LoopType
  <2>3. pc = "turn" /\ pc' # "exit" /\ cmd' = cmd
    BY <1>3 DEF ChangeLevel, Turn, histVars
  <2>4. QED
    BY <2>1, <2>2, <2>3, SeenAsRedemand
<1>4. CASE PollConst
  <2>1. ConstLevel(cur) \in Levels /\ cur \in Controllers
    BY <1>4, <1>a, ConstLevelIsLevel DEF PollConst, LoopType
  <2>2. pc = "turn" /\ pc' # "exit" /\ cmd' = cmd
    BY <1>4 DEF PollConst, Turn, histVars
  <2>3. \/ lastLevel' = [lastLevel EXCEPT ![cur] = ConstLevel(cur)]
        \/ lastLevel' = lastLevel
    BY <1>4 DEF PollConst
  <2>4. QED
    BY <2>1, <2>2, <2>3, SeenAsRedemand, Unseen
<1>5. CASE SensorFails
  BY <1>5, SeenAsStop DEF SensorFails, Exit, histVars
<1>6. ASSUME NEW z \in Zones, NEW c \in Controllers, ~Deferred(c), z \in ZonesOf[c],
             pc # "exit", pc' # "exit", cmd' = [cmd EXCEPT ![z] = lastLevel[c]],
             lastLevel' = lastLevel
      PROVE  Abstract!Next
  BY <1>a, <1>6, DirectTop, SeenAsServe DEF FcType
<1>7. ASSUME NEW z \in Zones, DirectWrite(z) PROVE Abstract!Next
  <2>1. z \in ZonesOf[cur] /\ ~Deferred(cur) /\ cur \in Controllers
    BY <1>7, <1>a DEF DirectWrite, IInv, PhaseInv, LoopType
  <2>2. QED
    BY <1>6, <1>7, <2>1 DEF DirectWrite, Write, Done, fcVars
<1>8. ASSUME NEW z \in Zones, ConstRead(z) PROVE Abstract!Next \/ UNCHANGED Abstract!vars
  <2>1. z \in ZonesOf[cur] /\ ~Deferred(cur) /\ cur \in Controllers
    BY <1>8, <1>a DEF ConstRead, IInv, PhaseInv, LoopType
  <2>2. CASE bmcLevel[z] = lastLevel[cur]
    BY <1>6, <1>8, <2>1, <2>2 DEF ConstRead, Done, fcVars
  <2>3. CASE bmcLevel[z] # lastLevel[cur]
    BY <1>8, <2>3, Unseen DEF ConstRead, fcVars
  <2>4. QED
    BY <2>2, <2>3
<1>9. ASSUME NEW z \in Zones, ConstWrite(z) PROVE Abstract!Next
  <2>1. z \in ZonesOf[cur] /\ ~Deferred(cur) /\ cur \in Controllers
    BY <1>9, <1>a DEF ConstWrite, IInv, PhaseInv, LoopType
  <2>2. QED
    BY <1>6, <1>9, <2>1 DEF ConstWrite, Write, Done, fcVars
<1>10. ASSUME NEW z \in Zones, ControlFails(z) PROVE Abstract!Next
  BY <1>10, SeenAsStop DEF ControlFails, Exit, fcVars, histVars
<1>11. CASE Record
  BY <1>11, Unseen DEF Record, fcVars, histVars
<1>12. CASE Arbitrate
  BY <1>12, Unseen DEF Arbitrate, fcVars, histVars
<1>13. ASSUME NEW z \in Zones, ApplyWrite(z) PROVE Abstract!Next
  <2>1. PICK l \in Desired(z) : IsTop(l, Desired(z)) /\ cmd' = [cmd EXCEPT ![z] = l]
    BY <1>13 DEF ApplyWrite, Write
  <2>2. l \in Levels
    BY <1>a, DesiredIsLevel
  <2>3. pc = "apply" /\ pc' # "exit" /\ lastLevel' = lastLevel
    BY <1>13 DEF ApplyWrite, Done, fcVars
  <2>4. QED
    BY <1>a, <2>1, <2>2, <2>3, ArbiterTop, SeenAsServe
<1>14. ASSUME NEW z \in Zones, ApplyFails(z) PROVE Abstract!Next
  BY <1>14, SeenAsStop DEF ApplyFails, Exit, fcVars, histVars
<1>15. CASE ReadMode
  BY <1>15, Unseen, SeenAsStop DEF ReadMode, Exit, fcVars, histVars
<1>16. CASE RestoreMode
  BY <1>16, Unseen DEF RestoreMode, fcVars, histVars
<1>17. ASSUME NEW z \in Zones, Reapply(z) PROVE Abstract!Next \/ UNCHANGED Abstract!vars
  <2>1. /\ pc = "reapply" /\ pc' # "exit" /\ lastLevel' = lastLevel
        /\ cmd' = [cmd EXCEPT ![z] = applied[z]]
    BY <1>17 DEF Reapply, Done, fcVars
  <2>2. CASE Direct(z)
    <3>1. PICK c \in Controllers : z \in ZonesOf[c] /\ ~Deferred(c)
      BY <2>2 DEF Direct, Owners
    <3>2. applied[z] = lastLevel[c]
      BY <2>1, <3>1 DEF IInv, DirectInv, Recorded, Settled
    <3>3. QED
      BY <1>6, <2>1, <3>1, <3>2
  <2>3. CASE ~Direct(z)
    <3>1. cmd' = cmd
      BY <1>a, <2>1, <2>3 DEF IInv, ArbiterInv, HistType
    <3>2. QED
      BY <2>1, <3>1, Unseen
  <2>4. QED
    BY <2>2, <2>3
<1>18. CASE CheckFails
  BY <1>18, Unseen DEF CheckFails, ModeCallEffect, fcVars, histVars
<1>19. CASE CheckCrashes
  BY <1>19, SeenAsStop DEF CheckCrashes, ModeCallEffect, Exit, fcVars, histVars
<1>20. CASE Wake
  BY <1>20, Unseen DEF Wake, fcVars
<1>21. CASE Sigterm
  BY <1>21, SeenAsStop DEF Sigterm, Exit, fcVars, histVars
<1>22. CASE Drift
  BY <1>22, Unseen DEF Drift, loopVars, fcVars, histVars
<1>23. CASE UNCHANGED vars
  BY <1>23, Unseen DEF vars
<1>24. QED
  BY <1>1, <1>2, <1>3, <1>4, <1>5, <1>7, <1>8, <1>9, <1>10, <1>11, <1>12, <1>13,
     <1>14, <1>15, <1>16, <1>17, <1>18, <1>19, <1>20, <1>21, <1>22, <1>23
  DEF Next, Step, Poll

\* Every level commanded by the loop, direct, arbitrated or re-applied after a
\* drift, is the greatest demand of the zone's controllers at that moment.
THEOREM ImplementsZoneControlAlways == Spec => ImplementsZoneControl
<1>1. Init => Abstract!Init
  <2>1. Init => FcType
    BY InitType DEF TypeInv, TypeOK
  <2>2. QED
    BY <2>1 DEF Init, FcType, Abstract!Init, Abstract!NoLevel
<1>2. QED
  BY <1>1, Inductive, NextImplements, PTL DEF Spec, ImplementsZoneControl, Abstract!SafeSpec

-----------------------------------------------------------------------------
(* The guaranteed minimum.                                                 *)

\* The demand of a ConstFc is its configured level from its constructor on.
ConstDemand == \A c \in ConstFcs : lastLevel[c] = ConstLevel(c)

LEMMA NextConstDemand == TypeInv /\ ConstDemand /\ [Next]_vars => ConstDemand'
<1> SUFFICES ASSUME TypeInv, ConstDemand, [Next]_vars PROVE ConstDemand'
  OBVIOUS
<1>1. CASE UNCHANGED lastLevel
  BY <1>1 DEF ConstDemand
<1>2. CASE ChangeLevel
  BY <1>2 DEF ChangeLevel, ConstDemand, TypeInv, TypeOK, FcType
<1>3. CASE PollConst
  BY <1>3 DEF PollConst, ConstDemand, TypeInv, TypeOK, FcType
<1>4. CASE \E z \in Zones : DirectWrite(z) \/ ConstRead(z) \/ ConstWrite(z) \/ ControlFails(z)
  <2>1. UNCHANGED lastLevel
    BY <1>4 DEF DirectWrite, ConstRead, ConstWrite, ControlFails, fcVars
  <2>2. QED
    BY <2>1, <1>1
<1>5. CASE Record \/ Arbitrate \/ (\E z \in Zones : ApplyWrite(z) \/ ApplyFails(z))
  <2>1. UNCHANGED lastLevel
    BY <1>5 DEF Record, Arbitrate, ApplyWrite, ApplyFails, fcVars
  <2>2. QED
    BY <2>1, <1>1
<1>6. CASE ReadMode \/ RestoreMode \/ CheckFails \/ CheckCrashes \/ Wake \/ (\E z \in Zones : Reapply(z))
  <2>1. UNCHANGED lastLevel
    BY <1>6 DEF ReadMode, RestoreMode, CheckFails, CheckCrashes, Wake, Reapply, fcVars
  <2>2. QED
    BY <2>1, <1>1
<1>7. CASE SkipPoll \/ HoldLevel \/ SensorFails \/ Sigterm \/ Drift \/ UNCHANGED vars
  <2>1. UNCHANGED lastLevel
    BY <1>7 DEF SkipPoll, HoldLevel, SensorFails, Sigterm, Drift, fcVars, vars
  <2>2. QED
    BY <2>1, <1>1
<1>8. QED
  BY <1>2, <1>3, <1>4, <1>5, <1>6, <1>7 DEF Next, Step, Poll

\* README 1.3: every command is the greatest demand of the zone, as ZoneControl
\* says, and the demand of a CONST controller is one of them.
LEMMA NextConstFloor ==
  TypeInv /\ IInv /\ ConstDemand /\ ConstIsFloor /\ [Next]_vars => ConstIsFloor'
<1> SUFFICES ASSUME TypeInv, IInv, ConstDemand, ConstIsFloor, [Next]_vars,
                    NEW c \in ConstFcs, NEW z \in ZonesOf[c], cmd'[z] # NoLevel
             PROVE  cmd'[z] >= ConstLevel(c)
  BY DEF ConstIsFloor
<1>1. c \in Controllers /\ z \in Zones
  BY CurveAssumption, ZonesAssumption
<1>2. cmd \in [Zones -> Levels \cup {NoLevel}]
  BY DEF TypeInv, TypeOK, HistType
<1>3. [Abstract!Next]_Abstract!vars
  BY NextImplements
<1>4. CASE UNCHANGED cmd
  BY <1>4 DEF ConstIsFloor
<1>5. CASE \E x \in Zones : Abstract!Serve(x)
  <2>1. PICK x \in Zones : Abstract!Serve(x)
    BY <1>5
  <2>2. PICK l \in Levels : /\ Abstract!IsTop(l, Abstract!Demands(x))
                            /\ cmd' = [cmd EXCEPT ![x] = l]
    BY <2>1 DEF Abstract!Serve
  <2>3. CASE x = z
    <3>1. lastLevel[c] \in Abstract!Demands(z)
      BY <1>1 DEF Abstract!Demands
    <3>2. lastLevel[c] = ConstLevel(c)
      BY DEF ConstDemand
    <3>3. ConstLevel(c) <= l
      BY <2>2, <2>3, <3>1, <3>2 DEF Abstract!IsTop
    <3>4. cmd'[z] = l
      BY <1>1, <1>2, <2>2, <2>3
    <3>5. QED
      BY <3>3, <3>4, ConstLevelIsLevel
  <2>4. CASE x # z
    <3>1. cmd'[z] = cmd[z]
      BY <1>1, <1>2, <2>2, <2>4
    <3>2. QED
      BY <3>1 DEF ConstIsFloor
  <2>5. QED
    BY <2>3, <2>4
<1>6. QED
  BY <1>3, <1>4, <1>5
  DEF Abstract!Next, Abstract!vars, Abstract!Redemand, Abstract!Stop

\* No command ever takes a zone below the level of its CONST controller.
THEOREM ConstIsFloorAlways == Spec => []ConstIsFloor
<1>1. Init => ConstDemand /\ ConstIsFloor
  <2>1. SUFFICES ASSUME Init PROVE ConstDemand /\ ConstIsFloor
    OBVIOUS
  <2>2. ConstDemand
    BY <2>1, CurveAssumption DEF Init, ConstDemand
  <2>3. \A c \in ConstFcs : \A z \in ZonesOf[c] : z \in Zones
    BY CurveAssumption, ZonesAssumption
  <2>4. ConstIsFloor
    BY <2>1, <2>3 DEF Init, ConstIsFloor
  <2>5. QED
    BY <2>2, <2>4
<1>2. QED
  BY <1>1, Inductive, NextConstDemand, NextConstFloor, PTL DEF Spec

-----------------------------------------------------------------------------
(* The controllers of the loop are those of BaseController.                *)

\* A step that takes no level, writes no zone of a controller and stays in the loop.
LEMMA SameLevels ==
  ASSUME NEW c \in Controllers, UNCHANGED lastLevel, pc # "exit",
         pc' = "exit" \/ (pc # "write" /\ pc' # "write") \/ (pc' = pc /\ cur' = cur)
  PROVE  [Base(c)!Next]_(Base(c)!vars)
<1>1. CASE pc' = "exit"
  BY <1>1 DEF Base!Next, Base!Leave
<1>2. CASE (pc # "write" /\ pc' # "write") \/ (pc' = pc /\ cur' = cur)
  BY <1>2 DEF Base!vars, Base!Next, Base!Leave
<1>3. QED
  BY <1>1, <1>2

LEMMA NextImplementsBase ==
  ASSUME NEW c \in Controllers \ ConstFcs, TypeInv, [Next]_vars
  PROVE  [Base(c)!Next]_(Base(c)!vars)
<1>1. lastLevel \in [Controllers -> Levels]
  BY DEF TypeInv, TypeOK, FcType
<1>2. CASE SkipPoll \/ HoldLevel
  <2>1. UNCHANGED lastLevel /\ pc = "turn" /\ pc' = "record"
    BY <1>2 DEF SkipPoll, HoldLevel, Turn, fcVars
  <2>2. QED
    BY <2>1, SameLevels
<1>3. CASE ChangeLevel
  <2>1. PICK l \in Curve[cur] \ {lastLevel[cur]} : lastLevel' = [lastLevel EXCEPT ![cur] = l]
    BY <1>3 DEF ChangeLevel
  <2>2. /\ pc = "turn" /\ cur' = cur
        /\ pc' = IF Deferred(cur) THEN "record" ELSE "write"
    BY <1>3 DEF ChangeLevel, Turn
  <2>3. CASE cur = c
    <3>1. lastLevel'[c] = l /\ l \in Curve[c] \ {lastLevel[c]}
      BY <1>1, <2>1, <2>3
    <3>2. Base(c)!TakeLevel
      BY <2>2, <2>3, <3>1 DEF Base!TakeLevel
    <3>3. QED
      BY <3>2 DEF Base!Next
  <2>4. CASE cur # c
    <3>1. lastLevel'[c] = lastLevel[c]
      BY <1>1, <2>1, <2>4
    <3>2. QED
      BY <2>2, <2>4, <3>1 DEF Base!vars
  <2>5. QED
    BY <2>3, <2>4
<1>4. CASE PollConst
  <2>1. /\ pc = "turn" /\ pc' \in {"record", "verify"} /\ cur # c
        /\ UNCHANGED lastLevel \/ lastLevel' = [lastLevel EXCEPT ![cur] = ConstLevel(cur)]
    BY <1>4 DEF PollConst, Turn
  <2>2. lastLevel'[c] = lastLevel[c]
    BY <1>1, <2>1
  <2>3. QED
    BY <2>1, <2>2 DEF Base!vars
<1>5. CASE SensorFails \/ Sigterm \/ CheckCrashes
  <2>1. UNCHANGED lastLevel /\ pc' = "exit" /\ pc # "exit"
    BY <1>5 DEF SensorFails, Sigterm, CheckCrashes, ModeCallEffect, Exit, fcVars
  <2>2. QED
    BY <2>1, SameLevels
<1>6. CASE \E z \in Zones : DirectWrite(z)
  <2>1. /\ UNCHANGED <<lastLevel, cur>> /\ pc = "write"
        /\ pc' \in {"write", "record"}
    BY <1>6 DEF DirectWrite, Done, fcVars
  <2>2. CASE cur = c /\ pc' = "record"
    BY <2>1, <2>2 DEF Base!Next, Base!HandOver
  <2>3. CASE cur # c \/ pc' = "write"
    BY <2>1, <2>3 DEF Base!vars
  <2>4. QED
    BY <2>1, <2>2, <2>3
<1>7. CASE \E z \in Zones : ControlFails(z) \/ ApplyFails(z)
  <2>1. UNCHANGED lastLevel /\ pc' = "exit" /\ pc # "exit"
    BY <1>7 DEF ControlFails, ApplyFails, Exit, fcVars
  <2>2. QED
    BY <2>1, SameLevels
<1>8. CASE \E z \in Zones : ConstRead(z) \/ ConstWrite(z) \/ ApplyWrite(z) \/ Reapply(z)
  <2>1. /\ UNCHANGED lastLevel /\ pc \in {"verify", "apply", "reapply"}
        /\ pc' \in {pc, "record", "mode", "sleep"}
    BY <1>8 DEF ConstRead, ConstWrite, ApplyWrite, Reapply, Done, fcVars
  <2>2. QED
    BY <2>1, SameLevels
<1>9. CASE Record \/ Arbitrate \/ ReadMode
  <2>1. /\ UNCHANGED lastLevel /\ pc \in {"record", "arbitrate", "mode"}
        /\ pc' \in {"turn", "arbitrate", "apply", "mode", "sleep", "restore", "exit"}
    BY <1>9 DEF Record, Arbitrate, ReadMode, Exit, fcVars
  <2>2. QED
    BY <2>1, SameLevels
<1>10. CASE RestoreMode \/ CheckFails \/ Wake
  <2>1. /\ UNCHANGED lastLevel /\ pc \in {"mode", "restore", "reapply", "sleep"}
        /\ pc' \in {"sleep", "reapply", "turn"}
    BY <1>10 DEF RestoreMode, CheckFails, Wake, ModeCallEffect, fcVars
  <2>2. QED
    BY <2>1, SameLevels
<1>11. CASE Drift
  <2>1. UNCHANGED <<lastLevel, pc, cur>> /\ pc # "exit"
    BY <1>11 DEF Drift, loopVars, fcVars
  <2>2. QED
    BY <2>1, SameLevels
<1>12. CASE UNCHANGED vars
  BY <1>12 DEF vars, Base!vars
<1>13. QED
  BY <1>2, <1>3, <1>4, <1>5, <1>6, <1>7, <1>8, <1>9, <1>10, <1>11, <1>12 DEF Next, Step, Poll

\* service.py:472-497: whatever the other controllers, the arbiter, the BMC and the
\* signals do, a controller in the loop is one that FanController implements.
THEOREM ControllersImplementBase ==
  ASSUME NEW c \in Controllers \ ConstFcs
  PROVE  Spec => Base(c)!Spec
<1>1. Init => Base(c)!Init
  BY DEF Init, Base!Init
<1>2. TypeInv /\ [Next]_vars => [Base(c)!Next]_(Base(c)!vars)
  BY NextImplementsBase
<1>3. Spec => []TypeInv
  BY Inductive, PTL
<1>4. QED
  BY <1>1, <1>2, <1>3, PTL DEF Spec, Base!Spec
=============================================================================
