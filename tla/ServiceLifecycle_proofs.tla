----------------------- MODULE ServiceLifecycle_proofs -----------------------
(***************************************************************************)
(* Proofs about ServiceLifecycle, for every number of controllers, every   *)
(* layout of zones and every setting of the flags.                         *)
(***************************************************************************)
EXTENDS ServiceLifecycle, TLAPS

USE DEF Controllers, Starting, Exiting, Goto, Leave, Quiet, Vanish, Finish, procVars, bmcVars

LEMMA ExitZonesConfigured ==
  ASSUME TypeOK
  PROVE  /\ Configured \subseteq Zones
         /\ ExitZones \subseteq Configured
         /\ built = N => ExitZones = Configured
<1>1. Configured \subseteq Zones
  BY ZonesAssumption DEF Configured
<1>2. \A c \in 1..built : c \in Controllers
  BY SizeAssumption DEF TypeOK
<1>3. UNION {ZonesOf[c] : c \in 1..built} \subseteq Configured
  BY <1>2 DEF Configured
<1>4. built = N => UNION {ZonesOf[c] : c \in 1..built} = Configured
  BY DEF Configured
<1>5. QED
  BY <1>1, <1>3, <1>4 DEF ExitZones

LEMMA InitLife == Init => TypeOK /\ LifeInv
<1> SUFFICES ASSUME Init PROVE TypeOK /\ LifeInv
  OBVIOUS
<1> USE SizeAssumption DEF Init
<1>1. TypeOK
  <2>1. full \in BOOLEAN
    OBVIOUS
  <2>2. level \in [Zones -> {"old", "run", "exit"}]
    OBVIOUS
  <2>3. built \in 0..N /\ signals \in 0..MaxSignals
    OBVIOUS
  <2>4. /\ pc \in Starting \cup Exiting \cup {"gone"} /\ ipmi \in BOOLEAN
        /\ server \in {"none", "bound", "serving"} /\ handling \in BOOLEAN /\ todo \in SUBSET Zones
        /\ code = -1 /\ outcome = "none" /\ latched \in SUBSET Zones /\ touched \in SUBSET Zones
    OBVIOUS
  <2>5. QED
    BY <2>1, <2>2, <2>3, <2>4 DEF TypeOK
<1>2. Prepared
  BY DEF Prepared
<1>3. Held
  BY DEF Held
<1>4. Leaving
  BY DEF Leaving
<1>5. QED
  BY <1>1, <1>2, <1>3, <1>4 DEF LifeInv

LEMMA NextType == TypeOK /\ [Next]_vars => TypeOK'
<1> SUFFICES ASSUME TypeOK, [Next]_vars PROVE TypeOK'
  OBVIOUS
<1> USE SizeAssumption, ZonesAssumption, FlagsAssumption DEF TypeOK
<1>1. CASE ParseArgs
  BY <1>1 DEF ParseArgs
<1>2. CASE Register
  BY <1>2 DEF Register
<1>3. CASE CreateLog
  BY <1>3 DEF CreateLog
<1>4. CASE LoadConfig
  BY <1>4 DEF LoadConfig
<1>5. CASE CheckDependencies
  BY <1>5 DEF CheckDependencies
<1>6. CASE PassGate
  BY <1>6 DEF PassGate
<1>7. CASE Latch
  <2>1. latched' \in SUBSET Zones /\ todo' \in SUBSET Zones
    BY <1>7 DEF Latch
  <2>2. QED
    BY <1>7, <2>1 DEF Latch
<1>8. CASE AssignIpmi
  BY <1>8 DEF AssignIpmi
<1>9. CASE ReadMode
  BY <1>9 DEF ReadMode
<1>10. CASE SetFull
  <2>1. full' \in BOOLEAN
    BY <1>10 DEF SetFull
  <2>2. /\ UNCHANGED <<procVars, latched, level, touched>>
        /\ (Goto("setFull", "udev") /\ Quiet /\ UNCHANGED todo) \/ Leave(1)
    BY <1>10 DEF SetFull
  <2>3. QED
    BY <2>1, <2>2
<1>11. CASE OpenUdev
  BY <1>11 DEF OpenUdev
<1>12. CASE BuildController
  BY <1>12 DEF BuildController
<1>13. CASE Bind
  BY <1>13 DEF Bind
<1>14. CASE StartThread
  BY <1>14 DEF StartThread
<1>15. CASE LoopWrite
  BY <1>15 DEF LoopWrite
<1>16. CASE LoopEnds
  <2>1. full' \in BOOLEAN
    BY <1>16 DEF LoopEnds
  <2>2. QED
    BY <1>16, <2>1 DEF LoopEnds
<1>17. CASE StopExporter
  BY <1>17 DEF StopExporter
<1>18. CASE ResolveZones
  BY <1>18, ExitZonesConfigured DEF ResolveZones
<1>19. CASE ApplyExitLevel
  BY <1>19 DEF ApplyExitLevel
<1>20. CASE ApplyExitFails
  BY <1>20 DEF ApplyExitFails
<1>21. CASE Release
  BY <1>21 DEF Release
<1>22. CASE ReleaseFails
  BY <1>22 DEF ReleaseFails
<1>23. CASE EarlySignal
  BY <1>23 DEF EarlySignal
<1>24. CASE LateSignal
  BY <1>24 DEF LateSignal
<1>25. CASE SignalInExit
  BY <1>25 DEF SignalInExit
<1>26. CASE UNCHANGED vars
  BY <1>26 DEF vars
<1>27. CASE BeginRequest \/ EndRequest
  <2>1. handling' \in BOOLEAN
    BY <1>27 DEF BeginRequest, EndRequest, Handle
  <2>2. UNCHANGED <<pc, ipmi, built, server, todo, code, outcome, signals, bmcVars>>
    BY <1>27 DEF BeginRequest, EndRequest, Handle
  <2>3. QED
    BY <2>1, <2>2
<1>28. QED
  BY <1>1, <1>2, <1>3, <1>4, <1>5, <1>6, <1>7, <1>8, <1>9, <1>10, <1>11, <1>12, <1>13, <1>14, <1>15, <1>16, <1>17, <1>18, <1>19, <1>20, <1>21, <1>22, <1>23, <1>24, <1>25, <1>26, <1>27
  DEF Next, Start, ExitFunc, Signal

\* What the start has established is kept by every step.
LEMMA NextPrepared == TypeOK /\ LifeInv /\ [Next]_vars => Prepared'
<1> SUFFICES ASSUME TypeOK, LifeInv, [Next]_vars PROVE Prepared'
  OBVIOUS
<1> USE SizeAssumption, ZonesAssumption, FlagsAssumption DEF TypeOK, LifeInv, Prepared, Held, Leaving
<1>1. CASE ParseArgs
  BY <1>1 DEF ParseArgs
<1>2. CASE Register
  BY <1>2 DEF Register
<1>3. CASE CreateLog
  BY <1>3 DEF CreateLog
<1>4. CASE LoadConfig
  BY <1>4 DEF LoadConfig
<1>5. CASE CheckDependencies
  BY <1>5 DEF CheckDependencies
<1>6. CASE PassGate
  <2>1. CASE pc' = "latch"
    <3>1. HasLatch /\ todo' = HwZones /\ UNCHANGED <<latched, ipmi, server, handling, built>>
      BY <1>6, <2>1 DEF PassGate
    <3>2. pc = "gate" /\ pc' = "latch"
      BY <1>6, <2>1 DEF PassGate
    <3>3. HwZones \ HwZones = {}
      OBVIOUS
    <3>4. latched' = HwZones \ todo' /\ todo' \subseteq HwZones
      BY <3>1, <3>2, <3>3
    <3>5. (server = "none" /\ ~handling) \/ (ipmi /\ built = N /\ N > 0)
      OBVIOUS
    <3>6. QED
      BY <3>1, <3>2, <3>4, <3>5
  <2>2. CASE pc' # "latch"
    <3>1. pc' = "ipmi" \/ pc' = "stop"
      BY <1>6, <2>2 DEF PassGate
    <3>2. UNCHANGED <<latched, ipmi, server, handling, built, full>> /\ (pc' = "ipmi" => ~HasLatch)
      BY <1>6, <2>2 DEF PassGate
    <3>3. QED
      BY <3>1, <3>2
  <2>3. QED
    BY <2>1, <2>2
<1>7. CASE Latch
  <2>1. CASE todo # {} /\ UNCHANGED pc
    <3>1. PICK z \in todo : latched' = latched \cup {z} /\ todo' = todo \ {z}
      BY <1>7, <2>1 DEF Latch
    <3>2. todo' \subseteq HwZones /\ latched' = HwZones \ todo'
      BY <1>7, <3>1 DEF Latch
    <3>3. QED
      BY <1>7, <2>1, <3>2 DEF Latch
  <2>2. CASE pc' # pc
    <3>1. pc' = "stop" \/ (pc' = "ipmi" /\ todo = {} /\ UNCHANGED latched)
      BY <1>7, <2>2 DEF Latch
    <3>2. UNCHANGED <<ipmi, server, handling, built, full>>
      BY <1>7 DEF Latch
    <3>3. pc = "latch" /\ (pc' = "ipmi" => latched' = HwZones)
      <4>1. HwZones \ {} = HwZones
        OBVIOUS
      <4>2. pc = "latch" /\ latched = HwZones \ todo
        BY <1>7 DEF Latch
      <4>3. QED
        BY <3>1, <4>1, <4>2
    <3>4. QED
      BY <3>1, <3>2, <3>3
  <2>3. QED
    BY <2>1, <2>2, <1>7 DEF Latch
<1>8. CASE AssignIpmi
  BY <1>8 DEF AssignIpmi
<1>9. CASE ReadMode
  BY <1>9 DEF ReadMode
<1>10. CASE SetFull
  BY <1>10 DEF SetFull
<1>11. CASE OpenUdev
  BY <1>11 DEF OpenUdev
<1>12. CASE BuildController
  BY <1>12 DEF BuildController
<1>13. CASE Bind
  BY <1>13 DEF Bind
<1>14. CASE StartThread
  BY <1>14 DEF StartThread
<1>15. CASE LoopWrite
  BY <1>15, ExitZonesConfigured DEF LoopWrite, Accepts
<1>16. CASE LoopEnds
  BY <1>16 DEF LoopEnds
<1>17. CASE StopExporter
  BY <1>17 DEF StopExporter
<1>18. CASE ResolveZones
  BY <1>18, ExitZonesConfigured DEF ResolveZones
<1>19. CASE ApplyExitLevel
  BY <1>19, ExitZonesConfigured DEF ApplyExitLevel, Accepts
<1>20. CASE ApplyExitFails
  BY <1>20, ExitZonesConfigured DEF ApplyExitFails, Accepts
<1>21. CASE Release
  BY <1>21 DEF Release
<1>22. CASE ReleaseFails
  BY <1>22 DEF ReleaseFails
<1>23. CASE EarlySignal
  BY <1>23 DEF EarlySignal
<1>24. CASE LateSignal
  BY <1>24 DEF LateSignal
<1>25. CASE SignalInExit
  BY <1>25 DEF SignalInExit
<1>26. CASE UNCHANGED vars
  BY <1>26 DEF vars
<1>27. CASE BeginRequest \/ EndRequest
  BY <1>27 DEF BeginRequest, EndRequest, Handle
<1>28. QED
  BY <1>1, <1>2, <1>3, <1>4, <1>5, <1>6, <1>7, <1>8, <1>9, <1>10, <1>11, <1>12, <1>13, <1>14, <1>15, <1>16, <1>17, <1>18, <1>19, <1>20, <1>21, <1>22, <1>23, <1>24, <1>25, <1>26, <1>27
  DEF Next, Start, ExitFunc, Signal

\* ... and so is what exit_func relies on ...
LEMMA NextHeld == TypeOK /\ LifeInv /\ [Next]_vars => Held'
<1> SUFFICES ASSUME TypeOK, LifeInv, [Next]_vars PROVE Held'
  OBVIOUS
<1> USE SizeAssumption, ZonesAssumption, FlagsAssumption DEF TypeOK, LifeInv, Prepared, Held, Leaving
<1>1. CASE ParseArgs
  BY <1>1 DEF ParseArgs
<1>2. CASE Register
  BY <1>2 DEF Register
<1>3. CASE CreateLog
  BY <1>3 DEF CreateLog
<1>4. CASE LoadConfig
  BY <1>4 DEF LoadConfig
<1>5. CASE CheckDependencies
  BY <1>5 DEF CheckDependencies
<1>6. CASE PassGate
  BY <1>6 DEF PassGate
<1>7. CASE Latch
  <2>1. HasLatch
    BY <1>7 DEF Latch
  <2>2. ipmi => latched' = latched
    BY <1>7 DEF Latch
  <2>3. QED
    BY <1>7, <2>1, <2>2 DEF Latch
<1>8. CASE AssignIpmi
  BY <1>8 DEF AssignIpmi
<1>9. CASE ReadMode
  BY <1>9 DEF ReadMode
<1>10. CASE SetFull
  BY <1>10 DEF SetFull
<1>11. CASE OpenUdev
  BY <1>11 DEF OpenUdev
<1>12. CASE BuildController
  BY <1>12 DEF BuildController
<1>13. CASE Bind
  BY <1>13 DEF Bind
<1>14. CASE StartThread
  BY <1>14 DEF StartThread
<1>15. CASE LoopWrite
  BY <1>15, ExitZonesConfigured DEF LoopWrite, Accepts
<1>16. CASE LoopEnds
  BY <1>16 DEF LoopEnds
<1>17. CASE StopExporter
  BY <1>17 DEF StopExporter
<1>18. CASE ResolveZones
  BY <1>18, ExitZonesConfigured DEF ResolveZones
<1>19. CASE ApplyExitLevel
  BY <1>19, ExitZonesConfigured DEF ApplyExitLevel, Accepts
<1>20. CASE ApplyExitFails
  BY <1>20, ExitZonesConfigured DEF ApplyExitFails, Accepts
<1>21. CASE Release
  BY <1>21 DEF Release
<1>22. CASE ReleaseFails
  BY <1>22 DEF ReleaseFails
<1>23. CASE EarlySignal
  BY <1>23 DEF EarlySignal
<1>24. CASE LateSignal
  BY <1>24 DEF LateSignal
<1>25. CASE SignalInExit
  BY <1>25 DEF SignalInExit
<1>26. CASE UNCHANGED vars
  BY <1>26 DEF vars
<1>27. CASE BeginRequest \/ EndRequest
  BY <1>27 DEF BeginRequest, EndRequest, Handle
<1>28. QED
  BY <1>1, <1>2, <1>3, <1>4, <1>5, <1>6, <1>7, <1>8, <1>9, <1>10, <1>11, <1>12, <1>13, <1>14, <1>15, <1>16, <1>17, <1>18, <1>19, <1>20, <1>21, <1>22, <1>23, <1>24, <1>25, <1>26, <1>27
  DEF Next, Start, ExitFunc, Signal

\* ... and what it has done.
LEMMA NextLeaving == TypeOK /\ LifeInv /\ [Next]_vars => Leaving'
<1> SUFFICES ASSUME TypeOK, LifeInv, [Next]_vars PROVE Leaving'
  OBVIOUS
<1> USE SizeAssumption, ZonesAssumption, FlagsAssumption DEF TypeOK, LifeInv, Prepared, Held, Leaving
<1>1. CASE ParseArgs
  BY <1>1 DEF ParseArgs
<1>2. CASE Register
  BY <1>2 DEF Register
<1>3. CASE CreateLog
  BY <1>3 DEF CreateLog
<1>4. CASE LoadConfig
  BY <1>4 DEF LoadConfig
<1>5. CASE CheckDependencies
  BY <1>5 DEF CheckDependencies
<1>6. CASE PassGate
  BY <1>6 DEF PassGate
<1>7. CASE Latch
  BY <1>7 DEF Latch
<1>8. CASE AssignIpmi
  BY <1>8 DEF AssignIpmi
<1>9. CASE ReadMode
  BY <1>9 DEF ReadMode
<1>10. CASE SetFull
  BY <1>10 DEF SetFull
<1>11. CASE OpenUdev
  BY <1>11 DEF OpenUdev
<1>12. CASE BuildController
  BY <1>12 DEF BuildController
<1>13. CASE Bind
  BY <1>13 DEF Bind
<1>14. CASE StartThread
  BY <1>14 DEF StartThread
<1>15. CASE LoopWrite
  BY <1>15, ExitZonesConfigured DEF LoopWrite, Accepts
<1>16. CASE LoopEnds
  BY <1>16 DEF LoopEnds
<1>17. CASE StopExporter
  BY <1>17 DEF StopExporter
<1>18. CASE ResolveZones
  <2>1. CASE pc' = "apply"
    <3>1. /\ ipmi' /\ todo' = ExitZones /\ ExitZones \subseteq HwZones
          /\ outcome' = outcome /\ UNCHANGED <<built, server, latched, level, touched>>
      BY <1>18, <2>1 DEF ResolveZones
    <3>2. \A z \in touched : z \in todo'
      BY <3>1, ExitZonesConfigured
    <3>3. server = "none"
      BY <1>18 DEF ResolveZones
    <3>4. QED
      BY <1>18, <2>1, <3>1, <3>2, <3>3, ExitZonesConfigured DEF ResolveZones
  <2>2. CASE pc' = "gone"
    BY <1>18, <2>2 DEF ResolveZones
  <2>3. QED
    BY <1>18, <2>1, <2>2 DEF ResolveZones
<1>19. CASE ApplyExitLevel
  BY <1>19, ExitZonesConfigured DEF ApplyExitLevel, Accepts
<1>20. CASE ApplyExitFails
  BY <1>20, ExitZonesConfigured DEF ApplyExitFails, Accepts
<1>21. CASE Release
  BY <1>21 DEF Release
<1>22. CASE ReleaseFails
  BY <1>22 DEF ReleaseFails
<1>23. CASE EarlySignal
  BY <1>23 DEF EarlySignal
<1>24. CASE LateSignal
  BY <1>24 DEF LateSignal
<1>25. CASE SignalInExit
  BY <1>25 DEF SignalInExit
<1>26. CASE UNCHANGED vars
  BY <1>26 DEF vars
<1>27. CASE BeginRequest \/ EndRequest
  BY <1>27 DEF BeginRequest, EndRequest, Handle
<1>28. QED
  BY <1>1, <1>2, <1>3, <1>4, <1>5, <1>6, <1>7, <1>8, <1>9, <1>10, <1>11, <1>12, <1>13, <1>14, <1>15, <1>16, <1>17, <1>18, <1>19, <1>20, <1>21, <1>22, <1>23, <1>24, <1>25, <1>26, <1>27
  DEF Next, Start, ExitFunc, Signal

-----------------------------------------------------------------------------
(* The theorems.                                                           *)

\* Every variable of start-up and exit keeps its type.
THEOREM TypeCorrect == Spec => []TypeOK
BY InitLife, NextType, PTL DEF Spec

\* The inductive invariant.
THEOREM LifeInductive == Spec => [](TypeOK /\ LifeInv)
<1>1. TypeOK /\ LifeInv /\ [Next]_vars => LifeInv'
  BY NextPrepared, NextHeld, NextLeaving DEF LifeInv
<1>2. QED
  BY <1>1, InitLife, NextType, PTL DEF Spec

\* exit_func that went through leaves no zone the loop has written at the level
\* the loop wrote.
THEOREM ExitLevelAlwaysReachesTouched == Spec => []ExitLevelReachesTouched
<1>1. LifeInv => ExitLevelReachesTouched
  BY DEF LifeInv, Leaving, ExitLevelReachesTouched
<1>2. QED
  BY <1>1, LifeInductive, PTL

\* ... and no zone in manual mode.
THEOREM ReleasedAlwaysAfterEnd == Spec => []ReleasedAfterEnd
<1>1. LifeInv => ReleasedAfterEnd
  BY DEF LifeInv, Leaving, ReleasedAfterEnd
<1>2. QED
  BY <1>1, LifeInductive, PTL

\* smfc never writes a zone nobody configured.
THEOREM OnlyConfiguredZonesAlways == Spec => []OnlyConfiguredZones
<1>1. TypeOK /\ LifeInv => OnlyConfiguredZones
  BY DEF TypeOK, LifeInv, Held, OnlyConfiguredZones
<1>2. QED
  BY <1>1, LifeInductive, PTL

\* No snapshot is built before the attributes it reads exist.
THEOREM SnapshotAlwaysReady == Spec => []SnapshotReady
<1>1. LifeInv => SnapshotReady
  BY DEF LifeInv, Prepared, SnapshotReady
<1>2. QED
  BY <1>1, LifeInductive, PTL

\* service.py:81-86: whatever the exit comes from, no request begins to be handled while
\* exit_func uses the BMC: the listener is gone by then.  A request that had begun is not
\* waited for.
THEOREM RequestsEndWithListener == Spec => NoRequestBegins
<1>1. TypeOK /\ LifeInv /\ [Next]_vars
        => [~handling /\ handling' => pc \notin {"resolve", "apply", "release"}]_vars
  <2> SUFFICES ASSUME TypeOK, LifeInv, [Next]_vars, ~handling, handling'
               PROVE  pc \notin {"resolve", "apply", "release"}
    OBVIOUS
  <2>1. BeginRequest
    BY DEF Next, Start, ExitFunc, Signal, vars, EndRequest, Handle, ParseArgs, Register,
      CreateLog, LoadConfig, CheckDependencies, PassGate, Latch, AssignIpmi, ReadMode, SetFull,
      OpenUdev, BuildController, Bind, StartThread, LoopWrite, LoopEnds, StopExporter,
      ResolveZones, ApplyExitLevel, ApplyExitFails, Release, ReleaseFails, EarlySignal,
      LateSignal, SignalInExit
  <2>2. QED
    BY <2>1 DEF BeginRequest, LifeInv, Leaving
<1>2. QED
  BY <1>1, LifeInductive, PTL DEF Spec, NoRequestBegins

\* The loop starts in FULL mode and with manual mode latched.
THEOREM ControlAlwaysStartsPrepared == Spec => ControlStartsPrepared
<1>1. TypeOK /\ LifeInv /\ [Next]_vars
        => [pc # "loop" /\ pc' = "loop" => full' /\ (HasLatch => latched' = HwZones)]_vars
  BY NextPrepared DEF Prepared
<1>2. QED
  BY <1>1, LifeInductive, PTL DEF Spec, ControlStartsPrepared
=============================================================================
