---------------------------- MODULE FanController ----------------------------
(***************************************************************************)
(* One temperature-driven fan controller (src/smfc/fancontroller.py, the   *)
(* base of CpuFc, HdFc, NvmeFc and GpuFc): its constructor, run() and      *)
(* get_temp() device by device, with reads that fail at any time.          *)
(*                                                                         *)
(*   idle     run() is not executing, or its polling interval not elapsed  *)
(*   read     get_temp() is about to read device Len(temps) + 1            *)
(*   failed   _reuse_last_temp has counted the failure in the streak       *)
(*   decide   all devices are read                                         *)
(*   apply    set_fan_level                                                *)
(*   dead     an exception has left the constructor or run()               *)
(*                                                                         *)
(* Temperatures are integers in 1/Unit degrees, so that means are exact.   *)
(***************************************************************************)
EXTENDS Integers, Sequences, SequencesExt

CONSTANTS
  Count,           \* number of devices
  Temps,           \* temperatures a device can have
  Unit,            \* temperature units per degree
  TempCalc,        \* temp_calc: "min", "avg" or "max"
  Smoothing,       \* smoothing: window of the moving average
  Sensitivity,     \* sensitivity, in units
  ErrorTolerance,  \* error_tolerance
  LevelsLut,       \* levels_lut
  DeferredApply,   \* deferred_apply
  MaxFailures      \* bound: failed reads of all devices

Devices == 1..Count

ASSUME CountAssumption == Count \in Nat \ {0} /\ Unit \in Nat \ {0}
ASSUME TempsAssumption == Temps \subseteq Int /\ TempCalc \in {"min", "avg", "max"}
ASSUME ConfigAssumption ==
  /\ Smoothing \in Nat \ {0}
  /\ Sensitivity \in Nat \ {0}
  /\ ErrorTolerance \in Nat
  /\ MaxFailures \in Nat
  /\ DeferredApply \in BOOLEAN
ASSUME LutAssumption == LevelsLut \in [0..100 -> 0..100]

VARIABLES
  pc,               \* where the controller is
  temps,            \* the temperatures get_temp has so far
  perDevice,        \* last_per_device_temps
  readErrors,       \* _temp_read_errors
  readErrorsTotal,  \* _temp_read_errors_total
  tempHistory,      \* _temp_history
  lastTemp,         \* last_temp
  lastLevel,        \* last_level
  lastGood,         \* history: the last temperature read from each device
  missed,           \* history: reads of each device that failed since then
  command           \* history: the level last handed to ipmi

readVars == <<temps, perDevice, readErrors, readErrorsTotal, lastGood, missed>>
runVars == <<tempHistory, lastTemp, lastLevel, command>>
vars == <<pc, temps, perDevice, readErrors, readErrorsTotal, tempHistory, lastTemp,
          lastLevel, lastGood, missed, command>>

NoCommand == -1

-----------------------------------------------------------------------------
(* Arithmetic of temperatures.                                             *)

Total(s) == FoldLeft(LAMBDA a, b : a + b, 0, s)
Mean(s) == Total(s) \div Len(s)
Coldest(s) == CHOOSE t \in ToSet(s) : \A u \in ToSet(s) : t <= u
Hottest(s) == CHOOSE t \in ToSet(s) : \A u \in ToSet(s) : t >= u

Aggregate(s) ==
  IF Count = 1 THEN s[1]
  ELSE CASE TempCalc = "min" -> Coldest(s)
         [] TempCalc = "max" -> Hottest(s)
         [] OTHER -> Mean(s)

Distance(s, t) == IF s < t THEN t - s ELSE s - t

\* Python's round(): to the nearest degree, halves to the even one.
Degrees(t) ==
  LET q == t \div Unit
      r == 2 * (t % Unit)
  IN  IF r < Unit \/ (r = Unit /\ q % 2 = 0) THEN q ELSE q + 1

\* k is the index of temperature t in levels_lut
Index(k, t) ==
  k = IF Degrees(t) < 0 THEN 0 ELSE IF Degrees(t) > 100 THEN 100 ELSE Degrees(t)

\* Mutant of Push: a full window takes no further reading.
PushUntilFull(s, t) == IF Len(s) < Smoothing THEN Append(s, t) ELSE s

\* deque(maxlen=smoothing).append
Push(s, t) == IF Len(s) < Smoothing THEN Append(s, t) ELSE Append(Tail(s), t)

-----------------------------------------------------------------------------
(* get_temp(): the reads.                                                  *)

IsNext(i) == i = Len(temps) + 1

\* _get_nth_temp returns a temperature: the streak of the device ends.
ReadDevice(i) ==
  /\ pc = "read" /\ IsNext(i)
  /\ \E t \in Temps :
       /\ temps' = Append(temps, t)
       /\ lastGood' = [lastGood EXCEPT ![i] = t]
  /\ readErrors' = [readErrors EXCEPT ![i] = 0]
  /\ missed' = [missed EXCEPT ![i] = 0]
  /\ UNCHANGED <<pc, perDevice, readErrorsTotal, runVars>>

\* A read fails: the two counters of the device are counted up one by one.
ReadFails(i) ==
  /\ pc = "read" /\ IsNext(i)
  /\ Total(readErrorsTotal) < MaxFailures
  /\ pc' = "failed"
  /\ readErrors' = [readErrors EXCEPT ![i] = @ + 1]
  /\ missed' = [missed EXCEPT ![i] = @ + 1]
  /\ UNCHANGED <<temps, perDevice, readErrorsTotal, lastGood, runVars>>

\* Mutant of ReuseLastTemp: the budget is one for the lifetime of the device.
ReuseByTotal(i) ==
  /\ pc = "failed" /\ IsNext(i)
  /\ readErrorsTotal' = [readErrorsTotal EXCEPT ![i] = @ + 1]
  /\ \/ /\ i <= Len(perDevice) /\ readErrorsTotal'[i] <= ErrorTolerance
        /\ temps' = Append(temps, perDevice[i])
        /\ pc' = "read"
     \/ /\ i > Len(perDevice) \/ readErrorsTotal'[i] > ErrorTolerance
        /\ pc' = "dead"
        /\ UNCHANGED temps
  /\ UNCHANGED <<perDevice, readErrors, lastGood, missed, runVars>>

\* Mutant of ReuseLastTemp: a failure that is tolerated is not counted in the total.
ReuseUncounted(i) ==
  /\ pc = "failed" /\ IsNext(i)
  /\ \/ /\ i <= Len(perDevice) /\ readErrors[i] <= ErrorTolerance
        /\ temps' = Append(temps, perDevice[i])
        /\ pc' = "read"
        /\ UNCHANGED readErrorsTotal
     \/ /\ i > Len(perDevice) \/ readErrors[i] > ErrorTolerance
        /\ pc' = "dead"
        /\ readErrorsTotal' = [readErrorsTotal EXCEPT ![i] = @ + 1]
        /\ UNCHANGED temps
  /\ UNCHANGED <<perDevice, readErrors, lastGood, missed, runVars>>

\* Mutant of ReuseLastTemp: the temperature of the device read before stands in.
ReuseNeighbour(i) ==
  /\ pc = "failed" /\ IsNext(i)
  /\ readErrorsTotal' = [readErrorsTotal EXCEPT ![i] = @ + 1]
  /\ \/ /\ i <= Len(perDevice) /\ readErrors[i] <= ErrorTolerance
        /\ temps' = Append(temps, IF i = 1 THEN perDevice[1] ELSE temps[i - 1])
        /\ pc' = "read"
     \/ /\ i > Len(perDevice) \/ readErrors[i] > ErrorTolerance
        /\ pc' = "dead"
        /\ UNCHANGED temps
  /\ UNCHANGED <<perDevice, readErrors, lastGood, missed, runVars>>

\* _reuse_last_temp: the last temperature of the device stands in for the read,
\* unless there is none yet or the budget of the device is exhausted.
ReuseLastTemp(i) ==
  /\ pc = "failed" /\ IsNext(i)
  /\ readErrorsTotal' = [readErrorsTotal EXCEPT ![i] = @ + 1]
  /\ \/ /\ i <= Len(perDevice) /\ readErrors[i] <= ErrorTolerance
        /\ temps' = Append(temps, perDevice[i])
        /\ pc' = "read"
     \/ /\ i > Len(perDevice) \/ readErrors[i] > ErrorTolerance
        /\ pc' = "dead"
        /\ UNCHANGED temps
  /\ UNCHANGED <<perDevice, readErrors, lastGood, missed, runVars>>

\* The readings are published in one assignment.  In the constructor nothing
\* else is done with them.
Publish ==
  /\ pc = "read" /\ Len(temps) = Count
  /\ perDevice' = temps
  /\ pc' = IF perDevice = <<>> THEN "idle" ELSE "decide"
  /\ UNCHANGED <<temps, readErrors, readErrorsTotal, lastGood, missed, runVars>>

-----------------------------------------------------------------------------
(* run()                                                                   *)

\* Mutant of Poll: the published list itself is emptied and filled again.
PollInPlace ==
  /\ pc = "idle"
  /\ temps' = <<>> /\ perDevice' = <<>>
  /\ pc' \in {"read", "dead"}
  /\ UNCHANGED <<readErrors, readErrorsTotal, lastGood, missed, runVars>>

\* run() finds the polling interval elapsed; callback_func may raise.
Poll ==
  /\ pc = "idle"
  /\ temps' = <<>>
  /\ pc' \in {"read", "dead"}
  /\ UNCHANGED <<perDevice, readErrors, readErrorsTotal, lastGood, missed, runVars>>

\* Mutant of Decide: last_temp follows every reading.
DecideCreeping ==
  /\ pc = "decide"
  /\ tempHistory' = Push(tempHistory, Aggregate(perDevice))
  /\ lastTemp' = Mean(tempHistory')
  /\ \/ /\ Distance(lastTemp', lastTemp) < Sensitivity
        /\ pc' = "idle"
        /\ UNCHANGED lastLevel
     \/ /\ Distance(lastTemp', lastTemp) >= Sensitivity
        /\ \E k \in 0..100 :
             /\ Index(k, lastTemp')
             /\ lastLevel' = LevelsLut[k]
             /\ pc' = IF LevelsLut[k] = lastLevel \/ DeferredApply THEN "idle" ELSE "apply"
  /\ UNCHANGED <<command, readVars>>

\* Mutant of Decide: the gap has to exceed the sensitivity.
DecideAbove ==
  /\ pc = "decide"
  /\ tempHistory' = Push(tempHistory, Aggregate(perDevice))
  /\ LET current == Mean(tempHistory')
     IN  \/ /\ Distance(current, lastTemp) <= Sensitivity
            /\ pc' = "idle"
            /\ UNCHANGED <<lastTemp, lastLevel>>
         \/ /\ Distance(current, lastTemp) > Sensitivity
            /\ lastTemp' = current
            /\ \E k \in 0..100 :
                 /\ Index(k, current)
                 /\ lastLevel' = LevelsLut[k]
                 /\ pc' = IF LevelsLut[k] = lastLevel \/ DeferredApply THEN "idle" ELSE "apply"
  /\ UNCHANGED <<command, readVars>>

\* The smoothed temperature, the sensitivity gap, the look-up.
Decide ==
  /\ pc = "decide"
  /\ tempHistory' = Push(tempHistory, Aggregate(perDevice))
  /\ LET current == Mean(tempHistory')
     IN  \/ /\ Distance(current, lastTemp) < Sensitivity
            /\ pc' = "idle"
            /\ UNCHANGED <<lastTemp, lastLevel>>
         \/ /\ Distance(current, lastTemp) >= Sensitivity
            /\ lastTemp' = current
            /\ \E k \in 0..100 :
                 /\ Index(k, current)
                 /\ lastLevel' = LevelsLut[k]
                 /\ pc' = IF LevelsLut[k] = lastLevel \/ DeferredApply THEN "idle" ELSE "apply"
  /\ UNCHANGED <<command, readVars>>

\* set_fan_level; an ipmitool call may raise.
SetFanLevel ==
  /\ pc = "apply"
  /\ \/ pc' = "idle" /\ command' = lastLevel
     \/ pc' = "dead" /\ UNCHANGED command
  /\ UNCHANGED <<tempHistory, lastTemp, lastLevel, readVars>>

-----------------------------------------------------------------------------

\* FanController.__init__: its get_temp() starts with no last temperatures.
Init ==
  /\ pc = "read"
  /\ temps = <<>> /\ perDevice = <<>>
  /\ readErrors = [i \in Devices |-> 0]
  /\ readErrorsTotal = [i \in Devices |-> 0]
  /\ tempHistory = <<>>
  /\ lastTemp = 0 /\ lastLevel = 0
  /\ lastGood = [i \in Devices |-> 0]
  /\ missed = [i \in Devices |-> 0]
  /\ command = NoCommand

GetTemp == \/ \E i \in Devices : ReadDevice(i) \/ ReadFails(i) \/ ReuseLastTemp(i)
           \/ Publish

Next == Poll \/ GetTemp \/ Decide \/ SetFanLevel

Spec == Init /\ [][Next]_vars

\* The loop calls run() again and again; no read has to succeed.
FairSpec == Spec /\ WF_vars(Next)

-----------------------------------------------------------------------------
(* Properties.                                                             *)

TypeOK ==
  /\ pc \in {"idle", "read", "failed", "decide", "apply", "dead"}
  /\ temps \in Seq(Temps) /\ Len(temps) <= Count
  /\ perDevice = <<>> \/ perDevice \in [Devices -> Temps]
  /\ readErrors \in [Devices -> Nat]
  /\ readErrorsTotal \in [Devices -> Nat]
  /\ tempHistory \in Seq(Int) /\ Len(tempHistory) <= Smoothing
  /\ lastTemp \in Int
  /\ lastLevel \in 0..100
  /\ lastGood \in [Devices -> Temps \cup {0}]
  /\ missed \in [Devices -> Nat]
  /\ command \in 0..100 \cup {NoCommand}

\* README 2.4: what steers the fans is the last known good temperature of every
\* device itself, and no older than error_tolerance failed reads, whatever the
\* pattern of failures over the devices and polls.
StaleWithinBudget ==
  pc \in {"idle", "decide", "apply"} =>
    \A i \in Devices : perDevice[i] = lastGood[i] /\ missed[i] <= ErrorTolerance

\* README 2.4: "only when the budget is exhausted" does a failed read stop the
\* controller; failures of other devices or of earlier streaks do not count.
StopsOnlyExhausted ==
  [][pc = "failed" /\ pc' = "dead" =>
       perDevice = <<>> \/ \E i \in Devices : missed[i] > ErrorTolerance]_vars

\* README 2.3: the controller does not react until the smoothed temperature has
\* moved by the sensitivity since the last action, and then it does: a slow rise
\* cannot creep past it, poll by poll.
FollowsTemperature ==
  tempHistory # <<>> => Distance(Mean(tempHistory), lastTemp) < Sensitivity

\* The level handed to the BMC is the level of the curve at the temperature last
\* acted on, raised or lowered.
CommandFollowsCurve ==
  ~DeferredApply /\ pc \notin {"apply", "dead"} /\ command # NoCommand
    => \E k \in 0..100 : Index(k, lastTemp) /\ command = LevelsLut[k]

\* When all that can be read is one temperature, the controller comes to act on a
\* temperature within the sensitivity of it, or is stopped by failing calls.
SettlesAtTemperature ==
  \A t \in Temps :
    <>[](\A i \in Devices : lastGood[i] = t)
      => <>[](pc = "dead" \/ Distance(t, lastTemp) < Sensitivity)

\* The main loop sees a controller that holds its level, takes another level of its
\* curve and hands it over, or fails: all that reads, means and thresholds do is to
\* choose between these.
Base == INSTANCE BaseController WITH
  Curve <- {LevelsLut[k] : k \in 0..100},
  phase <- IF pc = "apply" THEN "apply" ELSE IF pc = "dead" THEN "left" ELSE "ready",
  level <- lastLevel

ImplementsBaseController == Base!Spec

-----------------------------------------------------------------------------
(* The inductive invariant behind StaleWithinBudget and StopsOnlyExhausted. *)

ReadTypes ==
  /\ pc \in {"idle", "read", "failed", "decide", "apply", "dead"}
  /\ temps \in Seq(Temps) /\ Len(temps) <= Count
  /\ perDevice \in Seq(Temps) /\ Len(perDevice) \in {0, Count}
  /\ readErrors \in [Devices -> Nat]
  /\ readErrorsTotal \in [Devices -> Nat]
  /\ lastGood \in [Devices -> Temps \cup {0}]
  /\ missed \in [Devices -> Nat]

\* A streak is what was missed; only the device being counted can exceed its budget.
Streaks ==
  /\ readErrors = missed
  /\ \A i \in Devices : missed[i] > ErrorTolerance => pc \in {"failed", "dead"} /\ IsNext(i)

\* The readings before the current device are this poll's, the others the last poll's.
Readings ==
  /\ pc \in {"idle", "decide", "apply"} =>
       Len(perDevice) = Count /\ \A i \in Devices : perDevice[i] = lastGood[i]
  /\ pc \in {"read", "failed"} => \A i \in Devices :
       IF i <= Len(temps) THEN temps[i] = lastGood[i]
                          ELSE perDevice = <<>> \/ perDevice[i] = lastGood[i]

\* The total is behind the streak only between the two increments.
Counted ==
  \A i \in Devices :
    readErrors[i] <= readErrorsTotal[i] + (IF pc = "failed" /\ IsNext(i) THEN 1 ELSE 0)

FanInv == ReadTypes /\ Streaks /\ Readings /\ Counted

-----------------------------------------------------------------------------
(* The inductive invariant behind FollowsTemperature and                   *)
(* CommandFollowsCurve, beside FanInv.                                     *)

RunTypes ==
  /\ tempHistory \in Seq(Int) /\ Len(tempHistory) <= Smoothing
  /\ lastTemp \in Int
  /\ lastLevel \in 0..100
  /\ command \in 0..100 \cup {NoCommand}

\* last_level is the level of the curve at last_temp.
OnCurve == \E k \in 0..100 : Index(k, lastTemp) /\ lastLevel = LevelsLut[k]

\* Between a decision and set_fan_level only last_level is on the curve; otherwise it
\* is what was handed to ipmi.
Commanded ==
  /\ pc = "apply" => OnCurve
  /\ ~DeferredApply /\ pc \notin {"apply", "dead"} /\ command # NoCommand
       => command = lastLevel /\ OnCurve

RunInv == RunTypes /\ FollowsTemperature /\ Commanded
=============================================================================
