-------------------------------- MODULE GpuFc --------------------------------
(***************************************************************************)
(* How GpuFc (src/smfc/gpufc.py) serves the reads of FanController's       *)
(* get_temp() from the list of one SMI call per polling interval, and what *)
(* a failed call costs the GPUs in error_tolerance.  A temperature is its  *)
(* age: the number of polls begun with a call due since it was reported.   *)
(*                                                                         *)
(*   idle      get_temp() is not executing                                 *)
(*   read      get_temp() is about to read GPU Len(temps) + 1              *)
(*   dead      the budget is exhausted, or the constructor had no reading  *)
(*   unset     AttributeError, which get_temp() does not catch             *)
(*   mistyped  TypeError, which get_temp() does not catch either           *)
(***************************************************************************)
EXTENDS Integers, Sequences

CONSTANTS
  Count,           \* number of GPUs
  ErrorTolerance,  \* error_tolerance
  MaxAge           \* bound: ages are not told apart from here on

Gpus == 1..Count

ASSUME SizeAssumption == Count \in Nat \ {0} /\ ErrorTolerance \in Nat
ASSUME BoundAssumption == MaxAge \in Nat /\ MaxAge > ErrorTolerance

VARIABLES
  pc,        \* where get_temp() is
  gpuType,   \* gpu_type, fixed
  due,       \* the polling interval has elapsed since smi_called
  cached,    \* gpu_temperature exists
  cache,     \* gpu_temperature, as ages
  temps,     \* the temperatures get_temp has so far, as ages
  perDevice, \* last_per_device_temps, as ages
  streak,    \* _temp_read_errors
  before,    \* history: the last poll made a call or made none; "start": the constructor
  calm,      \* history: every poll began with a call due, and none came due in between
  failed,    \* history: a read has failed in this poll
  bad        \* history: the last polls in a row with a failed read

vars == <<pc, gpuType, due, cached, cache, temps, perDevice, streak, before, calm,
          failed, bad>>

Older(s) == [i \in DOMAIN s |-> IF s[i] < MaxAge THEN s[i] + 1 ELSE MaxAge]
Fresh(n) == [i \in 1..n |-> 0]
Starting == perDevice = <<>>
IsNext(i) == i = Len(temps) + 1

-----------------------------------------------------------------------------
(* get_temp() of FanController.                                            *)

\* Mutant of Succeed: the streak is not reset.
SucceedSilently(i, age) ==
  /\ temps' = Append(temps, age)
  /\ UNCHANGED <<pc, streak, failed>>

\* A read succeeds: the streak ends.
Succeed(i, age) ==
  /\ temps' = Append(temps, age)
  /\ streak' = [streak EXCEPT ![i] = 0]
  /\ UNCHANGED <<pc, failed>>

\* A read fails: _reuse_last_temp.
Fail(i) ==
  /\ streak' = [streak EXCEPT ![i] = @ + 1]
  /\ failed' = TRUE
  /\ IF Starting \/ streak[i] >= ErrorTolerance
     THEN pc' = "dead" /\ UNCHANGED temps
     ELSE temps' = Append(temps, perDevice[i]) /\ UNCHANGED pc

-----------------------------------------------------------------------------
(* _get_nth_temp()                                                         *)

\* The polling interval elapses while this GPU is read, or not.
Elapse == due' \in BOOLEAN /\ calm' = (calm /\ ~due')

Reading(i) == pc = "read" /\ IsNext(i)

\* The tool is called and returns: smi_called is the time of this read.
CallMade(i) ==
  /\ Reading(i) /\ due
  /\ Elapse
  /\ before' = IF Starting THEN before ELSE "call"

\* The tool reports all GPUs.
CallSucceeds(i) ==
  /\ CallMade(i)
  /\ cache' = Fresh(Count) /\ cached' = TRUE
  /\ Succeed(i, 0)
  /\ UNCHANGED <<gpuType, perDevice, bad>>

\* The tool cannot be run: smi_called stays as it is.
CallMissing(i) ==
  /\ Reading(i) /\ due
  /\ Fail(i)
  /\ UNCHANGED <<gpuType, due, cached, cache, perDevice, before, calm, bad>>

\* The report is cut off or wrong at some GPU: those before it are in the list.
CallTruncated(i) ==
  /\ CallMade(i)
  /\ \E n \in 0..Count - 1 : cache' = Fresh(n)
  /\ cached' = TRUE
  /\ Fail(i)
  /\ UNCHANGED <<gpuType, perDevice, bad>>

\* Mutant of CallGarbled: the list of the call before is served.
CallGarbledServed(i) ==
  /\ CallMade(i)
  /\ gpuType = "amd"
  /\ IF cached /\ i <= Len(cache) THEN Succeed(i, cache[i]) ELSE Fail(i)
  /\ UNCHANGED <<gpuType, cached, cache, perDevice, bad>>

\* rocm-smi writes no JSON: the list of the call before stays.
CallGarbled(i) ==
  /\ CallMade(i)
  /\ gpuType = "amd"
  /\ Fail(i)
  /\ UNCHANGED <<gpuType, cached, cache, perDevice, bad>>

\* rocm-smi writes JSON of another type than a mapping of cards to numbers or text: a
\* null, a scalar, a card that is none or whose temperature is null.
CallMistyped(i) ==
  /\ CallMade(i)
  /\ gpuType = "amd"
  /\ \E n \in 0..Count - 1 : cache' = Fresh(n)
  /\ cached' = TRUE
  /\ pc' = "mistyped"
  /\ UNCHANGED <<gpuType, temps, perDevice, streak, failed, bad>>

\* No call is due: the list is indexed, or does not exist yet.
Lookup(i) ==
  /\ Reading(i) /\ ~due
  /\ Elapse
  /\ IF ~cached THEN pc' = "unset" /\ UNCHANGED <<temps, streak, failed>>
     ELSE IF i <= Len(cache) THEN Succeed(i, cache[i]) ELSE Fail(i)
  /\ UNCHANGED <<gpuType, cached, cache, perDevice, before, bad>>

Publish ==
  /\ pc = "read" /\ Len(temps) = Count
  /\ perDevice' = temps
  /\ pc' = "idle"
  /\ bad' = IF ~failed THEN 0 ELSE IF bad < MaxAge THEN bad + 1 ELSE MaxAge
  /\ UNCHANGED <<gpuType, due, cached, cache, temps, streak, before, calm, failed>>

\* The first poll follows the constructor at once.  Later a poll can come too early for
\* a call, as run() reads its clock before _get_nth_temp does, but only when the poll
\* before made one, at whichever GPU.
Poll(isDue) ==
  /\ pc = "idle"
  /\ isDue \/ (~due /\ before # "none")
  /\ pc' = "read" /\ temps' = <<>> /\ failed' = FALSE
  /\ due' = isDue
  /\ before' = "none"
  /\ calm' = (calm /\ (isDue \/ before = "start"))
  /\ IF isDue THEN cache' = Older(cache) /\ perDevice' = Older(perDevice)
              ELSE UNCHANGED <<cache, perDevice>>
  /\ UNCHANGED <<gpuType, cached, streak, bad>>

-----------------------------------------------------------------------------

\* The constructor: smi_called is 0 on a clock that starts with the host.
Init ==
  /\ pc = "read"
  /\ gpuType \in {"nvidia", "amd"}
  /\ due \in BOOLEAN
  /\ cached = FALSE /\ cache = <<>>
  /\ temps = <<>> /\ perDevice = <<>>
  /\ streak = [i \in Gpus |-> 0]
  /\ before = "start" /\ calm = TRUE
  /\ failed = FALSE /\ bad = 0

Read(i) == \/ CallSucceeds(i) \/ CallMissing(i) \/ CallTruncated(i) \/ CallGarbled(i)
           \/ CallMistyped(i) \/ Lookup(i)

Next == \/ \E isDue \in BOOLEAN : Poll(isDue)
        \/ \E i \in Gpus : Read(i)
        \/ Publish

Spec == Init /\ [][Next]_vars

-----------------------------------------------------------------------------
(* Properties.                                                             *)

Ages == 0..MaxAge

TypeOK ==
  /\ pc \in {"idle", "read", "dead", "unset", "mistyped"}
  /\ gpuType \in {"nvidia", "amd"}
  /\ due \in BOOLEAN /\ cached \in BOOLEAN
  /\ cache \in Seq(Ages) /\ Len(cache) <= Count
  /\ temps \in Seq(Ages) /\ Len(temps) <= Count
  /\ perDevice \in Seq(Ages) /\ Len(perDevice) \in {0, Count}
  /\ streak \in [Gpus -> 0..ErrorTolerance + 1]
  /\ before \in {"start", "call", "none"} /\ calm \in BOOLEAN
  /\ failed \in BOOLEAN /\ bad \in Ages

\* README 2.4 and ARCHITECTURE 14.2: a failing SMI tool steers the fans with stale
\* temperatures for at most error_tolerance polls, for every GPU and whatever way the
\* calls fail.  With rocm-smi a failed call costs the first GPU only, and it is that
\* GPU that stops the service for all: as long as the calls fall on it.
NeverTooOld ==
  pc = "idle" /\ calm => \A i \in Gpus : perDevice[i] <= ErrorTolerance

\* ARCHITECTURE 14.2: error_tolerance=3 means 3 consecutive polls: the controller is
\* stopped only by the poll after error_tolerance polls with failures in a row.
ToleratesPolls ==
  pc = "dead" /\ ~Starting => bad >= ErrorTolerance

\* gpufc.py:77-81: _get_nth_temp raises FileNotFoundError, ValueError or IndexError, which
\* get_temp() catches; it never indexes a list that does not exist yet.
ListExists == pc # "unset"

\* ARCHITECTURE 7.1.4: the exceptions caught cover the SMI branch: once there is a value
\* to reuse, no report ends the service by an error that is not counted.
MisreadTolerated == pc = "mistyped" => Starting

-----------------------------------------------------------------------------
(* The inductive invariant behind NeverTooOld and ToleratesPolls.          *)

AtMost(s, age) == \A j \in DOMAIN s : s[j] <= age

Types ==
  /\ pc \in {"idle", "read", "dead", "unset", "mistyped"}
  /\ cache \in Seq(Ages) /\ temps \in Seq(Ages) /\ Len(temps) <= Count
  /\ perDevice \in Seq(Ages) /\ Len(perDevice) \in {0, Count}
  /\ pc = "idle" => ~Starting
  /\ streak \in [Gpus -> Nat]
  /\ bad \in Ages

\* A streak is no longer than the polls with failures in a row, with the poll in
\* progress for the GPUs it has read already.
Budget ==
  /\ pc \in {"idle", "read"} => \A i \in Gpus : streak[i] <= ErrorTolerance
  /\ pc = "idle" => \A i \in Gpus : streak[i] <= bad
  /\ pc = "read" => \A i \in Gpus :
       IF i <= Len(temps) THEN streak[i] <= bad + 1 /\ (streak[i] > 0 => failed)
                          ELSE streak[i] <= bad
  /\ pc = "dead" /\ ~Starting => bad >= ErrorTolerance

\* Nothing has failed yet in the constructor, and nothing is served before a call.
Beginning ==
  /\ pc = "read" => (Starting <=> before = "start")
  /\ before = "start" /\ pc \in {"idle", "read"} => streak[1] = 0

\* While every poll begins with a call and none comes due later on, it is the first GPU
\* that pays for a failed call: all ages are within its streak.
Young ==
  calm =>
    /\ pc = "idle" =>
         /\ AtMost(cache, streak[1]) /\ AtMost(perDevice, streak[1])
         /\ before = "start" => Len(cache) = Count
    /\ pc = "read" /\ temps = <<>> =>
         IF due THEN AtMost(cache, streak[1] + 1) /\ AtMost(perDevice, streak[1] + 1)
         ELSE ~cached \/ (Len(cache) = Count /\ AtMost(cache, 0) /\ AtMost(perDevice, 0))
    /\ pc = "read" /\ temps # <<>> =>
         /\ AtMost(cache, streak[1]) /\ AtMost(temps, streak[1])
         /\ IF streak[1] = 0 THEN ~due /\ Len(cache) = Count
                             ELSE AtMost(perDevice, streak[1])

GpuInv == Types /\ Budget /\ Beginning /\ Young
=============================================================================
