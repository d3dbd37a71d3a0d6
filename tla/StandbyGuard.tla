----------------------------- MODULE StandbyGuard -----------------------------
(***************************************************************************)
(* The standby guard of HdFc (src/smfc/hdfc.py): at every poll it asks the *)
(* disks of the array one by one for their power state, and when enough of *)
(* them have spun down it puts the others to standby.  Meanwhile the disks *)
(* spin down and wake up on their own.                                     *)
(*                                                                         *)
(*   idle     between two polls                                            *)
(*   check    check_standby_state is about to turn to the next disk        *)
(*   answer   smartctl is asking the disk; its state is cleared meanwhile  *)
(*   decide   run_standby_guard has the number of disks in standby         *)
(*   park     go_standby_state is about to turn to the next disk           *)
(*   dead     smartctl or sudo could not be run; nobody catches that       *)
(***************************************************************************)
EXTENDS Integers, FiniteSets

CONSTANTS
  Count,        \* number of disks
  Limit,        \* standby_hd_limit
  MaxMoves,     \* bound: times disks spin down or wake up on their own
  MaxGlitches   \* bound: smartctl calls that fail without an exception

Disks == 1..Count

\* The guard is off for a single disk; the constructor rejects other limits.
ASSUME SizeAssumption == Count \in Nat \ {0, 1} /\ Limit \in 0..Count
ASSUME BoundAssumption == MaxMoves \in Nat /\ MaxGlitches \in Nat

VARIABLES
  pc,        \* where the guard is
  disk,      \* the disk it turns to
  built,     \* the constructor is done
  flag,      \* standby_flag
  states,    \* standby_array_states
  spunDown,  \* the disks that are in standby
  moves, glitches,
  sleepers,  \* history: disks that were in standby at some time of this poll
  since      \* history: since[d]: polls begun since disk d was last in standby, or was
             \* last sent there; 2 stands for more as well

guardVars == <<pc, disk, built, flag, states>>
vars == <<pc, disk, built, flag, states, spunDown, moves, glitches, sleepers, since>>

\* A poll begins: the disks in standby are of now, the others are a poll older.
Older == [d \in Disks |-> IF d \in spunDown THEN 0 ELSE IF since[d] < 2 THEN since[d] + 1 ELSE 2]

InStandby == {d \in Disks : states[d]}   \* standby_array_states.count(True)

-----------------------------------------------------------------------------
(* The disks.                                                              *)

SpinDown(d) ==
  /\ d \notin spunDown /\ moves < MaxMoves
  /\ spunDown' = spunDown \cup {d}
  /\ sleepers' = sleepers \cup {d}
  /\ since' = [since EXCEPT ![d] = 0]
  /\ moves' = moves + 1
  /\ UNCHANGED <<guardVars, glitches>>

WakeUp(d) ==
  /\ d \in spunDown /\ moves < MaxMoves
  /\ spunDown' = spunDown \ {d}
  /\ moves' = moves + 1
  /\ UNCHANGED <<guardVars, glitches, sleepers, since>>

Glitch == glitches < MaxGlitches /\ glitches' = glitches + 1

-----------------------------------------------------------------------------
(* The guard.                                                              *)

\* callback_func of a poll.
Poll ==
  /\ pc = "idle"
  /\ pc' = "check" /\ disk' = 1
  /\ sleepers' = spunDown /\ since' = Older
  /\ UNCHANGED <<built, flag, states, spunDown, moves, glitches>>

\* Mutant of Ask: the state of the previous poll is not cleared.
AskOnly ==
  /\ pc = "check" /\ disk <= Count
  /\ pc' = "answer"
  /\ UNCHANGED <<disk, built, flag, states, spunDown, moves, glitches, sleepers, since>>

Ask ==
  /\ pc = "check" /\ disk <= Count
  /\ states' = [states EXCEPT ![disk] = FALSE]
  /\ pc' = "answer"
  /\ UNCHANGED <<disk, built, flag, spunDown, moves, glitches, sleepers, since>>

\* Only an output with STANDBY in it counts; smartctl may fail with any other.
Answer ==
  /\ pc = "answer"
  /\ \/ states' = [states EXCEPT ![disk] = @ \/ disk \in spunDown] /\ UNCHANGED glitches
     \/ Glitch /\ UNCHANGED states
  /\ disk' = disk + 1
  /\ pc' = "check"
  /\ UNCHANGED <<built, flag, spunDown, moves, sleepers, since>>

Counted == pc = "check" /\ disk > Count

\* The constructor takes the flag from the first count.
FirstCount ==
  /\ Counted /\ ~built
  /\ built' = TRUE
  /\ flag' = (InStandby = Disks)
  /\ pc' = "idle"
  /\ UNCHANGED <<disk, states, spunDown, moves, glitches, sleepers, since>>

\* Mutant of Decide: more than standby_hd_limit disks are needed.
DecideMore ==
  /\ Counted /\ built
  /\ IF ~flag /\ Cardinality(InStandby) > Limit
     THEN pc' = "park" /\ disk' = 1 /\ UNCHANGED flag
     ELSE /\ pc' = "idle"
          /\ flag' = (flag /\ Cardinality(InStandby) = Count)
          /\ UNCHANGED disk
  /\ UNCHANGED <<built, states, spunDown, moves, glitches, sleepers, since>>

\* Mutant of Decide: the array wakes up only with all of its disks.
DecideAllAwake ==
  /\ Counted /\ built
  /\ IF ~flag /\ Cardinality(InStandby) >= Limit
     THEN pc' = "park" /\ disk' = 1 /\ UNCHANGED flag
     ELSE /\ pc' = "idle"
          /\ flag' = (flag /\ InStandby # {})
          /\ UNCHANGED disk
  /\ UNCHANGED <<built, states, spunDown, moves, glitches, sleepers, since>>

\* The array goes to standby when enough disks are there, or wakes up with any disk.
Decide ==
  /\ Counted /\ built
  /\ IF ~flag /\ Cardinality(InStandby) >= Limit
     THEN pc' = "park" /\ disk' = 1 /\ UNCHANGED flag
     ELSE /\ pc' = "idle"
          /\ flag' = (flag /\ Cardinality(InStandby) = Count)
          /\ UNCHANGED disk
  /\ UNCHANGED <<built, states, spunDown, moves, glitches, sleepers, since>>

\* The state is set whether or not the disk obeys.
Park ==
  /\ pc = "park" /\ disk <= Count
  /\ IF states[disk] THEN UNCHANGED <<states, spunDown, glitches, since>>
     ELSE /\ states' = [states EXCEPT ![disk] = TRUE]
          /\ since' = [since EXCEPT ![disk] = 0]
          /\ \/ spunDown' = spunDown \cup {disk} /\ UNCHANGED glitches
             \/ Glitch /\ UNCHANGED spunDown
  /\ disk' = disk + 1
  /\ UNCHANGED <<pc, built, flag, moves, sleepers>>

Parked ==
  /\ pc = "park" /\ disk > Count
  /\ flag' = TRUE
  /\ pc' = "idle"
  /\ UNCHANGED <<disk, built, states, spunDown, moves, glitches, sleepers, since>>

\* smartctl is missing, or sudo refuses: also in the constructor.
Raise ==
  /\ \/ pc = "answer"
     \/ pc = "park" /\ disk <= Count /\ ~states[disk]
  /\ pc' = "dead"
  /\ UNCHANGED <<disk, built, flag, states, spunDown, moves, glitches, sleepers, since>>

-----------------------------------------------------------------------------

\* The constructor is about to check the array.
Init ==
  /\ pc = "check" /\ disk = 1
  /\ built = FALSE /\ flag = FALSE
  /\ states = [d \in Disks |-> FALSE]
  /\ spunDown \in SUBSET Disks
  /\ moves = 0 /\ glitches = 0
  /\ sleepers = spunDown
  /\ since = [d \in Disks |-> IF d \in spunDown THEN 0 ELSE 2]

Guard == Poll \/ Ask \/ Answer \/ FirstCount \/ Decide \/ Park \/ Parked \/ Raise

Next == Guard \/ \E d \in Disks : SpinDown(d) \/ WakeUp(d)

Spec == Init /\ [][Next]_vars

\* The loop keeps calling run(); the disks need not do anything.
FairSpec == Spec /\ WF_vars(Guard)

-----------------------------------------------------------------------------
(* Properties.                                                             *)

TypeOK ==
  /\ pc \in {"idle", "check", "answer", "park", "dead"}
  /\ disk \in 1..Count + 1
  /\ built \in BOOLEAN /\ flag \in BOOLEAN
  /\ states \in [Disks -> BOOLEAN]
  /\ spunDown \in SUBSET Disks
  /\ moves \in 0..MaxMoves /\ glitches \in 0..MaxGlitches
  /\ sleepers \in SUBSET Disks
  /\ since \in [Disks -> 0..2]

\* README 3: the guard parks an array of which "a few members have already stepped
\* into that state": an array in use, with fewer than standby_hd_limit disks in
\* standby at any time of the poll, is left alone whatever smartctl answered in this
\* poll or an earlier one.
ParksOnlySleepingArray == pc = "park" => Cardinality(sleepers) >= Limit

\* snapshot.py:111: the exporter thread copies the states without a lock, at any point of
\* a poll.  A disk it shows in standby was there since the poll before this one began, or
\* was sent there since, whether or not it obeyed: a state left over from an older answer,
\* or set for the wrong disk, is never published.
ShownStandbyIsRecent == \A d \in InStandby : since[d] <= 1

\* Between polls standby_flag says that the array is in standby only when all states do.
\* In a poll it does not: the states are cleared one by one and the flag comes last.
FlagAgreesWithStates == pc = "idle" /\ flag => InStandby = Disks

\* ARCHITECTURE 11.1: "so the whole array stays parked together": with enough disks
\* in standby and nothing else moving them, all of them end in standby.
ParkedTogether ==
  <>[](pc = "dead" \/ spunDown = Disks \/ Cardinality(spunDown) < Limit)

\* ARCHITECTURE 11.1: the array is ACTIVE again when any disk wakes up, also one that
\* wakes up while the others are checked, or that did not obey the command.
WakeNoticed ==
  \A d \in Disks :
    flag /\ d \notin spunDown ~> ~flag \/ d \in spunDown \/ pc = "dead"

-----------------------------------------------------------------------------
(* The inductive invariant.                                                *)

\* A state that was set in this poll is of a disk that slept in this poll.
Answers ==
  /\ pc \in {"check", "answer"} =>
       spunDown \subseteq sleepers /\ \A d \in Disks : d < disk /\ states[d] => d \in sleepers
  /\ pc = "answer" => disk <= Count /\ ~states[disk]

\* A state is of this poll, or of the one before where the check has not come to yet.
Dated ==
  \A d \in Disks :
    /\ d \in spunDown \/ d \in sleepers => since[d] = 0
    /\ states[d] => since[d] <= 1
    /\ states[d] /\ (pc \in {"idle", "park"} \/ (pc \in {"check", "answer"} /\ d < disk))
         => since[d] = 0

Parking ==
  /\ pc = "park" =>
       Cardinality(sleepers) >= Limit /\ \A d \in Disks : d < disk => states[d]
  /\ pc = "idle" /\ flag => InStandby = Disks

GuardInv == TypeOK /\ Answers /\ Dated /\ Parking
=============================================================================
