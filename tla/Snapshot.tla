------------------------------- MODULE Snapshot -------------------------------
(***************************************************************************)
(* A thread of the exporter builds snapshots (src/smfc/snapshot.py) of a   *)
(* controller while the main loop drives it.  There is no lock: the thread *)
(* copies one list after the other, and the loop can come in between.  The *)
(* entry of one device, whichever it is, is followed here.                 *)
(***************************************************************************)
EXTENDS FanController

VARIABLES
  at,      \* the list copied last; "totals" when the entry is complete
  shown,   \* the device of the entry
  entry    \* what the copies say of it

snapVars == <<at, shown, entry>>

\* The exporter is started after the constructors; a request may come any time.
\* A device without a temperature in the list is padded with 0.0 degrees.
CopyTemps ==
  /\ \/ at = "none" /\ perDevice # <<>>
     \/ at = "totals"
  /\ at' = "temps"
  /\ entry' = [entry EXCEPT !.padded = shown > Len(perDevice)]
  /\ UNCHANGED <<shown, vars>>

CopyErrors ==
  /\ at = "temps"
  /\ at' = "errors"
  /\ entry' = [entry EXCEPT !.errors = readErrors[shown]]
  /\ UNCHANGED <<shown, vars>>

CopyTotals ==
  /\ at = "errors"
  /\ at' = "totals"
  /\ entry' = [entry EXCEPT !.total = readErrorsTotal[shown]]
  /\ UNCHANGED <<shown, vars>>

SnapInit ==
  /\ Init
  /\ at = "none"
  /\ shown \in Devices
  /\ entry = [padded |-> FALSE, errors |-> 0, total |-> 0]

Loop == Next /\ UNCHANGED snapVars

SnapNext == Loop \/ CopyTemps \/ CopyErrors \/ CopyTotals

SnapSpec == SnapInit /\ [][SnapNext]_<<vars, snapVars>>

\* The loop is not gated on the thread.
FairSnapSpec == SnapSpec /\ WF_vars(Next)

-----------------------------------------------------------------------------
(* Properties.                                                             *)

SnapTypeOK ==
  /\ TypeOK
  /\ at \in {"none", "temps", "errors", "totals"}
  /\ shown \in Devices
  /\ entry \in [padded : BOOLEAN, errors : Nat, total : Nat]

\* snapshot.py:88: the padding with 0.0 degrees is for a loop that has not run;
\* a snapshot taken in the middle of get_temp() still has every temperature.
SnapshotHasAllDevices == ~entry.padded

\* However the copies interleave with the counting, a snapshot never shows a
\* streak longer than the lifetime total, but for the failure being counted.
SnapshotCountersAgree == at = "totals" => entry.errors <= entry.total + 1

\* README 13: read_errors_total is a counter, which never falls from one scrape to
\* the next.
TotalsMonotonic == [][entry'.total >= entry.total]_snapVars

-----------------------------------------------------------------------------
(* The inductive invariant of the snapshot, beside FanInv.                 *)

SnapInv ==
  /\ at \in {"none", "temps", "errors", "totals"}
  /\ shown \in Devices
  /\ entry \in [padded : BOOLEAN, errors : Nat, total : Nat]
  /\ ~entry.padded
  /\ at # "none" => Len(perDevice) = Count
  /\ at \in {"errors", "totals"} => entry.errors <= readErrorsTotal[shown] + 1
  /\ at = "totals" => entry.errors <= entry.total + 1
  /\ entry.total <= readErrorsTotal[shown]
=============================================================================
