--------------------------- MODULE ControlFunction ---------------------------
(***************************************************************************)
(* From an accepted section of the configuration to the table of its fan   *)
(* controller: the checks of a curve (config.py), and build_lut() of       *)
(* fancontroller.py.  The two steps of create_control_function are two     *)
(* actions, as in the code.  Configuration gives the sections.             *)
(*                                                                         *)
(*   building   a controller is constructed for the section cfg            *)
(*   line       the curve is there degree by degree                        *)
(*   ready      levels is levels_lut                                       *)
(*                                                                         *)
(* A section is a record; points = <<>> where control_function= is not     *)
(* used, and then the four legacy keys count.  Temperatures are whole.     *)
(***************************************************************************)
EXTENDS Integers, Sequences, FiniteSetsExt, Platform

Degrees == 0..100

VARIABLES
  pc,      \* how far the file or the table has come
  cfg,     \* the section
  levels   \* the table, degree by degree

First == cfg.points[1]
Last == cfg.points[Len(cfg.points)]
TempOf(point) == point[1]
LevelOf(point) == point[2]

-----------------------------------------------------------------------------
(* config.py                                                               *)

\* parse_control_function
ValidPoints(s) ==
  LET n == Len(s.points) IN
  /\ n >= 2
  /\ \A i \in 1..n : TempOf(s.points[i]) \in Degrees /\ LevelOf(s.points[i]) \in Levels
  /\ \A i \in 2..n : TempOf(s.points[i - 1]) < TempOf(s.points[i])

\* _read_control_function: the steps are cut from the temperatures between the end points.
ValidInterior(s) ==
  TempOf(s.points[Len(s.points)]) - TempOf(s.points[1]) - 1 >= s.steps

\* Mutant of ValidKeys: the levels may be given in either order.
ValidKeysAnyOrder(s) ==
  /\ ~(s.maxLevel > s.minLevel /\ s.steps > s.maxLevel - s.minLevel)
  /\ 0 <= s.minTemp /\ s.minTemp <= s.maxTemp /\ s.maxTemp <= 200
  /\ 0 <= s.minLevel /\ s.maxLevel <= 100

ValidKeys(s) ==
  /\ ~(s.maxLevel > s.minLevel /\ s.steps > s.maxLevel - s.minLevel)
  /\ 0 <= s.minTemp /\ s.minTemp <= s.maxTemp /\ s.maxTemp <= 200
  /\ 0 <= s.minLevel /\ s.minLevel <= s.maxLevel /\ s.maxLevel <= 100

ValidCurve(s) == IF s.points = <<>> THEN ValidKeys(s) ELSE ValidPoints(s) /\ ValidInterior(s)

-----------------------------------------------------------------------------
(* create_legacy_lut                                                       *)

\* Mutant of Gain: the gain is cut off.
GainCut(t) == ((t - cfg.minTemp) * cfg.steps) \div (cfg.maxTemp - cfg.minTemp)

\* round((t - min_temp) / temp_step)
Gain(t) == Rounded((t - cfg.minTemp) * cfg.steps, cfg.maxTemp - cfg.minTemp)

Staircase(t) ==
  CASE t <= cfg.minTemp -> cfg.minLevel
    [] t > cfg.minTemp /\ t >= cfg.maxTemp -> cfg.maxLevel
    [] OTHER -> Rounded(Gain(t) * (cfg.maxLevel - cfg.minLevel), cfg.steps) + cfg.minLevel

BuildLegacy ==
  /\ pc = "building" /\ cfg.points = <<>>
  /\ levels' = [t \in Degrees |-> Staircase(t)]
  /\ pc' = "ready"
  /\ UNCHANGED cfg

-----------------------------------------------------------------------------
(* create_control_function                                                 *)

\* A level on the line between two points, at t.
Between(p, q, t) ==
  LET dt == TempOf(q) - TempOf(p)
  IN  Rounded(LevelOf(p) * dt + (t - TempOf(p)) * (LevelOf(q) - LevelOf(p)), dt)

\* The segment of the curve that t is in.
Segment(t) == CHOOSE i \in 1..Len(cfg.points) - 1 :
                TempOf(cfg.points[i]) <= t /\ t < TempOf(cfg.points[i + 1])

Line(t) ==
  CASE t < TempOf(First) -> LevelOf(First)
    [] t >= TempOf(Last) -> LevelOf(Last)
    [] OTHER -> Between(cfg.points[Segment(t)], cfg.points[Segment(t) + 1], t)

\* Step 1
BuildLine ==
  /\ pc = "building" /\ cfg.points # <<>>
  /\ levels' = [t \in Degrees |-> Line(t)]
  /\ pc' = "line"
  /\ UNCHANGED cfg

Interior == TempOf(First) + 1 .. TempOf(Last) - 1
Width == TempOf(Last) - TempOf(First) - 1
Base == Width \div cfg.steps
Remainder == Width % cfg.steps

\* Where plateau i starts (i from 0); the first Remainder plateaus are one longer.
Start(i) == TempOf(First) + 1 + i * Base + (IF i < Remainder THEN i ELSE Remainder)

Plateau(t) == CHOOSE i \in 0..cfg.steps - 1 : Start(i) <= t /\ t < Start(i + 1)

Average(S) == Rounded(MapThenSumSet(LAMBDA t : levels[t], S), Cardinality(S))

\* Mutant of Digitalize: the last point is averaged with the interior.
DigitalizeAll ==
  /\ pc = "line"
  /\ levels' = [t \in Degrees |->
       IF t \in Interior \cup {TempOf(Last)}
       THEN Average(IF t \in Interior THEN Start(Plateau(t)) .. Start(Plateau(t) + 1) - 1
                    ELSE {TempOf(Last) - 1, TempOf(Last)})
       ELSE levels[t]]
  /\ pc' = "ready"
  /\ UNCHANGED cfg

\* Steps 2 and 3: the end points keep their levels.
Digitalize ==
  /\ pc = "line"
  /\ levels' = [t \in Degrees |->
       IF t \in Interior THEN Average(Start(Plateau(t)) .. Start(Plateau(t) + 1) - 1)
                         ELSE levels[t]]
  /\ pc' = "ready"
  /\ UNCHANGED cfg

-----------------------------------------------------------------------------

Build == BuildLegacy \/ BuildLine \/ Digitalize

-----------------------------------------------------------------------------
(* Properties.                                                             *)

Rising ==
  IF cfg.points = <<>> THEN TRUE
  ELSE \A i \in 2..Len(cfg.points) : LevelOf(cfg.points[i - 1]) <= LevelOf(cfg.points[i])

\* A hotter device never gets a slower fan: every accepted legacy section and every
\* rising control function gives a rising table, through all roundings and averages.
HotterIsFaster ==
  pc = "ready" /\ Rising => \A t \in 1..100 : levels[t - 1] <= levels[t]

\* README 2.2: below the first and above the last temperature the fans run at the
\* levels given there.
EndpointsKept ==
  pc = "ready" =>
    IF cfg.points = <<>>
    THEN \A t \in Degrees : /\ t <= cfg.minTemp => levels[t] = cfg.minLevel
                            /\ t >= cfg.maxTemp /\ t > cfg.minTemp => levels[t] = cfg.maxLevel
    ELSE \A t \in Degrees : /\ t <= TempOf(First) => levels[t] = LevelOf(First)
                            /\ t >= TempOf(Last) => levels[t] = LevelOf(Last)

\* The table stays near what the user drew: with the legacy keys within half a level
\* step (and a rounding) of the straight line, with control_function= at a level the
\* curve takes within one plateau's width.
Near(t) ==
  IF cfg.points = <<>>
  THEN LET rise == cfg.maxLevel - cfg.minLevel
           run == cfg.maxTemp - cfg.minTemp
           off == (levels[t] - cfg.minLevel) * run - (t - cfg.minTemp) * rise
       IN  2 * cfg.steps * (IF off < 0 THEN -off ELSE off) <= (rise + cfg.steps) * run
  ELSE LET around == Degrees \cap (t - Base .. t + Base) IN
       /\ \E s \in around : Line(s) <= levels[t]
       /\ \E s \in around : levels[t] <= Line(s)

StaysNearCurve ==
  pc = "ready" =>
    \A t \in Degrees :
      (IF cfg.points = <<>> THEN cfg.minTemp < t /\ t < cfg.maxTemp ELSE t \in Interior)
        => Near(t)

\* Every level of a table is accepted by every platform and read back as written:
\* otherwise ConstFc would find it wrong at every poll (constfc.py), and exit levels
\* and the cache would not compare.
LevelsReadBack ==
  pc = "ready" => \A t \in Degrees, p \in Platforms : ReadsBack(p, levels[t])
=============================================================================
