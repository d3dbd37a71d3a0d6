# A TLA+ model of smfc

smfc is a daemon that controls the fans of a Supermicro server through its BMC: it
keeps the BMC in FULL mode, reads the temperatures of CPUs, disks, NVMe drives and
GPUs, looks a level up in a curve and writes a level per IPMI zone with `ipmitool`.
This directory holds TLA+ modules translated from `src/smfc/`, the TLC configurations
that check them on small installations, and theorems about them that TLAPS checks for
every installation.

    tlc -config Loop_shared.cfg MC_ServiceLoop.tla
    tlapm ServiceLoop_proofs.tla

Section numbers in the modules' comments are those of the repository's `README.md` and
`ARCHITECTURE.md`. `PROJECT.json` maps every definition to the lines it models.

## 1. The system

| Part | State it keeps | Operations | What is hard | What makes it correct |
|---|---|---|---|---|
| Service loop (`service.py`) | `controllers`, `applied_levels`, `shared_zones`, `last_fan_mode`, `fan_mode_enforced_count` | turns of the controllers, `_apply_fan_levels`, `_check_fan_mode` | one cache stands for what the BMC has; the BMC forgets levels; calls fail between two writes | the highest demand of a zone is its command; levels and mode come back after a drift |
| Start-up and exit (`service.py`) | what exists of `ipmi`, `controllers`, `exporter` | `run()` up to the loop, `exit_func` | signals and failures between any two steps, exit_func itself interrupted | no zone smfc controlled is left at its last level or latched |
| FanController, CpuFc, NvmeFc | `last_time`, `last_temp`, `last_level`, window, error counters | poll, smooth, compare, look up, write | reads fail device by device; thresholds against a moving mean | the fans follow temperatures that are recent and the devices' own |
| HdFc (`hdfc.py`) | `standby_array_states`, `standby_flag` | Standby Guard | disks sleep and wake while they are asked | only an array going to sleep is parked, and all of it |
| GpuFc (`gpufc.py`) | `gpu_temperature`, `smi_called` | one SMI call per interval serves all GPUs | a failed call concerns several GPUs at several moments | a stale list never outlives the tolerance |
| ConstFc (`constfc.py`) | `last_level` | verify a level, rewrite it | two modes, deferred and direct | its level is a floor of its zones |
| Control functions (`fancontroller.py`) | none | section to table | rounding twice, dividing degrees | hotter is never slower |
| Ipmi (`ipmi.py`) | `platform` | readiness gate, level and mode commands | a BMC that boots, is reset or drifts between two commands | control begins on a settled board; a write reported as done is in force; the gate ends |
| Platforms (`generic*.py`, `x10qbi.py`) | manual latch (X14), registers (X10QBi) | range checks, duty conversion, `start`, `end` | truncation, zones out of range, a preparation the board has forgotten | a level reads back as it was written |
| Config (`config.py`) | none | parse, validate | rules across sections, and what is left to the service | no zone has two drivers |
| Exporter, snapshot | HTTP threads | `build_snapshot` while the loop runs, requests while it exits | no lock; daemon threads | a snapshot is complete and its counters agree |
| Client (`client.py`) | none | a report from the exporter, or from the BMC and the devices | the service starts, works and exits meanwhile | what it shows was so lately, at the source it names; it ends, and changes nothing |
| Log, scripts | | messages, installation | | |

The service calls every controller in turn (`fc.run()`). A controller reads its devices
and either writes its zones itself or, when one of its zones is shared, leaves its level
in `last_level` for `_apply_fan_levels`, which writes the greatest. All writes go through
`Ipmi`, which calls the platform, which runs `ipmitool`. After the writes the loop reads the
fan mode and, after a drift, restores FULL mode and the levels of its cache. The exporter
thread reads the service's attributes without a lock. SIGTERM raises `SystemExit` wherever
the main thread is, and `atexit` calls `exit_func`.

Next to the main thread there are only the exporter's, and they only read; what makes the code hard to
test is not their number but the partner: every `ipmitool`, `smartctl` and `nvidia-smi`
call is a point where the BMC, a disk, a failure or a signal comes in.

## 2. Modules

| Module | Models | Actions |
|---|---|---|
| `ZoneControl` | the promise: a zone is only ever commanded to the greatest demand of its controllers | `Redemand`, `Serve`, `Stop` |
| `BaseController` | what the loop relies on of a controller: levels of its curve, each handed over before the next | `TakeLevel`, `HandOver`, `Leave` |
| `ServiceLoop` | the main loop, the controllers' `run()` as it sees them, the BMC | one per `ipmitool` call and one per step between them |
| `ServiceLifecycle` | `run()` up to the loop and `exit_func`, on any platform | one per call that can fail, signals anywhere |
| `FanController` | the base of the temperature-driven controllers | one per device read, the decision, the write |
| `Snapshot` | `_build_controller_entry` of the exporter thread, composed with `FanController` | one per list copied |
| `StandbyGuard` | the guard of `HdFc`, composed with disks that move by themselves | one per `smartctl` call |
| `GpuFc` | `_get_nth_temp` of `GpuFc` under `get_temp()` | one per SMI call by its outcome, and the look-up |
| `Ipmi` | the `Ipmi` object of service or client on any platform, against a BMC that boots, is reset and drifts | one per `ipmitool` command, one per sleep of the gate |
| `Platform` | the choice of the platform, and a level to a duty and back | none: operators |
| `ControlFunction` | from a section to the table of levels | `BuildLegacy`, `BuildLine`, `Digitalize` |
| `Configuration` | a file, accepted or rejected as a whole, up to the zones of the arbiter; extends `ControlFunction` | `Check`, `Construct`, and the steps of `ControlFunction` |
| `Client` | `smfc-client` beside a service made of `ZoneControl` and one handler thread | one per wait, per call that can fail, per row |
| `MC_*` | the installations TLC checks | |
| `*_proofs` | the theorems | |

**ServiceLoop.** `pc` names the place in the loop; the header of the module lists them.
`todo` holds the zones an inner loop has still to handle, in any order, which covers the
order of the list. A controller is what the loop can see of it: it polls or skips
(`SkipPoll`), keeps its level (`HoldLevel`), takes another level of its curve
(`ChangeLevel`) or raises (`SensorFails`); why it does is in `FanController`. That both speak
of the same controller is stated through `BaseController`: `FanController` implements it
(`ImplementsBaseController`), and every temperature-driven controller of the loop does
(`Base(c)`). `Deferred`
and `SharedZones` count names as `_check_shared_zones` does, so a zone repeated in one list
is shared. The BMC forgets levels when the mode changes (`MayReset`) and takes level writes
as done without effect when it is not in FULL mode (`Lands`). `cmd` and `writes` are history.

**ServiceLifecycle.** `pc` walks through `run()` in the order of the code and through
`exit_func`. A constructor, a dependency check or a call that fails leaves with its exit
code. The latch of the X14 platform is set zone by zone. `outcome` says how `exit_func` went.
`handling` stands for the handler threads of the exporter: they begin while the listener serves,
and as daemon threads nobody joins they may outlive it into `exit_func`.

**FanController.** Temperatures are integers in `1/Unit` degrees, so that the mean of a
window or of devices is exact where the test constants divide; `Degrees` rounds half to
even as Python does. `_reuse_last_temp` is two actions, since the exporter may look between
the increments of its counters.

**StandbyGuard.** Each `smartctl -i -n standby` and `smartctl -s standby,now` is a step. A
call may fail without an exception (`Glitch`), since the return code is not checked, or
raise (`Raise`). `sleepers` and `since` are history: which disks were in standby in this poll,
and how many polls ago each was last there or sent there. The exporter's copy of the states
(`snapshot.py:111`) needs no action: what it shows is what the states are at any moment.

**GpuFc.** A temperature is its age: the number of polls begun with a call due since the tool
reported it. A call gives a fresh list, or one that breaks off at some GPU, or leaves the old one
(`rocm-smi` without JSON), or does not run at all, or ends in a `TypeError` (`rocm-smi` with JSON
of another type). `CallMade` is a call that returned, at whichever GPU it came due; a poll may
begin without a call due only after a poll that made one.

**ControlFunction, Configuration.** A section is a record with the keys of all kinds, a file
a set of sections. `Check` is all of `Config()`, since the first error rejects the file and the
order is not observable. Both builders are written with exact quotients and Python's rounding;
see section 7 for the floats. `Shared` and `Deferred` are what the service makes of the zone
lists; they are the same counts of names as in `ServiceLoop`, here over files that passed.

**Ipmi.** Time is counted in sleeps of 5 s. The board has three stages: down, booting (the
command interface answers, fan levels are ignored), settled. `manual` holds what is under
manual control, zones on the X14 and registers on the X10QBi, and a reset or a drift takes it
away at any moment. `Programmed`, `Obeys`, `Written` and `Released` say what the board does
with a command, and are external; everything that decides which command comes next is from the
code. The caller and the platform are chosen in `Init`, so that one run covers service and client on
all four platforms.

**Client.** Of a report one cell is followed, any of them: the level of a controller or of a
zone. `lately` remembers which values that cell had at the service and on the board since the
client was started. The service is not described again: its levels move by the actions of
`ZoneControl`, which `ServiceLoop` implements, plus the recording in `applied_levels`. The
handler is a daemon thread, so it disappears with the process in the middle of an answer; a
header it has sent before is still read.

## 3. Runs

| Run | What it asks | Bounds, and why they are enough |
|---|---|---|
| `loop_shared` | arbitration, floor of ConstFc, one write per zone, drift and recovery, `ZoneControl` refined | 3 controllers on 2 zones: one zone with three owners, one zone deferred only because of the other; two levels per curve, so that the maximum changes hands; 2 drifts and 1 caught failure, so that a recovery is interrupted and drift comes back |
| `loop_recover` | the cache, the return of levels, and that a wanted zone is served | every kind of writer once: a direct controller, one deferred by a repeated zone, a direct ConstFc; drift only away from FULL, no failed check |
| `loop_recovery_fails` | `service.py:280`, "will try again" | as `loop_shared`; one failure is enough |
| `life_x14` | exit level, latches, exporter, start order | 2 controllers, a hardware zone nobody configures, 2 signals: the second comes during `exit_func` |
| `life_hang` | `service.py:484` | two controllers and one signal |
| `fan` | tolerance, sensitivity, smoothing, snapshot | 2 devices, a window of 2, tolerance 1, 3 failed reads in all: one device exhausted with another failing in between; two temperatures two degrees apart, whose means hit the sensitivity and a rounding tie |
| `standby` | the guard | 3 disks and a limit of 2, so that limit, majority and all differ; 3 moves by the disks themselves and 1 silent failure |
| `gpu` | age of temperatures, tolerance in polls | 3 GPUs, tolerance 2; ages saturate above the tolerance, so the run has no bound on time |
| `configuration` | the tables, and the zones of a file | 4776 states: sections around every limit of the checks, with steps below, at and above the degrees available; one key out of order per kind; up to three sections, of one kind or two, over 5 zone lists |
| `ipmi` | when control begins, how long the gate waits, what a successful call has done, what the client may send | 2 zones and one the board lacks, 2 registers, 2 levels, a budget of 3 steps for the service and 1 for the client: both conditions of the gate can use a part of it, and be one step too late. Resets and drifts are not bounded |
| `client` | what a report shows, and that it ends | 2 controllers, one CONST, sharing one of 2 zones; 2 levels, so that every value can be stale |
| `client_fallback` | `client.py:1019`, "on any failure" | as `client` |

The three runs with `expect: violation` are in section 6. Five more configurations are kept
for replaying the other disagreements: `Life_partial.cfg`, `Life_bad_zone.cfg`, `Life_race.cfg`
(with `MC_ServiceLifecycle`), `Gpu_boot.cfg` and `Gpu_mistyped.cfg` (with `GpuFc`); TLC ends each
with a counterexample.
`Fan_base.cfg` (with `MC_FanController`) checks `ImplementsBaseController` on the sizes of `fan`.
The other half, `Base(c)` of `ServiceLoop`, has a parameter TLC does not take in a property, and
is a theorem only. No run restricts its states with a
constraint: the bounds are guards of the environment's actions. `CHECK_DEADLOCK FALSE`
stands where the process or the environment's budget really ends.

## 4. Fairness

- `ServiceLoop!FairSpec`: the loop runs (`WF` of its steps); level and mode calls eventually
  succeed or raise; SIGTERM, drift and failures need not happen. A poll happens again and
  again, because `last_time` is compared with a monotonic clock at every wake-up.
- `ServiceLifecycle!FairSpec`: the steps of `run()` and of `exit_func` happen; signals and the
  end of the loop need not.
- `Snapshot!FairSnapSpec`: the loop goes on; the exporter need not copy anything. The control
  is not gated on it.
- `StandbyGuard!FairSpec`: the guard is polled again and again; disks need not move.
- `Ipmi!FairSpec`: the constructor goes on; its `ipmitool` calls return and its sleeps end. The
  BMC owes nothing: it need not come up, and may be reset again and again.
- `Client!FairSpec`: the client goes on. Nothing is assumed of the service, which may hang with
  the connection open; what ends the client then is its own timeout.
- `GpuFc` and `Configuration` have safety properties only.

## 5. What is proved

`tlapm` checks all obligations of the eight `*_proofs` modules; the theorems hold for any
number of controllers, zones, registers, devices, disks, any curve, tolerance and budget, any value
of the bounds. Their assumptions are the `ASSUME`s of the modules, which the constructors and
`config.py` establish (lists of zones are not empty, levels are in 0..100, the level of
ConstFc is positive, `standby_hd_limit` is between 0 and the number of disks). A file is
assumed to have finitely many sections, lists of zones and of points made of numbers, and
numbers for the keys of a curve; that they are in range and in order is what `Check` does.
Every inductive invariant was checked by TLC on the sizes of the component's run before it
was proved.

The theorems about means, sums and tables need induction over lengths, and no prover here can
use an induction theorem that takes an operator. They are proved on a smallest
counterexample instead: a non-empty set of numbers has a least element (`NatMin`, from the
well-foundedness of `<`), and the least list, step or degree at which a statement fails is
contradicted by the one before it. `FoldLeft` is the sum over the set of positions in its
definition, so `SumsExist` first shows that the function it recurs through exists.

**ServiceLoop.** `HighestDemandWins` is about the command history, while the arbiter looks
at its cache and skips a zone whose entry already has the maximum. So the invariant `IInv`
has to tie three things together at every step: what `todo` still has to do (`PhaseInv`), the
cache and the commands of zones with a direct writer (`DirectInv`) and of zones of the arbiter
(`ArbiterInv`). `OneWritePerIteration` needs `WritesInv`: the writer of a zone is decided by
its owners and has not had its turn yet. From it follow `HighestDemandWins`, `CacheIsCommand`,
`OneWritePerIteration`, `EnforcementsHaveCauses`, and, step by step, that `ServiceLoop`
implements the safety part of `ZoneControl` with `demand <- lastLevel`, `command <- cmd`.
`ConstIsFloor` then comes from the refinement: a command is a greatest demand, and a ConstFc
demands its level from its constructor on. `ControllersImplementBase` is the other refinement:
whatever the arbiter, the BMC and the signals do, each controller in the loop only makes the
steps of `BaseController`.

**ServiceLifecycle.** `LifeInv` says what the start has established at each place
(`Prepared`), what holds until manual mode is released however early the exit comes (`Held`),
and what `exit_func` has done (`Leaving`). All safety properties of `life_x14` follow, and that
no request begins to be handled once the listener is gone (`RequestsEndWithListener`).

**FanController and Snapshot.** `FanInv` ties streaks, totals and cached values of all devices
together, with the one step at which the total is behind the streak; `SnapInv` adds what the
copies can say while the loop goes on. They give the tolerance and snapshot theorems.
`RunInv` is about the other half of the state: `last_temp` within the sensitivity of the
window's mean (`FollowsTemperature`, inductive with the types), and the last level on the curve
at `last_temp`, already handed over or about to be (`Commanded`). It needs `FanInv` only to
know that all devices have been read when the mean, the coldest or the hottest is taken.
With it every step of `FanController` is one of `BaseController` or invisible to the loop.

**StandbyGuard.** `GuardInv`: a state set in this poll belongs to a disk that slept in this
poll; the cardinality of the set of sleepers is what the limit is compared with. `Dated` bounds
the age of every state that says standby, for the disks the check has passed and those it has
not; `ShownStandbyAlwaysRecent` follows for copies at any moment. Between polls, and only then,
the flag agrees with the states (`FlagAlwaysAgrees`).

**GpuFc.** One failed call is paid for by several GPUs at different reads, so the age of a
temperature is not bounded by the streak of its own GPU. `GpuInv` bounds it by the streak of
the first GPU, as long as the calls fall on that one (`Young`), and every streak by the number
of polls with failures in a row (`Budget`), where the GPUs already read are ahead of the
others. They give `NeverTooOld` and `ToleratesPolls`. `Warm` says that after the first call the
list exists; with it, on a host older than one interval, the only error `get_temp()` does not
catch is the `TypeError` of a `rocm-smi` report (`UncaughtErrors`).

**Ipmi.** The invariant keeps, while the gate runs, what its two tests of the budget leave
(`waited`), and that nothing is sent before the platform exists. For `LevelsLand` it says of a
calm board what the commands sent so far have established: the units already handled are under
manual control, the zones already written have the level of the call. A reset or a drift ends
the calm, and on the X10QBi the next call begins a new one.

**Client.** The invariant says what a snapshot, once built, may contain (a value the cell had
since the client was started), what the report has so far at each place, and that the way over
`fetch` starts no subprocess. `lately` only grows, which is what lets a value be shown later
than it was read.

**Configuration and tables.** `TableInv` says what `Check` has established of the section a
controller is constructed for (`Checked`) and which table it has at each step of the builder
(`Building`). From it: tables are functions to 0..100 (`TablesTyped`, the assumption on
`LevelsLut` of `FanController`), never fall (`TablesRise`), have the configured levels at both
ends (`TablesKeepEndpoints`) and stay near the curve (`TablesStayNear`), for any range, points
and number of steps. The arithmetic under it: quotients round monotonically and by at most a
half; a staircase of `steps` gains rises because they do; a line through the points rises
between each pair and meets at the borders; the average of a plateau is between its first and
last level. Every level reads back as written, through the cut and the rounding of every
platform (`EveryLevelReadsBack`, `TablesReadBack`).

`OneDriverPerZone`: two enabled sections with a common zone survive the
duplicate check only when their kinds differ, and then the zone has two entries in the count of
the service, whatever the order and the repetitions of the lists; the proof is about the
cardinality of the set of entries.

Only model-checked: all liveness (`ModeRestored`, `LevelsRestored`, `ServesWanted`,
`ExitCompletes`, `SettlesAtTemperature`, `ParkedTogether`, `WakeNoticed`, `GateEnds`,
`Terminates`), since the provers cover neither fairness nor `ENABLED`. Every safety property
of the passing runs is a theorem. Counterexamples (section 6) are TLC's.

## 6. Where code and documentation disagree

Each of the first three is a run that TLC ends with a counterexample; the next five are
configurations to replay by hand.

1. `loop_recovery_fails`: a recovery whose `set_fan_mode` worked and whose later
   `set_fan_level` failed is not tried again, since the next check reads FULL
   (`service.py:260`); the comment at `service.py:280` says it is.
2. `life_hang`: a signal, or a thread that cannot be created, between `bind` and the start
   of the exporter's thread lets `exit_func` wait for ever in `BaseServer.shutdown()`.
3. `client_fallback`: when the service exits between the header and the end of the body,
   `resp.read()` raises `IncompleteRead`, which is none of the errors `client.py:768` catches;
   the client ends with a traceback, where `client.py:1019` says it falls back on any failure.
4. `Life_partial.cfg`: when a constructor raises, `_exit_zones` (`service.py:66`) knows the zones
   of the controllers built before it only; README.md:184-185 says all configured zones.
5. `Life_bad_zone.cfg`: a zone the board does not have passes the configuration; `end()` then
   rejects the whole list (`service.py:98`), and the zones that were controlled stay at their
   last level, unlike `service.py:76-79` says.
6. `Gpu_boot.cfg`: `smi_called = 0` (`gpufc.py:36`) is compared with a clock that starts at boot;
   a service started within `polling=` seconds of it fails with an `AttributeError`.
7. `Gpu_mistyped.cfg`: a `rocm-smi` report that is valid JSON of another type (`null`, a scalar, a
   card or a temperature that is `null`) raises `TypeError` at `gpufc.py:104-111`, which
   `get_temp()` does not catch (`fancontroller.py:211`): the service ends whatever
   `error_tolerance=` says. `ARCHITECTURE.md:618-620` says the SMI branch is covered.
8. `Life_race.cfg`: the exporter is stopped first "so no /snapshot request can race with the BMC
   access below" (`service.py:81`), but its handlers are daemon threads (`exporter.py:264`) and
   `server_close()` does not join them. A snapshot reads cached values only, so the race is
   harmless for the BMC; what a client can meet is item 3.

Seen while modelling, without a run of their own:

- `service.py:494` puts `last_level` of a controller that has not polled yet in the cache, and
  a recovery would apply it; `CacheIsCommand` is about zones that had a command.
- `genericx14.py:29-31` latches zone after zone inside `Ipmi.__init__`; when that raises, or
  when no zone is configured (`service.py:92`), nothing releases them.
- `exit_func` may write the exit level to a BMC that is not in FULL mode (exit codes 8 and 11).
- `hdfc.py:270` compares a level where `ARCHITECTURE.md:1058-1060` says "crosses": after one
  disk of a parked array wakes up, the second poll from then parks it again.
- `ARCHITECTURE.md:1219-1223` says the failure counters of all GPUs advance in lockstep. They
  do not when a report breaks off behind the first GPU (those after it fail, those before it
  do not until the next poll), when `rocm-smi` writes no JSON (the old list stays and serves
  the others), or when a missing tool appears between two GPUs.
- A snapshot can show a reused temperature with `read_errors` 0, when the device recovers
  between two copies (`snapshot.py:91-93` promises the opposite for one moment).
- The gate may sleep for 185 s: each condition tests the shared budget of 180 s
  (`ipmi.py:88-94`) before the sleep of the other. The last sleep for a BMC that does not
  answer is followed by the exception, not by another try, so a client (5 s) never retries.
- A BMC whose fans never report lets the service continue after the budget, but one `sdr`
  that fails after the fans have used up the budget is fatal.
- Any error that names `ipmitool` is taken for a BMC that is not ready, sudo's too.
- `ARCHITECTURE.md:340` says `end()` of the X10QBi is a no-op; it applies the exit level.
- The X14 is latched once, in the constructor. After a reset of the BMC the recovery restores
  FULL mode and the levels (README.md:176), but no latch.
- The docstring of `_check_shared_zones` speaks of 2+ controllers; one that repeats a zone in
  `ipmi_zone=` makes it shared too, and is deferred to the arbiter.
- `client.py:396` says the zones table has the zones of the enabled controllers; those of
  controllers that could not be constructed are missing.
- A disabled section is checked like an enabled one; a suffix that is no number is ignored
  without a message. A file `configparser` rejects ends the service with a traceback and exit
  code 1 rather than 6, and `nan` passes every check of a number.
- A legacy `max_temp` above 100 is valid, and `max_level` is then never reached.
- `ARCHITECTURE.md:1094` gives the remainder to the last plateaus; the code to the first.

## 7. Abstractions, and what is not modelled

- Time: a poll is due or not, nondeterministically. `fan_mode_delay`, `fan_level_delay` and the
  length of the sleep are left out; nothing in the code depends on them.
- `ipmitool` output is well-formed or the call raises.
- A configuration file is already split into sections and keys, and its numbers are whole.
- `ControlFunction` computes with exact quotients and whole degrees. Comparing its table with
  the Python code on all 78 accepted legacy sections of the run gives no difference; over a
  wide sweep of sections, 534 of 69540 differ by a step at a tie that floating point decides.
- `FanController` leaves out how CpuFc, NvmeFc and HdFc find and parse their device files, and
  the `smartctl` fallback of HdFc, whose errors are those of any read.
- `Ipmi.__init__` is two steps, the gate and the latches, in `ServiceLifecycle`; the commands
  of it are in `Ipmi`. The fan mode is in `ServiceLoop`, the stages of a boot in `Ipmi`, and no
  module has both.
- `Client` follows level cells; the temperature and device columns, the verbose blocks and the
  colours are formatting of values that are read in the same way. `Controllers` are the enabled
  ones, and the service's controllers are constructed before the client looks.
- Not modelled: the JSON, Prometheus and HTML formats of the exporter, `cmd.py`, `log.py`,
  packaging, scripts and dashboards. They keep no state, and what they do is a function of
  one value that a test pins down better.

## 8. Plan

Done, in this order: the loop with its abstract specification and refinement proof; start-up
and exit; one controller with the snapshot; the guard; GPUs; curves; the `Ipmi` object with the
readiness gate and the platforms; the configuration with the origin of `ZonesAssumption`; the
client; the proofs of the GPUs, of the tables and of what a controller does with its
temperatures; the controller seen from the loop. Next:

1. that the platform calls of `ServiceLifecycle` are implemented by `Ipmi`;
2. that the installation `ServiceLoop` starts from (its zones, repetitions and curves) is one an
   accepted file of `Configuration` gives, as one statement;
3. the state a guard should keep when one disk of a parked array wakes up, once the code or its
   documentation decides it (`hdfc.py:270`);
4. the device discovery of the constructors (`cpufc.py`, `nvmefc.py`, `hdfc.py`), which finds the
   files `FanController` reads.
