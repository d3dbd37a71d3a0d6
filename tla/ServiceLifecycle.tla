--------------------------- MODULE ServiceLifecycle ---------------------------
(***************************************************************************)
(* Service.run() from its first line to its main loop, and the way out:    *)
(* exit_func(), which atexit calls when run() ends by SystemExit or by an  *)
(* exception.  What the loop does is in ServiceLoop; here it writes levels *)
(* to the configured zones until something ends it.  A signal may come     *)
(* between any two steps, also while exit_func runs.                       *)
(*                                                                         *)
(* pc walks through the start in the order of the code                     *)
(*   args register signal log config deps gate latch ipmi readMode setFull *)
(*   udev build bind thread loop                                           *)
(* and through exit_func as stop (the exporter), resolve (the zones),      *)
(* apply (the exit level), release (manual mode), gone.                    *)
(***************************************************************************)
EXTENDS Integers

CONSTANTS
  N,            \* number of enabled controllers
  Zones,        \* IPMI zones a configuration can name
  HwZones,      \* the zones the platform accepts
  ZonesOf,      \* ZonesOf[c]: the zones of controller c
  HasLatch,     \* the platform has a manual mode to latch (GenericX14Platform)
  HasExitLevel, \* exit_level # -1
  HasExporter,  \* [Exporter] enabled
  MaxSignals    \* bound: SIGTERM and SIGINT received

Controllers == 1..N

ASSUME SizeAssumption == N \in Nat /\ MaxSignals \in Nat
ASSUME ZonesAssumption ==
  /\ HwZones \subseteq Zones
  /\ ZonesOf \in [Controllers -> SUBSET Zones]
ASSUME FlagsAssumption ==
  /\ HasLatch \in BOOLEAN
  /\ HasExitLevel \in BOOLEAN
  /\ HasExporter \in BOOLEAN

VARIABLES
  pc,        \* where the process is
  ipmi,      \* self.ipmi exists
  built,     \* length of self.controllers
  server,    \* the exporter: none, bound (a socket, no thread yet) or serving
  handling,  \* a handler thread of the exporter is at work on a request
  todo,      \* zones the current loop over zones has still to handle
  code,      \* exit status, -1 while undecided
  outcome,   \* how exit_func went: none yet, done, skipped, rejected
             \* (ValueError), failed (a call failed), aborted (a signal), killed
  signals,   \* signals received
  full,      \* the BMC is in FULL mode
  latched,   \* zones whose manual mode is latched
  level,     \* level[z]: old (before smfc), run (set by the loop), exit
  touched    \* history: zones the loop has written

procVars == <<ipmi, built, server, handling>>
bmcVars == <<full, latched, level, touched>>
vars == <<pc, ipmi, built, server, handling, todo, code, outcome, signals, full, latched, level, touched>>

Starting == {"args", "register", "signal", "log", "config", "deps", "gate", "latch", "ipmi",
             "readMode", "setFull", "udev", "build", "bind", "thread", "loop"}
Exiting == {"stop", "resolve", "apply", "release"}

Configured == UNION {ZonesOf[c] : c \in Controllers}

\* Mutant of ExitZones: the last controller is forgotten.
ExitZonesShort == UNION {ZonesOf[c] : c \in 1..(built - 1)}

\* Mutant of ExitZones: the exit level goes to every zone the hardware has.
ExitZonesAll == HwZones

\* _exit_zones: the zones of the controllers that exist; the configuration is
\* only consulted when they have none.
ExitZones ==
  LET owned == UNION {ZonesOf[c] : c \in 1..built}
  IN  IF owned # {} THEN owned ELSE Configured

-----------------------------------------------------------------------------
(* Start-up.                                                               *)

Goto(from, to) == pc = from /\ pc' = to

\* SystemExit or an exception leaves run(); the interpreter calls exit_func.
Leave(c) == pc' = "stop" /\ code' = c /\ UNCHANGED <<todo, outcome, signals>>

Quiet == UNCHANGED <<code, outcome, signals>>

\* The process ends without exit_func.
Vanish(c) ==
  /\ pc' = "gone" /\ code' = c /\ outcome' = "killed"
  /\ UNCHANGED <<todo, procVars, bmcVars>>

\* --help and --version exit with 0, a bad option with 2, before the registration.
ParseArgs ==
  \/ Goto("args", "register") /\ Quiet /\ UNCHANGED <<todo, procVars, bmcVars>>
  \/ pc = "args" /\ (\E c \in {0, 2} : Vanish(c)) /\ UNCHANGED signals

\* atexit.register, then signal.signal
Register ==
  /\ Goto("register", "signal") \/ Goto("signal", "log")
  /\ Quiet /\ UNCHANGED <<todo, procVars, bmcVars>>

\* Log, Config and check_dependencies, or the exit code of their failure
CreateLog ==
  /\ \/ Goto("log", "config") /\ Quiet /\ UNCHANGED todo
     \/ pc = "log" /\ Leave(5)
  /\ UNCHANGED <<procVars, bmcVars>>

\* What configparser itself rejects (a key before the first section, a section twice) is
\* no ValueError: it ends the service with a traceback.
LoadConfig ==
  /\ \/ Goto("config", "deps") /\ Quiet /\ UNCHANGED todo
     \/ pc = "config" /\ \E c \in {1, 6} : Leave(c)
  /\ UNCHANGED <<procVars, bmcVars>>

CheckDependencies ==
  /\ \/ Goto("deps", "gate") /\ Quiet /\ UNCHANGED todo
     \/ pc = "deps" /\ Leave(7)
  /\ UNCHANGED <<procVars, bmcVars>>

\* Ipmi.__init__ up to platform.start()
PassGate ==
  /\ \/ /\ Goto("gate", IF HasLatch THEN "latch" ELSE "ipmi")
        /\ todo' = (IF HasLatch THEN HwZones ELSE {}) /\ Quiet
     \/ pc = "gate" /\ Leave(8)
  /\ UNCHANGED <<procVars, bmcVars>>

\* GenericX14Platform.start()
Latch ==
  /\ pc = "latch"
  /\ \/ /\ todo # {} /\ Quiet /\ UNCHANGED pc
        /\ \E z \in todo : latched' = latched \cup {z} /\ todo' = todo \ {z}
     \/ /\ todo = {} /\ pc' = "ipmi" /\ Quiet /\ UNCHANGED <<todo, latched>>
     \/ /\ todo # {} /\ Leave(8)
        /\ \E z \in todo : latched' \in {latched, latched \cup {z}}
  /\ UNCHANGED <<procVars, full, level, touched>>

\* The constructor has returned.
AssignIpmi ==
  /\ Goto("ipmi", "readMode")
  /\ ipmi' = TRUE
  /\ Quiet /\ UNCHANGED <<built, server, handling, todo, bmcVars>>

ReadMode ==
  /\ \/ Goto("readMode", "setFull") /\ Quiet /\ UNCHANGED todo
     \/ pc = "readMode" /\ Leave(8)
  /\ UNCHANGED <<procVars, bmcVars>>

\* Mutant of SetFull: the mode is left as it was found.
SetNothing ==
  /\ Goto("setFull", "udev") /\ Quiet /\ UNCHANGED <<todo, full>>
  /\ UNCHANGED <<procVars, latched, level, touched>>

\* FULL is set unless it was read.  This call and the reads of the debug log
\* are outside of any handler.
SetFull ==
  /\ \/ Goto("setFull", "udev") /\ full' = TRUE /\ Quiet /\ UNCHANGED todo
     \/ pc = "setFull" /\ full' \in {full, TRUE} /\ Leave(1)
  /\ UNCHANGED <<procVars, latched, level, touched>>

\* Mutant of OpenUdev: the exporter is started before the controllers exist.
OpenUdevAndServe ==
  /\ Goto("udev", "build") /\ Quiet
  /\ server' = IF HasExporter THEN "serving" ELSE "none"
  /\ UNCHANGED <<todo, ipmi, built, handling, bmcVars>>

OpenUdev ==
  /\ \/ Goto("udev", "build") /\ Quiet /\ UNCHANGED todo
     \/ pc = "udev" /\ Leave(9)
  /\ UNCHANGED <<procVars, bmcVars>>

\* The constructor of one controller; it may raise.  With none enabled run()
\* exits with 10.
BuildController ==
  /\ pc = "build"
  /\ \/ built < N /\ built' = built + 1 /\ Quiet /\ UNCHANGED <<pc, todo>>
     \/ built < N /\ Leave(1) /\ UNCHANGED built
     \/ built = N /\ UNCHANGED built
        /\ IF N = 0 THEN Leave(10)
           ELSE pc' = (IF HasExporter THEN "bind" ELSE "loop") /\ Quiet /\ UNCHANGED todo
  /\ UNCHANGED <<ipmi, server, handling, bmcVars>>

\* Exporter.start(): an OSError is tolerated ...
Bind ==
  /\ \/ Goto("bind", "thread") /\ server' = "bound"
     \/ Goto("bind", "loop") /\ UNCHANGED server
  /\ Quiet /\ UNCHANGED <<todo, ipmi, built, handling, bmcVars>>

\* ... a thread that cannot be created is a RuntimeError, which is not.
StartThread ==
  /\ \/ Goto("thread", "loop") /\ server' = "serving" /\ Quiet /\ UNCHANGED todo
     \/ pc = "thread" /\ Leave(1) /\ UNCHANGED server
  /\ UNCHANGED <<ipmi, built, handling, bmcVars>>

-----------------------------------------------------------------------------
(* The exporter beside the main thread.                                    *)

Handle(to) ==
  /\ handling' = to
  /\ UNCHANGED <<pc, ipmi, built, server, todo, code, outcome, signals, bmcVars>>

\* serve_forever() accepts a connection and starts a handler thread for it.
BeginRequest == server = "serving" /\ pc # "gone" /\ ~handling /\ Handle(TRUE)

\* The last handler at work has answered, or has died with the process.
EndRequest == handling /\ Handle(FALSE)

-----------------------------------------------------------------------------
(* The main loop.                                                          *)

\* Where the manual mode has to be latched, a level write needs it.
Accepts(z) == ~HasLatch \/ z \in latched

\* A controller or the arbiter writes a zone.
LoopWrite ==
  /\ pc = "loop"
  /\ \E z \in Configured \cap HwZones :
       /\ level' = [level EXCEPT ![z] = IF Accepts(z) THEN "run" ELSE @]
       /\ touched' = touched \cup {z}
  /\ Quiet /\ UNCHANGED <<pc, procVars, todo, full, latched>>

\* An uncaught exception (a failing call, a zone the platform does not have), or
\* the fan mode has drifted and is not enforced.
LoopEnds ==
  /\ pc = "loop"
  /\ \/ Leave(1) /\ UNCHANGED full
     \/ Leave(11) /\ full' = FALSE
  /\ UNCHANGED <<procVars, latched, level, touched>>

-----------------------------------------------------------------------------
(* exit_func.                                                              *)

Finish(how) == pc' = "gone" /\ outcome' = how /\ UNCHANGED <<code, signals>>

\* Mutant of StopExporter: a server that never came up is waited for as well.
StopBlindly ==
  /\ Goto("stop", "resolve")
  /\ server = "serving"
  /\ server' = "none"
  /\ Quiet /\ UNCHANGED <<todo, ipmi, built, handling, bmcVars>>

\* Exporter.stop(): without a server it returns; BaseServer.shutdown() waits for
\* serve_forever() to end, for ever if no thread has ever run it.  The handlers are
\* daemon threads, which server_close() does not join: they go on.
StopExporter ==
  /\ Goto("stop", "resolve")
  /\ server # "bound"
  /\ server' = "none"
  /\ Quiet /\ UNCHANGED <<todo, ipmi, built, handling, bmcVars>>

\* Platform.end() checks the range of all zones before it writes the first.
ResolveZones ==
  /\ pc = "resolve"
  /\ IF ~ipmi \/ ~HasExitLevel \/ ExitZones = {}
     THEN Finish("skipped") /\ UNCHANGED todo
     ELSE IF ExitZones \subseteq HwZones
          THEN pc' = "apply" /\ todo' = ExitZones /\ Quiet
          ELSE Finish("rejected") /\ UNCHANGED todo
  /\ UNCHANGED <<procVars, bmcVars>>

\* Mutant of ApplyExitLevel: manual mode is released for the written zones only.
ApplyAndForget ==
  /\ pc = "apply"
  /\ \E z \in todo :
       /\ level' = [level EXCEPT ![z] = IF Accepts(z) THEN "exit" ELSE @]
       /\ todo' = todo \ {z}
       /\ latched' = latched \ {z}
       /\ IF todo = {z} THEN Finish("done") ELSE UNCHANGED pc /\ Quiet
  /\ UNCHANGED <<procVars, full, touched>>

\* set_multiple_fan_levels, then the loop that releases manual mode is entered.
ApplyExitLevel ==
  /\ pc = "apply"
  /\ \E z \in todo :
       /\ level' = [level EXCEPT ![z] = IF Accepts(z) THEN "exit" ELSE @]
       /\ \/ todo # {z} /\ todo' = todo \ {z} /\ UNCHANGED pc /\ Quiet
          \/ todo = {z} /\ IF HasLatch THEN todo' = HwZones /\ pc' = "release" /\ Quiet
                                       ELSE todo' = {} /\ Finish("done")
  /\ UNCHANGED <<procVars, full, latched, touched>>

ApplyExitFails ==
  /\ pc = "apply"
  /\ \E z \in todo : level' \in {level, [level EXCEPT ![z] = IF Accepts(z) THEN "exit" ELSE @]}
  /\ Finish("failed")
  /\ UNCHANGED <<todo, procVars, full, latched, touched>>

\* GenericX14Platform.end(), its second loop
Release ==
  /\ pc = "release"
  /\ \E z \in todo :
       /\ latched' = latched \ {z}
       /\ todo' = todo \ {z}
       /\ IF todo = {z} THEN Finish("done") ELSE UNCHANGED pc /\ Quiet
  /\ UNCHANGED <<procVars, full, level, touched>>

ReleaseFails ==
  /\ pc = "release"
  /\ \E z \in todo : latched' \in {latched, latched \ {z}}
  /\ Finish("failed")
  /\ UNCHANGED <<todo, procVars, full, level, touched>>

-----------------------------------------------------------------------------
(* Signals.                                                                *)

\* The default action of SIGTERM until signal.signal, and the KeyboardInterrupt
\* of SIGINT until atexit.register, end the process without exit_func.
EarlySignal ==
  /\ signals < MaxSignals
  /\ signals' = signals + 1
  /\ \/ pc \in {"args", "register", "signal"} /\ Vanish(143)
     \/ pc \in {"args", "register"} /\ Vanish(130)

\* SystemExit or KeyboardInterrupt comes out of run().
LateSignal ==
  /\ signals < MaxSignals
  /\ signals' = signals + 1
  /\ \/ pc \in Starting \ {"args", "register", "signal"} /\ code' = 0
     \/ pc \in Starting \ {"args", "register"} /\ code' = 130
  /\ pc' = "stop"
  /\ UNCHANGED <<todo, outcome, procVars, bmcVars>>

\* ... or out of exit_func, whose handlers catch Exception only.
SignalInExit ==
  /\ pc \in Exiting
  /\ signals < MaxSignals
  /\ signals' = signals + 1
  /\ pc' = "gone"
  /\ outcome' = "aborted"
  /\ UNCHANGED <<todo, code, procVars, bmcVars>>

-----------------------------------------------------------------------------

Init ==
  /\ pc = "args"
  /\ ipmi = FALSE /\ built = 0 /\ server = "none" /\ handling = FALSE
  /\ todo = {} /\ code = -1 /\ outcome = "none" /\ signals = 0
  /\ full \in BOOLEAN
  /\ latched = {}
  /\ level = [z \in Zones |-> "old"]
  /\ touched = {}

Start ==
  \/ ParseArgs \/ Register \/ CreateLog \/ LoadConfig \/ CheckDependencies
  \/ PassGate \/ Latch \/ AssignIpmi \/ ReadMode \/ SetFull \/ OpenUdev
  \/ BuildController \/ Bind \/ StartThread

ExitFunc ==
  \/ StopExporter \/ ResolveZones \/ ApplyExitLevel \/ ApplyExitFails
  \/ Release \/ ReleaseFails

Signal == EarlySignal \/ LateSignal \/ SignalInExit

Next == Start \/ BeginRequest \/ EndRequest \/ LoopWrite \/ LoopEnds \/ ExitFunc \/ Signal

Spec == Init /\ [][Next]_vars

\* The interpreter runs, and ipmitool calls return; signals need not come.
FairSpec == Spec /\ WF_vars(Start) /\ WF_vars(ExitFunc)

-----------------------------------------------------------------------------
(* Properties.                                                             *)

TypeOK ==
  /\ pc \in Starting \cup Exiting \cup {"gone"}
  /\ ipmi \in BOOLEAN
  /\ built \in 0..N
  /\ server \in {"none", "bound", "serving"}
  /\ handling \in BOOLEAN
  /\ todo \in SUBSET Zones
  /\ code \in {-1, 0, 1, 2, 5, 6, 7, 8, 9, 10, 11, 130, 143}
  /\ outcome \in {"none", "done", "skipped", "rejected", "failed", "aborted", "killed"}
  /\ signals \in 0..MaxSignals
  /\ full \in BOOLEAN
  /\ latched \in SUBSET Zones
  /\ level \in [Zones -> {"old", "run", "exit"}]
  /\ touched \in SUBSET Zones

\* README 1.6: a zone smfc has controlled is not left frozen at its last level:
\* when exit_func has gone through, every zone the loop ever wrote has the exit
\* level, in whatever state of the service the exit began.
ExitLevelReachesTouched == outcome = "done" => \A z \in touched : level[z] = "exit"

\* _exit_zones: levels only ever go to zones of the configuration, even when the
\* platform has more and the exit comes before the controllers.
OnlyConfiguredZones == \A z \in Zones \ Configured : level[z] = "old"

\* genericx14.py:29-31: manual mode is latched on every zone of the hardware, the
\* exit level goes to the configured ones, and nothing is left latched.
ReleasedAfterEnd == outcome = "done" => latched = {}

\* The loop never starts on a BMC that is not in FULL mode or not latched.
ControlStartsPrepared ==
  [][pc # "loop" /\ pc' = "loop" => full' /\ (HasLatch => latched' = HwZones)]_vars

\* A snapshot request reads attributes the service must already have, and still has in
\* exit_func, where a handler may be at work on it.
SnapshotReady == server = "serving" \/ handling => ipmi /\ built = N /\ N > 0

\* service.py:81-86: once the exporter has been stopped nobody listens, and no request
\* begins to be handled while exit_func uses the BMC; one that had begun may go on.
NoRequestBegins ==
  [][~handling /\ handling' => pc \notin {"resolve", "apply", "release"}]_vars

\* Once exit_func is entered the process ends, unless its exporter has a socket
\* and no thread (StopEnds is about that).
ExitCompletes == (pc \in Exiting /\ server # "bound") ~> pc = "gone"

\* Disagrees with the code.  README 1.6: the exit level is applied to all
\* configured zones on every error exit; here, when the calls of exit_func itself
\* worked and no second signal came.
AllZonesAtExitLevel == outcome = "done" => \A z \in Configured : level[z] = "exit"

\* Disagrees with the code.  service.py:484: fan control is not gated on the
\* listener; so a signal ends the service whatever the exporter is doing.
StopEnds == signals > 0 ~> pc = "gone"

\* Disagrees with the code.  service.py:81: the exporter is stopped first "so no /snapshot
\* request can race with the BMC access below".
NoRequestDuringExit == pc \in {"apply", "release"} => ~handling

\* Disagrees with the code.  service.py:78: the exit level is applied to avoid
\* overheating, so no zone stays at its last level when all calls work.
NoZoneLeftRunning ==
  HasExitLevel /\ pc = "gone" /\ outcome \in {"done", "rejected"}
    => \A z \in touched : level[z] # "run"

-----------------------------------------------------------------------------
(* The inductive invariant.                                                *)

\* What the start has established by the time it gets to pc.
Prepared ==
  /\ pc \in {"args", "register", "signal", "log", "config", "deps", "gate"} => latched = {}
  /\ pc = "latch" => HasLatch /\ todo \subseteq HwZones /\ latched = HwZones \ todo
  /\ pc \in {"ipmi", "readMode", "setFull", "udev", "build", "bind", "thread", "loop"}
       => (HasLatch => latched = HwZones)
  /\ pc \in {"readMode", "setFull", "udev", "build", "bind", "thread", "loop"} => ipmi
  /\ pc \in {"udev", "build", "bind", "thread", "loop"} => full
  /\ pc \in {"bind", "thread", "loop"} => built = N /\ N > 0
  /\ server # "none" \/ handling => ipmi /\ built = N /\ N > 0

\* What holds until manual mode is released, however early the exit comes.
Held ==
  /\ ~HasLatch => latched = {}
  /\ ipmi /\ HasLatch /\ pc \notin {"release", "gone"} => latched = HwZones
  /\ touched # {} => ipmi /\ built = N
  /\ touched \subseteq Configured \cap HwZones
  /\ \A z \in Zones : level[z] # "old" => z \in Configured

\* What exit_func has done by the time it gets to pc.
Leaving ==
  /\ pc \in {"resolve", "apply", "release"} => server = "none"
  /\ pc = "apply" => /\ ipmi /\ todo \subseteq Configured \cap HwZones
                     /\ \A z \in touched : z \in todo \/ level[z] = "exit"
  /\ pc = "release" => latched \subseteq todo /\ \A z \in touched : level[z] = "exit"
  /\ outcome = "done" => latched = {} /\ \A z \in touched : level[z] = "exit"
  /\ outcome # "none" <=> pc = "gone"

LifeInv == Prepared /\ Held /\ Leaving
=============================================================================
