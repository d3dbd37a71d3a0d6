-------------------------------- MODULE Client --------------------------------
(***************************************************************************)
(* smfc-client beside a service that starts, works and exits at any        *)
(* moment: it asks the exporter for a snapshot when the configuration      *)
(* enables one (online), and asks the BMC and the devices itself otherwise *)
(* or when that fails.  The service is the one of ZoneControl, plus the    *)
(* levels it records (applied_levels) and one handler thread of the        *)
(* exporter, which is a daemon thread: it dies with the process.           *)
(*                                                                         *)
(*   config fetch   the configuration is read, the exporter is connected   *)
(*   wait body      the client waits for the header, then for the body     *)
(*   ipmi udev      the Ipmi object (see Ipmi.tla) and the udev context    *)
(*   build          the controllers are constructed, one after another     *)
(*   rows zones     the level cells of the two tables are read             *)
(*   done           the client has left with `code`                        *)
(*                                                                         *)
(* One cell of the report, whichever it is, is followed: the level in the  *)
(* row of a controller, or the level of a zone.                            *)
(***************************************************************************)
EXTENDS Integers

CONSTANTS
  Controllers,  \* the enabled controllers
  Consts,       \* the CONST controllers among them
  Zones, ZonesOf, FirstZone,
  Levels

ASSUME ClientAssumption ==
  /\ Consts \subseteq Controllers
  /\ ZonesOf \in [Controllers -> SUBSET Zones]
  /\ FirstZone \in [Controllers -> Zones]
  /\ \A c \in Controllers : FirstZone[c] \in ZonesOf[c]
  /\ Levels \subseteq Nat

VARIABLES
  service,  \* starting, running, closing (the exporter is stopped), gone
  last,     \* last[c]: last_level of controller c
  board,    \* board[z]: the level of zone z
  applied,  \* applied_levels[z]
  answer,   \* the handler: none, asked, built, header, body, refused; or it died before
            \* (cut) or after it sent the header (broken)
  copied,   \* the cell in the snapshot that was built last
  online,   \* [Exporter] is enabled and -s was not given
  pc,
  todo,     \* controllers or zones still to handle
  failed,   \* controllers that could not be constructed
  spawned,  \* a subprocess was started
  source,   \* none, service, bmc
  cell,     \* the cell that is followed
  shown,    \* what the report says in it
  code,     \* the exit code; 1 is a traceback
  lately    \* history: lately[s]: values the cell had at source s since the start

loopVars == <<service, last, board, applied>>
clientVars == <<online, pc, todo, failed, spawned, source, shown, code>>
vars == <<service, last, board, applied, answer, copied, online, pc, todo, failed,
          spawned, source, cell, shown, code, lately>>

NoLevel == -1   \* the zone is not in the table
Error == -2     \* the cell reads ERROR
Blank == -3     \* nothing was reported

Loop == INSTANCE ZoneControl WITH demand <- last, command <- board,
                                  up <- (service = "running")

Cells == [of : {"controller"}, at : Controllers] \cup [of : {"zone"}, at : Zones]

\* What the client finds for the row of a controller
RowLevel(c) == IF c \in Consts THEN last[c] ELSE board[FirstZone[c]]

\* The followed cell as the service holds it, and as the board has it
AtService == IF cell.of = "controller" THEN last[cell.at] ELSE applied[cell.at]
AtBoard == IF cell.of = "controller" THEN RowLevel(cell.at) ELSE board[cell.at]

\* Every step of the system: what the cell is now has been so lately.
Remember ==
  /\ UNCHANGED cell
  /\ lately' = [service |-> lately.service \cup {AtService'}, bmc |-> lately.bmc \cup {AtBoard'}]

-----------------------------------------------------------------------------
(* The service.                                                            *)

\* The exporter is started before the loop, and stopped before the exit level.  At the
\* end of the process its threads are gone; what they have sent can still be read.
ServiceMoves ==
  /\ \/ service = "starting" /\ service' = "running"
     \/ service = "running" /\ service' \in {"closing", "gone"}
     \/ service \in {"starting", "closing"} /\ service' = "gone"
  /\ answer' = IF service' # "gone" THEN answer
               ELSE IF answer \in {"asked", "built"} THEN "cut"
               ELSE IF answer = "header" THEN "broken" ELSE answer
  /\ UNCHANGED <<last, board, applied, copied, clientVars>>

LoopStep ==
  /\ service' = service
  /\ \/ \E c \in Controllers \ Consts : Loop!Redemand(c) /\ UNCHANGED applied
     \/ \E z \in Zones : Loop!Serve(z) /\ UNCHANGED applied
     \/ /\ service = "running"     \* a level is recorded after it was written
        /\ \E z \in Zones : applied' = [applied EXCEPT ![z] = board[z]]
        /\ UNCHANGED <<last, board>>
  /\ UNCHANGED <<answer, copied, clientVars>>

\* Mutant of Build: a snapshot is kept for the next request.
BuildOnce ==
  /\ answer = "asked" /\ answer' = "built"
  /\ UNCHANGED <<loopVars, copied, clientVars>>

\* build_snapshot, which may raise: the answer is then a 500.
Build ==
  /\ answer = "asked"
  /\ \/ answer' = "built" /\ copied' = AtService
     \/ answer' = "refused" /\ UNCHANGED copied
  /\ UNCHANGED <<loopVars, clientVars>>

\* _send writes the header and then the body.
Send ==
  /\ \/ answer = "built" /\ answer' = "header"
     \/ answer = "header" /\ answer' = "body"
  /\ UNCHANGED <<loopVars, copied, clientVars>>

-----------------------------------------------------------------------------
(* The client.                                                             *)

Leave(c) == pc' = "done" /\ code' = c

\* An unreadable file is not always one of the errors the client expects.
ReadConfig ==
  /\ pc = "config"
  /\ \/ pc' = (IF online THEN "fetch" ELSE "ipmi") /\ UNCHANGED code
     \/ \E c \in {1, 6} : Leave(c)
  /\ UNCHANGED <<loopVars, answer, copied, online, todo, failed, spawned, source, shown>>

\* A service need not have an exporter (the port may have been in use).  From bind() to
\* server_close() a connection is accepted, also when nobody is going to answer.
Connect ==
  /\ pc = "fetch"
  /\ \/ service # "gone" /\ answer' = "asked" /\ pc' = "wait"
     \/ pc' = "ipmi" /\ UNCHANGED answer
  /\ UNCHANGED <<loopVars, copied, online, todo, failed, spawned, source, shown, code>>

Receive ==
  /\ pc = "wait"
  /\ \/ answer \in {"header", "body", "broken"} /\ pc' = "body"
     \/ answer \in {"refused", "cut"} /\ pc' = "ipmi"
  /\ UNCHANGED <<loopVars, answer, copied, online, todo, failed, spawned, source, shown, code>>

\* Mutant of TimesOut: urlopen() without a timeout.
NeverTimesOut == FALSE /\ UNCHANGED vars

\* SNAPSHOT_FETCH_TIMEOUT bounds every wait for the socket.
TimesOut ==
  /\ \/ pc = "wait" /\ answer \in {"asked", "built"}
     \/ pc = "body" /\ answer = "header"
  /\ pc' = "ipmi"
  /\ UNCHANGED <<loopVars, answer, copied, online, todo, failed, spawned, source, shown, code>>

\* The tables of the report from a snapshot: the level a controller asked for (of a
\* CONST: its configured one), and the level applied to a zone, if there was one.
OnlineRow == cell.of = "controller" /\ shown' = copied
OnlineZone == cell.of = "zone" /\ shown' = copied

\* resp.read().  A body that ends early raises IncompleteRead, an HTTPException, which
\* is none of the errors _try_fetch_snapshot catches.
ReadBody ==
  /\ pc = "body"
  /\ \/ answer = "body" /\ source' = "service" /\ (OnlineRow \/ OnlineZone) /\ Leave(0)
     \/ answer = "broken" /\ Leave(1) /\ UNCHANGED <<source, shown>>
  /\ UNCHANGED <<loopVars, answer, copied, online, todo, failed, spawned>>

OpenIpmi ==
  /\ pc = "ipmi"
  /\ spawned' = TRUE
  /\ \/ pc' = "udev" /\ UNCHANGED code
     \/ Leave(8)
  /\ UNCHANGED <<loopVars, answer, copied, online, todo, failed, source, shown>>

OpenUdev ==
  /\ pc = "udev"
  /\ \/ pc' = "build" /\ todo' = Controllers /\ UNCHANGED code
     \/ Leave(9) /\ UNCHANGED todo
  /\ UNCHANGED <<loopVars, answer, copied, online, failed, spawned, source, shown>>

\* The next item of a list; after the last one the next list is taken up.
Take(x, next, rest) ==
  /\ x \in todo
  /\ IF todo = {x} THEN pc' = next /\ todo' = rest ELSE todo' = todo \ {x} /\ UNCHANGED pc

\* Mutant of Construct: the first failure ends the list.
ConstructUntil ==
  /\ pc = "build"
  /\ \E c \in todo :
       \/ Take(c, "rows", Controllers \ failed) /\ UNCHANGED failed
       \/ failed' = failed \cup {c} /\ todo' = Controllers \ todo /\ pc' = "rows"
  /\ UNCHANGED <<loopVars, answer, copied, online, spawned, source, shown, code>>

Construct ==
  /\ pc = "build"
  /\ \E c \in todo :
       /\ failed' \in {failed, failed \cup {c}}
       /\ Take(c, "rows", Controllers \ failed')
  /\ UNCHANGED <<loopVars, answer, copied, online, spawned, source, shown, code>>

\* The row of a controller: the configured level of a CONST; what the BMC says of the
\* first zone, or that it failed, for another; an ERROR when it was not constructed.
ShowRow(c) ==
  shown' \in IF cell # [of |-> "controller", at |-> c] THEN {shown}
            ELSE IF c \in Consts THEN {RowLevel(c)} ELSE {RowLevel(c), Error}

ShowRows ==
  /\ pc = "rows"
  /\ \/ \E c \in todo : ShowRow(c) /\ todo' = todo \ {c} /\ UNCHANGED pc
     \/ /\ todo = {}
        /\ shown' = IF cell.of = "controller" /\ cell.at \in failed THEN Error ELSE shown
        /\ todo' = UNION {ZonesOf[c] : c \in Controllers \ failed} /\ pc' = "zones"
  /\ UNCHANGED <<loopVars, answer, copied, online, failed, spawned, source, code>>

\* The table of the zones of the controllers that were constructed
ShowZone(z) == shown' \in IF cell = [of |-> "zone", at |-> z] THEN {board[z], Error} ELSE {shown}

ShowZones ==
  /\ pc = "zones"
  /\ \/ /\ \E z \in todo : ShowZone(z) /\ todo' = todo \ {z}
        /\ UNCHANGED <<pc, source, code>>
     \/ todo = {} /\ source' = "bmc" /\ Leave(0) /\ UNCHANGED <<todo, shown>>
  /\ UNCHANGED <<loopVars, answer, copied, online, failed, spawned>>

-----------------------------------------------------------------------------

Init ==
  /\ service \in {"starting", "running", "gone"}
  /\ last \in [Controllers -> Levels] /\ board \in [Zones -> Levels]
  /\ applied \in {board, [z \in Zones |-> NoLevel]}
  /\ answer = "none" /\ copied = NoLevel
  /\ online \in BOOLEAN /\ pc = "config"
  /\ todo = {} /\ failed = {} /\ spawned = FALSE /\ source = "none" /\ code = 0
  /\ cell \in Cells /\ shown = Blank
  /\ lately = [service |-> {AtService}, bmc |-> {AtBoard}]

\* What the service does after the client has left is not followed.
Service == pc # "done" /\ (ServiceMoves \/ LoopStep \/ Build \/ Send)

ClientStep ==
  \/ ReadConfig \/ Connect \/ Receive \/ TimesOut \/ ReadBody
  \/ OpenIpmi \/ OpenUdev \/ Construct \/ ShowRows \/ ShowZones

Next == (Service \/ ClientStep) /\ Remember

Spec == Init /\ [][Next]_vars

\* The client runs, and its subprocesses return.  The service owes it nothing.
FairSpec == Spec /\ WF_vars(ClientStep /\ Remember)

-----------------------------------------------------------------------------
(* Properties.                                                             *)

TypeOK ==
  /\ service \in {"starting", "running", "closing", "gone"}
  /\ last \in [Controllers -> Levels] /\ board \in [Zones -> Levels]
  /\ applied \in [Zones -> Levels \cup {NoLevel}]
  /\ answer \in {"none", "asked", "built", "header", "body", "refused", "cut", "broken"}
  /\ copied \in Levels \cup {NoLevel}
  /\ online \in BOOLEAN /\ spawned \in BOOLEAN
  /\ pc \in {"config", "fetch", "wait", "body", "ipmi", "udev", "build", "rows", "zones", "done"}
  /\ todo \subseteq Controllers \cup Zones /\ failed \subseteq Controllers
  /\ source \in {"none", "service", "bmc"} /\ code \in {0, 1, 6, 8, 9}
  /\ cell \in Cells
  /\ shown \in Levels \cup {NoLevel, Error, Blank}
  /\ lately \in [{"service", "bmc"} -> SUBSET (Levels \cup {NoLevel})]

\* client.py:776: a report from a snapshot costs no subprocess at all, whatever was
\* tried before it.
OnlineAsksNobody == source = "service" => ~spawned

\* Every level of a report was the level of that controller or zone, at the source the
\* report names, at some moment since the client was started; and an ERROR can only
\* come from the BMC.
Recent ==
  source # "none" /\ shown # Blank =>
    \/ shown \in lately[source]
    \/ source = "bmc" /\ shown = Error

\* A controller that cannot be constructed does not abort the report: the others still
\* have their row, and their zones are in the table.
FailuresStayLocal ==
  source = "bmc" /\ shown = Blank =>
    /\ cell.of = "zone"
    /\ \A c \in Controllers : cell.at \in ZonesOf[c] => c \in failed

\* Nothing the service does, hanging included, keeps the client from leaving.
Terminates == <>(pc = "done")

\* client.py:1019: on any failure of the fetch the client transparently falls back to
\* the standalone path; nothing the service does ends it with a traceback.
AnyFailureFallsBack == answer # "none" => code # 1
=============================================================================
