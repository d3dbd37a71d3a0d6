----------------------------- MODULE Client_proofs -----------------------------
(***************************************************************************)
(* Proofs about Client, for every set of controllers, zones and levels.    *)
(***************************************************************************)
EXTENDS Client, TLAPS

USE ClientAssumption
USE DEF loopVars, clientVars, NoLevel, Error, Blank

\* What the cell is now has been remembered, and so has what a snapshot says of it.
NowInv ==
  /\ AtService \in lately.service /\ AtBoard \in lately.bmc
  /\ answer \in {"built", "header", "body"} => copied \in lately.service

\* A subprocess is only started on the standalone path, which no snapshot leaves.
PathInv ==
  /\ pc \in {"config", "fetch", "wait", "body"} => spawned = FALSE /\ shown = Blank
  /\ pc # "done" => source = "none"
  /\ source = "service" => spawned = FALSE /\ shown \in lately.service
  /\ source # "service" => shown \in lately.bmc \cup {Error, Blank}
  /\ pc = "body" => answer \in {"header", "body", "broken"}

\* How far the two tables have come.
TableInv ==
  /\ pc \in {"build", "rows"} => todo \subseteq Controllers
  /\ pc = "rows" /\ cell.of = "controller" => cell.at \in todo \cup failed \/ shown # Blank
  /\ pc = "zones" /\ cell.of = "controller" => shown # Blank
  /\ pc = "zones" /\ cell.of = "zone" /\ shown = Blank =>
       \/ cell.at \in todo
       \/ \A c \in Controllers : cell.at \in ZonesOf[c] => c \in failed
  /\ FailuresStayLocal

IInv == TypeOK /\ NowInv /\ PathInv /\ TableInv

LEMMA CellsTyped ==
  ASSUME cell \in Cells
  PROVE  /\ cell.of \in {"controller", "zone"}
         /\ cell = [of |-> cell.of, at |-> cell.at]
         /\ cell.of = "controller" => cell.at \in Controllers
         /\ cell.of = "zone" => cell.at \in Zones
BY DEF Cells

\* What the cell says is a level, or that the zone is not in the table.
LEMMA CellLevels ==
  ASSUME TypeOK
  PROVE  /\ AtBoard \in Levels /\ AtService \in Levels \cup {NoLevel}
         /\ \A c \in Controllers : RowLevel(c) \in Levels
         /\ \A z \in Zones : board[z] \in Levels
BY CellsTyped DEF TypeOK, AtBoard, AtService, RowLevel

LEMMA InitInv == Init => IInv
<1> SUFFICES ASSUME Init PROVE IInv
  OBVIOUS
<1>1. TypeOK
  <2>1. online \in BOOLEAN /\ spawned \in BOOLEAN
    BY DEF Init
  <2>2. applied \in [Zones -> Levels \cup {NoLevel}] /\ last \in [Controllers -> Levels]
        /\ board \in [Zones -> Levels] /\ cell \in Cells
    BY DEF Init
  <2>3. AtBoard \in Levels /\ AtService \in Levels \cup {NoLevel}
    BY <2>2, CellsTyped DEF AtBoard, AtService, RowLevel
  <2>4. lately \in [{"service", "bmc"} -> SUBSET (Levels \cup {NoLevel})]
    BY <2>3 DEF Init
  <2>5. QED
    BY <2>1, <2>2, <2>4 DEF Init, TypeOK
<1>2. NowInv
  BY DEF Init, NowInv
<1>3. PathInv /\ TableInv
  BY DEF Init, PathInv, TableInv, FailuresStayLocal
<1>4. QED
  BY <1>1, <1>2, <1>3 DEF IInv

\* The two parts of every step: the history grows, and only the service moves its state.
LEMMA History ==
  ASSUME IInv, Remember
  PROVE  /\ cell' = cell
         /\ lately.service \subseteq lately'.service /\ lately.bmc \subseteq lately'.bmc
         /\ AtService' \in lately'.service /\ AtBoard' \in lately'.bmc
BY DEF Remember

\* The types of the variables a step does not touch, and of the ones it does
LEMMA LatelyTyped ==
  ASSUME IInv, Remember, AtService' \in Levels \cup {NoLevel}, AtBoard' \in Levels
  PROVE  lately' \in [{"service", "bmc"} -> SUBSET (Levels \cup {NoLevel})]
BY DEF Remember, IInv, TypeOK

LEMMA LoopTyped ==
  ASSUME IInv, LoopStep
  PROVE  /\ last' \in [Controllers -> Levels] /\ board' \in [Zones -> Levels]
         /\ applied' \in [Zones -> Levels \cup {NoLevel}]
<1>1. \A z \in Zones : Loop!Demands(z) \subseteq Levels
  BY DEF Loop!Demands, IInv, TypeOK
<1>2. QED
  BY <1>1 DEF LoopStep, Loop!Redemand, Loop!Serve, Loop!IsTop, IInv, TypeOK

LEMMA ServiceMovesKeeps == ASSUME IInv, ServiceMoves, Remember PROVE IInv'
<1>1. TypeOK'
  <2>1. /\ service' \in {"starting", "running", "closing", "gone"}
        /\ last' \in [Controllers -> Levels] /\ board' \in [Zones -> Levels]
        /\ applied' \in [Zones -> Levels \cup {NoLevel}] /\ cell' \in Cells
    BY DEF ServiceMoves, Remember, IInv, TypeOK
  <2>2. AtBoard' \in Levels /\ AtService' \in Levels \cup {NoLevel}
    BY <2>1, CellsTyped DEF Cells, AtBoard, AtService, RowLevel
  <2>3. lately' \in [{"service", "bmc"} -> SUBSET (Levels \cup {NoLevel})]
    BY <2>2, LatelyTyped
  <2>4. online' \in BOOLEAN /\ spawned' \in BOOLEAN
    BY DEF ServiceMoves, IInv, TypeOK
  <2>5. /\ answer' \in {"none", "asked", "built", "header", "body", "refused", "cut", "broken"}
        /\ copied' \in Levels \cup {NoLevel}
        /\ pc' \in {"config", "fetch", "wait", "body", "ipmi", "udev", "build", "rows", "zones", "done"}
        /\ todo' \subseteq Controllers \cup Zones /\ failed' \subseteq Controllers
        /\ source' \in {"none", "service", "bmc"} /\ code' \in {0, 1, 6, 8, 9}
        /\ shown' \in Levels \cup {NoLevel, Error, Blank}
    BY CellLevels DEF ServiceMoves, IInv, TypeOK, TableInv
  <2>6. QED
    BY <2>1, <2>3, <2>4, <2>5 DEF TypeOK
<1>2. NowInv'
  BY History DEF ServiceMoves, IInv, NowInv
<1>3. PathInv'
  BY History, CellLevels DEF ServiceMoves, IInv, TypeOK, NowInv, PathInv
<1>4. TableInv'
  BY History, CellLevels, CellsTyped DEF ServiceMoves, IInv, TypeOK, PathInv, TableInv, FailuresStayLocal
<1>5. QED
  BY <1>1, <1>2, <1>3, <1>4 DEF IInv

LEMMA LoopStepKeeps == ASSUME IInv, LoopStep, Remember PROVE IInv'
<1>1. TypeOK'
  <2>1. /\ service' \in {"starting", "running", "closing", "gone"}
        /\ last' \in [Controllers -> Levels] /\ board' \in [Zones -> Levels]
        /\ applied' \in [Zones -> Levels \cup {NoLevel}] /\ cell' \in Cells
    BY LoopTyped DEF LoopStep, Remember, IInv, TypeOK
  <2>2. AtBoard' \in Levels /\ AtService' \in Levels \cup {NoLevel}
    BY <2>1, CellsTyped DEF Cells, AtBoard, AtService, RowLevel
  <2>3. lately' \in [{"service", "bmc"} -> SUBSET (Levels \cup {NoLevel})]
    BY <2>2, LatelyTyped
  <2>4. online' \in BOOLEAN /\ spawned' \in BOOLEAN
    BY DEF LoopStep, IInv, TypeOK
  <2>5. /\ answer' \in {"none", "asked", "built", "header", "body", "refused", "cut", "broken"}
        /\ copied' \in Levels \cup {NoLevel}
        /\ pc' \in {"config", "fetch", "wait", "body", "ipmi", "udev", "build", "rows", "zones", "done"}
        /\ todo' \subseteq Controllers \cup Zones /\ failed' \subseteq Controllers
        /\ source' \in {"none", "service", "bmc"} /\ code' \in {0, 1, 6, 8, 9}
        /\ shown' \in Levels \cup {NoLevel, Error, Blank}
    BY CellLevels DEF LoopStep, IInv, TypeOK, TableInv
  <2>6. QED
    BY <2>1, <2>3, <2>4, <2>5 DEF TypeOK
<1>2. NowInv'
  BY History DEF LoopStep, IInv, NowInv
<1>3. PathInv'
  BY History, CellLevels DEF LoopStep, IInv, TypeOK, NowInv, PathInv
<1>4. TableInv'
  BY History, CellLevels, CellsTyped DEF LoopStep, IInv, TypeOK, PathInv, TableInv, FailuresStayLocal
<1>5. QED
  BY <1>1, <1>2, <1>3, <1>4 DEF IInv

LEMMA BuildKeeps == ASSUME IInv, Build, Remember PROVE IInv'
<1>1. TypeOK'
  <2>1. /\ service' \in {"starting", "running", "closing", "gone"}
        /\ last' \in [Controllers -> Levels] /\ board' \in [Zones -> Levels]
        /\ applied' \in [Zones -> Levels \cup {NoLevel}] /\ cell' \in Cells
    BY DEF Build, Remember, IInv, TypeOK
  <2>2. AtBoard' \in Levels /\ AtService' \in Levels \cup {NoLevel}
    BY <2>1, CellsTyped DEF Cells, AtBoard, AtService, RowLevel
  <2>3. lately' \in [{"service", "bmc"} -> SUBSET (Levels \cup {NoLevel})]
    BY <2>2, LatelyTyped
  <2>4. online' \in BOOLEAN /\ spawned' \in BOOLEAN
    BY DEF Build, IInv, TypeOK
  <2>5. /\ answer' \in {"none", "asked", "built", "header", "body", "refused", "cut", "broken"}
        /\ copied' \in Levels \cup {NoLevel}
        /\ pc' \in {"config", "fetch", "wait", "body", "ipmi", "udev", "build", "rows", "zones", "done"}
        /\ todo' \subseteq Controllers \cup Zones /\ failed' \subseteq Controllers
        /\ source' \in {"none", "service", "bmc"} /\ code' \in {0, 1, 6, 8, 9}
        /\ shown' \in Levels \cup {NoLevel, Error, Blank}
    BY CellLevels DEF Build, IInv, TypeOK, TableInv
  <2>6. QED
    BY <2>1, <2>3, <2>4, <2>5 DEF TypeOK
<1>2. NowInv'
  BY History DEF Build, IInv, NowInv
<1>3. PathInv'
  BY History, CellLevels DEF Build, IInv, TypeOK, NowInv, PathInv
<1>4. TableInv'
  BY History, CellLevels, CellsTyped DEF Build, IInv, TypeOK, PathInv, TableInv, FailuresStayLocal
<1>5. QED
  BY <1>1, <1>2, <1>3, <1>4 DEF IInv

LEMMA SendKeeps == ASSUME IInv, Send, Remember PROVE IInv'
<1>1. TypeOK'
  <2>1. /\ service' \in {"starting", "running", "closing", "gone"}
        /\ last' \in [Controllers -> Levels] /\ board' \in [Zones -> Levels]
        /\ applied' \in [Zones -> Levels \cup {NoLevel}] /\ cell' \in Cells
    BY DEF Send, Remember, IInv, TypeOK
  <2>2. AtBoard' \in Levels /\ AtService' \in Levels \cup {NoLevel}
    BY <2>1, CellsTyped DEF Cells, AtBoard, AtService, RowLevel
  <2>3. lately' \in [{"service", "bmc"} -> SUBSET (Levels \cup {NoLevel})]
    BY <2>2, LatelyTyped
  <2>4. online' \in BOOLEAN /\ spawned' \in BOOLEAN
    BY DEF Send, IInv, TypeOK
  <2>5. /\ answer' \in {"none", "asked", "built", "header", "body", "refused", "cut", "broken"}
        /\ copied' \in Levels \cup {NoLevel}
        /\ pc' \in {"config", "fetch", "wait", "body", "ipmi", "udev", "build", "rows", "zones", "done"}
        /\ todo' \subseteq Controllers \cup Zones /\ failed' \subseteq Controllers
        /\ source' \in {"none", "service", "bmc"} /\ code' \in {0, 1, 6, 8, 9}
        /\ shown' \in Levels \cup {NoLevel, Error, Blank}
    BY CellLevels DEF Send, IInv, TypeOK, TableInv
  <2>6. QED
    BY <2>1, <2>3, <2>4, <2>5 DEF TypeOK
<1>2. NowInv'
  BY History DEF Send, IInv, NowInv
<1>3. PathInv'
  BY History, CellLevels DEF Send, IInv, TypeOK, NowInv, PathInv
<1>4. TableInv'
  BY History, CellLevels, CellsTyped DEF Send, IInv, TypeOK, PathInv, TableInv, FailuresStayLocal
<1>5. QED
  BY <1>1, <1>2, <1>3, <1>4 DEF IInv

LEMMA ReadConfigKeeps == ASSUME IInv, ReadConfig, Remember PROVE IInv'
<1>1. TypeOK'
  <2>1. /\ service' \in {"starting", "running", "closing", "gone"}
        /\ last' \in [Controllers -> Levels] /\ board' \in [Zones -> Levels]
        /\ applied' \in [Zones -> Levels \cup {NoLevel}] /\ cell' \in Cells
    BY DEF Leave, ReadConfig, Remember, IInv, TypeOK
  <2>2. AtBoard' \in Levels /\ AtService' \in Levels \cup {NoLevel}
    BY <2>1, CellsTyped DEF Cells, AtBoard, AtService, RowLevel
  <2>3. lately' \in [{"service", "bmc"} -> SUBSET (Levels \cup {NoLevel})]
    BY <2>2, LatelyTyped
  <2>4. online' \in BOOLEAN /\ spawned' \in BOOLEAN
    BY DEF Leave, ReadConfig, IInv, TypeOK
  <2>5. /\ answer' \in {"none", "asked", "built", "header", "body", "refused", "cut", "broken"}
        /\ copied' \in Levels \cup {NoLevel}
        /\ pc' \in {"config", "fetch", "wait", "body", "ipmi", "udev", "build", "rows", "zones", "done"}
        /\ todo' \subseteq Controllers \cup Zones /\ failed' \subseteq Controllers
        /\ source' \in {"none", "service", "bmc"} /\ code' \in {0, 1, 6, 8, 9}
        /\ shown' \in Levels \cup {NoLevel, Error, Blank}
    BY CellLevels DEF Leave, ReadConfig, IInv, TypeOK, TableInv
  <2>6. QED
    BY <2>1, <2>3, <2>4, <2>5 DEF TypeOK
<1>2. NowInv'
  BY History DEF Leave, ReadConfig, IInv, NowInv
<1>3. PathInv'
  BY History, CellLevels DEF Leave, ReadConfig, IInv, TypeOK, NowInv, PathInv
<1>4. TableInv'
  BY History, CellLevels, CellsTyped DEF Leave, ReadConfig, IInv, TypeOK, PathInv, TableInv, FailuresStayLocal
<1>5. QED
  BY <1>1, <1>2, <1>3, <1>4 DEF IInv

LEMMA ConnectKeeps == ASSUME IInv, Connect, Remember PROVE IInv'
<1>1. TypeOK'
  <2>1. /\ service' \in {"starting", "running", "closing", "gone"}
        /\ last' \in [Controllers -> Levels] /\ board' \in [Zones -> Levels]
        /\ applied' \in [Zones -> Levels \cup {NoLevel}] /\ cell' \in Cells
    BY DEF Connect, Remember, IInv, TypeOK
  <2>2. AtBoard' \in Levels /\ AtService' \in Levels \cup {NoLevel}
    BY <2>1, CellsTyped DEF Cells, AtBoard, AtService, RowLevel
  <2>3. lately' \in [{"service", "bmc"} -> SUBSET (Levels \cup {NoLevel})]
    BY <2>2, LatelyTyped
  <2>4. online' \in BOOLEAN /\ spawned' \in BOOLEAN
    BY DEF Connect, IInv, TypeOK
  <2>5. /\ answer' \in {"none", "asked", "built", "header", "body", "refused", "cut", "broken"}
        /\ copied' \in Levels \cup {NoLevel}
        /\ pc' \in {"config", "fetch", "wait", "body", "ipmi", "udev", "build", "rows", "zones", "done"}
        /\ todo' \subseteq Controllers \cup Zones /\ failed' \subseteq Controllers
        /\ source' \in {"none", "service", "bmc"} /\ code' \in {0, 1, 6, 8, 9}
        /\ shown' \in Levels \cup {NoLevel, Error, Blank}
    BY CellLevels DEF Connect, IInv, TypeOK, TableInv
  <2>6. QED
    BY <2>1, <2>3, <2>4, <2>5 DEF TypeOK
<1>2. NowInv'
  BY History DEF Connect, IInv, NowInv
<1>3. PathInv'
  BY History, CellLevels DEF Connect, IInv, TypeOK, NowInv, PathInv
<1>4. TableInv'
  BY History, CellLevels, CellsTyped DEF Connect, IInv, TypeOK, PathInv, TableInv, FailuresStayLocal
<1>5. QED
  BY <1>1, <1>2, <1>3, <1>4 DEF IInv

LEMMA ReceiveKeeps == ASSUME IInv, Receive, Remember PROVE IInv'
<1>1. TypeOK'
  <2>1. /\ service' \in {"starting", "running", "closing", "gone"}
        /\ last' \in [Controllers -> Levels] /\ board' \in [Zones -> Levels]
        /\ applied' \in [Zones -> Levels \cup {NoLevel}] /\ cell' \in Cells
    BY DEF Receive, Remember, IInv, TypeOK
  <2>2. AtBoard' \in Levels /\ AtService' \in Levels \cup {NoLevel}
    BY <2>1, CellsTyped DEF Cells, AtBoard, AtService, RowLevel
  <2>3. lately' \in [{"service", "bmc"} -> SUBSET (Levels \cup {NoLevel})]
    BY <2>2, LatelyTyped
  <2>4. online' \in BOOLEAN /\ spawned' \in BOOLEAN
    BY DEF Receive, IInv, TypeOK
  <2>5. /\ answer' \in {"none", "asked", "built", "header", "body", "refused", "cut", "broken"}
        /\ copied' \in Levels \cup {NoLevel}
        /\ pc' \in {"config", "fetch", "wait", "body", "ipmi", "udev", "build", "rows", "zones", "done"}
        /\ todo' \subseteq Controllers \cup Zones /\ failed' \subseteq Controllers
        /\ source' \in {"none", "service", "bmc"} /\ code' \in {0, 1, 6, 8, 9}
        /\ shown' \in Levels \cup {NoLevel, Error, Blank}
    BY CellLevels DEF Receive, IInv, TypeOK, TableInv
  <2>6. QED
    BY <2>1, <2>3, <2>4, <2>5 DEF TypeOK
<1>2. NowInv'
  BY History DEF Receive, IInv, NowInv
<1>3. PathInv'
  BY History, CellLevels DEF Receive, IInv, TypeOK, NowInv, PathInv
<1>4. TableInv'
  BY History, CellLevels, CellsTyped DEF Receive, IInv, TypeOK, PathInv, TableInv, FailuresStayLocal
<1>5. QED
  BY <1>1, <1>2, <1>3, <1>4 DEF IInv

LEMMA TimesOutKeeps == ASSUME IInv, TimesOut, Remember PROVE IInv'
<1>1. TypeOK'
  <2>1. /\ service' \in {"starting", "running", "closing", "gone"}
        /\ last' \in [Controllers -> Levels] /\ board' \in [Zones -> Levels]
        /\ applied' \in [Zones -> Levels \cup {NoLevel}] /\ cell' \in Cells
    BY DEF TimesOut, Remember, IInv, TypeOK
  <2>2. AtBoard' \in Levels /\ AtService' \in Levels \cup {NoLevel}
    BY <2>1, CellsTyped DEF Cells, AtBoard, AtService, RowLevel
  <2>3. lately' \in [{"service", "bmc"} -> SUBSET (Levels \cup {NoLevel})]
    BY <2>2, LatelyTyped
  <2>4. online' \in BOOLEAN /\ spawned' \in BOOLEAN
    BY DEF TimesOut, IInv, TypeOK
  <2>5. /\ answer' \in {"none", "asked", "built", "header", "body", "refused", "cut", "broken"}
        /\ copied' \in Levels \cup {NoLevel}
        /\ pc' \in {"config", "fetch", "wait", "body", "ipmi", "udev", "build", "rows", "zones", "done"}
        /\ todo' \subseteq Controllers \cup Zones /\ failed' \subseteq Controllers
        /\ source' \in {"none", "service", "bmc"} /\ code' \in {0, 1, 6, 8, 9}
        /\ shown' \in Levels \cup {NoLevel, Error, Blank}
    BY CellLevels DEF TimesOut, IInv, TypeOK, TableInv
  <2>6. QED
    BY <2>1, <2>3, <2>4, <2>5 DEF TypeOK
<1>2. NowInv'
  BY History DEF TimesOut, IInv, NowInv
<1>3. PathInv'
  BY History, CellLevels DEF TimesOut, IInv, TypeOK, NowInv, PathInv
<1>4. TableInv'
  BY History, CellLevels, CellsTyped DEF TimesOut, IInv, TypeOK, PathInv, TableInv, FailuresStayLocal
<1>5. QED
  BY <1>1, <1>2, <1>3, <1>4 DEF IInv

LEMMA ReadBodyKeeps == ASSUME IInv, ReadBody, Remember PROVE IInv'
<1>1. TypeOK'
  <2>1. /\ service' \in {"starting", "running", "closing", "gone"}
        /\ last' \in [Controllers -> Levels] /\ board' \in [Zones -> Levels]
        /\ applied' \in [Zones -> Levels \cup {NoLevel}] /\ cell' \in Cells
    BY DEF Leave, ReadBody, OnlineRow, OnlineZone, Remember, IInv, TypeOK
  <2>2. AtBoard' \in Levels /\ AtService' \in Levels \cup {NoLevel}
    BY <2>1, CellsTyped DEF Cells, AtBoard, AtService, RowLevel
  <2>3. lately' \in [{"service", "bmc"} -> SUBSET (Levels \cup {NoLevel})]
    BY <2>2, LatelyTyped
  <2>4. online' \in BOOLEAN /\ spawned' \in BOOLEAN
    BY DEF Leave, ReadBody, OnlineRow, OnlineZone, IInv, TypeOK
  <2>5. /\ answer' \in {"none", "asked", "built", "header", "body", "refused", "cut", "broken"}
        /\ copied' \in Levels \cup {NoLevel}
        /\ pc' \in {"config", "fetch", "wait", "body", "ipmi", "udev", "build", "rows", "zones", "done"}
        /\ todo' \subseteq Controllers \cup Zones /\ failed' \subseteq Controllers
        /\ source' \in {"none", "service", "bmc"} /\ code' \in {0, 1, 6, 8, 9}
        /\ shown' \in Levels \cup {NoLevel, Error, Blank}
    BY CellLevels DEF Leave, ReadBody, OnlineRow, OnlineZone, IInv, TypeOK, TableInv
  <2>6. QED
    BY <2>1, <2>3, <2>4, <2>5 DEF TypeOK
<1>2. NowInv'
  BY History DEF Leave, ReadBody, OnlineRow, OnlineZone, IInv, NowInv
<1>3. PathInv'
  BY History, CellLevels DEF Leave, ReadBody, OnlineRow, OnlineZone, IInv, TypeOK, NowInv, PathInv
<1>4. TableInv'
  BY History, CellLevels, CellsTyped DEF Leave, ReadBody, OnlineRow, OnlineZone, IInv, TypeOK, PathInv, TableInv, FailuresStayLocal
<1>5. QED
  BY <1>1, <1>2, <1>3, <1>4 DEF IInv

LEMMA OpenIpmiKeeps == ASSUME IInv, OpenIpmi, Remember PROVE IInv'
<1>1. TypeOK'
  <2>1. /\ service' \in {"starting", "running", "closing", "gone"}
        /\ last' \in [Controllers -> Levels] /\ board' \in [Zones -> Levels]
        /\ applied' \in [Zones -> Levels \cup {NoLevel}] /\ cell' \in Cells
    BY DEF Leave, OpenIpmi, Remember, IInv, TypeOK
  <2>2. AtBoard' \in Levels /\ AtService' \in Levels \cup {NoLevel}
    BY <2>1, CellsTyped DEF Cells, AtBoard, AtService, RowLevel
  <2>3. lately' \in [{"service", "bmc"} -> SUBSET (Levels \cup {NoLevel})]
    BY <2>2, LatelyTyped
  <2>4. online' \in BOOLEAN /\ spawned' \in BOOLEAN
    BY DEF Leave, OpenIpmi, IInv, TypeOK
  <2>5. /\ answer' \in {"none", "asked", "built", "header", "body", "refused", "cut", "broken"}
        /\ copied' \in Levels \cup {NoLevel}
        /\ pc' \in {"config", "fetch", "wait", "body", "ipmi", "udev", "build", "rows", "zones", "done"}
        /\ todo' \subseteq Controllers \cup Zones /\ failed' \subseteq Controllers
        /\ source' \in {"none", "service", "bmc"} /\ code' \in {0, 1, 6, 8, 9}
        /\ shown' \in Levels \cup {NoLevel, Error, Blank}
    BY CellLevels DEF Leave, OpenIpmi, IInv, TypeOK, TableInv
  <2>6. QED
    BY <2>1, <2>3, <2>4, <2>5 DEF TypeOK
<1>2. NowInv'
  BY History DEF Leave, OpenIpmi, IInv, NowInv
<1>3. PathInv'
  BY History, CellLevels DEF Leave, OpenIpmi, IInv, TypeOK, NowInv, PathInv
<1>4. TableInv'
  BY History, CellLevels, CellsTyped DEF Leave, OpenIpmi, IInv, TypeOK, PathInv, TableInv, FailuresStayLocal
<1>5. QED
  BY <1>1, <1>2, <1>3, <1>4 DEF IInv

LEMMA OpenUdevKeeps == ASSUME IInv, OpenUdev, Remember PROVE IInv'
<1>1. TypeOK'
  <2>1. /\ service' \in {"starting", "running", "closing", "gone"}
        /\ last' \in [Controllers -> Levels] /\ board' \in [Zones -> Levels]
        /\ applied' \in [Zones -> Levels \cup {NoLevel}] /\ cell' \in Cells
    BY DEF Leave, OpenUdev, Remember, IInv, TypeOK
  <2>2. AtBoard' \in Levels /\ AtService' \in Levels \cup {NoLevel}
    BY <2>1, CellsTyped DEF Cells, AtBoard, AtService, RowLevel
  <2>3. lately' \in [{"service", "bmc"} -> SUBSET (Levels \cup {NoLevel})]
    BY <2>2, LatelyTyped
  <2>4. online' \in BOOLEAN /\ spawned' \in BOOLEAN
    BY DEF Leave, OpenUdev, IInv, TypeOK
  <2>5. /\ answer' \in {"none", "asked", "built", "header", "body", "refused", "cut", "broken"}
        /\ copied' \in Levels \cup {NoLevel}
        /\ pc' \in {"config", "fetch", "wait", "body", "ipmi", "udev", "build", "rows", "zones", "done"}
        /\ todo' \subseteq Controllers \cup Zones /\ failed' \subseteq Controllers
        /\ source' \in {"none", "service", "bmc"} /\ code' \in {0, 1, 6, 8, 9}
        /\ shown' \in Levels \cup {NoLevel, Error, Blank}
    BY CellLevels DEF Leave, OpenUdev, IInv, TypeOK, TableInv
  <2>6. QED
    BY <2>1, <2>3, <2>4, <2>5 DEF TypeOK
<1>2. NowInv'
  BY History DEF Leave, OpenUdev, IInv, NowInv
<1>3. PathInv'
  BY History, CellLevels DEF Leave, OpenUdev, IInv, TypeOK, NowInv, PathInv
<1>4. TableInv'
  BY History, CellLevels, CellsTyped DEF Leave, OpenUdev, IInv, TypeOK, PathInv, TableInv, FailuresStayLocal
<1>5. QED
  BY <1>1, <1>2, <1>3, <1>4 DEF IInv

LEMMA ConstructKeeps == ASSUME IInv, Construct, Remember PROVE IInv'
<1>1. TypeOK'
  <2>1. /\ service' \in {"starting", "running", "closing", "gone"}
        /\ last' \in [Controllers -> Levels] /\ board' \in [Zones -> Levels]
        /\ applied' \in [Zones -> Levels \cup {NoLevel}] /\ cell' \in Cells
    BY DEF Take, Construct, Remember, IInv, TypeOK
  <2>2. AtBoard' \in Levels /\ AtService' \in Levels \cup {NoLevel}
    BY <2>1, CellsTyped DEF Cells, AtBoard, AtService, RowLevel
  <2>3. lately' \in [{"service", "bmc"} -> SUBSET (Levels \cup {NoLevel})]
    BY <2>2, LatelyTyped
  <2>4. online' \in BOOLEAN /\ spawned' \in BOOLEAN
    BY DEF Take, Construct, IInv, TypeOK
  <2>5. /\ answer' \in {"none", "asked", "built", "header", "body", "refused", "cut", "broken"}
        /\ copied' \in Levels \cup {NoLevel}
        /\ pc' \in {"config", "fetch", "wait", "body", "ipmi", "udev", "build", "rows", "zones", "done"}
        /\ todo' \subseteq Controllers \cup Zones /\ failed' \subseteq Controllers
        /\ source' \in {"none", "service", "bmc"} /\ code' \in {0, 1, 6, 8, 9}
        /\ shown' \in Levels \cup {NoLevel, Error, Blank}
    BY CellLevels DEF Take, Construct, IInv, TypeOK, TableInv
  <2>6. QED
    BY <2>1, <2>3, <2>4, <2>5 DEF TypeOK
<1>2. NowInv'
  BY History DEF Take, Construct, IInv, NowInv
<1>3. PathInv'
  BY History, CellLevels DEF Take, Construct, IInv, TypeOK, NowInv, PathInv
<1>4. TableInv'
  BY History, CellLevels, CellsTyped DEF Take, Construct, IInv, TypeOK, PathInv, TableInv, FailuresStayLocal
<1>5. QED
  BY <1>1, <1>2, <1>3, <1>4 DEF IInv

LEMMA ShowRowsKeeps == ASSUME IInv, ShowRows, Remember PROVE IInv'
<1>1. TypeOK'
  <2>1. /\ service' \in {"starting", "running", "closing", "gone"}
        /\ last' \in [Controllers -> Levels] /\ board' \in [Zones -> Levels]
        /\ applied' \in [Zones -> Levels \cup {NoLevel}] /\ cell' \in Cells
    BY DEF ShowRow, ShowRows, Remember, IInv, TypeOK
  <2>2. AtBoard' \in Levels /\ AtService' \in Levels \cup {NoLevel}
    BY <2>1, CellsTyped DEF Cells, AtBoard, AtService, RowLevel
  <2>3. lately' \in [{"service", "bmc"} -> SUBSET (Levels \cup {NoLevel})]
    BY <2>2, LatelyTyped
  <2>4. online' \in BOOLEAN /\ spawned' \in BOOLEAN
    BY DEF ShowRow, ShowRows, IInv, TypeOK
  <2>5. /\ answer' \in {"none", "asked", "built", "header", "body", "refused", "cut", "broken"}
        /\ copied' \in Levels \cup {NoLevel}
        /\ pc' \in {"config", "fetch", "wait", "body", "ipmi", "udev", "build", "rows", "zones", "done"}
        /\ todo' \subseteq Controllers \cup Zones /\ failed' \subseteq Controllers
        /\ source' \in {"none", "service", "bmc"} /\ code' \in {0, 1, 6, 8, 9}
        /\ shown' \in Levels \cup {NoLevel, Error, Blank}
    BY CellLevels DEF ShowRow, ShowRows, IInv, TypeOK, TableInv
  <2>6. QED
    BY <2>1, <2>3, <2>4, <2>5 DEF TypeOK
<1>2. NowInv'
  BY History DEF ShowRow, ShowRows, IInv, NowInv
<1>3. PathInv'
  BY History, CellLevels DEF ShowRow, ShowRows, IInv, TypeOK, NowInv, PathInv, AtBoard, Cells, RowLevel
<1>4. TableInv'
  BY History, CellLevels, CellsTyped DEF ShowRow, ShowRows, IInv, TypeOK, PathInv, TableInv, FailuresStayLocal
<1>5. QED
  BY <1>1, <1>2, <1>3, <1>4 DEF IInv

LEMMA ShowZonesKeeps == ASSUME IInv, ShowZones, Remember PROVE IInv'
<1>1. TypeOK'
  <2>1. /\ service' \in {"starting", "running", "closing", "gone"}
        /\ last' \in [Controllers -> Levels] /\ board' \in [Zones -> Levels]
        /\ applied' \in [Zones -> Levels \cup {NoLevel}] /\ cell' \in Cells
    BY DEF Leave, ShowZone, ShowZones, Remember, IInv, TypeOK
  <2>2. AtBoard' \in Levels /\ AtService' \in Levels \cup {NoLevel}
    BY <2>1, CellsTyped DEF Cells, AtBoard, AtService, RowLevel
  <2>3. lately' \in [{"service", "bmc"} -> SUBSET (Levels \cup {NoLevel})]
    BY <2>2, LatelyTyped
  <2>4. online' \in BOOLEAN /\ spawned' \in BOOLEAN
    BY DEF Leave, ShowZone, ShowZones, IInv, TypeOK
  <2>a. \A z : cell = [of |-> "zone", at |-> z] => board[z] = AtBoard
    BY DEF AtBoard
  <2>b. AtBoard \in Levels
    BY CellLevels DEF IInv
  <2>c. shown' \in Levels \cup {NoLevel, Error, Blank}
    BY <2>a, <2>b DEF ShowZones, ShowZone, IInv, TypeOK
  <2>5. /\ answer' \in {"none", "asked", "built", "header", "body", "refused", "cut", "broken"}
        /\ copied' \in Levels \cup {NoLevel}
        /\ pc' \in {"config", "fetch", "wait", "body", "ipmi", "udev", "build", "rows", "zones", "done"}
        /\ todo' \subseteq Controllers \cup Zones /\ failed' \subseteq Controllers
        /\ source' \in {"none", "service", "bmc"} /\ code' \in {0, 1, 6, 8, 9}
        /\ shown' \in Levels \cup {NoLevel, Error, Blank}
    BY <2>c DEF Leave, ShowZones, IInv, TypeOK, TableInv
  <2>6. QED
    BY <2>1, <2>3, <2>4, <2>5 DEF TypeOK
<1>2. NowInv'
  BY History DEF Leave, ShowZone, ShowZones, IInv, NowInv
<1>3. PathInv'
  BY History, CellLevels DEF Leave, ShowZone, ShowZones, IInv, TypeOK, NowInv, PathInv, AtBoard, Cells, RowLevel
<1>4. TableInv'
  BY History, CellLevels, CellsTyped DEF Leave, ShowZone, ShowZones, IInv, TypeOK, PathInv, TableInv, FailuresStayLocal
<1>5. QED
  BY <1>1, <1>2, <1>3, <1>4 DEF IInv

LEMMA StutterKeeps == ASSUME IInv, UNCHANGED vars PROVE IInv'
<1>1. TypeOK'
  BY DEF vars, IInv, TypeOK
<1>2. NowInv'
  BY DEF vars, IInv, NowInv, AtService, AtBoard, RowLevel
<1>3. PathInv'
  BY DEF vars, IInv, PathInv
<1>4. TableInv'
  BY DEF vars, IInv, TableInv, FailuresStayLocal
<1>5. QED
  BY <1>1, <1>2, <1>3, <1>4 DEF IInv

LEMMA StepKeeps == IInv /\ [Next]_vars => IInv'
BY ServiceMovesKeeps, LoopStepKeeps, BuildKeeps, SendKeeps, ReadConfigKeeps, ConnectKeeps, ReceiveKeeps, TimesOutKeeps, ReadBodyKeeps, OpenIpmiKeeps, OpenUdevKeeps, ConstructKeeps, ShowRowsKeeps, ShowZonesKeeps,
   StutterKeeps DEF Next, Service, ClientStep

THEOREM Invariant == Spec => []IInv
<1>1. Init => IInv
  BY InitInv
<1>2. IInv /\ [Next]_vars => IInv'
  BY StepKeeps
<1>3. QED
  BY <1>1, <1>2, PTL DEF Spec

\* The client, the handler and the service keep their types.
THEOREM TypeCorrect == Spec => []TypeOK
<1>1. IInv => TypeOK
  BY DEF IInv
<1>2. QED
  BY <1>1, Invariant, PTL

\* A report from a snapshot has started no subprocess, for every set of controllers.
THEOREM NobodyAsked == Spec => []OnlineAsksNobody
<1>1. IInv => OnlineAsksNobody
  BY DEF IInv, PathInv, OnlineAsksNobody
<1>2. QED
  BY <1>1, Invariant, PTL

\* Every level of a report was true at some moment since the client was started.
THEOREM ReportRecent == Spec => []Recent
<1>1. IInv => Recent
  BY DEF IInv, TypeOK, PathInv, Recent
<1>2. QED
  BY <1>1, Invariant, PTL

\* A controller that cannot be constructed takes nothing out of the report but its own.
THEOREM OthersReported == Spec => []FailuresStayLocal
<1>1. IInv => FailuresStayLocal
  BY DEF IInv, TableInv
<1>2. QED
  BY <1>1, Invariant, PTL
=============================================================================
