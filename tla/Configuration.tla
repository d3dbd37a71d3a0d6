----------------------------- MODULE Configuration -----------------------------
(***************************************************************************)
(* src/smfc/config.py: a configuration file, already split into sections   *)
(* and keys, is accepted or rejected as a whole; a fan controller is       *)
(* constructed for an enabled section of an accepted file, and the service *)
(* finds the zones that need the arbiter.                                  *)
(*                                                                         *)
(*   parsed     the file is read, nothing is checked                       *)
(*   rejected   ValueError                                                 *)
(*   accepted   Config() returns                                           *)
(*                                                                         *)
(* A file is a record: ipmi and exporter, and the set of the other         *)
(* sections.  A section has a kind, a suffix (Plain for [CPU], a number    *)
(* for [CPU:1], Other for anything else) and the keys of all kinds.        *)
(* Numbers are whole: a nan=, which passes every check, is not in here.    *)
(***************************************************************************)
EXTENDS ControlFunction

CONSTANT Files   \* the files a user may write

ASSUME FilesAssumption ==
  \A f \in Files :
    /\ IsFiniteSet(f.sections)
    /\ \A s \in f.sections :
         /\ s.zones \in Seq(Int) /\ s.points \in Seq(Int \X Int)
         /\ {s.steps, s.minTemp, s.maxTemp, s.minLevel, s.maxLevel} \subseteq Int

Plain == -1
Other == -2

VARIABLE file

vars == <<pc, cfg, levels, file>>

Kinds == {"CPU", "HD", "NVME", "GPU", "CONST"}
ZonesIn(s) == {s.zones[i] : i \in DOMAIN s.zones}

\* _get_sections: any other suffix is passed over, the section is never looked at.
Known == {s \in file.sections : s.suffix # Other}
Enabled == {s \in Known : s.enabled}

-----------------------------------------------------------------------------
(* The checks.  A section is checked whether it is enabled or not.         *)

\* An empty list does not parse.
ValidZones(s) == s.zones # <<>> /\ ZonesIn(s) \subseteq 0..100

ValidIpmi ==
  /\ file.ipmi.present
  /\ file.ipmi.modeDelay >= 0 /\ file.ipmi.levelDelay >= 0
  /\ file.ipmi.exitLevel \in -1..100
  /\ file.ipmi.platform \in Platforms \cup {"auto", "genericx9"}   \* the last one is an alias

\* The section is optional.
ValidExporter ==
  file.exporter.present => file.exporter.address # "" /\ file.exporter.port \in 1..65535

ValidHd(s) ==
  /\ s.enabled => s.names # "" /\ s.tool # ""
  /\ s.names # "nvme"
  /\ s.guard => s.limit >= 0

ValidNvme(s) == s.enabled => s.names # ""

ValidIds(s) == s.ids # <<>> /\ \A i \in DOMAIN s.ids : s.ids[i] \in 0..100

ValidGpu(s) ==
  /\ s.gpu \in {"nvidia", "amd"}
  /\ s.gpu = "amd" => s.sensor \in 0..2
  /\ ValidIds(s)
  /\ s.enabled => s.tool # ""

ValidFan(s) ==
  /\ s.calc \in 0..2
  /\ s.steps > 0 /\ s.sensitivity > 0 /\ s.polling >= 0
  /\ ValidCurve(s)
  /\ s.smoothing >= 1 /\ s.tolerance >= 0

ValidConst(s) == s.polling >= 0 /\ s.level \in 1..100

ValidSection(s) ==
  /\ ValidZones(s)
  /\ s.kind # "CONST" => ValidFan(s)
  /\ CASE s.kind = "HD" -> ValidHd(s)
       [] s.kind = "NVME" -> ValidNvme(s)
       [] s.kind = "GPU" -> ValidGpu(s)
       [] s.kind = "CONST" -> ValidConst(s)
       [] OTHER -> TRUE

\* Mutant of NoDuplicateZones: only the first zone of a section is compared.
NoDuplicateFirstZones ==
  \A s, t \in Enabled : s # t /\ s.kind = t.kind => s.zones[1] # t.zones[1]

NoDuplicateZones ==
  \A s, t \in Enabled : s # t /\ s.kind = t.kind => ZonesIn(s) \cap ZonesIn(t) = {}

Check ==
  /\ pc = "parsed"
  /\ pc' = IF /\ ValidIpmi /\ ValidExporter
              /\ \A s \in Known : ValidSection(s)
              /\ NoDuplicateZones
           THEN "accepted" ELSE "rejected"
  /\ UNCHANGED <<cfg, levels, file>>

-----------------------------------------------------------------------------
(* What the service makes of an accepted file.                             *)

\* _check_shared_zones lists the owners of a zone by name, one entry for every time a
\* section names the zone.
Entries(z) == UNION {{<<s, i>> : i \in {j \in DOMAIN s.zones : s.zones[j] = z}} : s \in Enabled}
Shared == {z \in UNION {ZonesIn(s) : s \in Enabled} : Cardinality(Entries(z)) > 1}
Deferred(s) == ZonesIn(s) \cap Shared # {}

\* The constructor of a fan controller, as far as its table.
Construct ==
  /\ pc = "accepted"
  /\ cfg' \in {s \in Enabled : s.kind # "CONST"}
  /\ pc' = "building"
  /\ UNCHANGED <<levels, file>>

-----------------------------------------------------------------------------

Init ==
  /\ pc = "parsed" /\ file \in Files
  /\ cfg = <<>> /\ levels = [t \in Degrees |-> 0]

Next ==
  \/ Check \/ Construct
  \/ Build /\ UNCHANGED file

Spec == Init /\ [][Next]_vars

-----------------------------------------------------------------------------
(* Properties.                                                             *)

TypeOK ==
  /\ pc \in {"parsed", "rejected", "accepted", "building", "line", "ready"}
  /\ file \in Files
  /\ cfg \in {<<>>} \cup Enabled
  /\ levels \in [Degrees -> Levels]

\* Of an accepted file, no zone is driven by two controllers: those that name the same
\* zone are of different kinds and both left to the arbiter, in whatever order and
\* however often their lists name it.
OneDriverPerZone ==
  pc \notin {"parsed", "rejected"} =>
    \A s, t \in Enabled :
      s # t /\ ZonesIn(s) \cap ZonesIn(t) # {} => s.kind # t.kind /\ Deferred(s) /\ Deferred(t)

-----------------------------------------------------------------------------
(* The inductive invariant behind OneDriverPerZone and the properties of   *)
(* the tables.                                                             *)

\* From the check on, all sections are whole and there are no duplicates.
Checked ==
  /\ file \in Files
  /\ pc \notin {"parsed", "rejected"} => NoDuplicateZones /\ \A s \in Known : ValidSection(s)

\* A table is built for an enabled section of the file, and in two steps for a curve.
Building ==
  /\ pc \in {"building", "line", "ready"} => cfg \in Enabled /\ cfg.kind # "CONST"
  /\ pc = "line" => cfg.points # <<>> /\ levels = [t \in Degrees |-> Line(t)]

TableInv ==
  /\ TypeOK /\ Checked /\ Building
  /\ HotterIsFaster /\ EndpointsKept /\ StaysNearCurve
=============================================================================
