--------------------------- MODULE MC_Configuration ---------------------------
(* Files for the model checker: one section with every corner of both ways to *)
(* describe a curve; one key of one section out of order; several sections.   *)
EXTENDS Configuration

Section(kind) ==
  [kind |-> kind, suffix |-> Plain, enabled |-> TRUE, zones |-> <<0>>,
   polling |-> 2, sensitivity |-> 2, calc |-> 1, smoothing |-> 1, tolerance |-> 3,
   points |-> <<>>, steps |-> 6, minTemp |-> 30, maxTemp |-> 60, minLevel |-> 35, maxLevel |-> 100,
   names |-> "disks", tool |-> "tool", guard |-> TRUE, limit |-> 1,
   gpu |-> "amd", sensor |-> 0, ids |-> <<0>>, level |-> 50]

Ipmi == [present |-> TRUE, modeDelay |-> 10, levelDelay |-> 2, exitLevel |-> 100, platform |-> "auto"]
Exporter == [present |-> TRUE, address |-> "localhost", port |-> 9099]

File(sections) == [ipmi |-> Ipmi, exporter |-> Exporter, sections |-> sections]

Legacy == {[Section("CPU") EXCEPT !.steps = n, !.minTemp = a, !.maxTemp = b, !.minLevel = c, !.maxLevel = d] :
             n \in {0, 1, 6, 80}, a \in {-1, 0, 30}, b \in {30, 55, 110, 201},
             c \in {-1, 0, 35}, d \in {0, 35, 100, 101}}

Points == {<<t, l>> : t \in {0, 30, 33, 100}, l \in {0, 35, 100}}

Curves == {[Section("HD") EXCEPT !.points = points, !.steps = n] :
             points \in {<<p, q>> : p, q \in Points} \cup
                        {<<<<0, 35>>, p, <<100, 100>>>> : p \in Points} \cup
                        {<<<<30, 20>>, <<50, 40>>, <<51, 99>>>>, <<<<30, 101>>, <<50, 40>>>>},
             n \in {2, 7, 60}}

OddKeys(kind) ==
  LET s == Section(kind) IN
  {[s EXCEPT !.zones = z] : z \in {<<>>, <<101>>, <<1, 1>>}} \cup
  {[s EXCEPT !.polling = -1], [s EXCEPT !.sensitivity = 0], [s EXCEPT !.calc = 3],
   [s EXCEPT !.smoothing = 0], [s EXCEPT !.tolerance = -1], [s EXCEPT !.level = 0],
   [s EXCEPT !.names = "", !.enabled = FALSE], [s EXCEPT !.names = ""], [s EXCEPT !.names = "nvme"],
   [s EXCEPT !.tool = ""], [s EXCEPT !.limit = -1], [s EXCEPT !.limit = -1, !.guard = FALSE],
   [s EXCEPT !.gpu = "intel"], [s EXCEPT !.sensor = 3], [s EXCEPT !.gpu = "nvidia", !.sensor = 3],
   [s EXCEPT !.ids = <<>>], [s EXCEPT !.ids = <<0, 101>>],
   [s EXCEPT !.calc = 3, !.enabled = FALSE], [s EXCEPT !.calc = 3, !.suffix = Other]}

OddFiles ==
  {[File({Section("CPU")}) EXCEPT !.ipmi = i] :
     i \in {[Ipmi EXCEPT !.present = FALSE], [Ipmi EXCEPT !.modeDelay = -1], [Ipmi EXCEPT !.levelDelay = -1],
            [Ipmi EXCEPT !.exitLevel = -2], [Ipmi EXCEPT !.platform = "H14"],
            [Ipmi EXCEPT !.exitLevel = -1, !.platform = "genericx9"]}} \cup
  {[File({Section("CPU")}) EXCEPT !.exporter = e] :
     e \in {[Exporter EXCEPT !.address = ""], [Exporter EXCEPT !.port = 0],
            [Exporter EXCEPT !.port = 0, !.present = FALSE]}}

Lists == {<<0>>, <<1>>, <<0, 1>>, <<1, 0>>, <<1, 1>>}

\* Two sections, of one kind or two, and a third one between them.
Boards ==
  {File({[Section("CPU") EXCEPT !.zones = a],
         [Section(kind) EXCEPT !.suffix = 7, !.zones = b, !.enabled = on],
         [Section("CPU") EXCEPT !.suffix = 10, !.zones = c]}) :
     a \in Lists, b \in Lists, c \in Lists \cup {<<2>>}, kind \in {"CPU", "CONST"}, on \in BOOLEAN}

SomeFiles ==
  {File({s}) : s \in Legacy \cup Curves \cup UNION {OddKeys(k) : k \in Kinds}} \cup OddFiles \cup Boards
=============================================================================
