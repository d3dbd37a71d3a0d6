------------------------------ MODULE MC_Client ------------------------------
(* The disks drive both zones, zone 1 first in the list; a CONST holds zone 1.  *)
EXTENDS Client

CONSTANTS hd, pump

MCZonesOf == [c \in Controllers |-> IF c = hd THEN {0, 1} ELSE {1}]
MCFirstZone == [c \in Controllers |-> 1]
=============================================================================
