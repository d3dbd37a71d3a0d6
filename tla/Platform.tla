------------------------------- MODULE Platform -------------------------------
(***************************************************************************)
(* The four platforms (generic.py, genericx9.py, genericx14.py, x10qbi.py  *)
(* in src/smfc): how one is chosen, and what it does with a level: the     *)
(* range it accepts, the duty it writes and the percentage it reads back.  *)
(***************************************************************************)
EXTENDS Integers

Platforms == {"generic", "generic_x9", "generic_x14", "X10QBi"}

Levels == 0..100

\* What a BMC may call its board, by the prefix that create_platform looks at.
Products == {"X14", "H14", "X10QBi", "X9", "X11"}

\* create_platform: a platform's own name, or the prefix of a product name.
CreatePlatform(name) ==
  CASE name \in Platforms -> name
    [] name \in {"X14", "H14"} -> "generic_x14"
    [] name = "X9" -> "generic_x9"
    [] OTHER -> "generic"

\* These boards take the duty on a scale of 0..255, the others in percent.
ByteScale == {"generic_x9", "X10QBi"}

\* Python's round() of n/d: to the nearest integer, halves to the even one.
Rounded(n, d) ==
  LET q == n \div d
      r == 2 * (n % d)
  IN  IF r < d \/ (r = d /\ q % 2 = 0) THEN q ELSE q + 1

\* validate_input_range for a level
ValidLevel(level) == level \in Levels

\* level * 255 // 100
Duty(p, level) == IF p \in ByteScale THEN (level * 255) \div 100 ELSE level

\* Mutant of Percent: the quotient is cut off, as for the duty.
PercentCut(p, duty) == IF p \in ByteScale THEN (duty * 100) \div 255 ELSE duty

\* round(duty * 100 / 255)
Percent(p, duty) == IF p \in ByteScale THEN Rounded(duty * 100, 255) ELSE duty

\* A level is accepted, and reads back as it was written.
ReadsBack(p, level) ==
  ValidLevel(level) /\ Percent(p, Duty(p, level)) = level
=============================================================================
