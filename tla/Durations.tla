------------------------------ MODULE Durations ------------------------------
(***************************************************************************)
(* format_duration (src/src/documents.rs): the text of a duration as the    *)
(* number printed before each unit, and what Go's time.ParseDuration reads  *)
(* from such a text.                                                        *)
(***************************************************************************)
EXTENDS Naturals

CONSTANT Kilo  \* the ratio of ns, us, ms and s: 1000, or less for model checking

ASSUME KiloAssumption == Kilo \in Nat \ {0}

\* Nanoseconds per unit.
Micro == Kilo
Milli == Kilo * Micro
Second == Kilo * Milli
Minute == 60 * Second
Hour == 60 * Minute

\* The units from the largest that is not zero on; only seconds when all are zero.
FormatSeconds(secs) ==
  IF secs \div 3600 > 0
  THEN [h |-> secs \div 3600, m |-> (secs % 3600) \div 60, s |-> secs % 60]
  ELSE IF secs \div 60 > 0 THEN [m |-> secs \div 60, s |-> secs % 60] ELSE [s |-> secs]

\* One small unit, or seconds and more: the first unit that divides the duration.
format_duration(nanos) ==
  IF nanos % Micro # 0 THEN [ns |-> nanos]
  ELSE IF nanos % Milli # 0 THEN [us |-> nanos \div Micro]
  ELSE IF nanos % Second # 0 THEN [ms |-> nanos \div Milli]
  ELSE FormatSeconds(nanos \div Second)

Count(text, unit) == IF unit \in DOMAIN text THEN text[unit] ELSE 0

\* What the server reads.
ParseDuration(text) ==
  Count(text, "ns") + Count(text, "us") * Micro + Count(text, "ms") * Milli
    + Count(text, "s") * Second + Count(text, "m") * Minute + Count(text, "h") * Hour
=============================================================================
