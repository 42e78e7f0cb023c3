--------------------------- MODULE DurationsProofs ---------------------------
(***************************************************************************)
(* The text that cleanup_orphans sends loses nothing, whatever the ratio of *)
(* the small units.                                                         *)
(***************************************************************************)
EXTENDS Durations, TLAPS

\* Division with a rest, by a positive number.
LEMMA DivRest ==
  ASSUME NEW n \in Nat, NEW d \in Nat \ {0}
  PROVE  n \div d \in Nat /\ n % d \in Nat /\ n = d * (n \div d) + (n % d)
OBVIOUS

\* The units are positive numbers.
LEMMA Units ==
  Micro \in Nat \ {0} /\ Milli \in Nat \ {0} /\ Second \in Nat \ {0}
<1>1. Micro \in Nat \ {0} BY KiloAssumption DEF Micro
<1>2. Kilo * Micro \in Nat \ {0} BY <1>1, KiloAssumption
<1>3. Kilo * Milli \in Nat \ {0} BY <1>2, KiloAssumption DEF Milli
<1> QED BY <1>1, <1>2, <1>3 DEF Milli, Second

\* A unit that divides the duration gives it back.
LEMMA Divides ==
  ASSUME NEW n \in Nat, NEW d \in Nat \ {0}, n % d = 0
  PROVE  (n \div d) * d = n
BY DivRest

\* A text without small units, of that many seconds.
SecondsOnly(text, secs) ==
  /\ Count(text, "ns") = 0 /\ Count(text, "us") = 0 /\ Count(text, "ms") = 0
  /\ Count(text, "h") \in Nat /\ Count(text, "m") \in Nat /\ Count(text, "s") \in Nat
  /\ Count(text, "h") * 3600 + Count(text, "m") * 60 + Count(text, "s") = secs

\* The seconds are printed in full (documents.rs: format_duration, its last part).
LEMMA SecondsKept ==
  ASSUME NEW secs \in Nat
  PROVE  SecondsOnly(FormatSeconds(secs), secs)
<1> DEFINE text == FormatSeconds(secs)
<1>1. CASE secs \div 3600 > 0
  <2>1. text = [h |-> secs \div 3600, m |-> (secs % 3600) \div 60, s |-> secs % 60]
    BY <1>1 DEF FormatSeconds
  <2>2. /\ Count(text, "ns") = 0 /\ Count(text, "us") = 0 /\ Count(text, "ms") = 0
        /\ Count(text, "h") = secs \div 3600 /\ Count(text, "m") = (secs % 3600) \div 60
        /\ Count(text, "s") = secs % 60
    BY <2>1 DEF Count
  <2> HIDE DEF text
  <2>3. (secs \div 3600) * 3600 + ((secs % 3600) \div 60) * 60 + (secs % 60) = secs
    OBVIOUS
  <2>4. secs \div 3600 \in Nat /\ (secs % 3600) \div 60 \in Nat /\ secs % 60 \in Nat
    OBVIOUS
  <2> QED BY <2>2, <2>3, <2>4 DEF text, SecondsOnly
<1>2. CASE ~(secs \div 3600 > 0) /\ secs \div 60 > 0
  <2>1. text = [m |-> secs \div 60, s |-> secs % 60]
    BY <1>2 DEF FormatSeconds
  <2>2. /\ Count(text, "ns") = 0 /\ Count(text, "us") = 0 /\ Count(text, "ms") = 0
        /\ Count(text, "h") = 0 /\ Count(text, "m") = secs \div 60
        /\ Count(text, "s") = secs % 60
    BY <2>1 DEF Count
  <2> HIDE DEF text
  <2> QED BY <2>2 DEF text, SecondsOnly
<1>3. CASE ~(secs \div 3600 > 0) /\ ~(secs \div 60 > 0)
  <2>1. text = [s |-> secs]
    BY <1>3 DEF FormatSeconds
  <2>2. /\ Count(text, "ns") = 0 /\ Count(text, "us") = 0 /\ Count(text, "ms") = 0
        /\ Count(text, "h") = 0 /\ Count(text, "m") = 0 /\ Count(text, "s") = secs
    BY <2>1 DEF Count
  <2> HIDE DEF text
  <2> QED BY <2>2 DEF text, SecondsOnly
<1> QED BY <1>1, <1>2, <1>3

\* documents.rs, format_duration: the text of a duration is read as that duration.
THEOREM DurationsAreKept ==
  \A nanos \in Nat : ParseDuration(format_duration(nanos)) = nanos
<1> SUFFICES ASSUME NEW nanos \in Nat
             PROVE  ParseDuration(format_duration(nanos)) = nanos
  OBVIOUS
<1> DEFINE text == format_duration(nanos)
<1>u. Micro \in Nat \ {0} /\ Milli \in Nat \ {0} /\ Second \in Nat \ {0}
  BY Units
<1>h. Minute = 60 * Second /\ Hour = 3600 * Second
  BY <1>u DEF Minute, Hour
<1>1. CASE nanos % Micro # 0
  <2>1. text = [ns |-> nanos]
    BY <1>1 DEF format_duration
  <2>2. /\ Count(text, "ns") = nanos /\ Count(text, "us") = 0 /\ Count(text, "ms") = 0
        /\ Count(text, "s") = 0 /\ Count(text, "m") = 0 /\ Count(text, "h") = 0
    BY <2>1 DEF Count
  <2> HIDE DEF text
  <2> QED BY <2>2, <1>u, <1>h DEF ParseDuration, text
<1>2. CASE nanos % Micro = 0 /\ nanos % Milli # 0
  <2>1. text = [us |-> nanos \div Micro]
    BY <1>2 DEF format_duration
  <2>2. /\ Count(text, "ns") = 0 /\ Count(text, "us") = nanos \div Micro
        /\ Count(text, "ms") = 0
        /\ Count(text, "s") = 0 /\ Count(text, "m") = 0 /\ Count(text, "h") = 0
    BY <2>1 DEF Count
  <2>3. (nanos \div Micro) * Micro = nanos /\ nanos \div Micro \in Nat
    BY <1>2, <1>u, Divides, DivRest
  <2> HIDE DEF text
  <2>4. ParseDuration(text) = nanos
    BY <2>2, <2>3, <1>u, <1>h DEF ParseDuration
  <2> QED BY <2>4 DEF text
<1>3. CASE nanos % Micro = 0 /\ nanos % Milli = 0 /\ nanos % Second # 0
  <2>1. text = [ms |-> nanos \div Milli]
    BY <1>3 DEF format_duration
  <2>2. /\ Count(text, "ns") = 0 /\ Count(text, "us") = 0
        /\ Count(text, "ms") = nanos \div Milli
        /\ Count(text, "s") = 0 /\ Count(text, "m") = 0 /\ Count(text, "h") = 0
    BY <2>1 DEF Count
  <2>3. (nanos \div Milli) * Milli = nanos /\ nanos \div Milli \in Nat
    BY <1>3, <1>u, Divides, DivRest
  <2> HIDE DEF text
  <2>4. ParseDuration(text) = nanos
    BY <2>2, <2>3, <1>u, <1>h DEF ParseDuration
  <2> QED BY <2>4 DEF text
<1>4. CASE nanos % Micro = 0 /\ nanos % Milli = 0 /\ nanos % Second = 0
  <2> DEFINE secs == nanos \div Second
             H == Count(text, "h")
             M == Count(text, "m")
             S == Count(text, "s")
  <2>1. text = FormatSeconds(secs)
    BY <1>4 DEF format_duration
  <2>2. secs \in Nat /\ secs * Second = nanos
    BY <1>4, <1>u, Divides, DivRest
  <2> HIDE DEF secs, text
  <2>3. SecondsOnly(text, secs)
    BY <2>1, <2>2, SecondsKept
  <2>4. ParseDuration(text) = S * Second + M * (60 * Second) + H * (3600 * Second)
    BY <2>3, <1>u, <1>h DEF ParseDuration, SecondsOnly
  <2>5. @ = (H * 3600 + M * 60 + S) * Second
    BY <1>u, <2>3 DEF SecondsOnly
  <2>6. H * 3600 + M * 60 + S = secs
    BY <2>3 DEF SecondsOnly
  <2> QED BY <2>2, <2>4, <2>5, <2>6 DEF text
<1> QED BY <1>1, <1>2, <1>3, <1>4
=============================================================================
