------------------------------- MODULE Tuner -------------------------------
(***************************************************************************)
(* The tuning procedure and the scaling adjustment (common/tuner.c): for   *)
(* each octave of each oscillator and filter a search for the voltage that *)
(* gives its C, by measurements against flip-flops that may never answer.  *)
(* A few timeouts are tolerated; more, and the search is given up.         *)
(*                                                                         *)
(* Interrupts are blocked meanwhile, so a measurement is one step. What    *)
(* starts a tuning is in TuneButton.                                       *)
(***************************************************************************)
EXTENDS Integers

CONSTANTS
  CvCount,           \* the voltages tuned, oscillators first
  Filters,           \* those of filters
  OscLo, OscHi,      \* octaves of an oscillator that are measured
  FilLo, FilHi,      \* those of a filter
  OctaveCount,
  Size,              \* number of voltages, 2^16
  Steps,             \* bits of the DAC, 14
  Bits,              \* Bits[step]: `bit` in each step of a search, from 2^15 down
  Precision,         \* octave measured in one period; each next takes twice as many
  OscInit, FilInit,  \* theoretical tuning: voltages of the octaves
  MaxFailures,       \* STATUS_TIMEOUT_MAX_FAILURES
  Pitch,             \* Pitch[cv][o]: the voltage above which cv reaches the C
                     \* of octave o
  Scaled,            \* those whose octaves are spaced as they should be
  Faulty             \* those whose measurements may time out

Cvs     == 0 .. CvCount - 1
Octaves == 0 .. OctaveCount - 1
Voltages == 0 .. Size - 1

ASSUME OctavesAssumption ==
  /\ {OctaveCount, OscHi, FilHi} \subseteq Nat /\ OscLo \in 2 .. OscHi - 1 /\ FilLo \in 1 .. FilHi - 1
  /\ OscHi < OctaveCount /\ FilHi < OctaveCount
ASSUME InitAssumption == OscInit \in [Octaves -> Voltages] /\ FilInit \in [Octaves -> Voltages]
ASSUME CvsAssumption ==
  CvCount \in Nat \ {0} /\ Filters \subseteq Cvs /\ Scaled \subseteq Cvs /\ Faulty \subseteq Cvs
ASSUME SearchAssumption ==
  MaxFailures \in 1 .. 200 /\ Precision \in 0 .. OscLo /\ Precision <= FilLo
ASSUME BitsAssumption ==
  /\ Steps \in Nat \ {0} /\ Bits \in [0 .. Steps - 1 -> Nat \ {0}]
  /\ Size = 2 * Bits[0]
  /\ \A i \in 1 .. Steps - 1 : Bits[i - 1] = 2 * Bits[i]

LowOf(cv)  == IF cv \in Filters THEN FilLo ELSE OscLo
HighOf(cv) == IF cv \in Filters THEN FilHi ELSE OscHi
Theory(cv) == IF cv \in Filters THEN FilInit ELSE OscInit
Measured(cv) == LowOf(cv) .. HighOf(cv)

\* Below this voltage a search does not measure.
FloorOf(cv) == Theory(cv)[IF cv \in Filters THEN FilLo - 1 ELSE OscLo - 2]

\* The last bit, as near as a search gets.
Nearest == Bits[Steps - 1]

\* The hardware can be tuned: a pitch that is measured is among the voltages
\* the search measures, the next one is further than two searches err, and what
\* is extrapolated from such two is a voltage.
ASSUME PitchAssumption ==
  \A c \in Cvs :
    LET P == Pitch[c] lo == LowOf(c) hi == HighOf(c) IN
    /\ \A o \in Measured(c) : P[o] \in FloorOf(c) + 1 .. Size - 1
    /\ \A o \in lo .. hi - 1 : P[o] + 2 * Nearest < P[o + 1]
    /\ lo * (P[lo + 1] - P[lo] + 2 * Nearest) <= P[lo] - Nearest
    /\ P[hi] + Nearest + (OctaveCount - 1 - hi) * (P[hi] - P[hi - 1] + 2 * Nearest) < Size

VARIABLES
  mode,          \* "idle", "tuning" or "scaling"
  cv, octave,    \* what is measured
  step, estimate,
  timeoutCount,  \* ff_timeoutCount
  tunes,         \* settings.tunes
  shown,         \* in scaling mode, whether the display shows 0
  missed         \* history: the timeouts of each octave in the last tuning

searchVars == <<cv, octave, step, estimate>>
tunerVars == <<mode, searchVars, timeoutCount, tunes, shown, missed>>

TunerTypeOK ==
  /\ mode \in {"idle", "tuning", "scaling"}
  /\ cv \in 0 .. CvCount /\ octave \in Octaves
  /\ step \in 0 .. Steps - 1 /\ estimate \in Voltages
  /\ timeoutCount \in 0 .. 255
  /\ tunes \in [Cvs -> [Octaves -> Voltages]]
  /\ shown \in BOOLEAN
  /\ missed \in [Cvs -> [Octaves -> 0 .. MaxFailures + 3]]

NoneMissed == [c \in Cvs |-> [o \in Octaves |-> 0]]

\* The synthesizer with its last tuning, or with the scaling jumper set.
TunerInit ==
  /\ mode \in {"idle", "scaling"}
  /\ cv = 0 /\ octave = LowOf(0) /\ step = 0 /\ estimate = Size - 1
  /\ timeoutCount = 0
  /\ tunes = [c \in Cvs |-> Theory(c)]
  /\ shown = FALSE
  /\ missed = NoneMissed

-----------------------------------------------------------------------------
(* Measurements *)

\* Timeouts while `periods` are measured, each with four waits: the period with
\* too many ends the measurement.
Missable(c, count, periods) ==
  IF c \notin Faulty THEN {0}
  ELSE IF count >= MaxFailures THEN 0 .. 4
  ELSE {t \in 0 .. MaxFailures + 3 - count : t <= 4 * periods}

\* What measureAudioPeriod then makes of the period.
Untunable(count) == count >= MaxFailures

-----------------------------------------------------------------------------
(* Tuning *)

\* Mutant: timeouts of the last search count in the next one.
CountedOn(count) == count

\* What tuneOffset makes of the count of the last search.
Recounted(count) == 0

\* tuneOffset begins.
Search(c, o, count) ==
  /\ cv' = c /\ octave' = o
  /\ step' = 0 /\ estimate' = Size - 1
  /\ timeoutCount' = Recounted(count)

\* The TUNE button, or the first start-up: tuner_init and the first search.
Tune ==
  /\ mode = "idle"
  /\ mode' = "tuning"
  /\ tunes' = [c \in Cvs |-> Theory(c)]
  /\ missed' = NoneMissed
  /\ Search(0, LowOf(0), timeoutCount)
  /\ UNCHANGED shown

\* Octaves that are not measured follow from the two next to them, in 16 bits.
Extrapolated(c, t) ==
  LET lo == LowOf(c) hi == HighOf(c) IN
  [o \in Octaves |->
    (IF o < lo THEN t[lo] + (lo - o) * (t[lo] - t[lo + 1])
     ELSE IF o > hi THEN t[hi] + (o - hi) * (t[hi] - t[hi - 1])
     ELSE t[o]) % Size]

\* The next voltage, or the end, when the octaves `t` of this one are measured.
NextCv(t, count) ==
  /\ tunes' = [tunes EXCEPT ![cv] = Extrapolated(cv, t)]
  /\ IF cv + 1 \in Cvs
     THEN Search(cv + 1, LowOf(cv + 1), count) /\ UNCHANGED mode
     ELSE /\ mode' = "idle" /\ cv' = cv + 1
          /\ timeoutCount' = count
          /\ UNCHANGED <<octave, step, estimate>>

Bit == Bits[step]

\* Mutant: the first step upwards leaves the 16 bits.
AdjustedWide(long) == IF long THEN estimate + Bit ELSE estimate - Bit

\* Where a step of the search leads, upwards if the period is too long.
Adjusted(long) == (IF long THEN estimate + Bit ELSE estimate - Bit) % Size

\* Mutant: a search that is given up leaves its estimate.
GiveUpHalfway(count) == NextCv([tunes[cv] EXCEPT ![octave] = estimate], count)

\* An octave that cannot be measured keeps its theoretical voltage, and so do
\* those above.
GiveUp(count) == NextCv(tunes[cv], count)

\* The next step, or the end of the search.
Adjust(long, count) ==
  IF step < Steps - 1
  THEN /\ step' = step + 1
       /\ estimate' = Adjusted(long)
       /\ timeoutCount' = count
       /\ UNCHANGED <<mode, cv, octave, tunes>>
  ELSE LET t == [tunes[cv] EXCEPT ![octave] = Adjusted(long)] IN
       IF octave < HighOf(cv)
       THEN tunes' = [tunes EXCEPT ![cv] = t] /\ Search(cv, octave + 1, count) /\ UNCHANGED mode
       ELSE NextCv(t, count)

\* Too low a voltage is not measured.
SkipMeasurement ==
  /\ mode = "tuning" /\ estimate <= FloorOf(cv)
  /\ Adjust(TRUE, timeoutCount)
  /\ UNCHANGED <<shown, missed>>

\* A period that timed out may be any.
Measure ==
  /\ mode = "tuning" /\ estimate > FloorOf(cv)
  /\ \E t \in Missable(cv, timeoutCount, 2^(octave - Precision)) :
       LET count == timeoutCount + t IN
       /\ missed' = [missed EXCEPT ![cv][octave] = @ + t]
       /\ IF Untunable(count) THEN GiveUp(count)
          ELSE \E long \in IF t = 0 THEN {estimate < Pitch[cv][octave]} ELSE BOOLEAN :
                 Adjust(long, count)
  /\ UNCHANGED shown

-----------------------------------------------------------------------------
(* Scaling adjustment *)

\* One round of tuner_scalingAdjustment: a low and a high octave of one voltage
\* are measured, and the display shows by how much their periods differ. A
\* measurement that fails gives -1.
ScalingRound ==
  /\ mode = "scaling"
  /\ \E low \in Missable(cv, timeoutCount, 8) :
       LET afterLow == (timeoutCount + low) % 256 IN
       \E high \in Missable(cv, afterLow, 128) :
         LET afterHigh == (afterLow + high) % 256 IN
         /\ timeoutCount' = afterHigh
         /\ shown' = IF Untunable(afterHigh) THEN Untunable(afterLow)
                     ELSE ~Untunable(afterLow) /\ cv \in Scaled
  /\ UNCHANGED <<mode, searchVars, tunes, missed>>

\* Buttons 1 and 2 change the voltage; what shows is of the last one still.
ScalingSelect ==
  /\ mode = "scaling"
  /\ cv' \in {(cv + 1) % CvCount, (cv - 1) % CvCount} \ {cv}
  /\ shown' = FALSE
  /\ UNCHANGED <<mode, octave, step, estimate, timeoutCount, tunes, missed>>

Tuning  == SkipMeasurement \/ Measure
Scaling == ScalingRound \/ ScalingSelect

-----------------------------------------------------------------------------
(* Properties *)

Distance(a, b) == IF a < b THEN b - a ELSE a - b
Tuned(c, o)    == Distance(tunes[c][o], Pitch[c][o]) <= Nearest

\* A search that is given up leaves the theoretical voltage, and one without a
\* timeout finds the pitch by the last bit of the DAC, if it is made at all.
TunedOrTheory ==
  mode # "scaling" =>
    \A c \in 0 .. cv - 1 : \A o \in Measured(c) :
      \/ missed[c][o] = 0 /\ Tuned(c, o)
      \/ missed[c][o] \in 1 .. MaxFailures - 1
      \/ tunes[c][o] = Theory(c)[o]

\* A voltage without a timeout is in tune in all its measured octaves, and
\* rises from octave to octave, extrapolated ones included, whatever failed in
\* the oscillators before it.
HealthyTuned ==
  mode # "scaling" =>
    \A c \in 0 .. cv - 1 :
      missed[c] = [o \in Octaves |-> 0] =>
        /\ \A o \in Measured(c) : Tuned(c, o)
        /\ \A o \in Octaves : o > 0 => tunes[c][o - 1] < tunes[c][o]

=============================================================================
