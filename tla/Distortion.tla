-------------------------------- MODULE Distortion --------------------------------
(***************************************************************************)
(* Harmonic distortion of a steady tone (dsp/distortion.cpp): the peak the *)
(* tone is found at, the peaks found near its multiples, and the power of  *)
(* each summed over the main lobe of the window.                           *)
(*                                                                         *)
(* A spectrum is a function from bins, numbered from 0, to whole powers.   *)
(* A frequency is in bins, and a refined one is a fraction of two whole    *)
(* numbers.  A search that finds no peak is the empty set, one that finds  *)
(* a peak the set of its bin.  Square roots and decibels are left out: all *)
(* ratios are of powers.                                                   *)
(***************************************************************************)
EXTENDS Integers, FiniteSets, Sequences, SequencesExt, FiniteSetsExt

HighestBin(power) == Cardinality(DOMAIN power) - 1

PowerOf(power, bins) == MapThenSumSet(LAMBDA bin : power[bin], bins)

(* last_max_index: the last of several equal maxima.                       *)
Loudest(power, bins) ==
  {bin \in bins : \A other \in bins : power[other] < power[bin]
                                      \/ (power[other] = power[bin] /\ other <= bin)}

(* peak_near, which never looks at DC.                                     *)
PeakNear(power, centre, window) ==
  Loudest(power, Max({centre - window, 1})..Min({centre + window, HighestBin(power)}))

(* lobe_low, lobe_high *)
LobeOf(power, centre, lobe) == {bin \in DOMAIN power : centre - lobe <= bin /\ bin <= centre + lobe}

LobePower(power, centre, lobe) == PowerOf(power, LobeOf(power, centre, lobe))

(* centroid_hz: the power-weighted middle, or the middle of nothing.       *)
Centroid(power, centre, lobe) ==
  LET weight == LobePower(power, centre, lobe)
  IN  IF weight = 0 THEN [of |-> centre, by |-> 1]
      ELSE [of |-> MapThenSumSet(LAMBDA bin : bin * power[bin], LobeOf(power, centre, lobe)),
            by |-> weight]

Rounded(of, by) == (2 * of + by) \div (2 * by)

(* The loudest bin that is not DC, or the one near a frequency in bins     *)
(* that the caller gives.                                                  *)
Fundamental(power, given, config) ==
  IF given = <<>> THEN Loudest(power, 1..HighestBin(power))
  ELSE PeakNear(power, given[1], config.search)

(* The code takes the end of the last bin for Nyquist.                     *)
BelowNyquist(power, tone, order) == tone.of * order < (HighestBin(power) + 1) * tone.by

(* The peak found for each order that can be measured.                     *)
HarmonicPeak(power, tone, order, config) ==
  PeakNear(power, Rounded(tone.of * order, tone.by), config.search)

Harmonics(power, tone, config) ==
  {[order |-> order, bin |-> bin] : <<order, bin>> \in
     {<<o, b>> \in (2..config.max_order) \X DOMAIN power :
        BelowNyquist(power, tone, o) /\ b \in HarmonicPeak(power, tone, o, config)}}

(* The median of several, the upper of two middle ones.                    *)
Median(power, bins) ==
  IF bins = {} THEN 0
  ELSE LET AtMost(level) == Cardinality({bin \in bins : power[bin] <= level})
       IN  Min({level \in {power[bin] : bin \in bins} : AtMost(level) > Cardinality(bins) \div 2})

(* analyse_distortion *)
Analysed(power, bin, config) ==
  LET tone == Centroid(power, bin, config.lobe)
      found == Harmonics(power, tone, config)
      Claimed == LobeOf(power, bin, config.lobe)
                 \cup UNION {LobeOf(power, h.bin, config.lobe) : h \in found}
  IN  [fundamental |-> tone, level |-> LobePower(power, bin, config.lobe), harmonics |-> found,
       thd |-> MapThenSumSet(LAMBDA h : LobePower(power, h.bin, config.lobe), found),
       thd_n |-> PowerOf(power, DOMAIN power \ ({0} \cup LobeOf(power, bin, config.lobe))),
       noise_floor |-> Median(power, DOMAIN power \ ({0} \cup Claimed)),
       above_nyquist |-> Cardinality({o \in 2..config.max_order : ~BelowNyquist(power, tone, o)})]

AnalyseDistortion(power, given, config) ==
  IF Cardinality(DOMAIN power) < 4 THEN {}
  ELSE {Analysed(power, bin, config) :
          bin \in {b \in Fundamental(power, given, config) : LobePower(power, b, config.lobe) > 0}}

(* highest_order *)
HighestOrder(result) == Max({1} \cup {h.order : h \in result.harmonics})
===================================================================================
