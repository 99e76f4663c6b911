------------------------------ MODULE FrequencyBands ------------------------------
(***************************************************************************)
(* Two ways to divide a spectrum into bands: fractions of an octave        *)
(* (dsp/octave.cpp), each the sum of the bins inside it, and the multiple  *)
(* time windows of a transfer function (dsp/mtw.cpp), each octave measured *)
(* with a transform of its own length.  Values, bins, spacings and places  *)
(* are those of PlotColumns; a band is [lower, centre, upper].             *)
(***************************************************************************)
EXTENDS PlotColumns

(* The centres of fractional octaves on a logarithmic scale of half a band *)
(* from 1 kHz: on it for an odd fraction, beside it for an even one.  The  *)
(* range asked for is in hundredths of that, and so is the slack.          *)
BandCentres(fraction, low, high, slack, indices) ==
  {centre \in {IF fraction % 2 = 0 THEN 2 * index + 1 ELSE 2 * index : index \in indices} :
     low - slack <= 100 * centre /\ 100 * centre <= high + slack}

OctaveBand(centre) == [lower |-> centre - 1, centre |-> centre, upper |-> centre + 1]

IsResolvable(band, spacing) == band.upper - band.lower >= spacing

FirstResolvable(bands, spacing) == SelectInSeq(bands, LAMBDA band : IsResolvable(band, spacing))

(* apply: a band that holds no bin borrows the nearest.                    *)
BinsOfBand(band, spacing, last) ==
  LET inside == BinsBetween(band.lower, band.upper, spacing, last)
      nearest == (2 * band.centre + spacing) \div (2 * spacing)
  IN  IF inside # {} THEN inside ELSE {Min({Max({nearest, 1}), last})}

ApplyBands(bands, values, spacing) ==
  [i \in DOMAIN bands |->
     IF LastBin(values) < 1 \/ spacing <= 0 THEN 0
     ELSE MapThenSumSet(LAMBDA bin : values[bin], BinsOfBand(bands[i], spacing, LastBin(values)))]

-----------------------------------------------------------------------------
(* Multiple time windows. *)

(* How many times the smallest transform is doubled.                       *)
Doublings(smallest, largest) == CHOOSE n \in 0..20 : smallest * 2^n = largest

(* MultiTimeWindow: the shortest transform for the top octave, one twice   *)
(* as long for each octave below, the longest down to DC.                  *)
WindowBands(smallest, largest, nyquist) ==
  LET n == Doublings(smallest, largest)
  IN  [k \in 1..n + 1 |->
         [size |-> smallest * 2^(k - 1), lower |-> IF k = n + 1 THEN 0 ELSE nyquist \div 2^k,
          upper |-> nyquist \div 2^(k - 1)]]

SpacingOf(band, nyquist) == (2 * nyquist) \div band.size

(* The grid of one point per octave, from the lowest to Nyquist.           *)
GridPoints(lowest, nyquist) == {lowest * 2^i : i \in {i \in 0..12 : lowest * 2^i <= nyquist}}

(* resolve: the band of a point, if one has it, and the bins it is drawn   *)
(* from: the one at or below it and the next.                              *)
BandAt(bands, hz) == SelectInSeq(bands, LAMBDA band : band.lower <= hz /\ hz < band.upper)

Resolved(bands, nyquist, hz) ==
  IF BandAt(bands, hz) = 0 THEN [size |-> 0, bins |-> {}]
  ELSE LET band == bands[BandAt(bands, hz)]
           lower == hz \div SpacingOf(band, nyquist)
       IN  [size |-> band.size, bins |-> {lower, lower + 1} \cap (0..band.size \div 2)]
===================================================================================
