-------------------------------- MODULE MCEngine --------------------------------
(* Values for the model checker: what DelayFinder::find may report, from a  *)
(* measurement ahead of its reference (swapped channels) to an echo longer  *)
(* than the delay line; and what the analysers the engine publishes compute *)
(* from the frames it hands them, over bounded inputs.                      *)
EXTENDS Engine, Averaging

Bands == INSTANCE FrequencyBands
Tone == INSTANCE Distortion

SomeEstimates == {-1, 4}

-----------------------------------------------------------------------------
(* Averaging: spectrum.cpp, transfer.cpp, meter.cpp. *)

Half == Ratio(1, 2)
Heard == UNION {[1..n -> 0..3] : n \in 1..4}
MeanOf(s) == Ratio(FoldSeq(LAMBDA x, sum : x + sum, 0, s), Len(s))
AtMost(r, x) == NotAbove(r, Ratio(x, 1))
AtLeast(r, x) == NotAbove(Ratio(x, 1), r)

\* An average of everything is the mean until the frames counted reach their
\* limit, of a number of frames the mean of that many, a peak the largest, and
\* without averaging the newest (spectrum.cpp:102-151).
ASSUME AveragesAreWhatTheySay ==
  \A s \in Heard :
    LET Is(averaging, r) == Same(AverageOf(s, averaging).power, r)
    IN  /\ Len(s) <= MostFrames + 1 => Is([mode |-> "Infinite"], MeanOf(s))
        /\ Is([mode |-> "None"], Ratio(Last(s), 1))
        /\ Is([mode |-> "PeakHold"], Ratio(Max(Range(s)), 1))
        /\ \A n \in 1..3 :
             Is([mode |-> "Linear", frames |-> n], MeanOf(SubSeq(s, 1, Min({n, Len(s)}))))

\* Whatever the mode, and whatever weight was asked for, an average is between
\* the smallest and the largest of what it averaged.
Averagings == [mode : {"None", "Infinite", "PeakHold"}]
               \cup [mode : {"Exponential"}, alpha : {Ratio(-1, 2), Half, Ratio(3, 2)}]
               \cup [mode : {"Linear"}, frames : 1..3]
ASSUME AveragesAreBetween ==
  \A s \in Heard, averaging \in Averagings :
    LET power == AverageOf(s, averaging).power
    IN  AtLeast(power, Min(Range(s))) /\ AtMost(power, Max(Range(s)))

\* One frame is coherent with itself whatever it is, so the coherence of a
\* transfer says nothing until a second frame is averaged (transfer.cpp:133-143).
Bins == (-1..1) \X (-1..1)
Weights == {[mode |-> "Infinite"], [mode |-> "Exponential", alpha |-> Half]}
ASSUME OneFrameIsCoherent ==
  \A x, y \in Bins, averaging \in Weights :
    Norm(x) > 0 /\ Norm(y) > 0 =>
      Same(Coherence(TransferOf(<<<<x, y>>>>, averaging)), Ratio(1, 1))

\* The three spectra of a transfer are averaged alike, so the coherence never
\* passes one, and a system that is one factor reads as that factor.
ASSUME TransferIsTheFactor ==
  \A x1, y1, x2, y2 \in Bins, averaging \in Weights :
    LET both == TransferOf(<<<<x1, y1>>, <<x2, y2>>>>, averaging)
    IN  /\ AtMost(Coherence(both), 1)
        /\ \A h \in Bins :
             TimesConjugate(x1, h) = y1 /\ TimesConjugate(x2, h) = y2 /\ Norm(x1) + Norm(x2) > 0
               => /\ Same(Response(both)[1], Ratio(h[1], 1))
                  /\ Same(Response(both)[2], Ratio(-h[2], 1))

\* An unwrapped phase differs from the wrapped one by whole turns, and no two
\* neighbours by more than half a turn (transfer.cpp:155-169).
Angles == {-180, -90, 0, 90, 170}
ASSUME UnwrappedIsContinuous ==
  \A wrapped \in [1..4 -> Angles] :
    LET phase == UnwrapPhase(wrapped)
    IN  /\ \A i \in 1..4 : (phase[i] - wrapped[i]) % 360 = 0
        /\ \A i \in 1..3 : phase[i + 1] - phase[i] \in -180..180

\* A weighted level, fast or slow, and the equivalent level are never above
\* the square of the peak, and a slower time weighting rises no faster.
ASSUME LevelsAreBelowThePeak ==
  \A s \in UNION {[1..n -> -2..2] : n \in 1..4} :
    LET shares == Shares(Half, Ratio(1, 4))
        impulse == LevelOfSamples(s, shares.Impulse)
        fast == LevelOfSamples(s, shares.Fast)
    IN  /\ AtMost(impulse.mean_square, impulse.peak * impulse.peak)
        /\ NotAbove(fast.mean_square, impulse.mean_square)
        /\ AtMost(Equivalent(impulse), impulse.peak * impulse.peak)

-----------------------------------------------------------------------------
(* Octave bands and the windows of the transfer: octave.cpp, mtw.cpp. *)

\* The bands tile the range: each one's upper edge is the next one's lower edge.
ASSUME BandsTile ==
  \A fraction \in 1..4, low \in {-350, -300, -299, -200}, high \in {100, 199, 201, 300, 400} :
    LET centres == Bands!BandCentres(fraction, low, high, 5, -10..10)
    IN  \A x \in centres :
          \/ \A y \in centres : y <= x
          \/ Bands!OctaveBand(x).upper \in {Bands!OctaveBand(y).lower : y \in centres}

\* A band the spectrum resolves, and reaches, takes its own bins and no other.
BandChoices ==
  {[lower |-> low, centre |-> centre, upper |-> low + width] :
     low \in 1..8, width \in 1..6, centre \in 1..14}
OwnBins(band, spacing) == {k \in 1..4 : band.lower <= k * spacing /\ k * spacing <= band.upper}
ASSUME ResolvedBandsHaveTheirBins ==
  \A band \in BandChoices, spacing \in 1..4 :
    /\ band.centre \in band.lower..band.upper
    /\ Bands!IsResolvable(band, spacing)
    /\ band.upper <= 4 * spacing
    => Bands!BinsOfBand(band, spacing, 4) = OwnBins(band, spacing)

\* Whether a band is resolved is asked of its width alone, so one above the
\* whole spectrum is said to be resolved and is given the last bin.
ASSUME BandAboveTheSpectrumIsResolved ==
  \E band \in BandChoices, spacing \in 1..4 :
    Bands!IsResolvable(band, spacing) /\ OwnBins(band, spacing) = {}
      /\ Bands!BinsOfBand(band, spacing, 4) # {}

\* Below half the rate every frequency has one window of the transfer and reads
\* two bins of it; the point at half the rate has none and is never measured.
Windows == Bands!WindowBands(64, 512, 4096)
ASSUME EveryPointHasOneWindow ==
  \A hz \in 1..4095 :
    /\ Cardinality({i \in DOMAIN Windows : Windows[i].lower <= hz /\ hz < Windows[i].upper}) = 1
    /\ Cardinality(Bands!Resolved(Windows, 4096, hz).bins) = 2
ASSUME PointAtHalfTheRateHasNone ==
  \E hz \in Bands!GridPoints(16, 4096) : Bands!Resolved(Windows, 4096, hz).size = 0

-----------------------------------------------------------------------------
(* The columns of a plot and its grid: reduce.cpp, axis.cpp. *)

Edges == {[p \in 0..4 |-> <<a, b, c, d, e>>[p + 1]] :
            a \in 1..3, b \in 3..4, c \in {4, 6}, d \in {7, 9}, e \in {9, 12, 20}}

\* The columns share out the bins of the axis: none is left out, and only one
\* that is exactly at a shared edge is drawn twice.
ASSUME ColumnsCoverTheBins ==
  \A axis \in Edges, spacing \in {1, 2, 4} :
    LET of(column) == Bands!BinsOf(axis, column, spacing, 4)
    IN  /\ Bands!BinsBetween(axis[0], axis[4], spacing, 4) = of(1) \cup of(2)
        /\ of(1) \cap of(2) \subseteq {k \in 0..4 : k * spacing = axis[2]}

\* A column drawn by its largest bin is no lower than by its mean, which is no
\* lower than by its smallest, whether it has bins of its own or borrows them.
ASSUME ColumnsAreOrdered ==
  \A values \in [0..4 -> 0..2], axis \in Edges, spacing \in {1, 2, 4} : \A c \in 1..2 :
    LET largest == Bands!Reduce(values, spacing, axis, "Max")[c]
        mean == Bands!Reduce(values, spacing, axis, "Mean")[c]
        smallest == Bands!Reduce(values, spacing, axis, "Min")[c]
    IN  NotAbove(smallest, mean) /\ NotAbove(mean, largest)

\* The ticks of a level axis are the multiples of its step in it, in order and
\* in turn major and minor; the decades of a frequency axis are its major ones.
ASSUME TicksAreTheMultiples ==
  \A low \in -13..2, high \in 3..9, step \in 1..7 :
    LET ticks == Bands!LevelTicks(low, high, step)
    IN  /\ {ticks[i].value : i \in DOMAIN ticks} = {v \in low..high : v % step = 0}
        /\ \A i \in 1..Len(ticks) - 1 :
             /\ ticks[i].value < ticks[i + 1].value
             /\ ticks[i].major # ticks[i + 1].major
ASSUME DecadesAreMajor ==
  \A low \in 1..12, high \in {13, 100, 101, 250} :
    {tick.value : tick \in {t \in Bands!FrequencyTicks(low, high, 0..3) : t.major}}
      = {x \in {1, 10, 100, 1000} : low <= x /\ x <= high}

-----------------------------------------------------------------------------
(* The distortion of a tone: distortion.cpp. *)

ToneConfig == [search |-> 1, lobe |-> 1, max_order |-> 4]
ToneSpectra == [1..7 -> 0..2]
Analyses == {[powers |-> p, results |-> Tone!AnalyseDistortion(p, <<>>, ToneConfig)] :
               p \in ToneSpectra}

\* A harmonic is within one bin, and half of the fundamental's own error, of
\* its multiple of the fundamental, and those above the spectrum are counted.
ASSUME HarmonicsAreTheMultiples ==
  \A analysis \in Analyses : \A r \in analysis.results :
    LET f == r.fundamental
    IN  /\ \A h \in r.harmonics :
             /\ h.bin \in 1..7
             /\ 2 * (h.bin * f.by - h.order * f.of) \in (-3 * f.by)..(3 * f.by)
        /\ Tone!HighestOrder(r) + r.above_nyquist <= 4

\* The distortion is at most the distortion and noise as long as no two lobes
\* share a bin, and not otherwise: the bins of harmonics that overlap are
\* counted once for each (distortion.cpp:147-190).
LobesApart(powers, r) ==
  LET bins == Tone!Fundamental(powers, <<>>, ToneConfig)
      tones == r.harmonics \cup [order : {1}, bin : bins]
  IN  \A g, h \in tones : g.order # h.order => g.bin - h.bin \notin -2..2
ASSUME DistortionIsInTheRest ==
  \A analysis \in Analyses : \A r \in analysis.results :
    LobesApart(analysis.powers, r) => r.thd <= r.thd_n
ASSUME LowTonesCountTwice == \E analysis \in Analyses : \E r \in analysis.results : r.thd > r.thd_n
================================================================================
