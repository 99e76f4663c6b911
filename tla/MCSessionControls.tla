---------------------------- MODULE MCSessionControls ----------------------------
(* A small session for TLC: a graphic of two bands, room for two on the    *)
(* audio thread, fits of up to three, two plots (one of them below the     *)
(* alignment band), and settings of which some are out of range.           *)
EXTENDS SessionControls, NumberText, FilterFit

MCOctaveCentres == <<63, 1000>>
MCGains == {0, 2}
MCBandChoices ==
  {Peaking(1000, 2), [kind |-> "LowPass", hz |-> 63, gain |-> 2, enabled |-> TRUE]}

Usable == [hz |-> 100, finite |-> TRUE]
Negative == [hz |-> -1, finite |-> TRUE]
MCTargetFiles == {{}, {Negative}, {Usable, Negative}}

MCSpans == {<<20, 20000>>, <<20, 100>>}
MCDefaultPlot == [span |-> <<20, 20000>>, length |-> 3]

MCNamesAsked ==
  {[text |-> "", numbers |-> <<>>], [text |-> "Trace", numbers |-> <<2>>]}

\* Floats of fifteen binary digits, the largest a little below 2^30.
MCExact == 2^15
MCFloatSteps == {2^k : k \in 0..15}
MCSettingsOffered ==
  {[Defaults EXCEPT !.min_hz = -5, !.max_hz = 10, !.min_db = 10, !.spl_offset_db = Given(NaN),
                    !.window = "tukey"],
   [Defaults EXCEPT !.min_hz = 2^29, !.max_hz = 400, !.min_db = 2^24, !.max_db = 40,
                    !.mic_cal_path = Given([name |-> "cal", blank |-> TRUE, newline |-> FALSE])]}
MCTornValues == {Number(4)}

\* Repaired by the float the source computes, both limits would be none.
ASSUME
  \E s \in MCSettingsOffered :
    FloatOf(2 * s.min_hz) = Inf /\ FloatOf(s.min_db + DefaultRange) = s.min_db

MCSavedNames == {<<"a", "newline", "blank">>}

-----------------------------------------------------------------------------
(* The algorithms the files rest on, over bounded inputs. *)

Characters == {"a", "n", "backslash", "newline"}
Texts == UNION {[1..n -> Characters] : n \in 0..4}

\* Free text comes back as it was, whatever backslashes and newlines it holds,
\* and never breaks the header into more lines (format.cpp:127-165).
ASSUME TextSurvives ==
  \A text \in Texts :
    Unescape(Escape(text)) = text /\ "newline" \notin ToSet(Escape(text))

Values2 == {<<1>>, <<-4>>}
Pairs == {<<3, 90>>, <<NaN, 0>>}
DataOfKind(kind, count) ==
  IF kind \in ComplexKinds
  THEN {[kind |-> kind, points |-> points, axis |-> 5,
         coherence |-> IF kind = "spectrum" THEN <<>> ELSE [i \in 1..count |-> i]] :
          points \in [1..count -> Pairs]}
  ELSE {[kind |-> kind, points |-> points, axis |-> 5, coherence |-> <<>>] :
          points \in [1..count -> Values2]}
AllData == UNION {DataOfKind(kind, count) : kind \in Kinds, count \in 0..2}
References2 ==
  {NoReferences, [NoReferences EXCEPT !.spl_offset_db = Given(0)],
   [NoReferences EXCEPT !.propagation_delay_seconds = Given(7), !.spl_offset_db = Given(-2)]}
AllMeasurements ==
  {[Measurement(<<"backslash", "blank", "n", "newline", "blank">>, 48, data)
      EXCEPT !.id = 3, !.notes = <<"blank", "backslash">>, !.captured_at = -2, !.channels = 2,
             !.references = refs] : data \in AllData, refs \in References2}

\* A file reads as the measurement it was written from, of every kind, what was
\* not known staying unknown and a zero staying a zero (format.hpp).
ASSUME MeasurementSurvives ==
  \A m \in AllMeasurements : ReadMeasurement(WriteMeasurement(m)) = KeptMeasurement(m)

\* No file cut short is read, wherever the cut is.
ASSUME CutShortIsRefused ==
  \A m \in AllMeasurements :
    LET file == WriteMeasurement(m)
    IN  \A n \in 0..Len(file) - 1 : IsRefused(ReadMeasurement(SubSeq(file, 1, n)))

\* What a newer version adds to a header is passed over, and a second line of a
\* key does not undo the first.
Additions == {[key |-> "mood", value |-> Word("good")], [key |-> "points", value |-> Number(1)],
              [odd |-> "a line that is no field"]}
ASSUME NewerFileReads ==
  \A m \in AllMeasurements, added \in Additions :
    LET file == WriteMeasurement(m)
        end == SeparatorAt(file) - 1
    IN  ReadMeasurement(SubSeq(file, 1, end) \o <<added>> \o SubSeq(file, end + 1, Len(file)))
          = KeptMeasurement(m)

\* A header that promises more points than any file holds is a short file, not
\* a size that wrapped around (format.cpp:87-95).
ASSUME HugeCountIsRefused ==
  \A m \in AllMeasurements : \A claimed \in {Inf, LargestSize, LargestSize \div 2 + 1} :
    LET file == WriteMeasurement(m)
        lying == [i \in DOMAIN file |->
                    IF "key" \in DOMAIN file[i] /\ file[i].key = "points"
                    THEN Field("points", claimed) ELSE file[i]]
    IN  ReadMeasurement(lying) = [refused |-> "Truncated"]

\* The rows of a text are the bins in order, and a bin of zero is at the floor
\* whatever the offset (export.cpp:19-25).
ASSUME ZeroBinsAreAtTheFloor ==
  \A m \in AllMeasurements : m.data.kind \in ComplexKinds =>
    \A i \in DOMAIN m.data.points :
      /\ ToRewText(m)[i + 1].row[1] = BinFrequency(m.data, i - 1).value
      /\ m.data.points[i][1] = NaN => ToRewText(m)[i + 1].row[2] = Floor

\* The shortest digits, laid out by place, are a literal and the same number
\* (base/number_text.hpp).
Decimals == {[negative |-> negative, digits |-> digits, point |-> point] :
               negative \in BOOLEAN, point \in -3..5,
               digits \in {<<d>> \o rest : d \in {1, 9}, rest \in UNION {[1..n -> {0, 5}] : n \in 0..3}}}
ASSUME PrintedNumbersRead ==
  \A x \in Decimals :
    LET text == Positional(x.negative, x.digits, x.point)
    IN  IsReal(text) /\ Normal(Parsed(text)) = Normal(x)

\* A literal is a mantissa with a digit in it and, after an e, an exponent with
\* a digit in it; said without the scan.
ShortTexts == UNION {[1..n -> {1, Point, Exponent, Minus}] : n \in 0..6}
Runs(n) == [i \in 1..n |-> 1]
Mantissas == {Runs(n) : n \in 1..6} \cup
             UNION {{Runs(n) \o <<Point>> \o Runs(k) : k \in IF n = 0 THEN 1..5 ELSE 0..5} : n \in 0..5}
Exponents == {<<>>} \cup {<<Exponent>> \o sign \o Runs(n) : n \in 1..4, sign \in {<<>>, <<Minus>>}}
Literals == {mantissa \o exponent : mantissa \in Mantissas, exponent \in Exponents}
ASSUME ScanIsTheGrammar == \A text \in ShortTexts : IsDecimalLiteral(text) <=> text \in Literals

\* A parametric device told of a band designs the section that band is here,
\* of every shape, on or off, with a gain its shape uses or not.
AllBands ==
  [kind : FilterKinds, hz : {63}, gain : {-3, 0, 3}, enabled : BOOLEAN]
ASSUME LinesDescribeBands == \A b \in AllBands : DesignOfLine(FilterLine(1, b)) = Design(b)

\* What a filter adds, here: a triangle that falls to nothing with the distance
\* from its frequency, the faster the higher its Q.
MCBandLevel(band, hz) ==
  LET fall == (Size(band.gain) * Size(hz - band.hz) * band.q * 2) \div (10 * band.hz)
      left == Larger(Size(band.gain) - fall, 0)
  IN  IF band.gain < 0 THEN -left ELSE left

Columns == <<15, 30, 80, 160, 600>>
OnTarget == [i \in 1..5 |-> 0]
MeasuredCurves == {<<<<4>>>> \o middle \o <<<<150>>>> : middle \in [1..3 -> {<<>>, <<-60>>, <<4>>, <<150>>}]}
FitLimits == [from_hz |-> 20, to_hz |-> 500, min_q |-> 5, max_q |-> 80, max_cut |-> 120,
              max_boost |-> 30, threshold |-> 5, max_filters |-> 3]
WithinLimits(band) == band.hz \in 20..500 /\ band.q \in 5..80 /\ band.gain \in -120..30

\* Every filter of a fit is within the limits given for it and does something,
\* there are no more of them than were asked for, and the fit answers only for
\* what is in its range of frequencies (optimise.cpp:187-268).
ASSUME FitKeepsItsLimits ==
  \A measured \in MeasuredCurves :
    LET fit == Optimised(Columns, measured, OnTarget, FitLimits)
    IN  /\ Len(fit.bands) <= FitLimits.max_filters
        /\ \A i \in DOMAIN fit.bands : WithinLimits(fit.bands[i]) /\ fit.bands[i].gain # 0
        /\ \A k \in DOMAIN fit.points : fit.points[k].hz \in 20..500

\* Refining a filter never leaves the curve further from the target than the
\* first guess did, and the whole fit no further than no filter at all.
ASSUME FitDoesNotWorsen ==
  \A measured \in MeasuredCurves :
    LET points == Points(Columns, measured, OnTarget, FitLimits)
        guess == FirstGuess(points, FitLimits)
        fit == Optimised(Columns, measured, OnTarget, FitLimits)
    IN  points # <<>> =>
          /\ Score(Corrected(points, Refined(guess, points, FitLimits)))
               <= Score(Corrected(points, guess))
          /\ Score(fit.points) <= Score(points)
================================================================================
