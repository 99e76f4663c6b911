-------------------------------- MODULE Averaging --------------------------------
(***************************************************************************)
(* How frames become what is shown: the averages of the spectrum           *)
(* (dsp/spectrum.cpp) and of the transfer function (dsp/transfer.cpp), the *)
(* level meter (dsp/meter.cpp), and the phase unwrapped along a curve.     *)
(*                                                                         *)
(* Powers are whole numbers and averages fractions of them; a fraction is  *)
(* [of, by] and need not be in lowest terms.  A complex value is a pair of *)
(* whole numbers.  One bin stands for all.                                 *)
(***************************************************************************)
EXTENDS Integers, Sequences, SequencesExt

CONSTANT MostFrames    \* where the counts of frames stop

ASSUME AveragingAssumption == MostFrames \in Nat \ {0}

Ratio(of, by) == [of |-> of, by |-> by]
Same(a, b) == a.of * b.by = b.of * a.by
NotAbove(a, b) == a.of * b.by <= b.of * a.by
Nothing == Ratio(0, 1)

(* A value moved towards another by a share of their difference.           *)
Moved(from, to, share) ==
  Ratio(from.of * to.by * (share.by - share.of) + to.of * from.by * share.of,
        from.by * to.by * share.by)

Clamped(share) == IF share.of < 0 THEN Nothing ELSE IF share.of > share.by THEN Ratio(1, 1) ELSE share

(* The incremental mean.                                                   *)
OneOf(frames) == Ratio(1, frames + 1)

CountedOn(frames) == IF frames < MostFrames THEN frames + 1 ELSE frames

-----------------------------------------------------------------------------
(* SpectrumAnalyzer::accumulate and its count; set_averaging starts over.  *)

NoAverage == [power |-> Nothing, frames |-> 0]

AccumulatedPower(average, frame, averaging) ==
  LET first == average.frames = 0
  IN  CASE averaging.mode = "None" -> frame
        [] averaging.mode = "Exponential" ->
             IF first THEN frame ELSE Moved(average.power, frame, Clamped(averaging.alpha))
        [] averaging.mode = "Infinite" -> Moved(average.power, frame, OneOf(average.frames))
        [] averaging.mode = "Linear" ->
             IF average.frames < averaging.frames
             THEN Moved(average.power, frame, OneOf(average.frames)) ELSE average.power
        [] averaging.mode = "PeakHold" ->
             IF first \/ NotAbove(average.power, frame) THEN frame ELSE average.power

Accumulate(average, frame, averaging) ==
  [power |-> AccumulatedPower(average, frame, averaging), frames |-> CountedOn(average.frames)]

AverageOf(frames, averaging) ==
  FoldLeft(LAMBDA average, frame : Accumulate(average, Ratio(frame, 1), averaging),
           NoAverage, frames)

-----------------------------------------------------------------------------
(* TransferFunction::process_frame: the three spectra of a bin, moved by   *)
(* the same share.                                                         *)

Norm(z) == z[1] * z[1] + z[2] * z[2]
TimesConjugate(y, x) == <<y[1] * x[1] + y[2] * x[2], y[2] * x[1] - y[1] * x[2]>>

NoTransfer == [gxx |-> Nothing, gyy |-> Nothing, gxy |-> <<Nothing, Nothing>>, frames |-> 0]

ProcessFrame(transfer, x, y, averaging) ==
  LET share == IF averaging.mode = "Infinite" THEN OneOf(transfer.frames)
               ELSE IF transfer.frames = 0 THEN Ratio(1, 1) ELSE Clamped(averaging.alpha)
      cross == TimesConjugate(y, x)
  IN  [gxx |-> Moved(transfer.gxx, Ratio(Norm(x), 1), share),
       gyy |-> Moved(transfer.gyy, Ratio(Norm(y), 1), share),
       gxy |-> [i \in 1..2 |-> Moved(transfer.gxy[i], Ratio(cross[i], 1), share)],
       frames |-> CountedOn(transfer.frames)]

TransferOf(frames, averaging) ==
  FoldLeft(LAMBDA transfer, frame : ProcessFrame(transfer, frame[1], frame[2], averaging),
           NoTransfer, frames)

(* write_response, and write_coherence before its clamp: nothing is said   *)
(* of a bin without energy.  The spectra share one denominator.            *)
Response(transfer) ==
  IF transfer.gxx.of = 0 THEN <<Nothing, Nothing>>
  ELSE [i \in 1..2 |-> Ratio(transfer.gxy[i].of, transfer.gxx.of)]

Coherence(transfer) ==
  IF transfer.gxx.of = 0 \/ transfer.gyy.of = 0 THEN Nothing
  ELSE Ratio(Norm(<<transfer.gxy[1].of, transfer.gxy[2].of>>), transfer.gxx.of * transfer.gyy.of)

(* unwrap_phase_degrees, in degrees: every jump of more than half a turn   *)
(* is one of the other way round.                                          *)
UnwrapPhase(phase) ==
  LET Turn(step) == IF step > 180 THEN -360 ELSE IF step < -180 THEN 360 ELSE 0
      Offset[i \in 1..Len(phase)] ==
        IF i = 1 THEN 0 ELSE Offset[i - 1] + Turn(phase[i] - phase[i - 1])
  IN  [i \in DOMAIN phase |-> phase[i] + Offset[i]]

-----------------------------------------------------------------------------
(* LevelMeter::push, one sample at a time, after its weighting filter.     *)

(* time_constants, as the shares the mean square moves by: impulse rises   *)
(* fast and falls slowly.                                                  *)
Shares(fast, slow) ==
  [Fast |-> [attack |-> fast, decay |-> fast], Slow |-> [attack |-> slow, decay |-> slow],
   Impulse |-> [attack |-> fast, decay |-> slow]]

NoLevel == [mean_square |-> Nothing, peak |-> 0, energy |-> 0, samples |-> 0]

Metered(level, sample, integration) ==
  LET square == Ratio(sample * sample, 1)
      share == IF NotAbove(square, level.mean_square) THEN integration.decay ELSE integration.attack
      size == IF sample < 0 THEN -sample ELSE sample
  IN  [mean_square |-> Moved(level.mean_square, square, share),
       peak |-> IF size > level.peak THEN size ELSE level.peak,
       energy |-> level.energy + sample * sample, samples |-> level.samples + 1]

LevelOfSamples(samples, integration) ==
  FoldLeft(LAMBDA level, sample : Metered(level, sample, integration), NoLevel, samples)

(* leq_db *)
Equivalent(level) == IF level.samples = 0 THEN Nothing ELSE Ratio(level.energy, level.samples)
==================================================================================
