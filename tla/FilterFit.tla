--------------------------------- MODULE FilterFit ---------------------------------
(***************************************************************************)
(* The greedy fit of parametric filters to the gap between a measurement   *)
(* and a target (dsp/optimise.cpp): a peaking filter on the largest error  *)
(* left, its frequency, Q and gain refined by coordinate descent, its      *)
(* response taken off, and again.                                          *)
(*                                                                         *)
(* Frequencies are whole hertz in ascending order, levels whole tenths of  *)
(* a decibel and Qs whole tenths; a level that is not finite is <<>>, one  *)
(* that is <<level>>.  A band is [hz, q, gain].                            *)
(***************************************************************************)
EXTENDS Integers, Sequences, SequencesExt, FiniteSetsExt

CONSTANTS
  BandLevel(_, _),   \* what a band adds at a frequency
  Rounds             \* kRounds of the refinement

ASSUME FitAssumption == Rounds \in Nat

Size(x) == IF x < 0 THEN -x ELSE x
Limited(x, low, high) == IF x < low THEN low ELSE IF x > high THEN high ELSE x
Smaller(a, b) == IF a <= b THEN a ELSE b
Larger(a, b) == IF a >= b THEN a ELSE b

(* The root of a whole number, rounded down.                               *)
Root(n) == CHOOSE r \in 0..n : r * r <= n /\ (r + 1) * (r + 1) > n

(* The points inside the band that are usable, and how far each sits above *)
(* the target; read up to the shorter of the two sequences.                *)
Points(frequencies, measured, target, config) ==
  LET count == Smaller(Len(frequencies), Len(measured))
      used == SelectSeq([i \in 1..count |-> i],
                LAMBDA i : /\ config.from_hz <= frequencies[i] /\ frequencies[i] <= config.to_hz
                           /\ measured[i] # <<>>)
  IN  [k \in DOMAIN used |-> [hz |-> frequencies[used[k]],
                              error |-> measured[used[k]][1] - target[used[k]]]]

(* apply: cascaded levels add.  score: the squares of what is left.        *)
Corrected(points, band) ==
  [i \in DOMAIN points |-> [points[i] EXCEPT !.error = @ + BandLevel(band, points[i].hz)]]

Score(points) == FoldSeq(LAMBDA point, sum : sum + point.error * point.error, 0, points)

(* try_candidate takes one that is strictly better.                        *)
Better(best, candidate, points) ==
  IF Score(Corrected(points, candidate)) < Score(Corrected(points, best)) THEN candidate ELSE best

(* refine: each round moves one parameter of the band it began with.  The  *)
(* factors are in thousandths, and each round's are half as far from one.  *)
Factors == <<-100, -40, 40, 100>>

Scaled(x, percent, round) == x + (x * percent) \div (1000 * 2^round)

Candidates(band, round, config) ==
  FlattenSeq([i \in DOMAIN Factors |->
    LET To(x) == Scaled(x, Factors[i], round)
    IN  << [band EXCEPT !.hz = Limited(To(@), config.from_hz, config.to_hz)],
           [band EXCEPT !.q = Limited(To(@), config.min_q, config.max_q)],
           [band EXCEPT !.gain = Limited(To(@), -config.max_cut, config.max_boost)] >>])

Refined(start, points, config) ==
  LET Round(band, round) ==
        FoldLeft(LAMBDA best, candidate : Better(best, candidate, points),
                 band, Candidates(band, round, config))
  IN  FoldLeft(Round, start, [r \in 1..Rounds |-> r - 1])

(* estimate_q: outwards from the peak to where the error has halved.       *)
EstimateQ(points, at, config) ==
  LET peak == points[at].error
      Crossed(i) == IF peak > 0 THEN 2 * points[i].error < peak ELSE 2 * points[i].error > peak
      below == {i \in 1..at - 1 : Crossed(i)}
      above == {i \in at + 1..Len(points) : Crossed(i)}
      low == IF below = {} THEN Head(points).hz ELSE points[Max(below)].hz
      high == IF above = {} THEN Last(points).hz ELSE points[Min(above)].hz
  IN  Limited(IF high <= low THEN 40 ELSE (10 * Root(low * high)) \div (high - low),
              config.min_q, config.max_q)

(* place_filter: the last of the largest errors, cut by much or boosted by *)
(* little, unless it is below the threshold or refined away.               *)
PeakAt(points) ==
  CHOOSE i \in DOMAIN points : \A j \in DOMAIN points :
    Size(points[j].error) < Size(points[i].error)
    \/ (Size(points[j].error) = Size(points[i].error) /\ j <= i)

FirstGuess(points, config) ==
  LET at == PeakAt(points)
      error == points[at].error
  IN  [hz |-> points[at].hz, q |-> EstimateQ(points, at, config),
       gain |-> IF error > 0 THEN Larger(-error, -config.max_cut) ELSE Smaller(-error, config.max_boost)]

PlaceFilter(points, config) ==
  IF points = <<>> \/ Size(points[PeakAt(points)].error) < config.threshold THEN <<>>
  ELSE LET band == Refined(FirstGuess(points, config), points, config)
       IN  IF band.gain = 0 THEN <<>> ELSE <<band>>

(* optimise: filter after filter until one is not placed.                  *)
Placed(fit, config) ==
  LET band == IF fit.stopped THEN <<>> ELSE PlaceFilter(fit.points, config)
  IN  IF band = <<>> THEN [fit EXCEPT !.stopped = TRUE]
      ELSE [fit EXCEPT !.bands = Append(@, band[1]), !.points = Corrected(@, band[1])]

Optimised(frequencies, measured, target, config) ==
  LET points == Points(frequencies, measured, target, config)
  IN  FoldLeft(LAMBDA fit, round : Placed(fit, config),
               [bands |-> <<>>, points |-> points, stopped |-> points = <<>>],
               [r \in 1..config.max_filters |-> r])
====================================================================================
