----------------------------- MODULE ImpulseResponses -----------------------------
(***************************************************************************)
(* What is read out of an impulse response: where the direct sound is      *)
(* (dsp/deconv.cpp), the gate around it, the decay behind it and where     *)
(* that meets the noise (dsp/ir.cpp), the reflections a report names       *)
(* (cli/measure.cpp), the points a plot draws (ffi/measure.cpp); and the   *)
(* delay between two signals (dsp/delay.cpp).                              *)
(*                                                                         *)
(* Samples are whole numbers, numbered from 1; places and lengths are the  *)
(* code's, from 0.  The transforms behind a response are not modelled, nor *)
(* the line fitted to a decay, whose points are logarithms.                *)
(***************************************************************************)
EXTENDS Integers, Sequences, FiniteSets, SequencesExt, FiniteSetsExt

CONSTANTS
  Grain,      \* steps between two samples a refined place is counted in
  Block,      \* kBlock of noise_floor_index
  Headroom    \* samples after the arrival in which no reflection is looked for

ASSUME ImpulseAssumption ==
  /\ Grain \in Nat \ {0} /\ Block \in Nat \ {0} /\ Headroom \in Nat \ {0}

Magnitude1(x) == IF x < 0 THEN -x ELSE x
Magnitudes(samples) == [i \in DOMAIN samples |-> Magnitude1(samples[i])]
Between(x, low, high) == IF x < low THEN low ELSE IF x > high THEN high ELSE x
SumOf(s) == FoldSeq(+, 0, s)
Energy(s) == FoldSeq(LAMBDA x, sum : sum + x * x, 0, s)

-----------------------------------------------------------------------------
(* Peaks. *)

\* last_max_index: the last of several equal maxima.
LastMax(s) == CHOOSE i \in DOMAIN s : \A j \in DOMAIN s : s[j] <= s[i] /\ (s[j] = s[i] => j <= i)

\* The vertex of the parabola through three neighbours, in Grains from the
\* middle one, never further than half a sample.
Vertex(before, peak, after) ==
  LET curvature == before - 2 * peak + after
  IN  IF curvature = 0 THEN 0
      ELSE Between((Grain * (after - before)) \div (2 * (-curvature)), -(Grain \div 2), Grain \div 2)

\* locate_peak of deconv.cpp: a response has ends.
PeakOf(samples) ==
  LET level == Magnitudes(samples)
      at == LastMax(level)
  IN  Grain * (at - 1) + Vertex(IF at > 1 THEN level[at - 1] ELSE level[at], level[at],
                                IF at < Len(level) THEN level[at + 1] ELSE level[at])

\* time_at: relative to the direct arrival.
TimeAt(samples, index) == Grain * index - PeakOf(samples)

\* Deconvolver::deconvolve divides, or has nothing to divide by.
Deconvolves(stimulus, response) ==
  stimulus # <<>> /\ response # <<>> /\ \E i \in DOMAIN stimulus : stimulus[i] # 0

-----------------------------------------------------------------------------
(* Delay between two signals. *)

Padded(s, size) == [i \in 1..size |-> IF i <= Len(s) THEN s[i] ELSE 0]

\* The circular correlation, by its definition.
Correlation(reference, measurement) ==
  LET size == Len(reference)
  IN  [k \in 1..size |->
         SumOf([n \in 1..size |-> measurement[((n - 1 + k - 1) % size) + 1] * reference[n]])]

\* DelayFinder::locate_peak: the correlation is a circle, and its upper half is
\* a measurement ahead of its reference.
LagOf(correlation) ==
  LET size == Len(correlation)
      at == LastMax(correlation) - 1
      place == Grain * at + Vertex(correlation[((at + size - 1) % size) + 1], correlation[at + 1],
                                   correlation[((at + 1) % size) + 1])
  IN  IF at > size \div 2 THEN place - Grain * size ELSE place

\* DelayFinder::find, unweighted; nothing without a signal on both sides.
FindDelay(reference, measurement, size) ==
  LET taken == Min({size, Len(reference), Len(measurement)})
      x == Padded(SubSeq(reference, 1, taken), size)
      y == Padded(SubSeq(measurement, 1, taken), size)
  IN  IF taken = 0 \/ Energy(x) = 0 \/ Energy(y) = 0 THEN <<>> ELSE <<LagOf(Correlation(x, y))>>

-----------------------------------------------------------------------------
(* The gate. *)

\* apply_gate: the first sample kept, the first no longer kept, and how many of
\* the last are faded.  A gate is in samples around a peak in Grains.
GateSpan(length, peak, gate) ==
  LET Place(offset) == Between((2 * (peak + Grain * offset) + Grain) \div (2 * Grain), 0, length)
      from == Place(gate.start)
      to == Place(gate.end)
  IN  IF from >= to THEN <<>> ELSE <<from, to, Min({gate.fade, to - from})>>

\* gated_response
GatedBins(length, peak, gate, size) ==
  IF size < 2 \/ size % 2 # 0 \/ GateSpan(length, peak, gate) = <<>> THEN 0 ELSE (size \div 2) + 1

-----------------------------------------------------------------------------
(* The decay. *)

Blocks(samples) == [b \in 1..((Len(samples) + Block - 1) \div Block) |->
  SubSeq(samples, (b - 1) * Block + 1, Min({b * Block, Len(samples)}))]

\* noise_floor_index; mean energies are in Block-ths.
NoiseFloorIndex(samples) ==
  LET energy == [b \in DOMAIN Blocks(samples) |->
                   (Energy(Blocks(samples)[b]) * Block) \div Len(Blocks(samples)[b])]
      count == Len(energy) \div 10
      floor == SumOf(SubSeq(energy, Len(energy) - count + 1, Len(energy)))
      clear == {b \in DOMAIN energy : energy[b] * count > 10 * floor}
  IN  IF Len(samples) < 8 * Block \/ count = 0 \/ floor = 0 \/ clear = {} THEN Len(samples)
      ELSE Min({(Max(clear) + 1) * Block, Len(samples)})

\* schroeder_decay, as the energy still to come.
SchroederDecay(samples, peak) ==
  LET after == SubSeq(samples, Min({peak \div Grain, Len(samples)}) + 1, Len(samples))
      tail == SubSeq(after, 1, NoiseFloorIndex(after))
  IN  [i \in DOMAIN tail |-> Energy(SubSeq(tail, i, Len(tail)))]

\* What a level below the start is of its energy, times 10000.
Fraction == [zero |-> 10000, minus5 |-> 3162, minus10 |-> 1000, minus25 |-> 32, minus35 |-> 3]

\* fit_decay: the span a line is fitted to, if the decay gets that far before
\* the tail that carries no information.
FitSpan(decay, from, to) ==
  LET searchable == Max({(Len(decay) * 9) \div 10, 4})
      below(level) == {i \in 1..searchable : decay[i] * 10000 <= decay[1] * Fraction[level]}
  IN  IF Len(decay) < 4 \/ decay[1] = 0 \/ below(from) = {} \/ below(to) = {} THEN <<>>
      ELSE IF Min(below(to)) <= Min(below(from)) + 2 THEN <<>>
      ELSE <<Min(below(from)) - 1, Min(below(to)) - 1>>

\* reverb_time
ReverbSpans(decay) ==
  [edt |-> FitSpan(decay, "zero", "minus10"), t20 |-> FitSpan(decay, "minus5", "minus25"),
   t30 |-> FitSpan(decay, "minus5", "minus35")]

\* ReverbTime::best
BestOf(spans) ==
  IF spans.t30 # <<>> THEN "t30" ELSE IF spans.t20 # <<>> THEN "t20"
  ELSE IF spans.edt # <<>> THEN "edt" ELSE "none"

-----------------------------------------------------------------------------
(* What is shown of it. *)

\* report_impulse: the first six local maxima after the arrival that stand
\* clear of it, within the window.
Reflections(samples, peak, window) ==
  LET level == Magnitudes(samples)
      start == peak \div Grain
      stop == Min({start + window, Len(samples)})
      IsOne(i) == /\ level[i + 1] * 100 >= Max(Range(level)) * 15
                  /\ i >= 1 /\ level[i] < level[i + 1]
                  /\ i + 1 < Len(level) /\ level[i + 2] <= level[i + 1]
      found == SelectSeq([k \in 1..stop |-> k - 1], LAMBDA i : i >= start + Headroom /\ IsOne(i))
  IN  SubSeq(found, 1, Min({6, Len(found)}))

\* analyzer_session_copy_impulse: the strongest sample of each slot's span.
SlotSpan(slot, wanted, written) ==
  LET from == (slot * wanted) \div written
  IN  <<from, Min({Max({((slot + 1) * wanted) \div written, from + 1}), wanted})>>
CopyImpulse(samples, wanted, capacity) ==
  LET span == Max({Min({wanted, Len(samples)}), 1})
      written == Min({capacity, span})
  IN  [slot \in 1..written |->
         LET part == SubSeq(samples, SlotSpan(slot - 1, span, written)[1] + 1,
                            SlotSpan(slot - 1, span, written)[2])
         IN  part[LastMax(Magnitudes(part))]]

================================================================================
