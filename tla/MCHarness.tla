-------------------------------- MODULE MCHarness --------------------------------
(* A few files and the command lines that meet them. *)
EXTENDS Harness

\* In halves, which is what Parts says.
NumberTokens == "-1" :> -2 @@ "0" :> 0 @@ "0.5" :> 1 @@ "1" :> 2 @@ "2" :> 4 @@ "3" :> 6 @@ "4" :> 8
                @@ "5" :> 10 @@ "6" :> 12 @@ "16" :> 32 @@ "22" :> 44
FewBits == 16 :> 2 @@ 24 :> 3 @@ 32 :> 4
TestWaves == [sine |-> <<0, 1, 0, -1>>, sweep |-> <<1, -1, 1, 1, -1>>,
              white |-> <<1, 1, -1>>, pink |-> <<1, -1>>]

Audio(container, channels, declared, data) ==
  [kind |-> "wav", container |-> container, float |-> TRUE, width |-> 32, channels |-> channels,
   rate |-> 2, declared |-> declared, data |-> data]
Row(hz, db) == [usable |-> TRUE, hz |-> Parts * hz, db |-> Parts * db]
Heading == [usable |-> FALSE, hz |-> 0, db |-> 0]

Stereo == <<1, -1, 2, -2, 3, -3, 4, -4, 5, -5, 6, -6>>
Start ==
  "stereo" :> Audio("riff", 2, 12, Stereo) @@
  "short" :> Audio("riff", 2, 14, Stereo) @@
  "short64" :> Audio("w64", 2, 14, Stereo) @@
  "mono" :> Audio("riff", 1, 6, <<0, 3, 0, -3, 1, 2>>) @@
  "silent" :> Audio("riff", 1, 4, <<0, 0, 0, 0>>) @@
  "empty" :> Audio("riff", 1, 0, <<>>) @@
  "bytes" :> [Audio("riff", 1, 4, <<1, 1, 1, 1>>) EXCEPT !.float = FALSE, !.width = 8] @@
  "notes" :> [kind |-> "text"] @@
  "level" :> [kind |-> "export", rows |-> <<Heading, Row(20, 0), Row(22, 4), Row(24, 8)>>] @@
  "raised" :> [kind |-> "export", rows |-> <<Row(24, 14), Row(21, 8), Row(20, 6), Heading, Row(22, 10)>>] @@
  "dipped" :> [kind |-> "export", rows |-> <<Row(20, 0), Row(22, 4), Row(24, -10), Row(26, 0)>>] @@
  "above" :> [kind |-> "export", rows |-> <<Row(30, 0), Row(32, 0)>>]

TestDisks == {Start}

\* What the modes list; the first row of a spectrum is DC, which no reader takes.
Spectrum == <<Heading, Row(20, 0), Row(22, 4), Row(24, 8)>>
TestRows == [wav |-> Spectrum, sine |-> Spectrum, live |-> <<Heading, Row(22, 4)>>,
             demo |-> <<Row(20, 6), Row(22, 10)>>, measure |-> <<Row(20, 0), Row(22, 6)>>]
LevelsCut == {0, 2}

Small == <<"--fft", "4", "--block", "2">>
TestCommands ==
  { <<"-h">>, <<>>, <<"--fft">>, <<"--fft", "5", "mono">>, <<"mono", "stereo">>,
    <<"--peak", "--bench", "--no-meter">>, <<"--bench", "0">>, <<"--list-devices">>,
    <<"--measure-demo", "--out", "made">>, <<"--nonsense", "mono">>, <<"made", "--live">> }
  \union { Small \o tail : tail \in {
    <<"stereo">>, <<"stereo", "--channel", "1", "--out", "made">>, <<"stereo", "--channel", "2">>,
    <<"stereo", "--block", "3", "--overlap", "50">>, <<"stereo", "--block", "6">>,
    <<"short">>, <<"short64">>, <<"bytes">>, <<"notes">>, <<"mono", "--out", "mono">>, <<"made">>,
    <<"stereo", "--channel", "0.5">>,
    <<"--sine", "1", "--rate", "2", "--seconds", "3">>, <<"--sine", "1", "--rate", "2", "--seconds", "-1">>,
    <<"--live", "0.5">>, <<"--live", "0.5", "--channel", "1", "--out", "made">> } }
  \union { <<"--generate">> \o tail : tail \in {
    <<"sweep", "--out", "made", "--rate", "2", "--seconds", "3", "--amplitude", "1", "--depth", "i16">>,
    <<"sine", "--out", "made", "--rate", "2", "--seconds", "2", "--depth", "24">>,
    <<"white", "--out", "made", "--rate", "2", "--seconds", "2", "--amplitude", "2">>,
    <<"pink", "--out", "made", "--rate", "16", "--seconds", "2">>,
    <<"sine", "--out", "made", "--rate", "22", "--seconds", "1">>,
    <<"white", "--out", "made", "--rate", "0.5", "--seconds", "3">>,
    <<"sine">>, <<"hum", "--out", "made">>, <<"sine", "--out", "made", "--seconds", "0">> } }
  \union { <<"--compare", "level">> \o tail : tail \in {
    <<"raised", "--tolerance", "1">>, <<"dipped", "--tolerance", "3">>, <<"dipped">>,
    <<"above", "--tolerance", "6">>, <<"notes">>, <<"raised", "--from-hz", "22", "--to-hz", "0">>,
    <<"dipped", "--tolerance", "0", "--to-hz", "22", "--out", "made">>,
    <<"made", "--tolerance", "3">> } }
  \union { <<"--compare", "dipped", "level", "--tolerance", "3">>,
           <<"--compare", "made", "level", "--tolerance", "3">> }
  \union { <<"--measure">> \o tail : tail \in {
    <<"mono", "stereo", "--fft", "4">>, <<"mono", "silent">>, <<"made", "mono", "--out", "made">>,
    <<"silent", "mono">>, <<"short", "mono">>, <<"empty", "mono">>, <<"empty", "empty">> } }

\* Options may be given in any order and between the words of no other: groups
\* of flags with what they take can be exchanged.
OptionGroups ==
  { <<"--fft", "4">>, <<"--peak">>, <<"mono">>, <<"--out", "made">>, <<"--generate", "sine">>,
    <<"--amplitude", "2">>, <<"--channel", "-1">>, <<"--window", "bh">>, <<"--live", "2">>,
    <<"--rate", "0">>, <<"--compare", "level", "raised">> }

ASSUME OrderOfOptionsIsFree ==
  \A a, b, c \in OptionGroups :
    Cardinality({a, b, c}) = 3 => ParseArgs(a \o b \o c) = ParseArgs(c \o a \o b)

-----------------------------------------------------------------------------
(* What is read out of a response, over all the short ones. *)

Short == UNION {[1..n -> {-2, -1, 0, 1, 2}] : n \in 1..4}

\* The direct arrival is within half a sample of the last strongest one.
ASSUME PeakIsTheLastMaximum ==
  \A s \in Short :
    LET at == LastMax(Magnitudes(s)) - 1
    IN  /\ 2 * Magnitude1(PeakOf(s) - Grain * at) <= Grain
        /\ 2 * Magnitude1(TimeAt(s, at)) <= Grain
        /\ \A i \in DOMAIN s : i > at + 1 => Magnitude1(s[i]) < Magnitude1(s[at + 1])

Shifted(s, d, size) == [i \in 1..size |-> IF i - d \in DOMAIN s THEN s[i - d] ELSE 0]

\* A copy that lags or leads by less than half the circle is found at its lag.
ASSUME DelayIsFound ==
  \A s \in {s \in Short : Len(s) = 3 /\ Energy(s) > 0} : \A d \in 0..3 :
    /\ FindDelay(Padded(s, 8), Shifted(s, d, 8), 8) = <<Grain * d>>
    /\ d > 0 => FindDelay(Shifted(s, d, 8), Padded(s, 8), 8) = <<-Grain * d>>

\* A longer one is found as a lead.
ASSUME LongDelayReadsAsLead ==
  \A d \in 5..7 : FindDelay(<<1, 0, 0, 0, 0, 0, 0, 0>>, Shifted(<<1>>, d, 8), 8) = <<Grain * (d - 8)>>

Gates == [start : {-2, 0, 2}, end : {-1, 1, 3}, fade : {0, 2, 9}]
\* A gate keeps whole samples of the response, the arrival among them when it
\* opens before and closes after it, and fades no more than it keeps.
ASSUME GateKeepsTheArrival ==
  \A length \in 1..5, gate \in Gates : \A peak \in {p \in 0..Grain * (length - 1) : p % (Grain \div 4) = 0} :
    LET span == GateSpan(length, peak, gate)
    IN  /\ span # <<>> => /\ 0 <= span[1] /\ span[1] < span[2] /\ span[2] <= length
                          /\ span[3] <= span[2] - span[1]
        /\ gate.start < 0 /\ gate.end > 0 =>
             span # <<>> /\ span[1] <= peak \div Grain /\ peak \div Grain < span[2]

\* Loud for `loud` blocks, then the floor.
Record(loud, quiet, high, low) ==
  [i \in 1..loud + quiet |-> IF i <= loud THEN high ELSE low]

\* Nothing that stands clear of the floor is cut off, and what is cut off is at
\* the floor; a response that decays to nothing is kept whole.
ASSUME FloorIsCutOff ==
  \A loud \in 1..14, quiet \in 0..24, low \in 0..1, high \in {1, 3, 4} :
    LET samples == Record(loud, quiet, high, low)
        kept == NoiseFloorIndex(samples)
    IN  /\ kept \in 1..Len(samples)
        /\ \A i \in kept + 1..Len(samples) : samples[i] = low
        /\ low = 0 /\ quiet >= 4 => kept = Len(samples)
        /\ low = 1 /\ high = 4 /\ loud >= Block /\ quiet >= 10 /\ loud + quiet >= 20 =>
             kept <= loud + 2 * Block

Decays == {Record(k, n - k, high, low) : n \in {9}, k \in 0..9, high \in {1, 60}, low \in 0..1}
          \union {[i \in 1..n |-> 2^(n - i)] : n \in {3, 4, 6, 9}}
\* A decay falls from all of its energy, and no estimate is made from its last
\* tenth or from a decay that does not reach that far.
ASSUME EstimatesNeedRange ==
  \A samples \in Decays :
    LET decay == SchroederDecay(samples, 0)
        spans == ReverbSpans(decay)
    IN  /\ \A i \in 1..Len(decay) - 1 : decay[i] >= decay[i + 1]
        /\ \A name \in DOMAIN spans : spans[name] # <<>> =>
             /\ spans[name][2] < Max({(Len(decay) * 9) \div 10, 4})
             /\ spans[name][1] + 2 < spans[name][2]
        /\ spans.t30 # <<>> => decay[spans.t30[2] + 1] * 10000 <= 3 * decay[1]
        /\ BestOf(spans) = "none" <=> \A name \in DOMAIN spans : spans[name] = <<>>
        /\ samples = [i \in 1..9 |-> 2^(9 - i)] => BestOf(spans) = "t30" /\ spans.edt = <<>>

\* Every sample asked for is in one slot's span, and a span's strongest is drawn.
ASSUME DecimationCovers ==
  \A wanted \in 1..7 : \A written \in 1..wanted :
    /\ SlotSpan(0, wanted, written)[1] = 0
    /\ \A slot \in 0..written - 1 :
         LET span == SlotSpan(slot, wanted, written)
         IN  span[1] < span[2] /\
             span[2] = IF slot = written - 1 THEN wanted ELSE SlotSpan(slot + 1, wanted, written)[1]
ASSUME PeakIsDrawn ==
  \A s \in Short, capacity \in 1..3 :
    LET drawn == CopyImpulse(s, Len(s), capacity)
    IN  Max(Range(Magnitudes(s))) = Max(Range(Magnitudes(drawn)))

\* A reflection is never the arrival itself.
ASSUME ReflectionsFollow ==
  \A s \in Short : \A i \in Range(Reflections(s, PeakOf(s), 3)) :
    i > PeakOf(s) \div Grain /\ i + 1 < Len(s) /\ s[i + 1] # 0

==================================================================================
