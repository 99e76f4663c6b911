--------------------------------- MODULE WavFile ---------------------------------
(***************************************************************************)
(* WAV files as the harness writes and reads them (model/wav.cpp).  A file *)
(* is what its header claims and the samples that reached the disk; dr_wav *)
(* itself, under third_party/, is modelled by what its reader reports.     *)
(*                                                                         *)
(* Samples are whole numbers: a float is a multiple of 1/FullScale, an     *)
(* integer sample has Magnitude[width] bits beside its sign.  The widths   *)
(* are the program's; the bits are a constant, so that a run can use few.  *)
(* A rate is counted in so many Parts to the hertz, one that a file stores *)
(* is whole.                                                               *)
(***************************************************************************)
EXTENDS Integers, Sequences

CONSTANTS
  FullScale,   \* the float 1.0
  Magnitude,   \* [width -> bits]: 16 |-> 15, 24 |-> 23, 32 |-> 31 in the program
  MostBytes,   \* 2^32 - 1 - kExtensibleHeaderBytes: the data a header can claim
  Parts,       \* of one, that a number which need not be whole is counted in
  MostRate     \* DRWAV_MAX_SAMPLE_RATE: 384000

BytesPerSample == [Int16 |-> 2, Int24 |-> 3, Float32 |-> 4]

Clamped(sample) ==
  IF sample > FullScale THEN FullScale ELSE IF sample < -FullScale THEN -FullScale ELSE sample

ASSUME WavAssumption ==
  /\ FullScale \in Nat \ {0} /\ {16, 24, 32} \subseteq DOMAIN Magnitude
  /\ \A width \in DOMAIN Magnitude :
       2^Magnitude[width] \in Nat \ {0} /\ FullScale % 2^Magnitude[width] = 0
  /\ Parts \in Nat \ {0} /\ FullScale % Parts = 0 /\ MostRate \in Nat \ {0}

\* std::round: to nearest, halves away from zero.
Rounded(numerator, denominator) ==
  IF numerator >= 0 THEN (2 * numerator + denominator) \div (2 * denominator)
  ELSE -((2 * (-numerator) + denominator) \div (2 * denominator))

\* A mistake easily made: scaled to the bit above the largest sample.
QuantiseToFull(sample, width) == Rounded(Clamped(sample) * 2^Magnitude[width], FullScale)

\* quantise: scaled by 2^bits - 1, clamped rather than wrapped.
Quantise(sample, width) == Rounded(Clamped(sample) * (2^Magnitude[width] - 1), FullScale)

\* The low bytes of an integer, as its file width holds them.
Stored(value, width) ==
  LET half == 2^Magnitude[width] IN ((value + half) % (2 * half)) - half

\* encode; a NaN is not modelled.
Encoded(samples, depth) ==
  LET width == 8 * BytesPerSample[depth]
  IN  IF depth = "Float32" THEN samples
      ELSE [i \in DOMAIN samples |-> Stored(Quantise(samples[i], width), width)]

\* write_wav refuses before it opens the file.
TooLong(frames, depth) == frames * BytesPerSample[depth] > MostBytes

\* What header() stores of a rate: its whole hertz, none of them below one.  A
\* rate beyond 32 bits is stored as one beyond MostRate all the same.
StoredRate(rate) == rate \div Parts

\* The file write_wav leaves when `held` of the samples reached the disk.
Written(samples, rate, depth, held) ==
  [kind |-> "wav", container |-> "riff", float |-> depth = "Float32",
   width |-> 8 * BytesPerSample[depth], channels |-> 1,
   rate |-> StoredRate(rate),
   declared |-> Len(samples), data |-> SubSeq(Encoded(samples, depth), 1, held)]

-----------------------------------------------------------------------------
(* read_wav. *)

\* What dr_wav makes of a file: a chunk that claims more than the file holds
\* is shortened, and only whole frames are counted.
InitMemory(file) ==
  /\ file.kind = "wav"
  /\ file.rate \in 1 .. MostRate /\ file.channels \in 1 .. 256 /\ file.width \in 1 .. 64
FramesClaimed(file) ==
  (IF file.declared > Len(file.data) THEN Len(file.data) ELSE file.declared) \div file.channels

Supported(file) == IF file.float THEN file.width = 32 ELSE file.width \in {16, 24, 32}

\* A mistake easily made: what dr_wav counted is taken for what was recorded.
CutBelowCount(file) == FramesClaimed(file) * file.channels > Len(file.data)

\* The size the chunk claimed is only asked of a RIFF file.
CutShort(file) == file.container = "riff" /\ file.declared > Len(file.data)

CanRead(file) == InitMemory(file) /\ Supported(file) /\ ~CutShort(file)

\* Each integer is divided by 2^bits, one less than which it was scaled by.
Normalised(file, value) ==
  IF file.float THEN value ELSE (value * FullScale) \div 2^Magnitude[file.width]

ReadWav(file) ==
  [channels |-> file.channels, rate |-> file.rate * Parts,
   samples |-> [i \in 1 .. FramesClaimed(file) * file.channels |-> Normalised(file, file.data[i])]]

==================================================================================
