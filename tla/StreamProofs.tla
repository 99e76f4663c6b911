------------------------------ MODULE StreamProofs ------------------------------
(***************************************************************************)
(* Proofs about the way of a sample from the device to the analysis: the   *)
(* ring between the audio thread and the worker, then the delay line and   *)
(* the overlapping frames.                                                 *)
(*                                                                         *)
(* Of the ring, for any number of channels, any capacity and any sizes of  *)
(* block: no slot is shared, what is delivered is in order, in its channel *)
(* and complete while no loss is counted, the counts are exact, and the    *)
(* whole implements the bounded queue.                                     *)
(*                                                                         *)
(* Of the frames, for any frame size, any line, any blocks and any delays: *)
(* each sample comes out its delay later, the frames analysed are the      *)
(* windows of the stream, and none is held back.                           *)
(***************************************************************************)
EXTENDS CaptureRing, Framing, Arithmetic, SequenceTheorems

(* The sample at an absolute position. *)
At(p) == buffer[p % Capacity]

(* The counters never cross, and neither copy goes past the other counter. *)
BoundsInv ==
  /\ read + takeCount <= written
  /\ written + blockSize <= read + Capacity
  /\ writer = "idle" => blockSize = 0
  /\ reader = "idle" => takeCount = 0 /\ destination = <<>>
  /\ Len(destination) <= takeCount
  /\ offered + blockSize <= MaxOffered

(* Both counters always stand between frames. *)
AlignInv ==
  /\ written % Channels = 0
  /\ read % Channels = 0
  /\ blockSize % Channels = 0
  /\ takeCount % Channels = 0
  /\ offered % Channels = 0

(* Between the counters: accepted samples, in order, each in its channel.   *)
WindowInv ==
  /\ \A p \in read..(written - 1) :
       At(p) \in 0..(offered - 1) /\ At(p) % Channels = p % Channels
  /\ \A p, q \in read..(written - 1) : p < q => At(p) < At(q)

(* The copies in flight. *)
CopyInv ==
  /\ \A i \in 0..(copiedIn - 1) : At(written + i) = offered + i
  /\ \A k \in 1..Len(destination) : destination[k] = At(read + k - 1)

(* What has been delivered, and that the ring holds only later samples. *)
DeliveredInv ==
  /\ Len(delivered) = read
  /\ \A k \in 1..read : /\ delivered[k] \in 0..(offered - 1)
                        /\ delivered[k] % Channels = (k - 1) % Channels
  /\ \A j, k \in 1..read : j < k => delivered[j] < delivered[k]
  /\ \A k \in 1..read : \A p \in read..(written - 1) : delivered[k] < At(p)

(* Every sample offered and not accepted was dropped and counted. *)
LossInv ==
  /\ written <= offered
  /\ ragged <= overruns
  /\ (written < offered) <=> (ragged < overruns)
  /\ overruns = 0 => /\ \A p \in read..(written - 1) : At(p) = p
                     /\ \A k \in 1..read : delivered[k] = k - 1

IInv == /\ TypeOK /\ BoundsInv /\ AlignInv
        /\ WindowInv /\ CopyInv /\ DeliveredInv /\ LossInv

--------------------------------------------------------------------------------
LEMMA CapacityType == Capacity \in Nat \ {0} /\ Channels <= Capacity
  BY RingAssumption, Z3 DEF Capacity

(* The two runs of a copy visit the positions of the block in order. *)
LEMMA SlotIs ==
  ASSUME NEW position \in Nat, NEW count \in 0..Capacity, NEW i \in 0..(count - 1)
  PROVE  Slot(position, count, i) = (position + i) % Capacity
  <1>1. i \in 0..(Capacity - 1)
    BY CapacityType
  <1>2. position % Capacity \in 0..(Capacity - 1)
    BY CapacityType, ModRange
  <1>3. (position + i) % Capacity =
          IF (position % Capacity) + i < Capacity
            THEN (position % Capacity) + i
            ELSE (position % Capacity) + i - Capacity
    BY <1>1, CapacityType, ModAdd
  <1>4. Lesser(count, Capacity - (position % Capacity)) =
          IF count <= Capacity - (position % Capacity)
            THEN count ELSE Capacity - (position % Capacity)
    BY DEF Lesser
  <1> QED BY <1>1, <1>2, <1>3, <1>4, CapacityType DEF Slot

(* Positions less than a lap apart lie in different slots. *)
LEMMA SlotsDiffer ==
  ASSUME NEW p \in Nat, NEW q \in Nat, p < q, q < p + Capacity
  PROVE  p % Capacity # q % Capacity
  BY CapacityType, ModInjective

LEMMA SlotRange ==
  ASSUME NEW p \in Nat
  PROVE  p % Capacity \in 0..(Capacity - 1)
  BY CapacityType, ModRange

LEMMA InitIInv == Init => IInv
  <1> SUFFICES ASSUME Init PROVE IInv
    OBVIOUS
  <1> USE RingAssumption, CapacityType
  <1>1. TypeOK
    BY DEF Init, TypeOK, Sample, Silence
  <1>2. BoundsInv
    BY DEF Init, BoundsInv
  <1>3. AlignInv
    <2>1. 0 % Channels = 0
      BY ModProduct
    <2> QED BY <2>1 DEF Init, AlignInv
  <1>4. WindowInv /\ CopyInv
    BY DEF Init, WindowInv, CopyInv
  <1>5. DeliveredInv /\ LossInv
    BY DEF Init, DeliveredInv, LossInv
  <1> QED BY <1>1, <1>2, <1>3, <1>4, <1>5 DEF IInv

--------------------------------------------------------------------------------
(* Each of the producer's steps preserves the invariant. *)

LEMMA WriteRaggedIInv ==
  ASSUME IInv, NEW n \in WriteSizes, WriteRagged(n)
  PROVE  IInv'
  <1> USE DEF IInv, WriteRagged, WholeFrames, OneMoreOverrun, readerVars
  <1>1. TypeOK'
    BY RingAssumption DEF TypeOK
  <1>2. BoundsInv' /\ AlignInv'
    BY DEF BoundsInv, AlignInv
  <1>3. WindowInv' /\ CopyInv' /\ DeliveredInv'
    BY DEF WindowInv, CopyInv, DeliveredInv, At
  <1>4. LossInv'
    BY DEF LossInv, TypeOK
  <1> QED BY <1>1, <1>2, <1>3, <1>4

LEMMA WriteDropIInv ==
  ASSUME IInv, NEW n \in WriteSizes, WriteDrop(n)
  PROVE  IInv'
  <1> USE DEF IInv, WriteDrop, WholeFrames, OneMoreOverrun, readerVars
  <1>0. n \in Nat \ {0} /\ offered \in Nat /\ blockSize = 0 /\ copiedIn = 0
    BY RingAssumption DEF TypeOK, BoundsInv
  <1>1. TypeOK'
    BY <1>0, RingAssumption DEF TypeOK
  <1>2. BoundsInv'
    BY <1>0 DEF BoundsInv
  <1>3. AlignInv'
    <2>1. (offered + n) % Channels = n % Channels
      BY <1>0, RingAssumption, ModShift DEF AlignInv
    <2> QED BY <2>1 DEF AlignInv
  <1>4. WindowInv' /\ CopyInv' /\ DeliveredInv'
    <2>1. WindowInv'
      BY <1>0 DEF WindowInv, At, TypeOK
    <2>2. CopyInv'
      BY <1>0 DEF CopyInv, At, TypeOK
    <2>3. DeliveredInv'
      BY <1>0 DEF DeliveredInv, At, TypeOK
    <2> QED BY <2>1, <2>2, <2>3
  <1>5. LossInv'
    BY <1>0 DEF LossInv, TypeOK
  <1> QED BY <1>1, <1>2, <1>3, <1>4, <1>5

LEMMA WriteBeginIInv ==
  ASSUME IInv, NEW n \in WriteSizes, WriteBegin(n)
  PROVE  IInv'
  <1> USE DEF IInv, WriteBegin, WholeFrames, ringVars, readerVars
  <1>0. n \in Nat
    BY RingAssumption
  <1>1. TypeOK'
    BY <1>0 DEF TypeOK
  <1>2. BoundsInv'
    BY <1>0, CapacityType DEF BoundsInv, Fits, Free, TypeOK
  <1>3. AlignInv' /\ WindowInv' /\ CopyInv' /\ DeliveredInv' /\ LossInv'
    BY DEF AlignInv, WindowInv, CopyInv, DeliveredInv, LossInv, At
  <1> QED BY <1>1, <1>2, <1>3

(* The sample stored lands outside the window, one lap or less ahead of it. *)
LEMMA CopyInIInv ==
  ASSUME IInv, CopyIn
  PROVE  IInv'
  <1> DEFINE s == (written + copiedIn) % Capacity
  <1> USE DEF IInv, CopyIn, readerVars
  <1>0. /\ written \in Nat /\ read \in Nat /\ copiedIn \in Nat
        /\ blockSize \in 0..Capacity /\ copiedIn \in 0..(blockSize - 1)
        /\ takeCount \in Nat /\ offered \in Nat
        /\ written + blockSize <= read + Capacity
        /\ read + takeCount <= written
        /\ offered + blockSize <= MaxOffered
    BY CapacityType DEF TypeOK, BoundsInv, MoreToCopy
  <1>1. buffer' = [buffer EXCEPT ![s] = offered + copiedIn]
    BY <1>0, SlotIs
  <1>2. s \in 0..(Capacity - 1)
    BY <1>0, SlotRange
  <1>3. buffer'[s] = offered + copiedIn
    BY <1>1, <1>2 DEF TypeOK
  <1>4. ASSUME NEW p \in Nat, read <= p, p < written + copiedIn
        PROVE  At(p)' = At(p)
    <2>1. p % Capacity # s
      <3>1. written + copiedIn \in Nat /\ written + copiedIn < p + Capacity
        BY <1>0, <1>4, CapacityType
      <3> QED BY <1>4, <3>1, SlotsDiffer
    <2>2. p % Capacity \in 0..(Capacity - 1)
      BY SlotRange
    <2> QED BY <1>1, <2>1, <2>2 DEF At, TypeOK
  <1>5. \A p \in read..(written - 1) : At(p)' = At(p)
    BY <1>0, <1>4
  <1>6. TypeOK'
    <2>1. offered + copiedIn \in Sample
      BY <1>0, RingAssumption DEF Sample
    <2>2. buffer' \in [0..(Capacity - 1) -> Sample \cup {Silence}]
      BY <1>1, <2>1 DEF TypeOK
    <2>3. copiedIn' \in 0..blockSize'
      BY <1>0
    <2> QED BY <2>2, <2>3 DEF TypeOK
  <1>7. BoundsInv' /\ AlignInv'
    BY DEF BoundsInv, AlignInv
  <1>8. WindowInv'
    BY <1>5 DEF WindowInv
  <1>9. CopyInv'
    <2>1. ASSUME NEW i \in 0..copiedIn
          PROVE  buffer'[(written + i) % Capacity] = offered + i
      <3>2. CASE i = copiedIn
        BY <1>3, <3>2
      <3>3. CASE i # copiedIn
        <4>1. written + i \in Nat /\ read <= written + i /\ written + i < written + copiedIn
          BY <1>0, <3>3
        <4>2. buffer'[(written + i) % Capacity] = buffer[(written + i) % Capacity]
          BY <1>4, <4>1 DEF At
        <4>3. i \in 0..(copiedIn - 1)
          BY <1>0, <3>3
        <4> QED BY <4>2, <4>3 DEF CopyInv, At
      <3> QED BY <3>2, <3>3
    <2>2. ASSUME NEW k \in 1..Len(destination)
          PROVE  destination[k] = buffer'[(read + k - 1) % Capacity]
      <3>2. read + k - 1 \in read..(written - 1)
        BY <1>0 DEF BoundsInv, TypeOK
      <3> QED BY <1>5, <3>2 DEF CopyInv, At
    <2>3. copiedIn' - 1 = copiedIn
      BY <1>0
    <2> QED BY <1>0, <2>1, <2>2, <2>3 DEF CopyInv, At
  <1>10. DeliveredInv' /\ LossInv'
    BY <1>5 DEF DeliveredInv, LossInv
  <1> QED BY <1>6, <1>7, <1>8, <1>9, <1>10

(* Publishing moves the end of the window over the samples just copied. *)
LEMMA WritePublishIInv ==
  ASSUME IInv, WritePublish
  PROVE  IInv'
  <1> USE DEF IInv, WritePublish, readerVars
  <1>0. /\ written \in Nat /\ read \in Nat /\ blockSize \in Nat
        /\ offered \in Nat /\ takeCount \in Nat /\ Channels \in Nat \ {0}
        /\ read <= written /\ copiedIn = blockSize
        /\ written' = written + blockSize /\ offered' = offered + blockSize
    BY RingAssumption DEF TypeOK, BoundsInv, CopyDone
  <1>1. TypeOK'
    BY <1>0, RingAssumption DEF TypeOK, BoundsInv
  <1>2. BoundsInv'
    BY <1>0 DEF BoundsInv, TypeOK
  <1>3. AlignInv'
    <2>1. (written + blockSize) % Channels = 0 /\ (offered + blockSize) % Channels = 0
      BY <1>0, ModShift DEF AlignInv
    <2>2. 0 % Channels = 0
      BY <1>0, ModRange, ModProduct
    <2> QED BY <1>0, <2>1, <2>2 DEF AlignInv
  <1>4. ASSUME NEW p \in written..(written' - 1)
        PROVE  /\ At(p) = offered + (p - written)
               /\ At(p) % Channels = p % Channels
    <2>1. p - written \in 0..(copiedIn - 1) /\ p - written \in Nat
      BY <1>0
    <2>2. At(written + (p - written)) = offered + (p - written)
      BY <2>1 DEF CopyInv
    <2>3. written + (p - written) = p
      BY <1>0
    <2>4. (offered + (p - written)) % Channels = (p - written) % Channels
      BY <1>0, <2>1, ModShift DEF AlignInv
    <2>5. (written + (p - written)) % Channels = (p - written) % Channels
      BY <1>0, <2>1, ModShift DEF AlignInv
    <2> QED BY <2>2, <2>3, <2>4, <2>5
  <1>5. \A p \in read..(written - 1) :
          At(p) \in 0..(offered - 1) /\ At(p) % Channels = p % Channels
    BY DEF WindowInv
  <1>6. WindowInv'
    <2>1. ASSUME NEW p \in read..(written' - 1)
          PROVE  At(p) \in 0..(offered' - 1) /\ At(p) % Channels = p % Channels
      <3>1. CASE p < written
        BY <1>0, <1>5, <3>1
      <3>2. CASE p >= written
        BY <1>0, <1>4, <3>2
      <3> QED BY <1>0, <3>1, <3>2
    <2>2. ASSUME NEW p \in read..(written' - 1), NEW q \in read..(written' - 1),
                 p < q
          PROVE  At(p) < At(q)
      <3>1. CASE q < written
        BY <1>0, <2>2, <3>1 DEF WindowInv
      <3>2. CASE p < written /\ q >= written
        <4>1. At(p) \in 0..(offered - 1)
          BY <1>0, <1>5, <3>2
        <4>2. At(q) = offered + (q - written)
          BY <1>0, <1>4, <3>2
        <4> QED BY <1>0, <3>2, <4>1, <4>2
      <3>3. CASE p >= written
        <4>1. At(p) = offered + (p - written) /\ At(q) = offered + (q - written)
          BY <1>0, <1>4, <2>2, <3>3
        <4>2. p \in Nat /\ q \in Nat
          BY <1>0
        <4> QED BY <1>0, <2>2, <4>1, <4>2
      <3> QED BY <1>0, <2>2, <3>1, <3>2, <3>3
    <2> QED BY <2>1, <2>2 DEF WindowInv, At
  <1>7. CopyInv'
    BY <1>0 DEF CopyInv, At
  <1>8. DeliveredInv'
    <2>1. ASSUME NEW k \in 1..read, NEW p \in read..(written' - 1)
          PROVE  delivered[k] < At(p)
      <3>1. CASE p < written
        BY <1>0, <3>1 DEF DeliveredInv
      <3>2. CASE p >= written
        <4>1. At(p) = offered + (p - written)
          BY <1>0, <1>4, <3>2
        <4>2. delivered[k] \in 0..(offered - 1)
          BY DEF DeliveredInv
        <4> QED BY <1>0, <3>2, <4>1, <4>2
      <3> QED BY <1>0, <3>1, <3>2
    <2>2. \A k \in 1..read : delivered[k] \in 0..(offered' - 1)
      BY <1>0 DEF DeliveredInv
    <2> QED BY <1>0, <2>1, <2>2 DEF DeliveredInv, At
  <1>9. LossInv'
    <2>1. ASSUME overruns = 0
          PROVE  \A p \in read..(written' - 1) : At(p) = p
      <3>1. written = offered
        BY <1>0, <2>1 DEF LossInv, TypeOK
      <3>2. TAKE p \in read..(written' - 1)
      <3>3. CASE p < written
        BY <1>0, <2>1, <3>3 DEF LossInv
      <3>4. CASE p >= written
        BY <1>0, <1>4, <3>1, <3>4
      <3> QED BY <1>0, <3>3, <3>4
    <2> QED BY <1>0, <2>1 DEF LossInv, At
  <1> QED BY <1>1, <1>2, <1>3, <1>6, <1>7, <1>8, <1>9

--------------------------------------------------------------------------------
(* Each of the consumer's steps preserves the invariant. *)

LEMMA ReadBeginIInv ==
  ASSUME IInv, NEW size \in ReadSizes, ReadBegin(size)
  PROVE  IInv'
  <1> USE DEF IInv, ReadBegin, ringVars, writerVars
  <1> DEFINE frames == Lesser(size \div Channels, FramesAvailable)
  <1>0. /\ Channels \in Nat \ {0} /\ size \in Nat
        /\ written \in Nat /\ read \in Nat /\ written - read \in Nat
        /\ takeCount \in Nat
    BY RingAssumption DEF TypeOK, BoundsInv
  <1>1. FramesAvailable \in Nat /\ size \div Channels \in Nat
    BY <1>0, DivMod DEF FramesAvailable
  <1>2. frames \in Nat /\ frames <= (written - read) \div Channels
    BY <1>1 DEF Lesser, FramesAvailable
  <1>3. Count(size) = frames * Channels
    BY DEF Count
  <1>4. Count(size) \in Nat /\ Count(size) % Channels = 0
    BY <1>0, <1>2, <1>3, ModProduct
  <1>5. Count(size) <= written - read
    BY <1>0, <1>2, <1>3, WholeFramesFit
  <1> HIDE DEF frames
  <1>6. TypeOK'
    BY <1>4 DEF TypeOK
  <1>7. BoundsInv'
    BY <1>0, <1>4, <1>5 DEF BoundsInv, TypeOK
  <1>8. AlignInv'
    BY <1>4 DEF AlignInv
  <1>9. WindowInv' /\ CopyInv' /\ DeliveredInv' /\ LossInv'
    BY DEF WindowInv, CopyInv, DeliveredInv, LossInv, At
  <1> QED BY <1>6, <1>7, <1>8, <1>9

LEMMA CopyOutIInv ==
  ASSUME IInv, CopyOut
  PROVE  IInv'
  <1> USE DEF IInv, CopyOut, ringVars, writerVars
  <1> DEFINE n == Len(destination)
  <1>0. /\ written \in Nat /\ read \in Nat /\ takeCount \in 0..Capacity
        /\ n \in 0..(takeCount - 1)
        /\ read + n \in Nat
    BY CapacityType DEF TypeOK, BoundsInv
  <1>1. destination' = Append(destination, At(read + n))
    BY <1>0, SlotIs DEF At
  <1>2. At(read + n) \in Sample \cup {Silence}
    BY <1>0, SlotRange DEF At, TypeOK
  <1>3. /\ Len(destination') = n + 1
        /\ \A k \in 1..n : destination'[k] = destination[k]
        /\ destination'[n + 1] = At(read + n)
        /\ destination' \in Seq(Sample \cup {Silence})
    BY <1>1, <1>2, AppendProperties DEF TypeOK
  <1>4. TypeOK'
    BY <1>3 DEF TypeOK
  <1>5. BoundsInv'
    BY <1>0, <1>3 DEF BoundsInv, TypeOK
  <1>6. CopyInv'
    <2>1. ASSUME NEW k \in 1..(n + 1)
          PROVE  destination'[k] = buffer[(read + k - 1) % Capacity]
      <3>1. CASE k = n + 1
        <4>1. read + k - 1 = read + n
          BY <1>0, <3>1
        <4> QED BY <1>3, <3>1, <4>1 DEF At
      <3>2. CASE k \in 1..n
        BY <1>3, <3>2 DEF CopyInv, At
      <3> QED BY <1>0, <3>1, <3>2
    <2> QED BY <1>3, <2>1 DEF CopyInv, At
  <1>7. AlignInv' /\ WindowInv' /\ DeliveredInv' /\ LossInv'
    BY DEF AlignInv, WindowInv, DeliveredInv, LossInv, At
  <1> QED BY <1>4, <1>5, <1>6, <1>7

(* Releasing moves the samples just copied from the window to `delivered`. *)
LEMMA ReadPublishIInv ==
  ASSUME IInv, ReadPublish
  PROVE  IInv'
  <1> USE DEF IInv, ReadPublish, writerVars
  <1>0. /\ written \in Nat /\ read \in Nat /\ takeCount \in Nat
        /\ offered \in Nat /\ Channels \in Nat \ {0}
        /\ read + takeCount <= written
        /\ Len(destination) = takeCount /\ Len(delivered) = read
        /\ read' = read + takeCount
    BY RingAssumption DEF TypeOK, BoundsInv, DeliveredInv
  <1>1. /\ delivered' \in Seq(Sample \cup {Silence})
        /\ Len(delivered') = read'
        /\ \A k \in 1..read : delivered'[k] = delivered[k]
        /\ \A k \in (read + 1)..read' : delivered'[k] = destination[k - read]
    <2>1. delivered \in Seq(Sample \cup {Silence}) /\ destination \in Seq(Sample \cup {Silence})
      BY DEF TypeOK
    <2>2. /\ delivered \o destination \in Seq(Sample \cup {Silence})
          /\ Len(delivered \o destination) = Len(delivered) + Len(destination)
          /\ \A k \in 1..(Len(delivered) + Len(destination)) :
               (delivered \o destination)[k] =
                 IF k <= Len(delivered) THEN delivered[k]
                                        ELSE destination[k - Len(delivered)]
      BY <2>1, ConcatProperties
    <2>3. delivered' = delivered \o destination
      OBVIOUS
    <2> QED BY <1>0, <2>2, <2>3, SMTT(60)
  <1>2. ASSUME NEW k \in (read + 1)..read'
        PROVE  /\ delivered'[k] = At(k - 1)
               /\ k - 1 \in read..(read' - 1) /\ k - 1 \in read..(written - 1)
    <2>1. k - read \in 1..takeCount /\ read + (k - read) - 1 = k - 1
      BY <1>0
    <2>2. destination[k - read] = At(read + (k - read) - 1)
      BY <1>0, <2>1 DEF CopyInv
    <2> QED BY <1>0, <1>1, <2>1, <2>2
  <1>3. TypeOK'
    BY <1>0, <1>1, EmptySeq DEF TypeOK
  <1>4. BoundsInv'
    BY <1>0, EmptySeq, CapacityType DEF BoundsInv, TypeOK
  <1>5. AlignInv'
    <2>1. (read + takeCount) % Channels = 0
      BY <1>0, ModShift DEF AlignInv
    <2>2. 0 % Channels = 0
      BY <1>0, ModProduct
    <2> QED BY <1>0, <2>1, <2>2 DEF AlignInv
  <1>6. WindowInv' /\ CopyInv'
    <2>1. \A p : p \in read'..(written - 1) => p \in read..(written - 1)
      BY <1>0
    <2>2. WindowInv'
      BY <2>1 DEF WindowInv, At
    <2>3. Len(destination') = 0
      BY EmptySeq
    <2>4. CopyInv'
      BY <2>3 DEF CopyInv, At
    <2> QED BY <2>2, <2>4
  <1>7. DeliveredInv'
    <2>1. ASSUME NEW k \in 1..read'
          PROVE  /\ delivered'[k] \in 0..(offered - 1)
                 /\ delivered'[k] % Channels = (k - 1) % Channels
                 /\ \A p \in read'..(written - 1) : delivered'[k] < At(p)
      <3>1. CASE k <= read
        BY <1>0, <1>1, <3>1 DEF DeliveredInv
      <3>2. CASE k > read
        <4>1. delivered'[k] = At(k - 1) /\ k - 1 \in read..(written - 1)
          BY <1>0, <1>2, <3>2
        <4>2. At(k - 1) \in 0..(offered - 1) /\ At(k - 1) % Channels = (k - 1) % Channels
          BY <4>1 DEF WindowInv
        <4>3. ASSUME NEW p \in read'..(written - 1) PROVE At(k - 1) < At(p)
          <5>1. p \in read..(written - 1) /\ k - 1 < p
            BY <1>0
          <5> QED BY <4>1, <5>1 DEF WindowInv
        <4> QED BY <4>1, <4>2, <4>3
      <3> QED BY <1>0, <3>1, <3>2
    <2>2. ASSUME NEW j \in 1..read', NEW k \in 1..read', j < k
          PROVE  delivered'[j] < delivered'[k]
      <3>1. CASE k <= read
        BY <1>0, <1>1, <2>2, <3>1 DEF DeliveredInv
      <3>2. CASE j <= read /\ k > read
        <4>1. delivered'[k] = At(k - 1) /\ k - 1 \in read..(written - 1)
          BY <1>0, <1>2, <3>2
        <4>2. delivered'[j] = delivered[j] /\ j \in 1..read
          BY <1>0, <1>1, <3>2
        <4> QED BY <4>1, <4>2 DEF DeliveredInv
      <3>3. CASE j > read
        <4>1. delivered'[j] = At(j - 1) /\ j - 1 \in read..(written - 1)
          BY <1>0, <1>2, <3>3
        <4>2. delivered'[k] = At(k - 1) /\ k - 1 \in read..(written - 1)
          BY <1>0, <1>2, <2>2, <3>3
        <4>3. j - 1 < k - 1
          BY <1>0, <2>2
        <4> QED BY <4>1, <4>2, <4>3 DEF WindowInv
      <3> QED BY <1>0, <2>2, <3>1, <3>2, <3>3
    <2> QED BY <1>1, <2>1, <2>2 DEF DeliveredInv, At
  <1>8. LossInv'
    <2>1. ASSUME overruns = 0
          PROVE  \A k \in 1..read' : delivered'[k] = k - 1
      <3>1. TAKE k \in 1..read'
      <3>2. CASE k <= read
        BY <1>0, <1>1, <2>1, <3>2 DEF LossInv
      <3>3. CASE k > read
        BY <1>0, <1>2, <2>1, <3>3 DEF LossInv
      <3> QED BY <1>0, <3>2, <3>3
    <2>2. overruns = 0 => \A p \in read'..(written - 1) : At(p) = p
      BY <1>0 DEF LossInv
    <2> QED BY <2>1, <2>2 DEF LossInv, At
  <1> QED BY <1>3, <1>4, <1>5, <1>6, <1>7, <1>8

--------------------------------------------------------------------------------
(* The inductive invariant holds in every state of every behaviour. *)
LEMMA RingInvariant == Spec => []IInv
  <1>1. IInv /\ [Next]_vars => IInv'
    <2> SUFFICES ASSUME IInv, [Next]_vars PROVE IInv'
      OBVIOUS
    <2>1. CASE Producer
      BY <2>1, WriteRaggedIInv, WriteDropIInv, WriteBeginIInv, CopyInIInv,
         WritePublishIInv DEF Producer
    <2>2. CASE Consumer
      BY <2>2, ReadBeginIInv, CopyOutIInv, ReadPublishIInv
         DEF Consumer, ConsumerBegins
    <2>3. CASE UNCHANGED vars
      BY <2>3 DEF vars, ringVars, writerVars, readerVars, IInv, TypeOK, BoundsInv,
                  AlignInv, WindowInv, CopyInv, DeliveredInv, LossInv, At
    <2> QED BY <2>1, <2>2, <2>3 DEF Next
  <1> QED BY <1>1, InitIInv, PTL DEF Spec

(* Every variable keeps its type: in particular no copy leaves the buffer   *)
(* (copy_in, copy_out).                                                     *)
THEOREM TypeCorrect == Spec => []TypeOK
  <1>1. IInv => TypeOK
    BY DEF IInv
  <1> QED BY <1>1, RingInvariant, PTL

(* write_interleaved never stores into a slot read_interleaved is loading.  *)
THEOREM SlotsNeverShared == Spec => []NoSlotShared
  <1>1. ASSUME IInv PROVE NoSlotShared
    <2>1. /\ written \in Nat /\ read \in Nat
          /\ blockSize \in 0..Capacity /\ takeCount \in 0..Capacity
          /\ read + takeCount <= written
          /\ written + blockSize <= read + Capacity
      BY <1>1, CapacityType DEF IInv, TypeOK, BoundsInv
    <2>2. ASSUME NEW i \in 0..(blockSize - 1), NEW j \in 0..(takeCount - 1)
          PROVE  Slot(written, blockSize, i) # Slot(read, takeCount, j)
      <3>1. /\ read + j \in Nat /\ written + i \in Nat
            /\ read + j < written + i /\ written + i < (read + j) + Capacity
        BY <2>1, CapacityType
      <3>2. (read + j) % Capacity # (written + i) % Capacity
        BY <3>1, SlotsDiffer
      <3> QED BY <2>1, <3>2, SlotIs
    <2> QED BY <2>2 DEF NoSlotShared, WriteSlots, ReadSlots
  <1> QED BY <1>1, RingInvariant, PTL

(* Every sample reaches the consumer in the channel it was written for.     *)
THEOREM AlwaysAligned == Spec => []DeliveredAligned
  <1>1. IInv => DeliveredAligned
    BY DEF IInv, DeliveredInv, DeliveredAligned
  <1> QED BY <1>1, RingInvariant, PTL

(* The consumer receives no sample twice, out of order or unwritten.        *)
THEOREM AlwaysInOrder == Spec => []DeliveredInOrder
  <1>1. ASSUME IInv PROVE DeliveredInOrder
    <2>1. Len(delivered) = read /\ read \in Nat /\ offered \in Nat
      BY <1>1 DEF IInv, DeliveredInv, TypeOK
    <2>2. ASSUME NEW k \in 1..read PROVE delivered[k] # Silence
      BY <1>1, <2>1 DEF IInv, DeliveredInv, Silence
    <2>3. ASSUME NEW k \in 1..read, k > 1 PROVE delivered[k - 1] < delivered[k]
      <3>1. k - 1 \in 1..read /\ k - 1 < k
        BY <2>1, <2>3
      <3> QED BY <1>1, <3>1 DEF IInv, DeliveredInv
    <2> QED BY <2>1, <2>2, <2>3 DEF DeliveredInOrder
  <1> QED BY <1>1, RingInvariant, PTL

(* With no overrun counted, the consumer has a prefix of what was offered.  *)
THEOREM LossIsNeverSilent == Spec => []NoSilentLoss
  <1>1. ASSUME IInv PROVE NoSilentLoss
    <2>1. SUFFICES ASSUME overruns = 0
                   PROVE  delivered = [k \in 1..Len(delivered) |-> k - 1]
      BY DEF NoSilentLoss
    <2>2. delivered \in Seq(Sample \cup {Silence}) /\ Len(delivered) = read
      BY <1>1 DEF IInv, TypeOK, DeliveredInv
    <2>3. \A k \in 1..Len(delivered) : delivered[k] = k - 1
      BY <1>1, <2>1, <2>2 DEF IInv, LossInv
    <2> QED BY <2>2, <2>3
  <1> QED BY <1>1, RingInvariant, PTL

(* The overrun count is what was refused: never more, never less.           *)
THEOREM OverrunsAreExact == Spec => []OverrunsExact
  <1>1. IInv => OverrunsExact
    BY DEF IInv, LossInv, TypeOK, OverrunsExact
  <1> QED BY <1>1, RingInvariant, PTL

--------------------------------------------------------------------------------
(* The ring implements the queue. *)

Value == Sample \cup {Silence}

(* What is between the counters, in the order it was written. *)
Queue == [k \in 1..(written - read) |-> buffer[(read + k - 1) % Capacity]]

LEMMA QueueIs ==
  ASSUME TypeOK, read <= written
  PROVE  /\ written - read \in Nat
         /\ Queue \in Seq(Value) /\ Len(Queue) = written - read
         /\ \A k \in 1..(written - read) : Queue[k] = At(read + k - 1)
  <1>1. written - read \in Nat /\ read \in Nat
    BY DEF TypeOK
  <1>2. ASSUME NEW k \in 1..(written - read)
        PROVE  buffer[(read + k - 1) % Capacity] \in Value
    <2>1. read + k - 1 \in Nat
      BY <1>1
    <2> QED BY <2>1, SlotRange DEF TypeOK, Value
  <1>3. Queue \in [1..(written - read) -> Value]
    BY <1>2 DEF Queue
  <1>4. Queue \in Seq(Value) /\ Len(Queue) = written - read
    BY <1>1, <1>3
  <1>5. \A k \in 1..(written - read) : Queue[k] = At(read + k - 1)
    BY DEF Queue, At
  <1> QED BY <1>1, <1>4, <1>5

(* Whole frames, as many as they are. *)
LEMMA WholeFramesAre ==
  ASSUME NEW n \in Nat \ {0}, n % Channels = 0
  PROVE  \E m \in 1..n : n = m * Channels /\ (n <= Capacity => m <= CapacityFrames)
  <1>1. Channels \in Nat \ {0} /\ CapacityFrames \in Nat \ {0}
    BY RingAssumption
  <1> DEFINE m == n \div Channels
  <1>2. n = Channels * m + (n % Channels) /\ m \in Nat
    BY <1>1, DivMod
  <1> HIDE DEF m
  <1>3. n = m * Channels
    BY <1>1, <1>2, Z3
  <1>4. m # 0
    <2>1. SUFFICES ASSUME m = 0 PROVE FALSE
      OBVIOUS
    <2>2. 0 * Channels = 0
      BY <1>1
    <2> QED BY <1>3, <2>1, <2>2
  <1>5. m <= n
    BY <1>1, <1>2, <1>3, Z3
  <1>6. n <= Capacity => m <= CapacityFrames
    <2>1. SUFFICES ASSUME m >= CapacityFrames + 1 PROVE n > Capacity
      BY <1>1, <1>2, CapacityType
    <2>2. Channels * m >= Channels * (CapacityFrames + 1)
      BY <1>1, <1>2, <2>1, Z3
    <2>3. Channels * (CapacityFrames + 1) = Capacity + Channels
      BY <1>1, Z3 DEF Capacity
    <2>4. n = Channels * m /\ Capacity \in Nat
      BY <1>1, <1>2, <1>3, CapacityType, Z3
    <2> QED BY <1>1, <2>2, <2>3, <2>4
  <1> QED BY <1>2, <1>3, <1>4, <1>5, <1>6

LEMMA ReadBehind == ASSUME IInv PROVE TypeOK /\ read <= written
  <1>1. TypeOK /\ read \in Nat /\ takeCount \in Nat /\ written \in Nat
    BY DEF IInv, TypeOK
  <1>2. read + takeCount <= written
    BY DEF IInv, BoundsInv
  <1> QED BY <1>1, <1>2

(* Storing a sample beyond the window leaves the queue. *)
LEMMA CopyInLeavesQueue ==
  ASSUME IInv, CopyIn
  PROVE  Queue' = Queue
  <1>1. /\ written \in Nat /\ read \in Nat /\ copiedIn \in Nat
        /\ blockSize \in 0..Capacity /\ copiedIn \in 0..(blockSize - 1)
        /\ written + blockSize <= read + Capacity /\ read <= written
        /\ UNCHANGED <<written, read>>
    BY CapacityType DEF IInv, TypeOK, BoundsInv, MoreToCopy, CopyIn
  <1> DEFINE s == (written + copiedIn) % Capacity
  <1>2. buffer' = [buffer EXCEPT ![s] = offered + copiedIn]
    BY <1>1, SlotIs DEF CopyIn
  <1>3. ASSUME NEW k \in 1..(written - read)
        PROVE  buffer'[(read + k - 1) % Capacity] = buffer[(read + k - 1) % Capacity]
    <2>1. /\ read + k - 1 \in Nat /\ written + copiedIn \in Nat
          /\ read + k - 1 < written + copiedIn
          /\ written + copiedIn < (read + k - 1) + Capacity
      BY <1>1, CapacityType
    <2>2. (read + k - 1) % Capacity # s /\ (read + k - 1) % Capacity \in 0..(Capacity - 1)
      BY <2>1, SlotsDiffer, SlotRange
    <2> HIDE DEF s
    <2> QED BY <1>2, <2>2 DEF IInv, TypeOK
  <1> QED BY <1>1, <1>3 DEF Queue

(* The samples of a block, numbered from the first. *)
Numbered(first, n) == [i \in 1..n |-> first + i - 1]

LEMMA NumberedIs ==
  ASSUME NEW first \in Nat, NEW n \in Nat, first + n <= MaxOffered
  PROVE  /\ Numbered(first, n) \in Seq(Value) /\ Len(Numbered(first, n)) = n
         /\ \A i \in 1..n : Numbered(first, n)[i] = first + i - 1
  <1>1. MaxOffered \in Nat
    BY RingAssumption
  <1>2. ASSUME NEW i \in 1..n PROVE first + i - 1 \in Value
    <2>1. first + i - 1 \in Nat /\ first + i - 1 <= MaxOffered
      BY <1>1
    <2> QED BY <1>1, <2>1 DEF Value, Sample
  <1>3. Numbered(first, n) \in [1..n -> Value]
    BY <1>2 DEF Numbered
  <1>4. Numbered(first, n) \in Seq(Value) /\ Len(Numbered(first, n)) = n
    BY <1>3
  <1>5. \A i \in 1..n : Numbered(first, n)[i] = first + i - 1
    BY DEF Numbered
  <1> QED BY <1>4, <1>5

(* A block published is the block the queue accepts. *)
LEMMA PublishAccepts ==
  ASSUME IInv, WritePublish, NEW m \in 1..CapacityFrames, blockSize = m * Channels
  PROVE  Fifo!Accept(m)
  <1> DEFINE accepted == Numbered(offered, blockSize)
             longer == Queue \o accepted
  <1>0. TypeOK /\ read <= written
    BY ReadBehind
  <1>1. /\ written \in Nat /\ read \in Nat /\ blockSize \in Nat /\ offered \in Nat
        /\ written + blockSize <= read + Capacity /\ read <= written
        /\ offered + blockSize <= MaxOffered /\ copiedIn = blockSize
    BY RingAssumption DEF IInv, TypeOK, BoundsInv, CopyDone, WritePublish
  <1>2. /\ written' = written + blockSize /\ offered' = offered + blockSize
        /\ UNCHANGED <<read, buffer, delivered, overruns>>
    BY DEF WritePublish, readerVars
  <1>3. /\ Queue \in Seq(Value) /\ Len(Queue) = written - read
        /\ \A k \in 1..(written - read) : Queue[k] = At(read + k - 1)
    BY <1>0, QueueIs
  <1>4. /\ accepted \in Seq(Value) /\ Len(accepted) = blockSize
        /\ \A i \in 1..blockSize : accepted[i] = offered + i - 1
    BY <1>1, NumberedIs
  <1> HIDE DEF accepted
  <1>5. /\ longer \in Seq(Value) /\ Len(longer) = Len(Queue) + Len(accepted)
        /\ \A k \in 1..(Len(Queue) + Len(accepted)) :
             longer[k] = IF k <= Len(Queue) THEN Queue[k] ELSE accepted[k - Len(Queue)]
    BY <1>3, <1>4, ConcatProperties
  <1> HIDE DEF longer
  <1>6. ASSUME NEW k \in 1..((written + blockSize) - read)
        PROVE  longer[k] = buffer[(read + k - 1) % Capacity]
    <2>0. k \in 1..(Len(Queue) + Len(accepted))
      BY <1>1, <1>3, <1>4
    <2>1. longer[k] = IF k <= Len(Queue) THEN Queue[k] ELSE accepted[k - Len(Queue)]
      BY <1>5, <2>0
    <2>2. CASE k <= written - read
      <3>1. k \in 1..(written - read) /\ k <= Len(Queue)
        BY <1>1, <1>3, <2>2
      <3>2. longer[k] = Queue[k]
        BY <2>1, <3>1
      <3> QED BY <1>3, <3>1, <3>2 DEF At
    <2>3. CASE ~(k <= written - read)
      <3> DEFINE i == k - (written - read)
      <3>1. longer[k] = accepted[i]
        BY <1>3, <2>1, <2>3
      <3>2. /\ i \in 1..blockSize /\ i - 1 \in 0..(blockSize - 1)
            /\ written + (i - 1) = read + k - 1
            /\ offered + i - 1 = offered + (i - 1)
        BY <1>1, <2>3
      <3> HIDE DEF i
      <3>3. \A j \in 0..(blockSize - 1) : At(written + j) = offered + j
        BY <1>1 DEF IInv, CopyInv
      <3>4. At(written + (i - 1)) = offered + (i - 1)
        BY <3>2, <3>3
      <3>5. accepted[i] = offered + i - 1
        BY <1>4, <3>2
      <3> QED BY <3>1, <3>2, <3>4, <3>5 DEF At
    <2> QED BY <2>2, <2>3
  <1>7. Queue' = longer
    <2>1. Queue' = [k \in 1..((written + blockSize) - read) |->
                      buffer[(read + k - 1) % Capacity]]
      BY <1>2 DEF Queue
    <2>2. Len(longer) = (written + blockSize) - read
      BY <1>1, <1>3, <1>4, <1>5
    <2>3. longer = [k \in 1..((written + blockSize) - read) |-> longer[k]]
      BY <1>5, <2>2
    <2>4. [k \in 1..((written + blockSize) - read) |-> longer[k]]
            = [k \in 1..((written + blockSize) - read) |->
                 buffer[(read + k - 1) % Capacity]]
      BY <1>6
    <2> QED BY <2>1, <2>3, <2>4
  <1>8. Len(Queue) + m * Channels <= Channels * CapacityFrames
    <2>0. \A w, r, b, c \in Nat : w + b <= r + c => (w - r) + b <= c
      OBVIOUS
    <2>1. Len(Queue) + blockSize <= Capacity
      <3>1. Len(Queue) = written - read
        BY <1>3
      <3> QED BY <1>1, <2>0, <3>1, CapacityType
    <2> QED BY <2>1 DEF Capacity
  <1>9. Queue' = Queue \o [i \in 1..(m * Channels) |-> offered + i - 1]
    BY <1>7 DEF longer, accepted, Numbered
  <1>10. offered' = offered + m * Channels
    BY <1>2
  <1> QED BY <1>2, <1>8, <1>9, <1>10 DEF Fifo!Accept, Queue

(* A read published delivers the oldest of the queue. *)
LEMMA PublishDelivers ==
  ASSUME IInv, ReadPublish, NEW m \in 1..CapacityFrames, takeCount = m * Channels
  PROVE  Fifo!Deliver(m)
  <1> DEFINE oldest == SubSeq(Queue, 1, takeCount)
             rest == SubSeq(Queue, takeCount + 1, Len(Queue))
             n == written - read - takeCount
  <1>0. TypeOK /\ read <= written
    BY ReadBehind
  <1>1. /\ written \in Nat /\ read \in Nat /\ takeCount \in Nat /\ read <= written
        /\ read + takeCount <= written /\ Len(destination) = takeCount
        /\ destination \in Seq(Value)
    BY DEF IInv, TypeOK, BoundsInv, ReadPublish, Value
  <1>2. /\ read' = read + takeCount /\ delivered' = delivered \o destination
        /\ UNCHANGED <<written, buffer, offered, overruns>>
    BY DEF ReadPublish, writerVars
  <1>3. /\ Queue \in Seq(Value) /\ Len(Queue) = written - read
        /\ \A k \in 1..(written - read) : Queue[k] = At(read + k - 1)
    BY <1>0, QueueIs
  <1>4. Len(Queue) \in Nat /\ takeCount <= Len(Queue) /\ n \in Nat
    BY <1>1, <1>3
  <1>5. destination = oldest
    <2>1. \A i \in 1..takeCount : Queue[i] \in Value
      BY <1>3, <1>4, ElementOfSeq
    <2>2. /\ oldest \in Seq(Value)
          /\ Len(oldest) = IF 1 <= takeCount THEN takeCount - 1 + 1 ELSE 0
          /\ \A i \in 1..(takeCount - 1 + 1) : oldest[i] = Queue[1 + i - 1]
      BY <1>1, <2>1, SubSeqProperties
    <2> HIDE DEF oldest
    <2>3. Len(oldest) = Len(destination)
      BY <1>1, <2>2
    <2>4. ASSUME NEW i \in 1..Len(destination) PROVE destination[i] = oldest[i]
      <3>1. destination[i] = At(read + i - 1)
        BY DEF IInv, CopyInv
      <3>2. i \in 1..(takeCount - 1 + 1) /\ 1 + i - 1 = i /\ i \in 1..(written - read)
        BY <1>1
      <3>3. oldest[i] = Queue[i]
        BY <2>2, <3>2
      <3> QED BY <1>3, <3>1, <3>2, <3>3
    <2> QED BY <1>1, <2>2, <2>3, <2>4, SeqEqual
  <1>6. Queue' = rest
    <2>1. \A i \in (takeCount + 1)..Len(Queue) : Queue[i] \in Value
      BY <1>1, <1>3, <1>4, ElementOfSeq
    <2>2. takeCount + 1 \in Int /\ Len(Queue) \in Int
      BY <1>1, <1>4
    <2>3. /\ rest \in Seq(Value)
          /\ Len(rest) = IF takeCount + 1 <= Len(Queue)
                           THEN Len(Queue) - (takeCount + 1) + 1 ELSE 0
          /\ \A i \in 1..(Len(Queue) - (takeCount + 1) + 1) :
               rest[i] = Queue[(takeCount + 1) + i - 1]
      BY <2>1, <2>2, SubSeqProperties
    <2> HIDE DEF rest
    <2>4. Len(Queue) - (takeCount + 1) + 1 = n
      BY <1>1, <1>3
    <2>5. Len(rest) = n
      BY <1>1, <1>3, <1>4, <2>3, <2>4
    <2>6. \A i \in 1..n : rest[i] = Queue[(takeCount + 1) + i - 1]
      BY <2>3, <2>4
    <2>7. ASSUME NEW i \in 1..n
          PROVE  rest[i] = buffer[(read + takeCount + i - 1) % Capacity]
      <3> DEFINE k == (takeCount + 1) + i - 1
      <3>1. rest[i] = Queue[k]
        BY <2>6
      <3>2. k \in 1..(written - read)
        BY <1>1
      <3>4. read + k - 1 = read + takeCount + i - 1
        BY <1>1
      <3> HIDE DEF k
      <3>3. Queue[k] = At(read + k - 1)
        BY <1>3, <3>2
      <3> QED BY <3>1, <3>3, <3>4 DEF At
    <2>8. Queue' = [i \in 1..n |-> buffer[(read + takeCount + i - 1) % Capacity]]
      <3>1. written - (read + takeCount) = n
        BY <1>1
      <3>2. Queue' = [i \in 1..(written - (read + takeCount)) |->
                        buffer[(read + takeCount + i - 1) % Capacity]]
        BY <1>2 DEF Queue
      <3> HIDE DEF n
      <3> QED BY <3>1, <3>2
    <2>9. rest = [i \in 1..n |-> rest[i]]
      BY <2>3, <2>5
    <2> HIDE DEF n
    <2> QED BY <2>7, <2>8, <2>9
  <1>7. m * Channels <= Len(Queue)
    BY <1>4
  <1>8. /\ delivered' = delivered \o SubSeq(Queue, 1, m * Channels)
        /\ Queue' = SubSeq(Queue, m * Channels + 1, Len(Queue))
    BY <1>2, <1>5, <1>6
  <1> HIDE DEF oldest, rest, n
  <1> QED BY <1>2, <1>7, <1>8 DEF Fifo!Deliver, Queue

(* A block dropped is one the queue has no room for. *)
LEMMA DropMaps ==
  ASSUME IInv, NEW n \in WriteSizes, WriteDrop(n)
  PROVE  \E m \in 1..(offered' - offered) : Fifo!Drop(m)
  <1>0. TypeOK /\ read <= written
    BY ReadBehind
  <1>1. /\ n \in Nat \ {0} /\ n % Channels = 0 /\ ~(Capacity - (written - read) >= n)
        /\ written \in Nat /\ read \in Nat /\ offered \in Nat
    BY RingAssumption DEF WriteDrop, WholeFrames, Fits, Free, TypeOK, IInv
  <1>2. /\ offered' = offered + n /\ overruns' = overruns + 1
        /\ UNCHANGED <<buffer, written, read, delivered>>
    BY DEF WriteDrop, OneMoreOverrun, readerVars
  <1>3. PICK m \in 1..n : n = m * Channels
    BY <1>1, WholeFramesAre
  <1>4. Len(Queue) = written - read
    BY <1>0, QueueIs
  <1>5. Queue' = Queue
    BY <1>2 DEF Queue
  <1>6. Len(Queue) + m * Channels > Channels * CapacityFrames
    <2>1. Len(Queue) + n > Capacity
      BY <1>1, <1>4, CapacityType
    <2> QED BY <1>3, <2>1 DEF Capacity
  <1>7. m \in 1..(offered' - offered) /\ offered' = offered + m * Channels
    BY <1>1, <1>2, <1>3
  <1>8. Fifo!Drop(m)
    BY <1>2, <1>5, <1>6, <1>7 DEF Fifo!Drop, Queue
  <1> QED BY <1>7, <1>8

(* Every step of the ring is one of the queue, or leaves it alone. *)
LEMMA StepMaps ==
  ASSUME IInv, [Next]_vars
  PROVE  [Fifo!Next]_(Fifo!vars)
  <1>0. TypeOK /\ blockSize \in Nat /\ takeCount \in Nat
    BY DEF IInv, TypeOK
  <1>1. ASSUME UNCHANGED <<written, read, buffer, delivered, offered, overruns>>
        PROVE  UNCHANGED Fifo!vars
    BY <1>1 DEF Fifo!vars
  <1>2. ASSUME NEW n \in WriteSizes, WriteRagged(n) PROVE Fifo!Refuse
    BY <1>2 DEF Fifo!Refuse, WriteRagged, OneMoreOverrun, readerVars
  <1>3. ASSUME NEW n \in WriteSizes, WriteDrop(n) PROVE Fifo!Next
    BY <1>3, DropMaps DEF Fifo!Next
  <1>4. ASSUME NEW n \in WriteSizes, WriteBegin(n) PROVE UNCHANGED Fifo!vars
    BY <1>1, <1>4 DEF WriteBegin, ringVars, readerVars
  <1>5. CASE CopyIn
    <2>1. Queue' = Queue
      BY <1>5, CopyInLeavesQueue
    <2> QED BY <1>5, <2>1 DEF CopyIn, readerVars, Fifo!vars, Queue
  <1>6. CASE WritePublish
    <2>1. CASE blockSize = 0
      <3>1. written' = written /\ offered' = offered
        BY <1>0, <1>6, <2>1 DEF WritePublish, TypeOK
      <3> QED BY <1>1, <1>6, <3>1 DEF WritePublish, readerVars
    <2>2. CASE blockSize # 0
      <3>0. blockSize % Channels = 0
        BY DEF IInv, AlignInv
      <3>1. blockSize \in Nat \ {0} /\ blockSize <= Capacity
        BY <1>0, <2>2, ReadBehind, CapacityType DEF IInv, BoundsInv, TypeOK
      <3>2. PICK m \in 1..blockSize : blockSize = m * Channels /\ m <= CapacityFrames
        BY <3>0, <3>1, WholeFramesAre
      <3>3. m \in 1..CapacityFrames
        BY <1>0, <3>2, RingAssumption
      <3>4. Fifo!Accept(m)
        BY <1>6, <3>2, <3>3, PublishAccepts
      <3> QED BY <3>3, <3>4 DEF Fifo!Next
    <2> QED BY <2>1, <2>2
  <1>7. ASSUME NEW size \in ReadSizes, ReadBegin(size) PROVE UNCHANGED Fifo!vars
    BY <1>1, <1>7 DEF ReadBegin, ringVars, writerVars
  <1>8. CASE CopyOut
    BY <1>1, <1>8 DEF CopyOut, ringVars, writerVars
  <1>9. CASE ReadPublish
    <2>1. CASE takeCount = 0
      <3>1. read' = read
        BY <1>0, <1>9, <2>1 DEF ReadPublish, TypeOK
      <3>2. delivered' = delivered
        <4>1. delivered \in Seq(Value) /\ destination = << >>
          BY <1>0, <1>9, <2>1, EmptySeq DEF ReadPublish, TypeOK, Value
        <4> QED BY <1>9, <4>1 DEF ReadPublish
      <3> QED BY <1>1, <1>9, <3>1, <3>2 DEF ReadPublish, writerVars
    <2>2. CASE takeCount # 0
      <3>0. takeCount % Channels = 0
        BY DEF IInv, AlignInv
      <3>1. takeCount \in Nat \ {0} /\ takeCount <= Capacity
        BY <1>0, <2>2, CapacityType DEF IInv, BoundsInv, TypeOK
      <3>2. PICK m \in 1..takeCount : takeCount = m * Channels /\ m <= CapacityFrames
        BY <3>0, <3>1, WholeFramesAre
      <3>3. m \in 1..CapacityFrames
        BY <1>0, <3>2, RingAssumption
      <3>4. Fifo!Deliver(m)
        BY <1>9, <3>2, <3>3, PublishDelivers
      <3> QED BY <3>3, <3>4 DEF Fifo!Next
    <2> QED BY <2>1, <2>2
  <1>10. CASE UNCHANGED vars
    BY <1>1, <1>10 DEF vars, ringVars, readerVars, writerVars
  <1>11. Fifo!Refuse => Fifo!Next
    BY DEF Fifo!Next
  <1> QED
    BY <1>2, <1>3, <1>4, <1>5, <1>6, <1>7, <1>8, <1>9, <1>10, <1>11
    DEF Next, Producer, Consumer, ConsumerBegins

(* Every behaviour of the ring is one of the bounded queue: blocks enter    *)
(* whole or are dropped whole and counted, and whole frames leave, oldest   *)
(* first, whatever the two threads interleave.                              *)
THEOREM RingImplementsQueue == Spec => ImplementsFifo
  <1>1. Init => Fifo!Init
    <2>1. Init => Queue = << >>
      BY DEF Init, Queue
    <2> QED BY <2>1 DEF Init, Fifo!Init, Queue
  <1>2. IInv /\ [Next]_vars => [Fifo!Next]_(Fifo!vars)
    BY StepMaps
  <1> QED BY <1>1, <1>2, RingInvariant, PTL DEF Spec, ImplementsFifo, Fifo!Spec

--------------------------------------------------------------------------------
(* The delay line and the frames. *)

(* Samples that went into the line, and samples that went into the frame. *)
Total == Len(delayOf)
Framed == IF step = "framing" THEN passed + taken ELSE passed

(* Samples before the frame being filled. *)
Start == resetAt + Len(analysed) * Hop

(* How far the steps of a block have come. *)
StepInv ==
  /\ Total = IF step = "idle" THEN passed ELSE passed + Len(reference)
  /\ step = "delaying" => Len(reference) < block /\ taken = 0
  /\ step = "framing" => Len(reference) = block
  /\ step # "framing" => filled < Size

(* The line holds the newest samples, each where its number falls, and      *)
(* silence where none has been yet.                                         *)
LineInv ==
  /\ write = Total % Length
  /\ \A i \in 1..Total : Total < i + Length => line[(i - 1) % Length] = i
  /\ \A s \in 0..DelayCapacity : Total <= s => line[s] = 0

(* The frame holds the samples that follow those of the frames before it. *)
FrameInv ==
  /\ Start \in Nat /\ Start + filled = Framed
  /\ \A j \in 1..filled : frame[j] = <<Delayed(Start + j), Start + j>>

(* The windows analysed lie in what has been delivered. *)
WindowsInv ==
  \A k \in 1..Len(analysed) : \A j \in 1..Size :
    resetAt + (k - 1) * Hop + j \in 1..Total

FramingInv == /\ FramingTypeOK /\ StepInv /\ LineInv /\ FrameInv /\ WindowsInv
        /\ ReferenceIsDelayed /\ FramesAreWindows

--------------------------------------------------------------------------------
LEMMA LengthType == Length \in Nat \ {0} /\ Length = DelayCapacity + 1
  BY FramingAssumption DEF Length

LEMMA SlotType ==
  ASSUME NEW p \in Nat
  PROVE  p % Length \in 0..DelayCapacity
  <1>1. p % Length \in 0..(Length - 1)
    BY LengthType, ModRange
  <1> QED BY <1>1, LengthType, FramingAssumption

(* A hop is at least one sample and at most a frame. *)
LEMMA HopType ==
  ASSUME overlap \in Overlaps
  PROVE  Hop \in 1..Size
  <1>1. Parts \in {1, 2, 4, 8}
    BY DEF Parts, Overlaps
  <1>2. Size \div 1 \in 0..Size /\ Size \div 2 \in 0..Size
        /\ Size \div 4 \in 0..Size /\ Size \div 8 \in 0..Size
    BY FramingAssumption, Z3
  <1>3. Size \div Parts \in 0..Size
    BY <1>1, <1>2
  <1> QED BY <1>3, FramingAssumption DEF Hop

(* Where the line is read: the slot of the sample `delay` before the newest,*)
(* or one not reached yet when there is no such sample.                     *)
LEMMA ReadAtIs ==
  ASSUME NEW total \in Nat \ {0}, delay \in 0..DelayCapacity
  PROVE  /\ ReadAt(total % Length) \in 0..DelayCapacity
         /\ delay < total =>
              ReadAt(total % Length) = (total - delay - 1) % Length
         /\ total <= delay => total <= ReadAt(total % Length)
  <1> DEFINE w == total % Length
             a == w + Length - delay - 1
  <1>1. w \in 0..(Length - 1)
    BY LengthType, ModRange
  <1>2. a \in Nat /\ ReadAt(w) = a % Length
    BY <1>1, LengthType, FramingAssumption DEF ReadAt
  <1>3. a % Length \in 0..(Length - 1)
    BY <1>2, LengthType, ModRange
  <1>4. ASSUME delay < total PROVE a % Length = (total - delay - 1) % Length
    <2> DEFINE b == total - delay - 1
    <2>1. PICK q \in Nat : total = Length * q + w
      BY LengthType, DivMod
    <2>2. b \in Nat
      BY <1>4, FramingAssumption
    <2>3. a = b + Length * (1 - q)
      BY <1>1, <2>1, LengthType, FramingAssumption, Z3
    <2>4. 1 - q \in Int
      OBVIOUS
    <2>5. a \in Nat
      BY <1>2
    <2> HIDE DEF a, b
    <2>6. a % Length = b % Length
      BY <2>2, <2>3, <2>4, <2>5, LengthType, WholeLaps
    <2> QED BY <2>6 DEF b
  <1>5. ASSUME total <= delay PROVE total <= a % Length
    <2>1. total < Length
      BY <1>5, LengthType, FramingAssumption
    <2>2. total = Length * 0 + total
      BY LengthType, Z3
    <2>3. w = total
      BY <2>1, <2>2, LengthType, ModUnique
    <2>4. a \in 0..(Length - 1) /\ total <= a
      BY <1>5, <2>3, LengthType, FramingAssumption
    <2>5. a = Length * 0 + a
      BY <2>4, LengthType, Z3
    <2>6. a % Length = a
      BY <2>4, <2>5, LengthType, ModUnique
    <2> QED BY <2>4, <2>6
  <1> HIDE DEF a
  <1> QED BY <1>2, <1>3, <1>4, <1>5, LengthType, FramingAssumption

(* The number of a sample in the k-th window. *)
LEMMA HopsAdd ==
  ASSUME NEW n \in Nat, NEW h \in Nat
  PROVE  (n + 1) * h = n * h + h /\ n * h \in Nat /\ (n + 1 - 1) * h = n * h
  BY Z3

LEMMA FramingInitially == FramingInit => FramingInv
  <1> SUFFICES ASSUME FramingInit PROVE FramingInv
    OBVIOUS
  <1> USE FramingAssumption DEF FramingInit
  <1>1. FramingTypeOK
    BY DEF FramingTypeOK, Blank
  <1>2. StepInv
    BY DEF StepInv, Total
  <1>3. 0 % Length = 0
    <2>1. 0 = Length * 0 + 0
      BY LengthType, Z3
    <2> QED BY <2>1, LengthType, ModUnique
  <1>4. LineInv
    BY <1>3 DEF LineInv, Total
  <1>5. 0 * Hop = 0
    BY HopType, Z3
  <1>6. FrameInv /\ WindowsInv
    BY <1>5 DEF FrameInv, WindowsInv, Start, Framed
  <1>7. ReferenceIsDelayed /\ FramesAreWindows
    BY DEF ReferenceIsDelayed, FramesAreWindows
  <1> QED BY <1>1, <1>2, <1>4, <1>6, <1>7 DEF FramingInv

--------------------------------------------------------------------------------
(* Every step keeps the invariant. *)

LEMMA ApplyDelayIInv ==
  ASSUME FramingInv, NEW d \in Delays, ApplyDelay(d)
  PROVE  FramingInv'
  <1> USE FramingAssumption
          DEF FramingInv, ApplyDelay, lineVars, frameVars, resetVars
  <1>1. FramingTypeOK'
    BY DEF FramingTypeOK
  <1>2. Hop' = Hop /\ \A i : Delayed(i)' = Delayed(i)
    BY DEF Hop, Parts, Delayed
  <1>3. StepInv' /\ LineInv'
    BY DEF StepInv, LineInv, Total
  <1>4. FrameInv' /\ WindowsInv'
    BY <1>2 DEF FrameInv, WindowsInv, Start, Framed, Total
  <1>5. ReferenceIsDelayed'
    BY DEF ReferenceIsDelayed
  <1>6. FramesAreWindows'
    BY <1>2 DEF FramesAreWindows
  <1> QED BY <1>1, <1>3, <1>4, <1>5, <1>6

LEMMA ResetIInv ==
  ASSUME FramingInv, Reset
  PROVE  FramingInv'
  <1> USE FramingAssumption DEF FramingInv, Reset, lineVars
  <1>1. FramingTypeOK'
    BY DEF FramingTypeOK, Blank
  <1>2. Hop' = Hop /\ Hop' \in Nat
    <2>1. Hop \in 1..Size
      BY HopType DEF FramingTypeOK
    <2>2. Hop' = Hop
      BY DEF Hop, Parts
    <2> QED BY <2>1, <2>2
  <1>3. StepInv' /\ LineInv'
    BY DEF StepInv, LineInv, Total
  <1>4. Start' = passed
    <2>1. 0 * Hop' = 0
      BY <1>2, Z3
    <2> QED BY <2>1 DEF Start, FramingTypeOK
  <1>5. FrameInv' /\ WindowsInv'
    BY <1>4 DEF FrameInv, WindowsInv, Framed, FramingTypeOK
  <1>6. ReferenceIsDelayed' /\ FramesAreWindows'
    BY DEF ReferenceIsDelayed, FramesAreWindows
  <1> QED BY <1>1, <1>3, <1>5, <1>6

LEMMA BeginIInv ==
  ASSUME FramingInv, NEW n \in BlockSizes, Begin(n)
  PROVE  FramingInv'
  <1> USE FramingAssumption DEF FramingInv, Begin, resetVars
  <1>1. FramingTypeOK'
    BY DEF FramingTypeOK, Clamped, Fewer
  <1>2. Hop' = Hop /\ \A i : Delayed(i)' = Delayed(i)
    BY DEF Hop, Parts, Delayed
  <1>3. StepInv'
    BY DEF StepInv, Total, FramingTypeOK
  <1>4. LineInv'
    BY DEF LineInv, Total
  <1>5. FrameInv' /\ WindowsInv'
    BY <1>2 DEF FrameInv, WindowsInv, Start, Framed, Total
  <1>6. ReferenceIsDelayed'
    BY DEF ReferenceIsDelayed
  <1>7. FramesAreWindows'
    BY <1>2 DEF FramesAreWindows
  <1> QED BY <1>1, <1>3, <1>4, <1>5, <1>6, <1>7

LEMMA DelaySampleIInv ==
  ASSUME FramingInv, DelaySample
  PROVE  FramingInv'
  <1> DEFINE new == Total + 1
  <1>1. /\ step = "delaying" /\ Len(reference) < block
        /\ line' = [line EXCEPT ![write] = passed + Len(reference) + 1]
        /\ write' = (write + 1) % Length
        /\ reference' = Append(reference, line'[ReadAt(write')])
        /\ delayOf' = Append(delayOf, delay)
        /\ step' = IF Len(reference) + 1 = block THEN "framing" ELSE step
        /\ UNCHANGED <<overlap, passed, block, applied, changes, delay, frame,
                       filled, taken, analysed, resetAt, resets>>
    BY DEF DelaySample, frameVars, resetVars
  <1>2. FramingTypeOK /\ StepInv /\ LineInv /\ FrameInv /\ WindowsInv
        /\ ReferenceIsDelayed /\ FramesAreWindows
    BY DEF FramingInv
  <1>3. /\ Total \in Nat /\ new \in Nat \ {0} /\ new > Total
        /\ Total = passed + Len(reference)
        /\ Total' = new
        /\ delayOf' \in Seq(0..DelayCapacity) /\ delayOf'[new] = delay
        /\ \A i \in 1..Total : delayOf'[i] = delayOf[i]
    <2>1. delayOf \in Seq(0..DelayCapacity) /\ delay \in 0..DelayCapacity
      BY <1>2 DEF FramingTypeOK
    <2>2. Total \in Nat /\ Total = passed + Len(reference)
      BY <1>1, <1>2, <2>1 DEF StepInv, Total
    <2> QED BY <1>1, <2>1, <2>2, AppendProperties DEF Total
  <1>4. Total % Length \in 0..DelayCapacity
    BY <1>3, SlotType
  <1>5. write' = new % Length /\ write' \in 0..DelayCapacity
    <2>1. write' = ((Total % Length) + 1) % Length
      BY <1>1, <1>2 DEF LineInv
    <2>2. write' = new % Length
      BY <2>1, <1>3, LengthType, ModNext
    <2> QED BY <2>2, <1>3, SlotType
  <1>6. /\ line'[Total % Length] = new
        /\ \A s \in 0..DelayCapacity : s # Total % Length => line'[s] = line[s]
        /\ line' \in [0..DelayCapacity -> Nat]
    BY <1>1, <1>2, <1>3, <1>4 DEF FramingTypeOK, LineInv
  <1>7. \A i \in 1..new : new < i + Length => line'[(i - 1) % Length] = i
    <2> SUFFICES ASSUME NEW i \in 1..new, new < i + Length
                 PROVE  line'[(i - 1) % Length] = i
      OBVIOUS
    <2>1. CASE i = new
      <3>1. i - 1 = Total
        BY <2>1, <1>3
      <3> QED BY <3>1, <2>1, <1>6
    <2>2. CASE i # new
      <3>1. i - 1 \in Nat /\ i - 1 < Total /\ Total < (i - 1) + Length
        BY <2>2, <1>3, LengthType
      <3>2. (i - 1) % Length # Total % Length
        BY <3>1, <1>3, LengthType, ModInjective
      <3>3. (i - 1) % Length \in 0..DelayCapacity
        BY <3>1, SlotType
      <3>4. i \in 1..Total /\ Total < i + Length
        BY <2>2, <1>3, LengthType
      <3> QED BY <3>2, <3>3, <3>4, <1>2, <1>6 DEF LineInv
    <2> QED BY <2>1, <2>2
  <1>8. \A s \in 0..DelayCapacity : new <= s => line'[s] = 0
    <2> SUFFICES ASSUME NEW s \in 0..DelayCapacity, new <= s
                 PROVE  line'[s] = 0
      OBVIOUS
    <2>1. Total \in 0..(Length - 1) /\ 0 \in Nat
      BY <1>3, LengthType, FramingAssumption
    <2>2. Total = Length * 0 + Total
      BY <2>1, LengthType, Z3
    <2>3. Total % Length = Total
      BY <2>1, <2>2, <1>3, LengthType, ModUnique
    <2>4. s # Total % Length /\ Total <= s
      BY <2>1, <2>3, <1>3
    <2>5. line[s] = 0
      BY <2>4, <1>2 DEF LineInv
    <2> QED BY <2>4, <2>5, <1>6
  <1>9. LineInv'
    BY <1>3, <1>5, <1>7, <1>8 DEF LineInv, Length
  <1>10. \A i \in 1..Total : Delayed(i)' = Delayed(i)
    BY <1>3 DEF Delayed
  <1> DEFINE owed == IF new > delay THEN new - delay ELSE 0
  <1>11. line'[ReadAt(write')] = owed /\ owed \in Nat
    <2>1. delay \in 0..DelayCapacity
      BY <1>2 DEF FramingTypeOK
    <2>2. /\ ReadAt(new % Length) \in 0..DelayCapacity
          /\ delay < new => ReadAt(new % Length) = (new - delay - 1) % Length
          /\ new <= delay => new <= ReadAt(new % Length)
      BY <1>3, <2>1, ReadAtIs
    <2>4. CASE delay < new
      <3> DEFINE i == new - delay
      <3>1. i \in 1..new /\ new < i + Length /\ i - 1 = new - delay - 1
        BY <2>1, <2>4, <1>3, LengthType, FramingAssumption, SMTT(60)
      <3>2. line'[(i - 1) % Length] = i
        BY <3>1, <1>7
      <3>3. ReadAt(new % Length) = (i - 1) % Length
        BY <2>2, <2>4, <3>1
      <3>4. line'[ReadAt(write')] = i
        BY <3>2, <3>3, <1>5
      <3> QED BY <3>1, <3>4, <2>1, <2>4, <1>3, FramingAssumption
    <2>5. CASE ~(delay < new)
      BY <2>1, <2>2, <2>5, <1>3, <1>5, <1>8, FramingAssumption
    <2> QED BY <2>4, <2>5
  <1>12. /\ reference' \in Seq(Nat) /\ Len(reference') = Len(reference) + 1
         /\ \A k \in 1..Len(reference) : reference'[k] = reference[k]
         /\ reference'[Len(reference) + 1] = owed
    <2>1. reference \in Seq(Nat)
      BY <1>2 DEF FramingTypeOK
    <2> HIDE DEF owed
    <2> QED BY <1>1, <1>11, <2>1, AppendProperties
  <1>13. FramingTypeOK'
    <2>1. step' \in {"idle", "delaying", "framing"}
          /\ Len(reference') <= block
      BY <1>1, <1>2, <1>12 DEF FramingTypeOK
    <2> QED BY <2>1, <1>1, <1>2, <1>3, <1>5, <1>6, <1>12 DEF FramingTypeOK
  <1>14. StepInv'
    BY <1>1, <1>2, <1>3, <1>12 DEF StepInv, FramingTypeOK
  <1>15. Hop' = Hop /\ Start' = Start
    BY <1>1 DEF Hop, Parts, Start
  <1>16. FrameInv'
    <2>1. Framed' = Framed /\ Framed <= Total /\ filled \in Nat
      BY <1>1, <1>2, <1>3 DEF Framed, FramingTypeOK, StepInv
    <2>2. \A j \in 1..filled : Start + j \in 1..Total
      BY <2>1, <1>2, <1>3 DEF FrameInv
    <2>3. \A j \in 1..filled : Delayed(Start + j)' = Delayed(Start + j)
      BY <2>2, <1>10, <1>15 DEF Delayed
    <2> QED BY <2>1, <2>3, <1>1, <1>2, <1>15 DEF FrameInv
  <1>17. WindowsInv' /\ FramesAreWindows'
    <2> SUFFICES ASSUME NEW k \in 1..Len(analysed), NEW j \in 1..Size
                 PROVE  LET i == resetAt + (k - 1) * Hop + j
                        IN  /\ i \in 1..new
                            /\ Delayed(i)' = Delayed(i)
      BY <1>1, <1>2, <1>3, <1>15 DEF WindowsInv, FramesAreWindows
    <2> DEFINE i == resetAt + (k - 1) * Hop + j
    <2>1. i \in 1..Total
      BY <1>2 DEF WindowsInv
    <2>2. i' = i
      BY <1>1, <1>15
    <2> HIDE DEF i
    <2>3. Delayed(i)' = Delayed(i) /\ i \in 1..new
      BY <2>1, <2>2, <1>3, <1>10 DEF Delayed
    <2> QED BY <2>3 DEF i
  <1>18. ReferenceIsDelayed'
    <2> SUFFICES ASSUME NEW k \in 1..Len(reference')
                 PROVE  reference'[k] = Delayed(passed + k)'
      BY <1>1 DEF ReferenceIsDelayed
    <2>1. passed \in Nat /\ Len(reference) \in Nat
      BY <1>2 DEF FramingTypeOK
    <2>2. CASE k = Len(reference) + 1
      <3>1. passed + k = new
        BY <2>1, <2>2, <1>3
      <3>2. passed' + k = new /\ delayOf'[passed' + k] = delay
        BY <3>1, <1>1, <1>3
      <3>3. reference'[k] = owed
        BY <2>2, <1>12
      <3> HIDE DEF new
      <3> QED BY <3>2, <3>3 DEF Delayed
    <2>3. CASE k # Len(reference) + 1
      <3>1. k \in 1..Len(reference) /\ passed + k \in 1..Total
        BY <2>1, <2>3, <1>3, <1>12
      <3>2. Delayed(passed + k)' = Delayed(passed + k)
        BY <3>1, <1>1, <1>10 DEF Delayed
      <3> QED BY <3>1, <3>2, <1>1, <1>2, <1>12 DEF ReferenceIsDelayed
    <2> QED BY <2>2, <2>3
  <1> QED BY <1>9, <1>13, <1>14, <1>16, <1>17, <1>18 DEF FramingInv

LEMMA CopyToFrameIInv ==
  ASSUME FramingInv, CopyToFrame
  PROVE  FramingInv'
  <1> DEFINE n == Fewer(Size - filled, block - taken)
  <1>1. /\ step = "framing" /\ filled < Size
        /\ frame' = [j \in 1..Size |->
                       IF j \in (filled + 1)..(filled + n)
                         THEN <<reference[taken + j - filled],
                                passed + taken + j - filled>>
                         ELSE frame[j]]
        /\ filled' = filled + n /\ taken' = taken + n
        /\ IF filled' < Size THEN EndOfBlock ELSE UNCHANGED <<step, passed>>
        /\ UNCHANGED <<overlap, block, applied, changes, delay, line, write,
                       reference, analysed, resetAt, resets, delayOf>>
    BY DEF CopyToFrame, lineVars, resetVars
  <1>2. FramingTypeOK /\ StepInv /\ LineInv /\ FrameInv /\ WindowsInv
        /\ ReferenceIsDelayed /\ FramesAreWindows
    BY DEF FramingInv
  <1>3. /\ filled \in 0..Size /\ taken \in 0..block /\ block \in Nat
        /\ passed \in Nat /\ Size \in Nat
        /\ reference \in Seq(Nat) /\ Len(reference) = block
        /\ Total = passed + block /\ Framed = passed + taken
    BY <1>1, <1>2, FramingAssumption DEF FramingTypeOK, StepInv, Framed
  <1>4. n \in 0..(Size - filled) /\ n \in 0..(block - taken)
    <2>1. Size - filled \in Nat /\ block - taken \in Nat
      BY <1>3
    <2> QED BY <2>1 DEF Fewer
  <1> HIDE DEF n
  <1>5. \/ step' = "framing" /\ passed' = passed
        \/ /\ step' = "idle" /\ passed' = passed + block
           /\ taken' = block /\ filled' < Size
    <2>1. CASE filled' < Size
      <3>1. EndOfBlock
        BY <2>1, <1>1
      <3> QED BY <3>1, <2>1 DEF EndOfBlock, AllTaken
    <2>2. CASE ~(filled' < Size)
      BY <2>2, <1>1
    <2> QED BY <2>1, <2>2
  <1>6. Framed' = Framed + n
    BY <1>1, <1>3, <1>4, <1>5 DEF Framed
  <1>7. Hop' = Hop /\ Start' = Start /\ Total' = Total
        /\ \A i : Delayed(i)' = Delayed(i)
    BY <1>1 DEF Hop, Parts, Start, Total, Delayed
  <1>8. FramingTypeOK'
    <2>1. frame' \in [1..Size -> Nat \X Nat]
      <3> SUFFICES ASSUME NEW j \in 1..Size
                   PROVE  frame'[j] \in Nat \X Nat
        BY <1>1
      <3>1. CASE j \in (filled + 1)..(filled + n)
        <4>1. taken + j - filled \in 1..block
          BY <1>3, <1>4, <3>1
        <4>2. reference[taken + j - filled] \in Nat
              /\ passed + taken + j - filled \in Nat
          BY <4>1, <1>3
        <4> QED BY <4>2, <3>1, <1>1
      <3>2. CASE j \notin (filled + 1)..(filled + n)
        BY <3>2, <1>1, <1>2 DEF FramingTypeOK
      <3> QED BY <3>1, <3>2
    <2>2. /\ filled' \in 0..Size /\ taken' \in 0..block
          /\ passed' \in Nat /\ resetAt' \in 0..passed'
          /\ step' \in {"idle", "delaying", "framing"}
      BY <1>1, <1>2, <1>3, <1>4, <1>5 DEF FramingTypeOK
    <2> QED BY <2>1, <2>2, <1>1, <1>2 DEF FramingTypeOK
  <1>9. StepInv'
    BY <1>1, <1>3, <1>5, <1>7 DEF StepInv
  <1>10. LineInv' /\ WindowsInv' /\ FramesAreWindows'
    BY <1>1, <1>2, <1>7 DEF LineInv, WindowsInv, FramesAreWindows, Length
  <1>11. FrameInv'
    <2> SUFFICES ASSUME NEW j \in 1..filled'
                 PROVE  frame'[j] = <<Delayed(Start + j), Start + j>>
      <3>1. Start' \in Nat /\ Start' + filled' = Framed'
        <4>1. Start \in Nat /\ Start + filled = Framed
          BY <1>2 DEF FrameInv
        <4>2. Start' = Start /\ filled' = filled + n /\ Framed' = Framed + n
              /\ filled \in Nat /\ n \in Nat
          BY <1>1, <1>3, <1>4, <1>6, <1>7
        <4> QED BY <4>1, <4>2
      <3>2. \A j \in 1..filled' : Delayed(Start + j)' = Delayed(Start + j)
        BY <1>1, <1>7 DEF Delayed
      <3> QED BY <3>1, <3>2, <1>7 DEF FrameInv
    <2>1. j \in 1..Size
      BY <1>1, <1>3, <1>4
    <2>2. CASE j <= filled
      <3>1. j \in 1..filled /\ j \notin (filled + 1)..(filled + n)
        BY <2>1, <2>2, <1>3, <1>4
      <3> QED BY <2>1, <3>1, <1>1, <1>2 DEF FrameInv
    <2>3. CASE ~(j <= filled)
      <3> DEFINE k == taken + j - filled
      <3>1. j \in (filled + 1)..(filled + n) /\ k \in 1..block
        <4>1. filled' = filled + n /\ filled \in Nat /\ n \in Nat
              /\ taken \in Nat /\ block \in Nat /\ taken + n <= block
          <5>1. filled' = filled + n
            BY <1>1
          <5> HIDE DEF n
          <5> QED BY <5>1, <1>3, <1>4
        <4>2. j \in Nat /\ j <= filled + n /\ j > filled
          BY <2>3, <4>1
        <4> HIDE DEF n
        <4> QED BY <4>1, <4>2
      <3>2. passed + k = Start + j /\ passed + taken + j - filled = Start + j
        BY <1>2, <1>3, <2>1 DEF FrameInv
      <3>3. reference[k] = Delayed(passed + k)
        BY <3>1, <1>1, <1>2, <1>3 DEF ReferenceIsDelayed
      <3> QED BY <2>1, <3>1, <3>2, <3>3, <1>1
    <2> QED BY <2>2, <2>3
  <1>12. ReferenceIsDelayed'
    BY <1>1, <1>2, <1>5, <1>7 DEF ReferenceIsDelayed
  <1> QED BY <1>8, <1>9, <1>10, <1>11, <1>12 DEF FramingInv

LEMMA ProcessFrameIInv ==
  ASSUME FramingInv, ProcessFrame
  PROVE  FramingInv'
  <1>1. /\ step = "framing" /\ filled = Size
        /\ analysed' = Append(analysed, frame) /\ frame' = Slid
        /\ filled' = Size - Hop /\ taken' = taken
        /\ EndOfBlock
        /\ UNCHANGED <<overlap, block, applied, changes, delay, line, write,
                       reference, resetAt, resets, delayOf>>
    BY DEF ProcessFrame, lineVars, resetVars
  <1>2. FramingTypeOK /\ StepInv /\ LineInv /\ FrameInv /\ WindowsInv
        /\ ReferenceIsDelayed /\ FramesAreWindows
    BY DEF FramingInv
  <1>3. /\ Hop \in 1..Size /\ Hop' = Hop /\ Size \in Nat
    <2>1. Hop \in 1..Size
      BY <1>2, HopType DEF FramingTypeOK
    <2>2. Hop' = Hop
      BY <1>1 DEF Hop, Parts
    <2> QED BY <2>1, <2>2, FramingAssumption
  <1>4. /\ taken \in 0..block /\ block \in Nat /\ passed \in Nat
        /\ Len(reference) = block /\ Total = passed + block
        /\ Framed = passed + taken /\ Start \in Nat /\ Start + Size = Framed
        /\ resetAt \in Nat
    <2>1. /\ taken \in 0..block /\ block \in Nat /\ passed \in Nat
          /\ resetAt \in 0..passed
      BY <1>2 DEF FramingTypeOK
    <2>2. Len(reference) = block /\ Total = passed + Len(reference)
      BY <1>1, <1>2 DEF StepInv
    <2>3. Framed = passed + taken /\ Start \in Nat /\ Start + filled = Framed
      BY <1>1, <1>2 DEF Framed, FrameInv
    <2> QED BY <2>1, <2>2, <2>3, <1>1
  <1>5. \/ step' = "framing" /\ passed' = passed
        \/ /\ step' = "idle" /\ passed' = passed + block
           /\ taken' = block
    <2>1. EndOfBlock
      BY <1>1
    <2> QED BY <2>1 DEF EndOfBlock, AllTaken
  <1>6. Framed' = Framed
    BY <1>1, <1>4, <1>5 DEF Framed
  <1>7. Total' = Total /\ \A i : Delayed(i)' = Delayed(i)
    BY <1>1 DEF Total, Delayed
  <1>8. /\ analysed' \in Seq([1..Size -> Nat \X Nat])
        /\ Len(analysed') = Len(analysed) + 1 /\ Len(analysed) \in Nat
        /\ \A k \in 1..Len(analysed) : analysed'[k] = analysed[k]
        /\ analysed'[Len(analysed) + 1] = frame
    BY <1>1, <1>2, AppendProperties DEF FramingTypeOK
  <1>9. Start' = Start + Hop
    <2>1. (Len(analysed) + 1) * Hop = Len(analysed) * Hop + Hop
          /\ Len(analysed) * Hop \in Nat
      BY <1>3, <1>8, HopsAdd
    <2> QED BY <2>1, <1>1, <1>3, <1>4, <1>8 DEF Start
  <1>10. \A j \in 1..Size : frame'[j] \in Nat \X Nat
         /\ (j <= Size - Hop => frame'[j] = frame[j + Hop])
    BY <1>1, <1>2, <1>3, SMTT(60) DEF Slid, FramingTypeOK
  <1>11. FramingTypeOK'
    <2>1. frame' \in [1..Size -> Nat \X Nat]
      BY <1>1, <1>10 DEF Slid
    <2>2. /\ filled' \in 0..Size /\ passed' \in Nat
          /\ resetAt' \in 0..passed'
          /\ step' \in {"idle", "delaying", "framing"}
      BY <1>1, <1>2, <1>3, <1>4, <1>5 DEF FramingTypeOK
    <2> QED BY <2>1, <2>2, <1>1, <1>2, <1>8 DEF FramingTypeOK
  <1>12. StepInv'
    BY <1>1, <1>3, <1>4, <1>5, <1>7 DEF StepInv
  <1>13. LineInv'
    BY <1>1, <1>2, <1>7 DEF LineInv, Length
  <1>14. FrameInv'
    <2> SUFFICES ASSUME NEW j \in 1..filled'
                 PROVE  frame'[j] = <<Delayed(Start' + j), Start' + j>>
      <3>1. Start' \in Nat /\ Start' + filled' = Framed'
        <4>1. Hop \in Nat /\ Hop <= Size /\ Size \in Nat
              /\ Start \in Nat /\ Start + Size = Framed
          BY <1>3, <1>4
        <4>2. Start' = Start + Hop /\ filled' = Size - Hop /\ Framed' = Framed
          BY <1>1, <1>6, <1>9
        <4> QED BY <4>1, <4>2
      <3>2. \A j \in 1..filled' : Delayed(Start + j)' = Delayed(Start' + j)
        BY <1>1 DEF Delayed
      <3> QED BY <3>1, <3>2 DEF FrameInv
    <2>1. j \in 1..Size /\ j <= Size - Hop /\ j + Hop \in 1..filled
          /\ Start' + j = Start + (j + Hop)
      BY <1>1, <1>3, <1>4, <1>9
    <2>2. frame[j + Hop] = <<Delayed(Start + (j + Hop)), Start + (j + Hop)>>
      BY <2>1, <1>2 DEF FrameInv
    <2> QED BY <2>1, <2>2, <1>10
  <1>15. \A k \in 1..Len(analysed') : \A j \in 1..Size :
           LET i == resetAt + (k - 1) * Hop + j
           IN  i \in 1..Total /\ analysed'[k][j] = <<Delayed(i), i>>
    <2> SUFFICES ASSUME NEW k \in 1..Len(analysed'), NEW j \in 1..Size
                 PROVE  LET i == resetAt + (k - 1) * Hop + j
                        IN  /\ i \in 1..Total
                            /\ analysed'[k][j] = <<Delayed(i), i>>
      OBVIOUS
    <2>1. CASE k = Len(analysed) + 1
      <3>1. k - 1 = Len(analysed)
        BY <2>1, <1>8
      <3>2. resetAt + (k - 1) * Hop + j = Start + j
        BY <3>1 DEF Start
      <3>3. Start + j \in 1..Total
        BY <1>3, <1>4
      <3>4. analysed'[k][j] = <<Delayed(Start + j), Start + j>>
        BY <2>1, <1>1, <1>2, <1>8 DEF FrameInv
      <3> QED BY <3>2, <3>3, <3>4
    <2>2. CASE k # Len(analysed) + 1
      <3>1. k \in 1..Len(analysed)
        BY <2>2, <1>8
      <3> QED BY <3>1, <1>2, <1>8 DEF WindowsInv, FramesAreWindows
    <2> QED BY <2>1, <2>2
  <1>16. WindowsInv' /\ FramesAreWindows'
    BY <1>1, <1>3, <1>7, <1>15 DEF WindowsInv, FramesAreWindows
  <1>17. ReferenceIsDelayed'
    BY <1>1, <1>2, <1>5, <1>7 DEF ReferenceIsDelayed
  <1> QED BY <1>11, <1>12, <1>13, <1>14, <1>16, <1>17 DEF FramingInv

LEMMA StepIInv == FramingInv /\ [FramingNext]_framingVars => FramingInv'
  <1> SUFFICES ASSUME FramingInv, [FramingNext]_framingVars PROVE FramingInv'
    OBVIOUS
  <1>1. CASE FramingNext
    BY <1>1, ApplyDelayIInv, ResetIInv, BeginIInv, DelaySampleIInv,
       CopyToFrameIInv, ProcessFrameIInv DEF FramingNext, Work
  <1>2. CASE UNCHANGED framingVars
    <2> USE <1>2 DEF FramingInv, framingVars, lineVars, frameVars, resetVars
    <2>1. FramingTypeOK'
      BY DEF FramingTypeOK
    <2>2. Hop' = Hop /\ Start' = Start /\ Total' = Total /\ Framed' = Framed
          /\ \A i : Delayed(i)' = Delayed(i)
      BY DEF Hop, Parts, Start, Total, Framed, Delayed
    <2>3. StepInv' /\ LineInv'
      BY <2>2 DEF StepInv, LineInv, Length
    <2>4. FrameInv' /\ WindowsInv'
      BY <2>2 DEF FrameInv, WindowsInv, Delayed
    <2>5. ReferenceIsDelayed' /\ FramesAreWindows'
      BY <2>2 DEF ReferenceIsDelayed, FramesAreWindows, Delayed
    <2> QED BY <2>1, <2>3, <2>4, <2>5
  <1> QED BY <1>1, <1>2

(* The invariant that carries the four theorems. *)
LEMMA Inductive == FramingSpec => []FramingInv
  BY FramingInitially, StepIInv, PTL DEF FramingSpec

--------------------------------------------------------------------------------
(* The buffers, counters and histories keep their types, whatever the frame *)
(* size, the blocks and the delays.                                         *)
THEOREM FramingTypeCorrect == FramingSpec => []FramingTypeOK
  <1>1. FramingInv => FramingTypeOK
    BY DEF FramingInv
  <1> QED BY <1>1, Inductive, PTL

(* Every sample of the reference leaves the delay line exactly its delay    *)
(* later (DelayLine::process).                                              *)
THEOREM ReferenceAlwaysDelayed == FramingSpec => []ReferenceIsDelayed
  <1>1. FramingInv => ReferenceIsDelayed
    BY DEF FramingInv
  <1> QED BY <1>1, Inductive, PTL

(* The frames analysed are the windows of the stream since the last reset,  *)
(* reference beside measurement, however the device cut it into blocks.     *)
THEOREM FramesAreAlwaysWindows == FramingSpec => []FramesAreWindows
  <1>1. FramingInv => FramesAreWindows
    BY DEF FramingInv
  <1> QED BY <1>1, Inductive, PTL

(* Between blocks no complete window waits to be analysed. *)
THEOREM NothingHeldBack == FramingSpec => []NoFrameIsHeldBack
  <1>1. FramingInv => NoFrameIsHeldBack
    <2> SUFFICES ASSUME FramingInv, step = "idle"
                 PROVE  resetAt + Len(analysed) * Hop + Size > passed
      BY DEF NoFrameIsHeldBack
    <2>1. filled < Size /\ filled \in Nat /\ Start + filled = passed
          /\ Start \in Nat
      BY DEF FramingInv, StepInv, FrameInv, Framed, FramingTypeOK
    <2>2. Start + Size > passed
      BY <2>1, FramingAssumption
    <2> QED BY <2>2 DEF Start
  <1> QED BY <1>1, Inductive, PTL
================================================================================
