------------------------------ MODULE CaptureRing ------------------------------
(***************************************************************************)
(* The lock-free crossing from the audio thread to the analysis thread     *)
(* (engine/ring.hpp, engine/ring.cpp): one producer, one consumer, a       *)
(* circular buffer of interleaved samples and two counters that only grow. *)
(*                                                                         *)
(* The producer's and the consumer's calls are split where the other       *)
(* thread can get in: after the counters are loaded, between any two       *)
(* samples of a copy, and before the counter is stored.  The acquire and   *)
(* release orders of the code make these interleavings the only ones       *)
(* either thread can observe.                                              *)
(*                                                                         *)
(* Samples are numbered by `offered`, the samples of well-formed blocks    *)
(* handed to write_interleaved so far (accepted or dropped); Silence is    *)
(* the 0.0f the buffer is created with.                                    *)
(***************************************************************************)
EXTENDS Integers, Sequences

CONSTANTS Channels,        \* RingState::channels
          CapacityFrames,  \* capacity_frames of capture_ring()
          WriteSizes,      \* sizes, in samples, of the spans written
          ReadSizes,       \* sizes, in samples, of the spans read into
          MaxOffered,      \* bound: samples the device offers
          MaxRagged        \* bound: ragged blocks counted as overruns

ASSUME RingAssumption == /\ Channels \in Nat \ {0}
                         /\ CapacityFrames \in Nat \ {0}
                         /\ WriteSizes \subseteq Nat \ {0}
                         /\ ReadSizes \subseteq Nat
                         /\ MaxOffered \in Nat
                         /\ MaxRagged \in Nat

Capacity == Channels * CapacityFrames
Silence == -1

VARIABLES
  buffer,      \* RingState::buffer
  written,     \* RingState::written, stored by the producer only
  read,        \* RingState::read, stored by the consumer only
  overruns,    \* RingState::overruns
  writer,      \* the producer: "idle", or "copying" inside write_interleaved
  blockSize,   \* samples of the block being written
  copiedIn,    \* how many of them copy_in has stored
  reader,      \* the consumer: "idle", or "copying" inside read_interleaved
  takeCount,   \* samples being read
  destination, \* what copy_out has stored in the caller's span
  offered,     \* history: samples of well-formed blocks offered
  ragged,      \* history: ragged blocks refused
  delivered    \* history: every sample read_interleaved has returned

ringVars == <<buffer, written, read, overruns>>
writerVars == <<writer, blockSize, copiedIn, offered, ragged>>
readerVars == <<reader, takeCount, destination, delivered>>
vars == <<ringVars, writerVars, readerVars>>

Lesser(a, b) == IF a <= b THEN a ELSE b

Init == /\ buffer = [s \in 0..(Capacity - 1) |-> Silence]
        /\ written = 0
        /\ read = 0
        /\ overruns = 0
        /\ writer = "idle"
        /\ blockSize = 0
        /\ copiedIn = 0
        /\ reader = "idle"
        /\ takeCount = 0
        /\ destination = <<>>
        /\ offered = 0
        /\ ragged = 0
        /\ delivered = <<>>

(* The slot of the i-th of `count` samples copied at an absolute position:  *)
(* at most two contiguous runs, the second from the start of the buffer.    *)
Slot(position, count, i) ==
  LET start == position % Capacity
      first == Lesser(count, Capacity - start)
  IN  IF i < first THEN start + i ELSE i - first

--------------------------------------------------------------------------------
(* The producer: CaptureSink::write_interleaved. *)

Free == Capacity - (written - read)

(* Mutant: room for one frame too many. *)
FitsOneFrameMore(n) == Free + Channels >= n

Fits(n) == Free >= n

(* Mutant: a refusal is not counted. *)
NotCounted == overruns

OneMoreOverrun == overruns + 1

WholeFrames(n) == n % Channels = 0

(* A block that is not a whole number of frames is refused and counted. *)
WriteRagged(n) ==
  /\ writer = "idle"
  /\ ~WholeFrames(n)
  /\ ragged < MaxRagged
  /\ ragged' = ragged + 1
  /\ overruns' = OneMoreOverrun
  /\ UNCHANGED <<buffer, written, read, writer, blockSize, copiedIn, offered,
                 readerVars>>

(* A block that does not fit is dropped whole and counted. *)
WriteDrop(n) ==
  /\ writer = "idle"
  /\ WholeFrames(n)
  /\ offered + n <= MaxOffered
  /\ ~Fits(n)
  /\ overruns' = OneMoreOverrun
  /\ offered' = offered + n
  /\ UNCHANGED <<buffer, written, read, writer, blockSize, copiedIn, ragged,
                 readerVars>>

(* A block that fits: both counters are loaded, the copy begins. *)
WriteBegin(n) ==
  /\ writer = "idle"
  /\ WholeFrames(n)
  /\ offered + n <= MaxOffered
  /\ Fits(n)
  /\ writer' = "copying"
  /\ blockSize' = n
  /\ copiedIn' = 0
  /\ UNCHANGED <<ringVars, offered, ragged, readerVars>>

(* Mutant: the counter is stored before the last sample is. *)
CopyAlmostDone == copiedIn + 1 >= blockSize

MoreToCopy == copiedIn < blockSize
CopyDone == copiedIn = blockSize

(* copy_in stores one sample. *)
CopyIn ==
  /\ writer = "copying"
  /\ MoreToCopy
  /\ buffer' = [buffer EXCEPT
                  ![Slot(written, blockSize, copiedIn)] = offered + copiedIn]
  /\ copiedIn' = copiedIn + 1
  /\ UNCHANGED <<written, read, overruns, writer, blockSize, offered, ragged,
                 readerVars>>

(* The release store of `written` hands the block over. *)
WritePublish ==
  /\ writer = "copying"
  /\ CopyDone
  /\ written' = written + blockSize
  /\ offered' = offered + blockSize
  /\ writer' = "idle"
  /\ blockSize' = 0
  /\ copiedIn' = 0
  /\ UNCHANGED <<buffer, read, overruns, ragged, readerVars>>

--------------------------------------------------------------------------------
(* The consumer: CaptureSource::read_interleaved. *)

FramesAvailable == (written - read) \div Channels

(* Mutant: a reader that never takes the last frame. *)
CountKeepsOne(size) == Lesser(size \div Channels, FramesAvailable - 1) * Channels

(* The samples one call returns: whole frames only. *)
Count(size) == Lesser(size \div Channels, FramesAvailable) * Channels

(* Loads both counters; with no whole frame to return the call returns 0    *)
(* and changes nothing.                                                     *)
ReadBegin(size) ==
  /\ reader = "idle"
  /\ Count(size) > 0
  /\ reader' = "copying"
  /\ takeCount' = Count(size)
  /\ destination' = <<>>
  /\ UNCHANGED <<ringVars, writerVars, delivered>>

(* copy_out loads one sample. *)
CopyOut ==
  /\ reader = "copying"
  /\ Len(destination) < takeCount
  /\ destination' =
       Append(destination, buffer[Slot(read, takeCount, Len(destination))])
  /\ UNCHANGED <<ringVars, writerVars, reader, takeCount, delivered>>

(* The release store of `read` returns the slots to the producer. *)
ReadPublish ==
  /\ reader = "copying"
  /\ Len(destination) = takeCount
  /\ read' = read + takeCount
  /\ reader' = "idle"
  /\ takeCount' = 0
  /\ destination' = <<>>
  /\ delivered' = delivered \o destination
  /\ UNCHANGED <<buffer, written, overruns, writerVars>>

--------------------------------------------------------------------------------
Producer == \/ \E n \in WriteSizes :
                 WriteRagged(n) \/ WriteDrop(n) \/ WriteBegin(n)
            \/ CopyIn
            \/ WritePublish

ConsumerBegins == \E size \in ReadSizes : ReadBegin(size)

Consumer == ConsumerBegins \/ CopyOut \/ ReadPublish

Next == Producer \/ Consumer

Spec == Init /\ [][Next]_vars

(* The analysis thread polls for ever (Worker::run); nothing is assumed of  *)
(* the device, which may stop delivering at any time, even mid-write.       *)
FairSpec == Spec /\ WF_vars(Consumer)

--------------------------------------------------------------------------------
Sample == 0..MaxOffered

TypeOK ==
  /\ buffer \in [0..(Capacity - 1) -> Sample \cup {Silence}]
  /\ written \in Nat
  /\ read \in Nat
  /\ overruns \in Nat
  /\ writer \in {"idle", "copying"}
  /\ blockSize \in Nat
  /\ copiedIn \in 0..blockSize
  /\ reader \in {"idle", "copying"}
  /\ takeCount \in Nat
  /\ destination \in Seq(Sample \cup {Silence})
  /\ offered \in 0..MaxOffered
  /\ ragged \in Nat
  /\ delivered \in Seq(Sample \cup {Silence})

(* The slots a copy in progress touches. *)
WriteSlots == {Slot(written, blockSize, i) : i \in 0..(blockSize - 1)}
ReadSlots == {Slot(read, takeCount, i) : i \in 0..(takeCount - 1)}

(* "The producer never overwrites a slot the consumer has not finished      *)
(* reading" (ring.hpp): copies in flight never touch the same slot.         *)
NoSlotShared == WriteSlots \cap ReadSlots = {}

(* Interleaving makes frame alignment structural (ring.hpp): the k-th       *)
(* sample the consumer ever receives belongs to channel (k-1) mod Channels, *)
(* whatever was dropped, refused or split over two copies in between.       *)
DeliveredAligned ==
  \A k \in 1..Len(delivered) :
    delivered[k] % Channels = (k - 1) % Channels

(* No sample is delivered twice, out of order, or before it was written. *)
DeliveredInOrder ==
  \A k \in 1..Len(delivered) :
    /\ delivered[k] # Silence
    /\ k > 1 => delivered[k - 1] < delivered[k]

(* Silent data loss is the worst failure mode (ring.hpp): while no overrun  *)
(* is counted, the delivered stream is the offered stream from its start.   *)
NoSilentLoss ==
  overruns = 0 => delivered = [k \in 1..Len(delivered) |-> k - 1]

(* Every refusal counts once, nothing else does, and every offered sample   *)
(* is in the ring, delivered, or lost to a counted drop.                    *)
OverrunsExact ==
  /\ overruns >= ragged
  /\ (offered > written) <=> (overruns > ragged)

(* The ring implements the bounded queue: what is between the two counters, *)
(* read from the buffer, is the queue.                                      *)
Fifo == INSTANCE FrameFifo
  WITH queue <- [k \in 1..(written - read) |-> buffer[(read + k - 1) % Capacity]]

ImplementsFifo == Fifo!Spec

(* A published sample is eventually read: the worker drains whatever the    *)
(* device leaves behind.                                                    *)
PublishedIsRead ==
  \A n \in 1..MaxOffered : (written >= n) ~> (read >= n)
================================================================================
