--------------------------------- MODULE Framing ---------------------------------
(***************************************************************************)
(* What the worker does with the samples of a block: the reference goes    *)
(* through the delay line (engine/delay_line.hpp), and reference and       *)
(* measurement go side by side into the overlapping frames that are        *)
(* analysed (dsp/transfer.cpp, push; dsp/spectrum.cpp, push, is the same   *)
(* loop over one channel).  The device cuts the stream where it likes; the *)
(* frames analysed must not depend on the cuts.                            *)
(*                                                                         *)
(* Sample i of each channel is the number i, counted from 1; 0 is silence. *)
(* One step is one pass of a loop: a sample through the delay line, a run  *)
(* of samples into the frame, a full frame analysed and slid by its hop.   *)
(***************************************************************************)
EXTENDS Integers, Sequences

CONSTANTS
  Size,             \* config.size: samples in a frame
  DelayCapacity,    \* DelayLine::capacity()
  BlockSizes,       \* samples in a block
  Delays,           \* values the worker may load from applied_delay
  MaxSamples,       \* bound: samples delivered
  MaxDelayChanges,  \* bound: changes of the applied delay
  MaxResets         \* bound: calls of reset()

ASSUME FramingAssumption ==
  /\ Size \in Nat \ {0}
  /\ DelayCapacity \in Nat
  /\ BlockSizes \subseteq Nat \ {0}
  /\ Delays \subseteq Nat
  /\ MaxSamples \in Nat /\ MaxDelayChanges \in Nat /\ MaxResets \in Nat

VARIABLES
  overlap,         \* config.overlap, fixed
  step,            \* "idle", "delaying" or "framing"
  passed,          \* history: samples of the blocks finished
  block,           \* samples of the block in hand
  applied,         \* Shared::applied_delay
  changes,         \* bound on its changes
  delay,           \* the delay of this block, clamped
  line,            \* DelayLine::buffer_
  write,           \* DelayLine::write_
  reference,       \* the delayed block
  frame,           \* reference_frame_ and measurement_frame_, in pairs
  filled,          \* filled_
  taken,           \* samples of the block copied into frames
  analysed,        \* history: the frames processed since the last reset
  resetAt,         \* history: samples delivered before it
  resets,          \* bound on resets
  delayOf          \* history: the delay each sample went through

lineVars == <<line, write, reference>>
frameVars == <<frame, filled, taken, analysed>>
resetVars == <<resetAt, resets>>
framingVars == <<overlap, step, passed, block, applied, changes, delay, lineVars,
                 frameVars, resetVars, delayOf>>

Fewer(a, b) == IF a <= b THEN a ELSE b

Overlaps == {"None", "Half", "ThreeQuarters", "SevenEighths"}

(* Into how many hops a frame falls. *)
Parts == CASE overlap = "None" -> 1
           [] overlap = "Half" -> 2
           [] overlap = "ThreeQuarters" -> 4
           [] overlap = "SevenEighths" -> 8

(* overlap_hop: never less than one sample. *)
Hop == IF Size \div Parts >= 1 THEN Size \div Parts ELSE 1

(* The line is one longer than the longest delay. *)
Length == DelayCapacity + 1

Blank == [j \in 1..Size |-> <<0, 0>>]

FramingInit ==
  /\ overlap \in Overlaps
  /\ step = "idle"
  /\ passed = 0 /\ block = 0
  /\ applied = 0 /\ changes = 0 /\ delay = 0
  /\ line = [s \in 0..DelayCapacity |-> 0] /\ write = 0 /\ reference = <<>>
  /\ frame = Blank /\ filled = 0 /\ taken = 0 /\ analysed = <<>>
  /\ resetAt = 0 /\ resets = 0
  /\ delayOf = <<>>

--------------------------------------------------------------------------------
(* Between blocks: the applied delay moves, the average is reset. *)

ApplyDelay(samples) ==
  /\ step = "idle"
  /\ changes < MaxDelayChanges
  /\ samples # applied
  /\ applied' = samples
  /\ changes' = changes + 1
  /\ UNCHANGED <<overlap, step, passed, block, delay, lineVars, frameVars,
                 resetVars, delayOf>>

(* reset(): the average and the partial frame go; the delay line stays. *)
Reset ==
  /\ step = "idle"
  /\ resets < MaxResets
  /\ frame' = Blank
  /\ filled' = 0
  /\ analysed' = <<>>
  /\ resetAt' = passed
  /\ resets' = resets + 1
  /\ UNCHANGED <<overlap, step, passed, block, applied, changes, delay,
                 lineVars, taken, delayOf>>

--------------------------------------------------------------------------------
(* DelayLine::process *)

Clamped(samples) == Fewer(samples, DelayCapacity)

Begin(n) ==
  /\ step = "idle"
  /\ passed + n <= MaxSamples
  /\ block' = n
  /\ delay' = Clamped(applied)
  /\ reference' = <<>>
  /\ taken' = 0
  /\ step' = "delaying"
  /\ UNCHANGED <<overlap, passed, applied, changes, line, write, frame, filled,
                 analysed, resetVars, delayOf>>

(* Mutant: read before the write position has moved on. *)
ReadUnmoved(w) == (w + Length - delay) % Length

(* Where the delayed sample is, once the write position is w. *)
ReadAt(w) == (w + Length - delay - 1) % Length

DelaySample ==
  /\ step = "delaying"
  /\ Len(reference) < block
  /\ line' = [line EXCEPT ![write] = passed + Len(reference) + 1]
  /\ write' = (write + 1) % Length
  /\ reference' = Append(reference, line'[ReadAt(write')])
  /\ delayOf' = Append(delayOf, delay)
  /\ step' = IF Len(reference) + 1 = block THEN "framing" ELSE step
  /\ UNCHANGED <<overlap, passed, block, applied, changes, delay, frameVars,
                 resetVars>>

--------------------------------------------------------------------------------
(* push *)

AllTaken == taken' = block

(* The pass over the block ends when its samples are all in a frame. *)
EndOfBlock ==
  /\ step' = IF AllTaken THEN "idle" ELSE "framing"
  /\ passed' = IF AllTaken THEN passed + block ELSE passed

(* Copy as much of the block as the frame wants; a frame this does not fill *)
(* takes the last of the block.                                             *)
CopyToFrame ==
  /\ step = "framing"
  /\ filled < Size
  /\ LET n == Fewer(Size - filled, block - taken)
     IN  /\ frame' = [j \in 1..Size |->
                        IF j \in (filled + 1)..(filled + n)
                          THEN <<reference[taken + j - filled],
                                 passed + taken + j - filled>>
                          ELSE frame[j]]
         /\ filled' = filled + n
         /\ taken' = taken + n
  /\ IF filled' < Size
       THEN EndOfBlock
       ELSE UNCHANGED <<step, passed>>
  /\ UNCHANGED <<overlap, block, applied, changes, delay, lineVars, analysed,
                 resetVars, delayOf>>

(* Mutant: the tail is kept, but not where the next frame begins. *)
Unslid == frame

Slid == [j \in 1..Size |-> IF j + Hop <= Size THEN frame[j + Hop] ELSE frame[j]]

(* process_frame, and the slide that keeps the overlapping tail. *)
ProcessFrame ==
  /\ step = "framing"
  /\ filled = Size
  /\ analysed' = Append(analysed, frame)
  /\ frame' = Slid
  /\ filled' = Size - Hop
  /\ taken' = taken
  /\ EndOfBlock
  /\ UNCHANGED <<overlap, block, applied, changes, delay, lineVars, resetVars,
                 delayOf>>

--------------------------------------------------------------------------------
Work == DelaySample \/ CopyToFrame \/ ProcessFrame

FramingNext ==
  \/ \E d \in Delays : ApplyDelay(d)
  \/ Reset
  \/ \E n \in BlockSizes : Begin(n)
  \/ Work

FramingSpec == FramingInit /\ [][FramingNext]_framingVars

--------------------------------------------------------------------------------
FramingTypeOK ==
  /\ overlap \in Overlaps
  /\ step \in {"idle", "delaying", "framing"}
  /\ passed \in Nat /\ block \in Nat
  /\ applied \in Nat /\ changes \in Nat /\ delay \in 0..DelayCapacity
  /\ line \in [0..DelayCapacity -> Nat] /\ write \in 0..DelayCapacity
  /\ reference \in Seq(Nat) /\ Len(reference) <= block
  /\ frame \in [1..Size -> Nat \X Nat]
  /\ filled \in 0..Size /\ taken \in 0..block
  /\ analysed \in Seq([1..Size -> Nat \X Nat])
  /\ resetAt \in 0..passed /\ resets \in Nat
  /\ delayOf \in Seq(0..DelayCapacity)

(* What the delay line owes for sample i: the sample its delay ago, or      *)
(* silence before the stream began.                                         *)
Delayed(i) == IF i > delayOf[i] THEN i - delayOf[i] ELSE 0

(* "State carries across calls, since a block boundary falls wherever the   *)
(* device chooses and carries no meaning" (delay_line.hpp): through blocks  *)
(* of any size and delays that change between them, every sample comes out  *)
(* exactly its delay later, a delay beyond the line the line's length.      *)
ReferenceIsDelayed ==
  step # "idle" =>
    \A k \in 1..Len(reference) : reference[k] = Delayed(passed + k)

(* The k-th frame analysed since a reset is the k-th window of the stream   *)
(* since that reset, a hop after the one before it, whatever blocks the     *)
(* samples came in; and beside each measured sample it holds the reference  *)
(* that belongs to it.  Nothing from before the reset is left in it.        *)
FramesAreWindows ==
  \A k \in 1..Len(analysed) : \A j \in 1..Size :
    LET i == resetAt + (k - 1) * Hop + j
    IN  analysed[k][j] = <<Delayed(i), i>>

(* Every window that is complete has been analysed by the end of its block. *)
NoFrameIsHeldBack ==
  step = "idle" => resetAt + Len(analysed) * Hop + Size > passed

================================================================================
