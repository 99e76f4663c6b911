--------------------------------- MODULE Engine ---------------------------------
(***************************************************************************)
(* The analysis worker and the object that owns it (engine/engine.hpp,     *)
(* engine/engine.cpp).  Three parties share it: the audio callback offers  *)
(* blocks to the ring, the worker drains, records, aligns, analyses and    *)
(* publishes, and the owner's thread (the UI) arms recordings, resets the  *)
(* average, asks for the reference delay and stops the worker.             *)
(*                                                                         *)
(* The ring appears as the bounded queue that CaptureRing implements, with *)
(* a frame as its unit; the snapshot channel as the register that Snapshot *)
(* implements.  A frame is its number in the offered stream.  Every step   *)
(* of the worker is one access to something shared, so the owner's calls   *)
(* fall between any two of them.  The recording mutex is held for one      *)
(* access at a time, so each critical section is a single step.            *)
(***************************************************************************)
EXTENDS Integers, Sequences, FiniteSets

CONSTANTS
  Modes,           \* values config.mode.is_transfer() may have
  CapacityFrames,  \* config.ring_capacity_frames
  BlockSizes,      \* frames per block of the audio callback
  DrainFrames,     \* kDrainFrames: most frames read per pass
  FftSize,         \* config.spectrum.size
  Hop,             \* samples between consecutive spectrum frames
  FinderSize,      \* DelayFinder::size()
  DelayCapacity,   \* DelayLine::capacity()
  Estimates,       \* delays DelayFinder::find may report, negative included
  Delays,          \* delays the user may set by hand
  Lengths,         \* lengths asked of begin_recording
  MaxOffered,      \* bound: frames the device offers
  MaxCalls         \* bound: calls by the owner that change state

ASSUME EngineAssumption ==
  /\ Modes \subseteq BOOLEAN
  /\ CapacityFrames \in Nat \ {0}
  /\ BlockSizes \subseteq Nat \ {0}
  /\ DrainFrames \in Nat \ {0}
  /\ FftSize \in Nat \ {0} /\ Hop \in 1..FftSize
  /\ FinderSize \in Nat \ {0}
  /\ DelayCapacity \in Nat
  /\ Estimates \subseteq Int /\ Delays \subseteq Nat /\ Lengths \subseteq Nat
  /\ MaxOffered \in Nat /\ MaxCalls \in Nat

VARIABLES
  transfer,       \* config.mode.is_transfer(), fixed when the engine starts
  queue, delivered, offered, overruns,  \* the ring, as a bounded queue
  stop, published, resetAverage,        \* Engine::Shared: the atomics
  appliedDelay, estimateDelay,
  recording,      \* Shared::recording, under recording_mutex
  worker,         \* where the worker is in Worker::run
  block,          \* the frames of the pass in hand (interleaved_, mono_)
  filled,         \* analyzer_: samples of the partial frame
  averageFilled,  \* average_: the same
  averageFrames,  \* average_.frames()
  finderFilled,   \* finder_filled_
  sequence,       \* frames published, counted by the worker
  snapshot,       \* the newest SpectrumFrame
  owner,          \* the owner's thread: "free", or "joining" inside stop()
  calls,          \* bound on the owner's calls
  averageFrom,    \* history: samples delivered before the average began
  resetAt,        \* history: samples delivered when reset_average was called
  windowFrom,     \* history: samples delivered before the finder's window
  askedAt,        \* history: the same, when the pending estimate was asked for
  handed          \* history: the recordings take_recording has returned

ringVars == <<transfer, queue, delivered, offered, overruns>>
callVars == <<owner, calls, resetAt, askedAt, handed>>
analysisVars == <<filled, averageFilled, averageFrames, averageFrom>>
finderVars == <<finderFilled, windowFrom>>
outputVars == <<sequence, snapshot, published>>
vars == <<ringVars, stop, resetAverage, appliedDelay, estimateDelay, recording,
          worker, block, analysisVars, finderVars, outputVars, callVars>>

Ring == INSTANCE FrameFifo WITH Channels <- 1

Idle == [samples |-> <<>>, wanted |-> 0, total |-> 0, active |-> FALSE]

(* Worker::initial_frame, and the histories a frame carries here: how much  *)
(* of the stream it has seen, and where its long-term average starts.       *)
InitialFrame == [sequence |-> 0, overruns |-> 0, averageFrames |-> 0,
                 averageFrom |-> 0, delay |-> 0, seen |-> 0]

Init ==
  /\ transfer \in Modes
  /\ Ring!Init
  /\ stop = FALSE /\ published = 0 /\ resetAverage = FALSE
  /\ appliedDelay = 0 /\ estimateDelay = FALSE
  /\ recording = Idle
  /\ worker = "check"
  /\ block = <<>>
  /\ filled = 0 /\ averageFilled = 0 /\ averageFrames = 0 /\ averageFrom = 0
  /\ finderFilled = 0 /\ windowFrom = 0
  /\ sequence = 0
  /\ snapshot = InitialFrame
  /\ owner = "free" /\ calls = 0
  /\ resetAt = 0 /\ askedAt = 0
  /\ handed = {}

Lesser(a, b) == IF a <= b THEN a ELSE b
Greater(a, b) == IF a >= b THEN a ELSE b

--------------------------------------------------------------------------------
(* The audio callback, through the ring: accepted whole or dropped whole. *)

DeviceBlock ==
  /\ \E n \in BlockSizes : /\ offered + n <= MaxOffered
                           /\ Ring!Accept(n) \/ Ring!Drop(n)
  /\ UNCHANGED <<transfer, stop, resetAverage, appliedDelay, estimateDelay, recording,
                 worker, block, analysisVars, finderVars, outputVars, callVars>>

--------------------------------------------------------------------------------
(* The worker: Worker::run, one access to shared state at a time. *)

CheckStop ==
  /\ worker = "check"
  /\ worker' = IF stop THEN "done" ELSE "reset"
  /\ UNCHANGED <<ringVars, stop, resetAverage, appliedDelay, estimateDelay,
                 recording, block, analysisVars, finderVars, outputVars, callVars>>

(* Mutant: an average with no finished frame is not restarted. *)
RestartsFinished == resetAverage /\ averageFrames > 0

Restarts == resetAverage

(* The reset flag is exchanged for false; the average and its partial frame *)
(* are discarded.                                                           *)
TakeReset ==
  /\ worker = "reset"
  /\ resetAverage' = FALSE
  /\ IF Restarts
       THEN averageFilled' = 0 /\ averageFrames' = 0 /\ averageFrom' = Len(delivered)
       ELSE UNCHANGED <<averageFilled, averageFrames, averageFrom>>
  /\ worker' = "drain"
  /\ UNCHANGED <<ringVars, stop, appliedDelay, estimateDelay, recording, block,
                 filled, finderVars, outputVars, callVars>>

(* Mutant: the ring is read until it is empty. *)
ReadUntilEmpty(n) ==
  /\ Ring!Deliver(n)
  /\ block' = block \o SubSeq(queue, 1, n)
  /\ worker' = IF n < Len(queue) THEN "drain" ELSE "capture"

(* One bounded read, and on to the rest of the pass whatever is left. *)
ReadOnce(n) ==
  /\ Ring!Deliver(n)
  /\ block' = SubSeq(queue, 1, n)
  /\ worker' = "capture"

(* An empty ring sends the worker to sleep and back to the top of the loop. *)
Drain ==
  /\ worker = "drain"
  /\ LET n == Lesser(DrainFrames, Len(queue))
     IN  IF n = 0
           THEN worker' = "check" /\ UNCHANGED <<ringVars, block>>
           ELSE ReadOnce(n)
  /\ UNCHANGED <<transfer, stop, resetAverage, appliedDelay, estimateDelay,
                 recording, analysisVars, finderVars, outputVars, callVars>>

(* Mutant: a block that is not wanted whole is not recorded at all. *)
TakenIfWhole(wanted) == IF Len(block) <= wanted THEN block ELSE <<>>

(* What of the block a recording still wants. *)
Taken(wanted) == SubSeq(block, 1, Lesser(Len(block), wanted))

(* Worker::capture: append to an armed recording, under its mutex. *)
Capture ==
  /\ worker = "capture"
  /\ IF recording.active /\ recording.wanted > 0
       THEN recording' = [recording EXCEPT
              !.samples = @ \o Taken(recording.wanted),
              !.wanted = @ - Len(Taken(recording.wanted))]
       ELSE UNCHANGED recording
  /\ worker' = IF transfer THEN "estimate" ELSE "analyse"
  /\ UNCHANGED <<ringVars, stop, resetAverage, appliedDelay, estimateDelay, block,
                 analysisVars, finderVars, outputVars, callVars>>

(* Mutant: a finished window is not emptied. *)
FilledOnce(take) == finderFilled + take

(* finder_filled_ after `take` more samples: a full window is searched and  *)
(* emptied.                                                                 *)
FilledNext(take) ==
  IF finderFilled + take = FinderSize THEN 0 ELSE finderFilled + take

(* Worker::estimate_delay, up to the search: without a request the window   *)
(* is emptied, with one it grows by what fits of the block.                 *)
GatherWindow ==
  /\ worker = "estimate"
  /\ IF ~estimateDelay
       THEN finderFilled' = 0 /\ worker' = "analyse" /\ UNCHANGED windowFrom
       ELSE LET take == Lesser(FinderSize - finderFilled, Len(block))
            IN  /\ finderFilled' = FilledNext(take)
                /\ windowFrom' = IF finderFilled = 0
                                   THEN Len(delivered) - Len(block) ELSE windowFrom
                /\ worker' = IF finderFilled + take = FinderSize
                               THEN "find" ELSE "analyse"
  /\ UNCHANGED <<ringVars, stop, resetAverage, appliedDelay, estimateDelay,
                 recording, block, analysisVars, outputVars, callVars>>

(* The window was silent: the request stays, and the next window is tried. *)
FindSilence ==
  /\ worker = "find"
  /\ worker' = "analyse"
  /\ UNCHANGED <<ringVars, stop, resetAverage, appliedDelay, estimateDelay,
                 recording, block, analysisVars, finderVars, outputVars, callVars>>

Capped(estimate) == Lesser(Greater(estimate, 0), DelayCapacity)

(* The window had an answer: clamped at zero and at the delay line's length.*)
FindDelay ==
  /\ worker = "find"
  /\ \E estimate \in Estimates : appliedDelay' = Capped(estimate)
  /\ worker' = "clear"
  /\ UNCHANGED <<ringVars, stop, resetAverage, estimateDelay, recording, block,
                 analysisVars, finderVars, outputVars, callVars>>

(* The request is withdrawn after the answer is stored. *)
ClearRequest ==
  /\ worker = "clear"
  /\ estimateDelay' = FALSE
  /\ worker' = "analyse"
  /\ UNCHANGED <<ringVars, stop, resetAverage, appliedDelay, recording, block,
                 analysisVars, finderVars, outputVars, callVars>>

(* SpectrumAnalyzer::push: frames completed by n more samples, and what is  *)
(* left of the sliding frame afterwards.                                    *)
Produced(partial, n) ==
  IF partial + n < FftSize THEN 0 ELSE 1 + (partial + n - FftSize) \div Hop

Kept(partial, n) == partial + n - Hop * Produced(partial, n)

(* Both analyzers take the block; a completed frame is published. *)
Analyse ==
  /\ worker = "analyse"
  /\ LET n == Len(block)
     IN  /\ filled' = Kept(filled, n)
         /\ averageFilled' = Kept(averageFilled, n)
         /\ averageFrames' = averageFrames + Produced(averageFilled, n)
         /\ IF Produced(filled, n) > 0
              THEN worker' = "publish" /\ sequence' = sequence + 1
              ELSE worker' = "check" /\ UNCHANGED sequence
  /\ UNCHANGED <<ringVars, stop, resetAverage, appliedDelay, estimateDelay,
                 recording, block, averageFrom, finderVars, snapshot, published,
                 callVars>>

(* Mutant: the overrun count is left as it was. *)
FrameUnstamped ==
  [sequence |-> sequence, overruns |-> snapshot.overruns,
   averageFrames |-> averageFrames, averageFrom |-> averageFrom,
   delay |-> IF transfer THEN appliedDelay ELSE 0, seen |-> Len(delivered)]

Frame ==
  [sequence |-> sequence, overruns |-> overruns,
   averageFrames |-> averageFrames, averageFrom |-> averageFrom,
   delay |-> IF transfer THEN appliedDelay ELSE 0, seen |-> Len(delivered)]

(* Worker::publish: every field is overwritten, then the frame is newest. *)
Publish ==
  /\ worker = "publish"
  /\ snapshot' = Frame
  /\ worker' = "count"
  /\ UNCHANGED <<ringVars, stop, resetAverage, appliedDelay, estimateDelay,
                 recording, block, analysisVars, finderVars, sequence, published,
                 callVars>>

CountPublished ==
  /\ worker = "count"
  /\ published' = sequence
  /\ worker' = "check"
  /\ UNCHANGED <<ringVars, stop, resetAverage, appliedDelay, estimateDelay,
                 recording, block, analysisVars, finderVars, sequence, snapshot,
                 callVars>>

--------------------------------------------------------------------------------
(* The owner's thread.  One thread makes these calls, one at a time. *)

Call == owner = "free" /\ calls < MaxCalls /\ calls' = calls + 1

(* Any recording already in progress is discarded. *)
BeginRecording(frames) ==
  /\ Call
  /\ recording' = [samples |-> <<>>, wanted |-> frames,
                   total |-> frames, active |-> TRUE]
  /\ UNCHANGED <<ringVars, stop, resetAverage, appliedDelay, estimateDelay,
                 worker, block, analysisVars, finderVars, outputVars,
                 owner, resetAt, askedAt, handed>>

(* Mutant: an unfinished recording counts as finished. *)
ArmedIsFinished == recording.active

Finished == recording.active /\ recording.wanted = 0

(* take_recording on a finished recording; otherwise it returns nullopt and *)
(* changes nothing.                                                         *)
TakeRecording ==
  /\ owner = "free"
  /\ Finished
  /\ handed' = handed \cup {[asked |-> recording.total, samples |-> recording.samples]}
  /\ recording' = [recording EXCEPT !.active = FALSE, !.total = 0, !.samples = <<>>]
  /\ UNCHANGED <<ringVars, stop, resetAverage, appliedDelay, estimateDelay,
                 worker, block, analysisVars, finderVars, outputVars,
                 owner, calls, resetAt, askedAt>>

CancelRecording ==
  /\ Call
  /\ recording' = Idle
  /\ UNCHANGED <<ringVars, stop, resetAverage, appliedDelay, estimateDelay,
                 worker, block, analysisVars, finderVars, outputVars,
                 owner, resetAt, askedAt, handed>>

ResetAverage ==
  /\ Call
  /\ resetAverage' = TRUE
  /\ resetAt' = Len(delivered)
  /\ UNCHANGED <<ringVars, stop, appliedDelay, estimateDelay, recording, worker,
                 block, analysisVars, finderVars, outputVars, owner, askedAt,
                 handed>>

SetReferenceDelay(samples) ==
  /\ Call
  /\ appliedDelay' = samples
  /\ UNCHANGED <<ringVars, stop, resetAverage, estimateDelay, recording, worker,
                 block, analysisVars, finderVars, outputVars, owner, resetAt,
                 askedAt, handed>>

(* Asking again while an estimate is pending changes nothing. *)
EstimateReferenceDelay ==
  /\ Call
  /\ estimateDelay' = TRUE
  /\ askedAt' = IF estimateDelay THEN askedAt ELSE Len(delivered)
  /\ UNCHANGED <<ringVars, stop, resetAverage, appliedDelay, recording, worker,
                 block, analysisVars, finderVars, outputVars, owner, resetAt,
                 handed>>

(* Mutant: the worker is never told. *)
StopUntold == stop

StopRaised == TRUE

(* stop() raises the flag and waits in join. *)
Stop ==
  /\ owner = "free"
  /\ ~stop
  /\ stop' = StopRaised
  /\ owner' = "joining"
  /\ UNCHANGED <<ringVars, resetAverage, appliedDelay, estimateDelay, recording,
                 worker, block, analysisVars, finderVars, outputVars, calls,
                 resetAt, askedAt, handed>>

Join ==
  /\ owner = "joining"
  /\ worker = "done"
  /\ owner' = "free"
  /\ UNCHANGED <<ringVars, stop, resetAverage, appliedDelay, estimateDelay,
                 recording, worker, block, analysisVars, finderVars, outputVars,
                 calls, resetAt, askedAt, handed>>

--------------------------------------------------------------------------------
Worker == \/ CheckStop \/ TakeReset \/ Drain \/ Capture
          \/ GatherWindow \/ FindSilence \/ FindDelay \/ ClearRequest
          \/ Analyse \/ Publish \/ CountPublished

Owner == \/ \E n \in Lengths : BeginRecording(n)
         \/ TakeRecording \/ CancelRecording \/ ResetAverage
         \/ (transfer /\ \E d \in Delays : SetReferenceDelay(d))
         \/ (transfer /\ EstimateReferenceDelay)
         \/ Stop \/ Join

Next == DeviceBlock \/ Worker \/ Owner

Spec == Init /\ [][Next]_vars

(* The operating system schedules the worker, and wakes the owner from      *)
(* join; nobody has to make a call, and the device may fall silent.         *)
FairSpec == Spec /\ WF_vars(Worker) /\ WF_vars(Join)

--------------------------------------------------------------------------------
TypeOK ==
  /\ transfer \in Modes
  /\ offered \in 0..MaxOffered
  /\ overruns \in Nat
  /\ queue \in Seq(0..MaxOffered) /\ Len(queue) <= CapacityFrames
  /\ delivered \in Seq(0..MaxOffered)
  /\ stop \in BOOLEAN /\ resetAverage \in BOOLEAN /\ estimateDelay \in BOOLEAN
  /\ published \in Nat /\ sequence \in Nat /\ appliedDelay \in Nat
  /\ recording \in [samples : Seq(0..MaxOffered), wanted : Nat,
                    total : Nat, active : BOOLEAN]
  /\ worker \in {"check", "reset", "drain", "capture", "estimate", "find",
                 "clear", "analyse", "publish", "count", "done"}
  /\ block \in Seq(0..MaxOffered) /\ Len(block) <= DrainFrames
  /\ filled \in 0..FftSize /\ averageFilled \in 0..FftSize
  /\ finderFilled \in 0..FinderSize
  /\ owner \in {"free", "joining"}

(* `part` is a run of consecutive samples of `whole`. *)
IsRunOf(part, whole) ==
  \E k \in 0..(Len(whole) - Len(part)) :
    part = SubSeq(whole, k + 1, k + Len(part))

(* "A caller polling this cannot accidentally deconvolve half a sweep"      *)
(* (engine.hpp): a recording handed over has the length asked for, in one   *)
(* unbroken run, whatever was begun, cancelled or stopped around it.        *)
HandedIsComplete ==
  \A r \in handed : Len(r.samples) = r.asked /\ IsRunOf(r.samples, delivered)

(* Frames missing from the drained stream up to a point. *)
Missing(upTo) == IF upTo = 0 THEN 0 ELSE delivered[upTo] + 1 - upTo

(* "Non-zero invalidates the measurement" (engine.hpp, overruns): a frame   *)
(* computed past a gap in the audio always says that blocks were dropped.   *)
GapsAreStamped == Missing(snapshot.seen) > 0 => snapshot.overruns > 0

(* A reset is never lost: once the flag is down, nothing the long-term      *)
(* average holds was drained before the last call of reset_average.         *)
ResetIsNotLost == ~resetAverage => averageFrom >= resetAt

(* The window a delay is estimated from is drained after the estimate was   *)
(* asked for, but for the block already in the worker's hands.              *)
WindowIsFresh ==
  (worker = "find" \/ finderFilled > 0) =>
    windowFrom + DrainFrames >= askedAt

(* stop() always comes back: the worker leaves the loop wherever it was.    *)
StopReturns == (owner = "joining") ~> (owner = "free")

(* The frames of the pass in hand: drained, and not yet through the pass.   *)
InHand ==
  IF worker \in {"capture", "estimate", "find", "clear", "analyse", "publish"}
    THEN Len(block) ELSE 0

(* AFastProducerCannotStarvePublication: "guarantees the UI sees progress   *)
(* no matter how fast audio arrives" (engine.cpp).  However many blocks     *)
(* have come, a pass is bounded, and but for the pass in hand less has been *)
(* drained since the newest frame than completes the next one.              *)
PublicationKeepsUp ==
  /\ InHand <= DrainFrames
  /\ Len(delivered) - InHand - snapshot.seen
       < (IF snapshot.seen = 0 THEN FftSize ELSE Hop)

(* An armed recording for which enough audio waits in the ring fills,       *)
(* unless it is abandoned or the engine stops.                              *)
RecordingFills ==
  \A c \in 0..MaxCalls :
    (/\ calls = c /\ recording.active /\ Len(queue) >= recording.wanted)
      ~> (recording.wanted = 0 \/ calls > c \/ stop)
================================================================================
