------------------------------- MODULE Measurement -------------------------------
(***************************************************************************)
(* A swept measurement from the UI's calls to the recorded response        *)
(* (ffi/measure.cpp, with the parts of engine/engine.cpp and               *)
(* ffi/stimulus_callback.cpp it runs through).  Start arms a recording and *)
(* then sets the sweep; the callback plays it and captures as it plays;    *)
(* the worker moves what was captured into the recording; finish takes the *)
(* recording and deconvolves it.  Nothing synchronises the three threads.  *)
(*                                                                         *)
(* The ring appears as the bounded queue CaptureRing implements, a frame   *)
(* being its number in the offered stream, and the stimulus as one value,  *)
(* taken at the reload that sees its own generation.  What a callback may  *)
(* play of it before that, its fields being read as they are stored, is    *)
(* started over then (StimulusCallback) and is not followed here.          *)
(***************************************************************************)
EXTENDS Integers, Sequences

CONSTANTS
  Playing,         \* StimulusCallback::playing_: an output stream was opened
  SweepFrames,     \* run.seconds * rate
  TailFrames,      \* tail_seconds * rate
  CapacityFrames,  \* ring_capacity_frames
  DrainFrames,     \* kDrainFrames
  BlockSizes,      \* frames per block of the audio callback
  MaxRuns,         \* bound: measurements started
  MaxChanges,      \* bound: measurements cancelled and signals chosen
  MaxOffered       \* bound: frames the device offers

ASSUME MeasurementAssumption ==
  /\ Playing \in BOOLEAN
  /\ SweepFrames \in Nat \ {0} /\ TailFrames \in Nat
  /\ CapacityFrames \in Nat \ {0} /\ DrainFrames \in Nat \ {0}
  /\ BlockSizes \subseteq Nat \ {0}
  /\ \E largest \in BlockSizes : \A n \in BlockSizes : n <= largest
  /\ MaxRuns \in Nat /\ MaxChanges \in Nat /\ MaxOffered \in Nat

Runs == 1..MaxRuns
None == 0                       \* no run; as a stimulus: silence or steady
Never == -1

VARIABLES
  queue, delivered, offered, overruns,  \* the ring, as a bounded queue
  workerAt,    \* "drain", or "capture" with a block in hand
  block,       \* the block
  recording,   \* Engine::Shared::recording
  stimulus,    \* what SignalState holds: a run's sweep, or None
  generation,  \* SignalState::generation
  callback,    \* "idle", or "writing": the stimulus was filled, the write is to come
  blockFrames, \* frames of the block being processed
  seen,        \* StimulusCallback::generation_
  playing,     \* the generator's signal: a run's sweep, or None
  ui,          \* where the UI thread is inside one of the calls below
  measuring,   \* AnalyzerSession::measuring: a run, or None
  measured,    \* AnalyzerSession::measured: a run, its response and when the direct
               \* sound arrived, or NoResult
  taken,       \* the response finish_measurement has in hand
  runs,        \* bound on the runs started
  changes,     \* bound on the measurements cancelled and signals chosen
  from,        \* history: per run, the frame its sweep started at, or Never
  upTo,        \* history: per run, the frame it was replaced at, or Never
  head,        \* history: per run, frames recorded when the sweep was set
  gaps,        \* history: overruns when the run was armed
  replaced     \* history: another signal was chosen during the run

ringVars == <<queue, delivered, offered, overruns>>
workerVars == <<workerAt, block>>
callbackVars == <<callback, blockFrames, seen, playing, from, upTo>>
signalVars == <<stimulus, generation>>
sessionVars == <<ui, measuring, measured, taken, runs, changes, head, gaps,
                replaced>>
measurementVars ==
  <<ringVars, workerVars, recording, callbackVars, signalVars, sessionVars>>

Ring == INSTANCE FrameFifo WITH Channels <- 1

Idle == [samples |-> <<>>, wanted |-> 0, total |-> 0, active |-> FALSE]
NoResult == [run |-> None, response |-> <<>>, arrival |-> 0]
RunFrames == SweepFrames + TailFrames   \* run.frames

MeasurementInit ==
  /\ Ring!Init
  /\ workerAt = "drain" /\ block = <<>>
  /\ recording = Idle
  /\ stimulus = None /\ generation = 0
  /\ callback = "idle" /\ blockFrames = 0 /\ seen = 0 /\ playing = None
  /\ ui = "free"
  /\ measuring = None /\ measured = NoResult /\ taken = <<>>
  /\ runs = 0 /\ changes = 0
  /\ from = [r \in Runs |-> Never] /\ upTo = [r \in Runs |-> Never]
  /\ head = [r \in Runs |-> 0] /\ gaps = 0 /\ replaced = FALSE

Lesser(a, b) == IF a <= b THEN a ELSE b

--------------------------------------------------------------------------------
(* The audio callback: StimulusCallback::process. *)

(* Reload the stimulus if it has changed, and fill the block from it.       *)
ProcessBlock ==
  /\ callback = "idle"
  /\ \E n \in BlockSizes : offered + n <= MaxOffered /\ blockFrames' = n
  /\ callback' = "writing"
  /\ seen' = generation
  /\ IF seen # generation
       THEN /\ playing' = stimulus
            /\ upTo' = [r \in Runs |-> IF r = playing THEN offered ELSE upTo[r]]
            /\ from' = [r \in Runs |-> IF r = stimulus THEN offered ELSE from[r]]
       ELSE UNCHANGED <<playing, from, upTo>>
  /\ UNCHANGED <<ringVars, workerVars, recording, signalVars, sessionVars>>

(* write_interleaved: the whole block, or none of it. *)
WriteBlock ==
  /\ callback = "writing"
  /\ Ring!Accept(blockFrames) \/ Ring!Drop(blockFrames)
  /\ callback' = "idle"
  /\ blockFrames' = 0
  /\ UNCHANGED <<workerVars, recording, signalVars, seen, playing, from, upTo,
                 sessionVars>>

--------------------------------------------------------------------------------
(* The worker, as far as a recording is concerned. *)

Drain ==
  /\ workerAt = "drain"
  /\ LET n == Lesser(DrainFrames, Len(queue))
     IN  n > 0 /\ Ring!Deliver(n) /\ block' = SubSeq(queue, 1, n)
  /\ workerAt' = "capture"
  /\ UNCHANGED <<recording, callbackVars, signalVars, sessionVars>>

(* What of the block a recording still wants. *)
Taken == SubSeq(block, 1, Lesser(Len(block), recording.wanted))

Capture ==
  /\ workerAt = "capture"
  /\ IF recording.active /\ recording.wanted > 0
       THEN recording' = [recording EXCEPT !.samples = @ \o Taken,
                                           !.wanted = @ - Len(Taken)]
       ELSE UNCHANGED recording
  /\ workerAt' = "drain"
  /\ block' = <<>>
  /\ UNCHANGED <<ringVars, callbackVars, signalVars, sessionVars>>

--------------------------------------------------------------------------------
(* The UI thread, one call at a time.  A step is one access to something    *)
(* another thread looks at.                                                 *)

(* start_measurement: the last result is dropped, the recording is armed.   *)
StartArm ==
  /\ ui = "free" /\ runs < MaxRuns
  /\ runs' = runs + 1
  /\ measured' = NoResult
  /\ recording' = [samples |-> <<>>, wanted |-> RunFrames,
                   total |-> RunFrames, active |-> TRUE]
  /\ gaps' = overruns
  /\ replaced' = FALSE
  /\ ui' = "armed"
  /\ UNCHANGED <<ringVars, workerVars, callbackVars, signalVars, measuring, taken,
                 changes, head>>

(* begin_recording could not reserve the buffer: guard abandons the call,   *)
(* with an earlier run, if any, still going.                                *)
StartFails ==
  /\ ui = "free" /\ runs < MaxRuns
  /\ runs' = runs + 1
  /\ measured' = NoResult
  /\ UNCHANGED <<ringVars, workerVars, recording, callbackVars, signalVars, ui,
                 measuring, taken, changes, head, gaps, replaced>>

(* ... then the sweep is set and the run noted. *)
StartSweep ==
  /\ ui = "armed"
  /\ stimulus' = runs
  /\ generation' = generation + 1
  /\ measuring' = runs
  /\ head' = [head EXCEPT ![runs] = Len(recording.samples)]
  /\ ui' = "free"
  /\ UNCHANGED <<ringVars, workerVars, recording, callbackVars, measured, taken,
                 runs, changes, gaps, replaced>>

(* Mutant: the recording goes on after the run is abandoned. *)
AbandonedRecording == recording

CancelledRecording == Idle

(* cancel_measurement, whether or not anything is running. *)
CancelRecording ==
  /\ ui = "free" /\ changes < MaxChanges
  /\ changes' = changes + 1
  /\ recording' = CancelledRecording
  /\ measuring' = None
  /\ ui' = "cancelled"
  /\ UNCHANGED <<ringVars, workerVars, callbackVars, signalVars, measured, taken,
                 runs, head, gaps, replaced>>

(* Mutant: an armed recording counts as complete as soon as it has the      *)
(* sweep's length.                                                          *)
CompleteWithoutTail == recording.active /\ recording.wanted <= TailFrames

Complete == recording.active /\ recording.wanted = 0

(* finish_measurement on a complete recording.  With no run, or a recording *)
(* still filling, the call says so and changes nothing.                     *)
FinishTake ==
  /\ ui = "free" /\ measuring # None
  /\ Complete
  /\ taken' = recording.samples
  /\ recording' = [recording EXCEPT !.active = FALSE, !.total = 0, !.samples = <<>>]
  /\ ui' = "finishing"
  /\ UNCHANGED <<ringVars, workerVars, callbackVars, signalVars, measuring, measured,
                 runs, changes, head, gaps, replaced>>

(* set(AnalyzerSignal_Silence), the end of a cancelled run. *)
SilenceCancelled ==
  /\ ui = "cancelled"
  /\ stimulus' = None
  /\ generation' = generation + 1
  /\ ui' = "free"
  /\ UNCHANGED <<ringVars, workerVars, recording, callbackVars, measuring, measured,
                 taken, runs, changes, head, gaps, replaced>>

(* Where a run's sweep starts in a response, in frames from its beginning:  *)
(* what deconvolving finds.  A response without it peaks anywhere.          *)
Lag(run, response) ==
  IF \E k \in DOMAIN response : response[k] = from[run]
    THEN (CHOOSE k \in DOMAIN response : response[k] = from[run]) - 1
    ELSE 0

(* ImpulseResponse::time_at, relative to the peak of the response.          *)
TimeAt(index, peak) == index - peak

(* analyzer_session_finish_measurement looks up the peak and asks when it   *)
(* is.                                                                      *)
Result(run, response) ==
  [run |-> run, response |-> response,
   arrival |-> TimeAt(Lag(run, response), Lag(run, response))]

(* The same for a finished one; then the response is deconvolved and gated, *)
(* which may fail ("nothing was recorded", a gate that is too long).        *)
SilenceFinished ==
  /\ ui = "finishing"
  /\ stimulus' = None
  /\ generation' = generation + 1
  /\ measuring' = None
  /\ measured' \in {measured, Result(measuring, taken)}
  /\ taken' = <<>>
  /\ ui' = "free"
  /\ UNCHANGED <<ringVars, workerVars, recording, callbackVars, runs, changes,
                 head, gaps, replaced>>

(* analyzer_session_set_signal, which knows nothing of a running sweep.     *)
SetSignal ==
  /\ ui = "free" /\ changes < MaxChanges
  /\ changes' = changes + 1
  /\ stimulus' = None
  /\ generation' = generation + 1
  /\ replaced' = (replaced \/ measuring # None)
  /\ UNCHANGED <<ringVars, workerVars, recording, callbackVars, ui, measuring,
                 measured, taken, runs, head, gaps>>

--------------------------------------------------------------------------------
Callback == ProcessBlock \/ WriteBlock

Worker == Drain \/ Capture

Ui == \/ StartArm \/ StartFails \/ StartSweep \/ CancelRecording \/ SilenceCancelled
      \/ FinishTake \/ SilenceFinished \/ SetSignal

MeasurementNext == Callback \/ Worker \/ Ui

MeasurementSpec == MeasurementInit /\ [][MeasurementNext]_measurementVars

--------------------------------------------------------------------------------
MeasurementTypeOK ==
  /\ offered \in 0..MaxOffered /\ overruns \in Nat /\ gaps \in Nat
  /\ queue \in Seq(Nat) /\ Len(queue) <= CapacityFrames
  /\ block \in Seq(Nat) /\ Len(block) <= DrainFrames
  /\ workerAt \in {"drain", "capture"} /\ (workerAt = "drain" <=> block = <<>>)
  /\ recording \in [samples : Seq(Nat), wanted : 0..RunFrames, total : {0, RunFrames},
                    active : BOOLEAN]
  /\ callback \in {"idle", "writing"}
  /\ callback = "idle" => blockFrames = 0
  /\ callback = "writing" => blockFrames \in BlockSizes /\ offered + blockFrames <= MaxOffered
  /\ generation \in Nat /\ seen \in 0..generation
  /\ stimulus \in 0..MaxRuns /\ playing \in 0..MaxRuns
  /\ ui \in {"free", "armed", "cancelled", "finishing"}
  /\ runs \in 0..MaxRuns /\ changes \in 0..MaxChanges
  /\ measuring \in 0..MaxRuns /\ taken \in Seq(Nat)
  /\ measured \in [run : 0..MaxRuns, response : Seq(Nat), arrival : {0}]
  /\ from \in [Runs -> {Never} \cup 0..MaxOffered]
  /\ upTo \in [Runs -> {Never} \cup 0..MaxOffered]
  /\ head \in [Runs -> Nat] /\ replaced \in BOOLEAN

(* Between calls the session, the engine and the generator agree on whether *)
(* a run is going on: a recording is armed for it, its sweep is not playing *)
(* without it, and no earlier result is on show.                            *)
SessionAgrees ==
  ui = "free" =>
    /\ measuring # None <=> recording.active
    /\ stimulus \in {None, measuring}
    /\ measuring # None => measured = NoResult

(* The response holds the sweep of its run from its first sample to its     *)
(* last, and the generator was not interrupted.                             *)
HoldsSweep(result) ==
  LET start == from[result.run]
      end == start + SweepFrames
  IN  /\ start # Never
      /\ upTo[result.run] = Never \/ upTo[result.run] >= end
      /\ start..(end - 1) \subseteq {result.response[k] : k \in DOMAIN result.response}

LargestBlock == CHOOSE n \in BlockSizes : \A m \in BlockSizes : m <= n

(* How late the sweep can start in the recording: what was recorded before  *)
(* it was set, what the worker and the ring still held from before, and a   *)
(* block already filled when it was set.                                    *)
Lead(run) == head[run] + DrainFrames + CapacityFrames + LargestBlock

(* A result reported with nothing dropped since it was armed, and with a    *)
(* tail that covers the lead, holds its whole sweep, unless the sweep       *)
(* itself was replaced while it played.                                     *)
ResultHoldsSweep ==
  (/\ measured # NoResult /\ Playing
   /\ overruns = gaps
   /\ Lead(measured.run) <= TailFrames
   /\ ~replaced) => HoldsSweep(measured)

(* analyzer.h, of AnalyzerMeasureResult::arrival_ms: "Time of the impulse   *)
(* peak, in milliseconds. This includes the converter round trip, not just  *)
(* the flight time through the air": how long after the sweep was set going *)
(* its first sample came back.                                              *)
ArrivalIsTheLag ==
  (measured # NoResult /\ Playing /\ HoldsSweep(measured))
    => measured.arrival = Lag(measured.run, measured.response)
================================================================================
