# TLA+ verification of the analyzer

The analyzer is a real-time audio measurement tool: a device delivers blocks of
samples, a worker thread analyses them, and a user interface draws what comes
out and chooses what is played. This directory holds TLA+ modules translated
from its source, the TLC configurations that check them, and proofs for TLAPS.

The core of the program is small and concurrent. Three threads that may not
wait for each other share two lock-free structures, a handful of relaxed
atomics and one mutex. A mistake there shows as a wrong curve, not as a crash,
and only under a timing no test produces. That is what these modules are for.

Contents:

1. [The system](#1-the-system)
2. [Modules](#2-modules)
3. [Runs](#3-runs)
4. [Fairness](#4-fairness)
5. [Proofs](#5-proofs)
6. [Where the code and its documentation differ](#6-where-the-code-and-its-documentation-differ)
7. [What is abstracted, and what is not modelled](#7-what-is-abstracted-and-what-is-not-modelled)
8. [Plan](#8-plan)

To repeat the checks:

    tlc -config CaptureRing.cfg CaptureRing        (and so on for each run)
    tlapm StreamProofs.tla

## 1. The system

### Threads

| Thread | Runs | May not |
|---|---|---|
| audio | `io_proc` or `render_callback`, which call `StimulusCallback::process` | wait, allocate, lock, throw |
| worker | `Worker::run`, one per engine | miss blocks for longer than the ring holds |
| owner | the user interface through the C functions, or the command line | make two calls at once |

What they share:

    device --block--> StimulusCallback --frames--> [capture ring] --> worker
                        ^        ^                                      |
      [SignalState] ----+        +---- [snapshot of coefficients]       | SpectrumFrame
           ^                                    ^                       v
           +------------- owner ----------------+<-------------- [snapshot channel]
                            |
                            +-- recording (mutex), reset, delay request, stop --> worker

### Inventory

For each component: the state it keeps, its operations, what makes it hard, and
what makes it correct. Paths are relative to `src/src`.

**Capture ring** (`engine/ring.*`). State: a circular buffer, `written`, `read`,
`overruns`. Operations: `write_interleaved` (audio thread), `read_interleaved`
(worker). Hard: the two copies overlap in time, the ring wraps, blocks are
refused. Correct: no slot is shared, samples come out in order and in their
channel, every loss is counted.

**Snapshot channel** (`engine/snapshot.hpp`). State: three slots, one byte that
says which is the back slot and whether it is fresh. Operations: `publish_with`,
`has_update`, `read`. It is used twice: spectra from the worker to the owner,
coefficients from the owner to the callback. Hard: both sides exchange at once
and slots are recycled. Correct: no reader sees a mixture, and a read never goes
back in time.

**Engine and worker** (`engine/engine.*`). State: ring, recording, reset flag,
applied delay, delay request, published count, the analysers' partial frames,
the finder's window. Operations of the worker: drain, record, estimate the
delay, analyse, publish. Operations of the owner: `begin_recording`,
`take_recording`, `cancel_recording`, `reset_average`, `set_reference_delay`,
`estimate_reference_delay`, `stop`. Hard: every call of the owner falls between
two accesses of the worker. Correct: a recording handed over is whole, a reset
is not lost, a gap invalidates the frame, stop returns, a fast device does not
starve publication.

**Delay line and framing** (`engine/delay_line.hpp`, `push` of
`dsp/transfer.cpp` and `dsp/spectrum.cpp`). State: a circular buffer with its
write position; the frame being filled. Hard: block boundaries carry no meaning
but fall anywhere. Correct: the frames analysed are the windows of the stream,
with each reference sample beside the measured sample it belongs to.

**Stimulus hand-over** (`ffi/signal_state.*`). State: five relaxed atomics and a
generation. Operations: `set`, `set_sweep`, `signal`. Hard: the fields become
visible in any order, and the callback may load some of them before the generation
that promises them. Correct: the fields behind a generation are written, the last
choice plays in the end, and once its own generation is seen a sweep is played once
from its beginning. That it is played at most once does not hold (§6).

**Audio callback** (`ffi/stimulus_callback.*`, `ffi/eq_processor.*`,
`dsp/generator.*`). State: scratch buffers, generator position, the generation
last seen, the coefficients in use. Hard: changes arrive while a block is in the
making, blocks may be larger than the scratch. Correct: the reference captured is what
was played, nothing stale is played, a generation is one unbroken pass of one signal.

**Sweep measurement** (`ffi/measure.cpp`). State: the run in progress, the last
result. Operations: start, progress, cancel, finish. Hard: three threads take
part and nothing orders the recording and the sweep. Correct: a result holds the
whole sweep.

**Session start and stop** (`ffi/start.cpp`, `ffi/session.*`,
`audio/coreaudio.cpp`, `audio/ios.mm`, `cli/live_coreaudio.cpp`). State: which
of engine, stream, hook and session exist. Hard: each step may be refused, and the
callback runs while the rest is being built. Correct: no callback on freed
state, nothing left behind, every call returns.

**Session controls** (`ffi/equaliser.cpp`, `target.cpp`, `traces.cpp`,
`frames.cpp`, `transfer.cpp`, `spectrogram.cpp`, `optimiser.cpp`, `session.cpp`).
State owned by the owner's thread: two equalisers and which is active, the
target with its offset, captured traces and the store behind them, the plot
with two cached axes. Hard: legal calls in an order nobody tried, each of which
must leave several copies of one thing in step: a band, its designed section,
the coefficients published and those the audio thread runs. Correct: what is
heard is what is shown, curves drawn over each other line up, a trace shows what
it was captured from, a fit corrects towards a target at the right level.

**Settings, measurements and exports** (`ffi/settings.cpp`, `save.cpp`,
`status.cpp`, `model/`). State: files. Operations: save, load, export. Hard: a
write refused or interrupted half way, a process killed, a file from a newer
version, a header that lies about its size. Correct: what was reported as saved
reads back; what was cut short is refused or harmless.

**Device buffers** (`io_proc` in `audio/coreaudio.cpp`, `render_callback` in
`audio/ios.mm`). State: one gathered block and one scratch, used for every
block. Hard: the device decides how many buffers of what shape it hands over,
and a stream may be short or absent. Correct: a channel is heard as it was
recorded or as silence, and played as it was written or as silence.

**Command line** (`cli/`, `audio/offline.cpp`, `model/wav.cpp`, `compare.cpp`).
State: files, the report in the making, a ring, a capture on a thread of its
own. Hard: files that are short, missing or the run's own output; writes that
fail; a call into the system that never returns. Correct: a result with status 0
is what was asked for; a failure touches nothing but the file it was to write,
and leaves there no more than the start of what it made; every run ends.

**Algorithms** (`dsp/`, `plot/`, `base/number_text.cpp`). Pure functions: what
of them is counting, indexing, searching or parsing is modelled as operators
(averages, bands, columns, ticks, harmonics, peaks, gates, decays, number
formats, the greedy fit). Transforms, windows, filter designs and weighting curves
are formulas over reals and out of reach, and so is most of `cal/`.

**Real-time and allocation traps** (`engine/rt.*`, `engine/alloc_trap.*`). A
debugging aid with no state a property refers to; not modelled. **Devices and
permissions** (`ffi/devices.cpp`) copies what the operating system reports; not
modelled.

The list of what can go wrong, each at its line and with the properties that
would catch it, is under `hazards` in `PROJECT.json`.

## 2. Modules

    FrameFifo    <--implements-- CaptureRing <--proved in-- StreamProofs
        ^                                                   Arithmetic
        +--- used by Engine, Measurement
    LatestValue  <--implements-- Snapshot    <--proved in-- ChannelProofs
    Framing                                  <--proved in-- StreamProofs
    Engine                                   <--proved in-- EngineProofs
    StimulusCallback ---> SignalHandoff      <--proved in-- CallbackProofs
    SessionLifecycle, Measurement            <--proved in-- SessionProofs
    SessionControls                          <--proved in-- SessionControlsProofs
    Harness                                  <--proved in-- HarnessProofs
    MCEngine ---> Engine, Averaging, FrequencyBands ---> PlotColumns, Distortion
    MCSessionControls ---> SessionControls ---> FilterExport ---> EqualiserControl
                      |                    |--> TargetControl  TraceStore
                      |                    |--> PlotReads ---> LatestValue
                      |                    +--> SettingsText, MeasurementFile ---> TextLines
                      +--> NumberText, FilterFit
    MCHarness ---> Harness ---> Arguments ---> WavFile
                           +--> Responses, OfflineStream, ImpulseResponses
    MCDeviceBuffers ---> DeviceBuffers       <--proved in-- CallbackProofs
                           +--> SessionConfig

`FrameFifo` and `LatestValue` are abstract: they say what the ring and the
snapshot channel promise, with no ring and no slots in sight. `Engine` and
`Measurement` are built over `FrameFifo`, with a frame as its unit, which is
sound because `CaptureRing` implements it and because every block and every read is whole frames.
In `Engine`, `StimulusCallback`, `PlotReads` and `EqualiserControl` a publish and a
read are one step each, which `Snapshot` justifies. A change of signal is not one
step: `StimulusCallback` contains `SignalHandoff`, stores and loads of single fields
included, because a callback can load a signal that is still being stored.
`Measurement` does take a change in one step, the reload that sees the generation of
the change; by `PlayedUnbroken` that is where a sweep starts from its beginning for
the last time, so the pass it follows is the one that is complete. What may have
been played of the sweep before it is not in `Measurement` (§6).

The modules of the last four groups that have no variables are algorithms. An
`MC` module gives the constants of a run their values and, for each algorithm,
states as an `ASSUME` what it should compute, over all inputs of a bounded size;
TLC evaluates these when the run starts.

### CaptureRing

| In the model | In the code |
|---|---|
| `WriteRagged`, `WriteDrop`, `WriteBegin` | the checks at the top of `write_interleaved` |
| `CopyIn` | one sample of `copy_in` |
| `WritePublish` | the release store of `written` |
| `ReadBegin`, `CopyOut`, `ReadPublish` | the same of `read_interleaved` |
| `Slot` | the two runs of the circular copy |

The code loads the other side's counter with acquire and stores its own with
release. Under those orders what one thread can see of the other is what some
interleaving of these steps shows: a load that returns an older value of the
other side's counter is the same load made earlier. The model interleaves single
samples of the two copies. Samples carry their number in the offered stream, so
a lost, repeated or misplaced one is visible wherever it turns up.

### Snapshot

`BeginFill`, `FillField` and `ExchangeInput` are `publish_with`; `SeeUpdate` and
`ExchangeOutput` are `read`. The fill stores its fields in any order, and the
reader may look at its slot at any moment, so a slot in the wrong hands shows as
a value torn between two publishes.

### Engine

One action of the worker is one access to something shared: `CheckStop`,
`TakeReset`, `Drain`, `Capture`, `GatherWindow`, `FindSilence`, `FindDelay`,
`ClearRequest`, `Analyse`, `Publish`, `CountPublished`, in the order of
`Worker::run`. The owner's calls are one action each, because each touches one
shared thing or holds the mutex while it does, except `stop`, which raises the
flag (`Stop`) and waits (`Join`). `DeviceBlock` is the callback's write. The
analysers keep only how full their frame is and which samples their average
began with; what a spectrum contains is not modelled. `mode` is chosen in
`Init`; in spectrum mode the delay calls are not made, as in the C functions.

### SignalHandoff

`StoreField` stores the five fields in any order and `LoadField` loads them in
any order, which is what relaxed accesses between a release and an acquire may
look like. `callback` follows the two loads of the generation in `process`.

The fields are a parameter: the run of this module has the five of the code, the run
of `StimulusCallback` one that every call stores and one that only `set_sweep` does.

### StimulusCallback

`Begin`, `Load`, `SetSignal`, `FillStimulus`, `Equalise`, `Play` and `Write` are
`process` from top to bottom, with the owner free to store fields of a signal, to bump
the generation or to publish coefficients in between. The first three are the steps
`SeeChange`, `TakeGeneration`, `LoadField` and `Restart` of `SignalHandoff`, with the
block and the generator's position beside them. A sample of the stimulus is its
signal, the generation it was generated under, its position and the coefficients it
was filtered with.

### Measurement

The owner's calls are split where another thread can see the difference:
`StartArm` then `StartSweep`, `CancelRecording` then `SilenceCancelled`,
`FinishTake` then `SilenceFinished`. Callback and worker are cut down to what a
recording depends on.

### Framing

`DelaySample` is one pass of the loop of `DelayLine::process`; `CopyToFrame` and
`ProcessFrame` are the two halves of the loop of `push`. `TransferFunction::push`
and `SpectrumAnalyzer::push` are the same loop over two channels and over one;
the module follows the former.

### SessionLifecycle

The owner's steps are those of `start_session`, each of which may be refused,
and of the teardown that follows. `Release` and `Destruction` are the order in
which things go, as sequences: what `AnalyzerSession::stop` does and what the
destructors do in reverse order of declaration. `hook` is what the system holds
of a stream, an IOProc or a RemoteIO unit, with a pointer into the stream's
state. `device` is external: it calls the callback between a start that
succeeds and a stop that does; a stop that succeeds comes back when the last
call is over, which is what the comment in `~CoreAudioStream` relies on; and a
hook that is destroyed is not called again. Another application may change the
device's rate at any time.

### SessionControls

`SessionControls` composes the parts of a session. Each C function that changes
something is one action, because all of this state belongs to the owner's
thread; `Callback` (`EqProcess`) and `Worker` (`PublishFrame`) are the steps of
the other two threads between calls.

| Module | State | Code |
|---|---|---|
| EqualiserControl | two equalisers of bands and designed sections, the mode, the coefficients published and those heard | `ffi/equaliser.cpp`, `dsp/eq.cpp`, `ffi/eq_processor.cpp`, `publish_eq` |
| TargetControl | shape and offset | `ffi/target.cpp`, `dsp/target.cpp` |
| TraceStore | displayed traces over the measurement store | `ffi/traces.cpp`, `model/store.cpp` |
| PlotReads | the frame held, the plot, the cached columns and axis, the last curve handed out | `ffi/frames.cpp`, `transfer.cpp`, `spectrogram.cpp`, `session.cpp` |
| FilterExport | none: each export format, and what a device runs that imports it | `model/filter_export.cpp` |
| SettingsText, MeasurementFile | none: writer and reader of each file | `model/settings.cpp`, `format.cpp`, `export.cpp` |
| SessionControls | the files, what was last reported saved in each, the settings loaded | `ffi/settings.cpp`, `save.cpp`, `optimiser.cpp`, `status.cpp` |

A file is a sequence of pieces, mostly lines of a key and a value. `WriteFile`
has the three outcomes of `write_file`: whole, refused at opening, or cut short
and reported. `KilledWhileSaving` loses everything but the files. A curve is
known by the frame it was made from and by the layout of its columns, and the
alignment of a target by the frame, the layout and the shape it was computed
from. The response of a filter, of which only a sum of levels at band centres is
kept, and the delay lines inside it are left out.

### Harness

`Harness` is `execute` in `cli/run.cpp`, run after run over the same files.
A path that names nothing is a file of kind "missing" (`Content`).
`Arguments` is the walk over the tokens and the checks behind it; `Begin` takes
any of the command lines and the mode decides what follows. An analysis is
`OpenAnalysis`, then `Pump` and `Drain` through a ring of `RingFrames`, then
`FinishAnalysis`. A capture is two processes: the main thread waits
(`TakeAnswer`, `Expire`), and the detached thread finds, opens, starts, polls,
stops and checks, where each call into CoreAudio returns, throws (`CallFails`) or
never comes back. `Deliver` and `DeliverFails` write the report: what is kept of it
is the rows it lists (`ReportRows`, one list for each mode that has one), because a
later run may read them, and `RowsLeft` is what a disk that fills up has of them.
`WavFile` keeps
of a file what its header claims and the samples that are there; `Responses` is
the comparison; `ImpulseResponses` is what is read out of a response once it has
been computed.

### DeviceBuffers

`HardwareCalls` is one call of `io_proc` or of `render_callback`, whole: gather,
call, scatter. A list is a sequence of buffers with channels, samples and perhaps
no memory. A sample says which block, channel and frame it was recorded in, so
one that is stale or in the wrong place is visible. Memory that no channel has,
of a buffer with none, holds anything. `BuffersInit` starts from any
configuration that `SessionConfig`, which is the checks of `start_session` and of
the two backends' `open`, does not refuse.

Two cases at the edge belong to what is promised, not to what fails. A block whose
first buffer holds no frame has none, whatever the buffers after it hold
(`audio/coreaudio.cpp:434-440`), so `HeardIsRecorded` asks for silence there. A buffer
with no channels is silenced like the rest and never written (`PlayedIsWritten`).
Both are among the shapes of the run.

## 3. Runs

| Run | States | Properties |
|---|---|---|
| CaptureRing | 18,866 | `NoSlotShared`, `NoSilentLoss`, refinement of `FrameFifo` (`ImplementsFifo`), `PublishedIsRead` |
| Snapshot | 924 | `NoTornRead`, refinement of `LatestValue` (`ImplementsRegister`) |
| Engine | 250,278 | `HandedIsComplete`, `GapsAreStamped`, `ResetIsNotLost`, `WindowIsFresh`, `PublicationKeepsUp`, `StopReturns`, `RecordingFills` |
| SignalHandoff | 11,623 | `SeenIsWritten`, `LastChoicePlays` |
| StimulusCallback | 1,201,019 | `ReferenceIsPlayed`, `NothingStalePlayed`, `PlayedUnbroken` |
| Measurement | 1,165,548 | `SessionAgrees`, `ResultHoldsSweep` |
| Framing | 248,445 | `ReferenceIsDelayed`, `FramesAreWindows` |
| SessionLifecycle | 5,646 | `CallbackOnLiveState`, `DrainedWhileFed`, `NothingLeftRunning`, `CallsReturn` |
| SessionControls | 1,432,755 | `HeardIsShown`, `FitIsAligned`, `TracesAreWhatWasCaptured`, `SavedReadsBack`, `LoadedIsUsable`, `CurvesLineUp` |
| Harness | 168,187 | `HeardIsSource`, `HalfFilesRefused`, `FailureIsContained`, `GeneratedReadsBack`, `ToleranceHolds`, `Exits` |
| DeviceBuffers | 2,141 | `HeardIsRecorded`, `PlayedIsWritten` |
| MeasurementArrival | violated | `ArrivalIsTheLag` |

The last one checks a sentence of the repository that the code does not keep;
see section 6.

The algorithms checked when a run starts:

| Run | Algorithms | Stated as |
|---|---|---|
| Engine | averaging, coherence, unwrapping, the meter | `AveragesAreWhatTheySay`, `AveragesAreBetween`, `OneFrameIsCoherent`, `TransferIsTheFactor`, `UnwrappedIsContinuous`, `LevelsAreBelowThePeak` |
| | octave bands and time windows | `BandsTile`, `ResolvedBandsHaveTheirBins`, `BandAboveTheSpectrumIsResolved`, `EveryPointHasOneWindow`, `PointAtHalfTheRateHasNone` |
| | columns and ticks | `ColumnsCoverTheBins`, `ColumnsAreOrdered`, `TicksAreTheMultiples`, `DecadesAreMajor` |
| | distortion | `HarmonicsAreTheMultiples`, `DistortionIsInTheRest`, `LowTonesCountTwice` |
| SessionControls | file formats | `TextSurvives`, `MeasurementSurvives`, `CutShortIsRefused`, `NewerFileReads`, `HugeCountIsRefused`, `ZeroBinsAreAtTheFloor`, `LinesDescribeBands` |
| | numbers | `PrintedNumbersRead`, `ScanIsTheGrammar` |
| | the fit | `FitKeepsItsLimits`, `FitDoesNotWorsen` |
| Harness | arguments | `OrderOfOptionsIsFree` |
| | impulse responses and delays | `PeakIsTheLastMaximum`, `DelayIsFound`, `LongDelayReadsAsLead`, `GateKeepsTheArrival`, `FloorIsCutOff`, `EstimatesNeedRange`, `DecimationCovers`, `PeakIsDrawn`, `ReflectionsFollow` |
| DeviceBuffers | checks and configurations | `StartTripsNoContract`, `InternalIsAppended`, `DefaultStarts`, `LostChannelIsRefused`, `RatesAreApart`, `IosRateIsAnalysed` |

The type invariants of the modules with proofs are proved and not checked by a
run; so are `DeliveredAligned`, `RolesDistinct` and `NoFrameIsHeldBack`.

All runs set `CHECK_DEADLOCK FALSE`: every module has a bound on its inputs, and
the system really may stop (the device falls silent, the session is closed).

### Bounds, and why they are enough

- **CaptureRing.** `Channels = 2`, `CapacityFrames = 3`: an odd number of frames
  makes the wrap fall inside a block. `WriteSizes` has a ragged block (1), blocks
  that fit alone or together (2, 4), one that fills the ring (6) and one that
  never fits (8). `ReadSizes` has one too small for a frame (1), ragged (3), and
  larger than the ring (8). `MaxOffered = 16` samples take both counters round
  the ring more than twice. `MaxRagged = 1`.
- **Snapshot.** Three `Fields`, so that a torn value can be torn in more than
  one way; `MaxPublishes = 6`, so that each slot is recycled.
- **Engine.** `CapacityFrames = 3` with blocks of 1 and 3 frames: drops are
  frequent. `DrainFrames = 2` is less than a block, so one block takes two
  passes. `FftSize = 2`, `Hop = 1`: frames overlap and a drained block may
  complete more than one. `FinderSize = 3`: a window needs two passes.
  `Estimates` holds a negative one and one longer than `DelayCapacity = 3`.
  `Lengths` holds an empty recording and one longer than a pass. `MaxOffered = 5`,
  `MaxCalls = 2`: any two calls of the owner in any two places. `take_recording`
  and `stop` are not counted against `MaxCalls`. That a fast device cannot starve
  publication is stated as a bound on what has been drained and not shown
  (`PublicationKeepsUp`), and not as something that happens in the end: a device that
  offers five frames stops by itself, and a worker that drained until the ring was
  empty would then publish too. The bound is broken by such a worker within three
  passes, and proved for any number of frames. `MostFrames = 3` is where the counts
  of frames averaged stop, so that the limit is met.
- **SignalHandoff.** `MaxCalls = 2`: one change that overtakes another.
- **StimulusCallback.** Blocks of 2 and 4 frames against `MaxFrames = 3`: within
  and beyond the scratch. `MaxCalls = 2`: the callback reloads for the first change
  while the second is being stored, plays the second's signal early and starts it over,
  all of which the run reaches. `MaxPublished = 2`; `MaxOffered = 8` frames are up to
  four blocks, one for each of those and one dropped. Two fields are enough for a signal mixed
  from two calls, one of them a field a steady signal leaves alone.
- **Measurement.** A sweep of three frames in blocks of two, a tail of six, which
  is exactly what ring, pass and block may hold back (`Lead`). `MaxRuns = 2`: a
  run begun over another. `MaxChanges = 1`, `MaxOffered = 12`.
- **Framing.** `Size = 4` under all four overlaps: hops of 4, 2 and 1, the last
  also for an overlap finer than the frame. Blocks of 1, 2 and 6. Delays of 0, 2,
  3 and 5 against a line of 3. `MaxSamples = 9`, `MaxDelayChanges = 2`,
  `MaxResets = 1`.
- **SessionLifecycle.** Both platforms and both owners, two rates,
  `MaxStarts = 2` (a capture after one that failed), `MaxRateChanges = 2`.
- **SessionControls.** A graphic equaliser of two bands, and room for
  `MaxEqBands = 2` on the audio thread, so that the limit is met. A fit is asked for
  four filters and gives up to `MostFilters = 3`, more than there are places, as the
  program's 64 are more than its 24 (section 6). Two spans, one of them below the
  band in which a target is aligned;
  plots of 1 and 3 columns and a host with room for 2, so that the plot or the
  room is the smaller and a number of columns recurs with another span. A file may be cut after its fifth piece or in
  the piece after it, where the settings have their limits. Floats have 15 binary
  digits and end below 2^30; the settings offered have limits out of order, a lowest
  frequency whose double is infinite and a lowest level to which 120 dB add nothing.
  `MaxCalls = 4`:
  edit, change, fit, save, or save, fail, load, in any order. `MaxFrames = 2`.
- **Harness.** Some fifty command lines of every mode, right and wrong, over
  thirteen files. `RingFrames = 4` against blocks of 2, 3 and 6: a block that never
  fits. `MaxRuns = 2`: a run over what another left. `Slack = 1`, a capture of one
  tick, `MaxPublished = 2`. Integer samples have 2 to 4 bits. Numbers are counted in
  halves (`Parts = 2`), so that a rate of 0.5 is given and `--channel 0.5` refused;
  the reader takes rates up to `MostRate = 16`, and one of 22 is given. Reports list
  one to four rows, every cut of them is left by some failure, and what is left is
  compared by the next run; a level cut short reads as one of two.
- **DeviceBuffers.** Devices of up to three channels, masks with gaps and with a
  channel the device has not; ten shapes of input and eight of output; requests
  for 0, 1, 2 and 4 frames against buffers of 3; `MaxBlocks = 2`, since a block
  can only be mixed up with the one before.

Counters that the code keeps in 64 bits (`written`, `read`, `overruns`, the
sequence) and in 32 (the generation) are not wrapped: at any rate a device
offers, the former outlast the hardware, and the latter would need four thousand
million changes of signal between two callbacks to matter.

### What each property is about

Each is stated in a comment above its definition, with the sentence of the
source it comes from. Two deserve a remark.

`ResultHoldsSweep` has preconditions because the code does not keep the
promise without them: nothing was dropped since the recording was armed, no
other signal was chosen, and the tail covers what was in flight before the
sweep began. `Lead` is that amount: what ring, pass and block may hold. At the
rates devices offer, 48 kHz say, the default tail of a second covers the session's
ring of 16,384 frames and the rest; the tail of zero that the clamp allows does
not (section 6).

`CallbackOnLiveState` and `DrainedWhileFed` except a device that refuses to stop;
see section 6. `SavedReadsBack` and `LoadedIsUsable` are about the same files from
two sides: the first says that a success reported was one, the second that a
failure, or a crash that reported nothing, did no harm. `HeardIsSource` is stated
against the file the run began with, so that it also sees a run that overwrites
its own source.

## 4. Fairness

Safety properties are checked without any. The liveness properties assume
only this:

| Spec | Weakly fair | Because |
|---|---|---|
| CaptureRing | the consumer | `Worker::run` polls until it is stopped, sleeping between polls |
| Snapshot | the reader | a redraw timer or the next callback reads again |
| Engine | the worker, and the owner's return from `join` | the operating system schedules both |
| SignalHandoff | the callback; the rest of a `set` begun | a session's device calls back; a function once called returns |
| Framing | the steps within a block | they are a loop on one thread |
| SessionLifecycle | the steps of a call begun, the worker, a callback in progress | the same |
| Harness | the main thread, and time | nothing it does waits, except with a deadline |

Nothing is assumed of a producer: the device may fall silent at any time, even
in the middle of a write, and the owner need not make any call. Calls into the
operating system are assumed to return; the source reports that
`AudioDeviceStart` may take minutes when access is refused, and that is the
reason `cli/live_coreaudio.cpp` puts a deadline around the whole. In Harness,
where that deadline is the subject, nothing is assumed of the capture's thread:
any call it makes may never return. The other runs check no liveness.

## 5. Proofs

TLC checks the small instances above; the proofs hold for every value of the
constants. They rest on the named assumptions `RingAssumption`,
`SnapshotAssumption`, `HandoffAssumption`, `FramingAssumption`,
`LifecycleAssumption`, `EngineAssumption`, `CallbackAssumption` and
`MeasurementAssumption`, which say no more than that sizes are natural numbers,
and positive where the code needs them to be (a channel count, a capacity, a
frame), and which platforms and programs there are. `MeasurementAssumption` also
says that the blocks a device delivers have a largest: they are read into a
buffer whose length a device states beforehand. The assumptions about the
session's controls and about the command line are listed with their proofs. In each module an inductive
invariant is shown to hold initially and to be kept by each action, one lemma per
action that changes much; the properties follow from it.

**StreamProofs**, of the ring. `NoSlotShared` is not inductive: that two copies in
flight do not meet depends on where the counters stand. `BoundsInv` says that
neither copy goes past the other side's counter and that they are at most one
lap apart; that positions less than a lap apart have different slots is
`SlotsDiffer`. `AlignInv` keeps both counters between frames, which needs the
capacity to be a whole number of frames. `WindowInv` says what is between the
counters, `CopyInv` how far the copies are, `DeliveredInv` that the ring holds
only samples later than those delivered, and `LossInv` balances the offered
against the accepted and the counted. From these: `TypeCorrect`,
`SlotsNeverShared`, `AlwaysAligned`, `AlwaysInOrder`, `LossIsNeverSilent`,
`OverrunsAreExact`. `Arithmetic` holds the facts about `%` they rest on, which the
provers do not find by themselves, and the least-element principle by which the
proofs make their inductions. What a recursive function computes is reasoned about
there too: `StepsExist` says that a value computed position after position exists for
all of them, `Climbs` that what holds of the first position and passes from each to the
next holds of all.

From the same invariant, `RingImplementsQueue`: every behaviour of the ring is one of
`FrameFifo`, which is what the modules that stand on the queue need. `Queue` is what
the buffer holds between the counters. A sample stored beyond `written` is in
none of its slots (`CopyInLeavesQueue`); a block published is appended to it whole
(`PublishAccepts`, from `CopyInv` with the copy complete); a read published takes its
first samples off (`PublishDelivers`); a block dropped had no room in it
(`DropMaps`); everything else leaves it alone. That the samples are whole frames,
as many as the queue's actions speak of, is `AlignInv` with `WholeFramesAre`.

**ChannelProofs**. `RolesDistinct` is inductive with `TypeOK`. `NoTornRead` also needs
`FillInv` (the publisher's slot holds the value in the making in every field
already stored) and `FreshInv` (a fresh back slot holds the newest value and the
reader an older one; otherwise the reader has the newest). From the same
invariant, `BufferImplementsRegister`: every step of the triple buffer is a step
of the register or leaves it alone. The reader's value is a `CHOOSE` in the
mapping; `HeldIs` shows that there is only one to choose.

**StreamProofs**, of the frames. `LineInv` says where each of the newest samples is in the
delay line, `StepInv` how far the block has come, `FrameInv` that the frame
holds the samples that follow those of the frames before it. From these:
`FramingTypeCorrect`, `ReferenceAlwaysDelayed`,
`FramesAreAlwaysWindows`, `NothingHeldBack`.

**SessionProofs**, of starting and stopping. What exists cannot be told from where the owner is
alone: the invariant has to say what each remainder of a teardown may still find.
`StartInv` does so for the steps of a start, `TeardownInv` for each of the nine
plans a teardown goes through (`Session0` to `Session2`, `Live0`, `Destruction`,
`Rest1` to `Rest4`): everything is still there (`Whole`), the stream no longer
runs (`Halted`), or nothing of it is left (`Quiet`). `Heads`, `Tails` and
`Lengths` say how one plan leads to the next. From these: `TypeCorrect`,
`LiveState`, `DrainOutlivesFeed`, `LeavesNothing`.

**SessionProofs**, of a measurement. `SessionAgrees` speaks of the moments between
calls; `AgreeInv` adds what holds while a call is under way, when the recording is
armed and the sweep not yet set, or the recording cancelled and the sweep not yet
silenced. `UnbegunInv` says that a run not yet started has left no trace,
`PlayingInv` what the callback plays of the run at hand and how its beginning and
end were noted, `CountInv` that overruns are counted by blocks dropped and never
reset. `ResultHoldsSweep` needs to know where the sweep is at each stage of a run,
and `SweepInv` says so of a run nothing has disturbed (`Undisturbed`: no overrun
since it was armed, no other signal chosen, a tail that covers `Lead`):

- *ahead* (`AheadInv`): the callback has not seen the change; what is recorded is
  no more than what was there at arming and what was waiting since, so the
  recording still wants frames;
- *in flight* (`InFlightInv`): the sweep began at frame `from[r]` of the stream.
  Every frame from there on is in its place in the queue, the worker's block or
  the recording, counted back from the last frame offered (`Waiting` is how many
  these are);
- *held* (`Holds`): the recording is full, and has every frame of the sweep.

The step from the second to the third is the arithmetic of the property: the
recording is full with `SweepFrames + TailFrames`, of which at most `Lead` lie before
the sweep, hence the sweep fits if `Lead <= TailFrames`. From these:
`MeasurementTypeCorrect`, `SessionAlwaysAgrees`, `ResultsHoldTheirSweeps`.

**EngineProofs.** The worker and the owner disturb different parts of one state, and
each property needs to know where the worker is. `StreamInv` says that while no block
was dropped, delivered and queued together are the whole stream, which gives
`GapsAreStamped`: a gap inside a frame is a gap in what was delivered. `BlockInv`
says that the block in hand is the end of what was delivered, `RecordingInv` that
a recording is one run of it which, while it wants more, ends at `Captured`: the
end of the stream, less the block not yet copied into it. A call of the owner that
falls between drain and capture is where that difference matters. `RequestInv` ties
the finder's window to the request, `HistoryInv` bounds the moments remembered.
`ProgressInv` says that the partial frame holds at least what was drained since the
newest frame, on top of the overlap that frame left there, so that a pass that
brings it to a whole frame cannot end without publishing.
From these: `TypeCorrect`, `RecordingsAreComplete`, `GapsAlwaysShow`,
`ResetsTakeEffect`, `WindowsAreFresh`, `PublicationAlwaysKeepsUp`.

**CallbackProofs**, of the hand-over of a signal. `FieldsInv` says that every field is as new as the
generation promises except those the call in progress has still to store,
`LoadedInv` that a field loaded is as new as the generation taken before it.
From these: `SeenIsAlwaysWritten` and `TornIsAlwaysTemporary`. Both hold of the
callback itself, since every step of it is a step of the hand-over or leaves it alone
(`CallbackHandsOver`).

**CallbackProofs**, of the session's side. Whether the next block follows what was
played can only be told from the newest sample that was not silence, which may be any number of blocks
back. `TailInv` says of it that it is the one before the generator's
position, in the same signal, or of an earlier generation with the next at its
beginning; `ReloadInv` that a reload is always for a later generation than the one
playing, so that none is gone back to; `StimulusInv` that
the block in the making starts there; `PlayedInv` that nothing played is of a generation
not yet seen, or older than its own, which stays true as later calls are begun
(`StoresStay`). Playing a block then adds one pair of neighbours across the
boundary and those within it (`PlayKeeps`). `ReferenceInv` keeps captured and
played frames together between `Play` and `Write`. From these: `TypeCorrect`,
`ReferenceAlwaysPlayed`, `StaleNeverPlayed`, `AlwaysUnbroken`.

**CallbackProofs**, of the device's side. The properties are about single samples, the
code about loops over buffers, and what lies between is where a channel is in a list.
Channels number straight through it, so a buffer's first is a sum over those before
(`BaseStep`, `BaseGrows`). `FoundOnce` says that the buffer `find_channel` stops at is the
only one that has the channel. `Belongs` says of a sample which channel and frame it is
of; a place found by the code has that channel and frame (`PlaceBelongs`), and a sample
that belongs is the place the code finds (`BelongsIsPlace`). Of the two halves the first
says that nothing is mixed up, the second that nothing is passed over. From them
a gathered block is what was recorded (`GatheredIs`, `RecordedIs`, `RecordedWhere`, and
`RenderedIs` for RemoteIO's planes), and a sample is scattered to where it
belongs and only there (`ScatteredIs`, `LandsThere`, `PlayedFollows`). `BuffersInv` is
small and does not hold by itself: the buffers are as long as the longest block in the
selected channels, no block is longer, and on RemoteIO every selected channel has
a plane among those the unit renders, which is what the two checks of
`OpenedOnIos` are for. That the selection is a list of channels needs the walk over the
mask, which is recursive; the walk is shown to exist and to stay among lists
(`StepsExist`, `OutputChannelsAre`). From these: `BuffersStayInShape`,
`BlocksStayInBuffers`, `HeardTheBlock`, `PlayedTheBlock`. Both properties were corrected
by the proof: they were stated for every sample of a list, and failed for a first buffer
without frames and for a buffer without channels, which no shape of the run had been.

`BuffersAssumption` says that what a device and its session report (channels, frames,
buffers, samples) are natural numbers; nothing is assumed of how they fit together.

**SessionControlsProofs.** The parts of a session are independent enough that each
has a small inductive invariant of its own, kept by every call; the assumptions
are those of the modules composed.

*Filters.* `BandsInv` says that the sections of each equaliser are the designs of its
bands, one for one, which the code keeps in two vectors and changes call by call;
`ChannelInv` that what was published last is made from them and that the callback
runs that or something older (`EqualisersDesigned`). `HeardIsShown` follows: a
callback that has caught up runs the sections shown, from the first, as many as
the coefficients have places for. It also says whose sections may lack a place,
those of the parametric equaliser only; that needs `Room`, that the graphic one
never outgrows the places, because every call that adds a band checks. The
optimiser does not check (section 6), so of the parametric one no more is true, and
`ShownIsAlwaysHeard` is proved for fits of any length. `EqualiserAssumption` gives the bands and the centres of
the graphic equaliser their types and says that there is a place for each centre
(10 octaves against 24 places in the program).

*Target.* `FitIsAligned` is inductive with the shape of a target's record: every other
call that moves the target makes no fit, and a fit is aligned before it is made
(`FitsAreAligned`).

*Curves.* `PlotInv` says that the cached frequencies are those of the plot as it is,
whenever there are any; `CurvesAlwaysLineUp` follows for every action that hands out
a curve, from the cache or not. `PlotAssumption` says that plots and hosts have room
for at least one column.

*Traces.* `InStep` says that the store and the list hold the same traces in the same
places, `Younger` that a trace further down is newer: its identifier and colour are
greater. That its name is its own is a count: `unique_name` tries the numbers from
2, and `UniqueNameIs` shows, by comparing cardinalities, that among fewer traces than
numbers one is free. `TracesAreWhatWasCaptured` makes the same exception for a list
as long as the numbers last (a thousand in the program). From these:
`TracesStayWhatWasCaptured`. `TraceAssumption` says what a name is.

*Settings.* `SettingsInv` says that the file holds lines at any moment, whole, cut
short or with a torn last value, and that what was loaded is usable
(`LoadedIsAlwaysUsable`: `ReadIs` gives every key a value of its type, the last line
that parses or the default, and `ValidatedIs` what the checks make of them).
A limit that validation repairs is a float: `FloatOf` rounds to the nearest multiple of
the step floats have at that size, and `TwiceIsAbove`, `SmallIsExact` and `RangeIs` say
when the repair is a limit above the other one. That is so unless the double of the
lowest frequency is infinite, or the lowest level is so large (2^24 dB) that floats are
more than one apart; `LoadedIsUsable` names both exceptions (section 6).
`SettingsAssumption` says that the host offers records of the C struct's types,
`FloatAssumption` that infinity and NaN are not numbers, and `PrecisionAssumption` that
a float counts exactly beyond the default limits and that its steps double from one.
Limits are whole numbers here; what is printed reads back exactly (`shortest`).

*Files.* `FilesInv` joins the invariants of the equalisers, the traces and the settings
to `SavedReadsBack`: what may be saved is what they say it is. A save keeps it where
what was written reads as what is reported (`WriteReadsBack`), and that is a lemma for
each kind of file. `SettingsReadBack`: what `validate` has let through is written as
lines that each mean what they were written from. `ExportRuns`: in every format the
sections that do anything, and the gain, are those of the equaliser, because its
sections are the designs of its bands. `LevelsComeBack`, for the text of levels.
`MeasurementComesBack`, for the container: the separator is found where it was
written (`PartsFound`), each key has its line and no other (`HeaderIs`), the points
are cut from the reals where they were put, and every way of cutting the file short
leaves it without a separator or without a point (`PartsCut`), which is refused. A
name comes back for any text (`TextComesBack`): the escaped form is laid out character
by character, `trim` takes from it what it takes from the text, since no escape
begins or ends with a blank, and unescaping undoes each escape in turn. From these:
`SavedAlwaysReadsBack`. `SavedAssumption` says that names are text, offsets numbers,
and that the bins of a frame can be counted in a `std::size_t`.

**HarnessProofs**, of the command line: any files, any command lines, any number of
runs over what the runs before left.

*Arguments.* The walk over the tokens is a function on their positions. `WalkIsUsable`
types it by its first position that is not `Reading`, which cannot be 0 and has a
`Reading` one before it: the least-element principle stands in for the induction. From
it `ParsedIsRunnable`: what is not refused has a block that is not 0, a channel, and
for `--generate` a rate and a length above zero and a depth that exists.

*Samples.* `QuantiseIsNear` and `IntegerReadsBack` are the arithmetic of writing an
integer scaled by `2^bits - 1` and reading it divided by `2^bits`: rounding is off by
half a step at most, the two scales by up to one, and the low bytes of what was clamped
are all of it. `WholeFileReadsBack` puts this together
for every sample and says which rates are read, `GeneratedFileIs` says what a file
cut short still claims.

*Runs.* `HarnessInv` is kept by every step (`HarnessAlwaysKeeps`). `UntouchedInv` says
that nothing but a generated signal is written before there is a report; with
`RowsLeftAre`, by which what a full disk has of a report is where it starts, this
makes `FailureIsAlwaysContained`; `UsedInv` that what was used could be read, from which
`HalfFilesAreRefused`; `GeneratedInv` that the one change of a `--generate` is its whole
file, from which `GeneratedAlwaysReadsBack`. `FedInv` is the induction behind
`HeardIsAlwaysSource`: while no overrun is counted, what the analyser was fed and
what the ring still holds are the source's frames up to where the stream stands,
in order (`PumpedIs`, `AskedSlotIs`). A source whose size is no multiple of the block,
a block larger than the ring and a channel other than the first are all in it.

*Comparison.* `ParseIs` says that a table of rows is read into points in order of
frequency, `LevelIs` that a list of them has a level wherever `level_at` gives one,
`DifferencesAre` that no point that can be compared is missing from the
differences. What the gate looks at is the largest magnitude left when the mean is
taken away (`WorstIs`); `CloseToTheMean` turns it into a bound on any two.
`ComparedInv` ties the report to the files the run found, which `--out` may since
have overwritten. From these: `ToleranceAlwaysHolds`.

`WavAssumption` says that a float of 1 is a positive whole number of the steps of
every integer depth and of the parts numbers are counted in, `NumbersAssumption` that what the shared parsers read is a number
(they refuse the rest), and `HarnessAssumption` that arguments are strings, that a disk
holds files whose counts are natural numbers, that exports and reports have rows of
whole numbers, and that no waveform of the generator is empty or leaves its level.

What only TLC checks: liveness and anything under fairness, hence `Exits`; and the
algorithms. The algorithms are stated over bounded inputs because most are folds and
searches: what such a definition computes for every input takes an induction of its
own, as those above do, and a fold of the community modules none of the provers can
open.

## 6. Where the code and its documentation differ

One has a run that shows it:

- **The arrival a measurement reports is zero** (`MeasurementArrival`,
  `ArrivalIsTheLag`). `include/analyzer.h:855-858` documents `arrival_ms` as the
  time of the impulse peak with the converter round trip in it. The code
  (`ffi/measure.cpp:192`) asks the response for the time of its largest sample, and
  the response counts time from that sample. `tests/ffi/start_test.cpp:389` takes
  this for granted: it asserts less than a millisecond.

### Met while modelling the threads

- **A sweep may be started twice** (`ffi/stimulus_callback.cpp:33`). A callback that
  reloads because of an earlier change may pick up the sweep's fields while they
  are being stored, start it, and start it again when its own generation
  arrives; with a third change close behind, three times. `ffi/signal_state.hpp:29-31`
  says that it must not repeat: the recorded response should contain exactly one pass.
  `StimulusCallback` has these behaviours, and `PlayedUnbroken` says what is left of
  the promise: under its own generation the sweep is one pass, and the last.
- **A result without the end of its sweep** (`ffi/measure.cpp:70`). With a tail of
  zero, frames that were in flight before the sweep fill the recording.
  `analyzer.h:1676-1677` says that polling cannot deconvolve half a sweep.
- **A measurement without an output** (`ffi/measure.cpp:58`). The comment above says
  that it fails when there is no output stream to play through; the code does
  not ask.
- **The granted rate is not used** (`ffi/start.cpp:91`). `start_session` configures
  the engine with the rate of the device's description and never asks the stream
  what it was granted. iOS refuses a rate other than the one asked for; CoreAudio
  reads back whatever the device then has. `audio/stream.hpp:302-304` says that
  everything downstream must use the granted values.
- `set_reference_delay` stores what it is given; `DelayLine::process` clamps it.
  A delay set by hand beyond the line is reported and not removed
  (`engine/engine.cpp:465`, `analyzer.h:595`). The Engine run sets delays within the
  line.
- With an internal reference a block larger than the scratch is cut to it and
  the rest is dropped without an overrun; `ffi/internal.hpp:60-61` promises a
  visible one (`ffi/stimulus_callback.cpp:31`, `82`). `ReferenceIsPlayed` holds
  across the cut.
- `CoreAudioStream::stop` clears `running_` even when the device refuses
  (`audio/coreaudio.cpp:594-598`), so the destructor's own stop does nothing and
  "by now the device is stopped" (571) need not be true. `IosStream` is the same.
- A frame published after the last poll of a capture is reported as digital
  silence (`cli/live_coreaudio.cpp:187`).

### Met while modelling the session

- The optimiser accepts up to 64 filters (`dsp/optimise.cpp:48`,
  `ffi/optimiser.cpp:42`), `set_bands` has no limit, and the audio thread runs
  only the first 24 (`ffi/eq_processor.cpp:12`). `ffi/eq_processor.hpp:34-36` says
  that the entry points refuse to add more, and that is true of
  `analyzer_eq_add_band` alone: after a longer fit the plot shows filters nobody
  hears. `HeardIsShown` says exactly that, and the run of SessionControls reaches it.
- `align_target` returns true when none of the columns on screen is between 200 Hz
  and 2 kHz and nothing was aligned (`ffi/optimiser.cpp:59-66`,
  `ffi/session.cpp:144-152`).
- The calls that add, remove and change bands act on whichever equaliser is
  active (`ffi/equaliser.cpp:97-136`), where the header speaks of the parametric
  one (`analyzer.h:322`, `1289`, `1298`, `1308`).
- "Loaded points are kept" while another shape is shown (`ffi/session.cpp:92-95`)
  holds of the target in the session, not of what `apply_target` makes of it
  (99-119).
- Each of the copy calls of one redraw takes the newest frame
  (`ffi/transfer.cpp:17-61`), so magnitude, phase and coherence may be of
  different frames, and `transfer_info` takes two; and they consume the flag that
  `has_new_frame` reports (`ffi/frames.cpp:49-99`).
- `unique_name` gives up after a thousand numbers and returns a name that is taken
  (`model/store.cpp`). `TracesAreWhatWasCaptured` excepts a list that long.
- `MeasurementStore::insert_loaded` accepts the largest identifier but one, after
  which the next identifier wraps (`model/store.cpp:17-28`, `store.hpp:41-44`).

### Met while modelling the files

- An empty or truncated settings file loads as defaults and reports success
  (`ffi/settings.cpp:27-31` against 45-50). `LoadedIsUsable` says that this is
  harmless, `SavedReadsBack` that it happens only to a save that was not reported.
- White space at either end of a calibration path, a name or a note is lost
  (`model/settings.cpp:86-92`); identifiers and times go through a double.
- A file with `min_db: 1e10` loads with `max_db` the same, since the repair adds
  120 in single precision (`model/settings.cpp:185`), and one with `min_hz: 2e38`
  with `max_hz` infinite (178). Both are axes of which `model/settings.hpp:128-131`
  says that a hand-edited file cannot produce them; the run of SessionControls
  reaches both.
- `model/text.cpp` decodes surrogates and values above U+10FFFF, which
  `base/utf8.hpp` refuses.
- The check that a data chunk is as long as it says is made for RIFF only
  (`model/wav.cpp:294-308`); RF64, W64 and RIFX files cut short are read.
  `HalfFilesRefused` is about RIFF.

### Met while modelling the command line and the algorithms

- `--measure` of two WAV files without frames ends on a contract
  (`dsp/deconv.cpp:20`), and a silent response is not refused although the
  message asks "is either signal silent?".
- `--live`, `--bench` and `--seconds` accept NaN and infinity
  (`cli/args.cpp:337`, `367`, `372`); the conversion to a duration is then
  undefined (`cli/live_coreaudio.cpp:149`).
- `--generate` takes any rate above zero (`cli/args.cpp:334`, `model/wav.cpp:223`),
  and the reader none above 384,000 (`dr_wav.h:3755`): `--generate sine --rate 768000`
  ends with status 0 and leaves a file the program cannot read. A rate below one is
  stored as 0 (`model/wav.cpp:239`), with the same end. `GeneratedReadsBack` says that
  these are the only ones.
- A report that a full disk cuts short reads as the points it has, the last of them
  perhaps with some digits of its level (`cli/run.cpp:275-280`,
  `model/compare.cpp:60-99`). The run that wrote it ends with status 1, and nothing in
  the file says so; `FailureIsContained` says what such a file may hold. A report that
  is all there may also be of a run that failed, when only the close did.
- A delay of more than half the finder's circle reads as a lead
  (`LongDelayReadsAsLead`).
- Overlapping harmonics count a bin twice, so THD may exceed THD+N, which the
  comment in `dsp/distortion.cpp:186-188` calls impossible (`LowTonesCountTwice`).
- A grid point at exactly half the rate has no time window and is never measured
  (`PointAtHalfTheRateHasNone`); `reset` of the multi-window analysis keeps the
  transform size.
- `is_resolvable` ignores how many bins there are: a band above the spectrum
  reports the last bin (`BandAboveTheSpectrumIsResolved`).
- A device rate that is positive as a double and zero as a float would reach the
  contract in `dsp/spectrum.cpp:53`.

### Met while modelling the devices

- With no output selected, or a block of no frames, the device's output buffers
  are left as they arrived, which `audio/coreaudio.cpp:366-370` calls silenced.
- `render_callback` reads its own planes after `AudioUnitRender`
  (`audio/ios.mm:341-350`), which the comment at 235-236 says may have changed the
  pointers. DeviceBuffers has the unit fill them in place.
- The iOS audio session is one per process; `devices()` and `open` reconfigure it
  under a stream that runs. Not modelled.

## 7. What is abstracted, and what is not modelled

In the modules of the threads samples are numbers that say where they came from;
what they measure is left out. So are windows, transforms and coefficients: the
models say which samples an analysis gets, and the algorithms say what it counts,
picks, averages or searches, over small integers instead of floats. The delay an
estimate finds is any of a set. A failed allocation is modelled where the code
goes on after it (`StartFails` in Measurement) and nowhere else.

Not modelled:

- **Formulas over reals.** Window shapes, the transform, filter designs, weighting
  curves, waveforms of the generator, calibration chains: TLC has no reals,
  and on integers a formula would be checked against itself.
- **The delay lines of the filters.** Sections left out of a shorter set keep their
  two samples (`ffi/eq_processor.cpp:29`) and start from them when the count
  grows. That is a transient of a formula, not a state another part reads.
- **Real-time and allocation traps**, and the details of `cli/bench.cpp`: aids for
  debugging and timing.
- **`ffi/devices.cpp`**, which copies what the operating system lists.
- **UTF-8** and the wording of reports and messages.
- **What the operating system shares between processes**: the iOS session, two
  programs that write one file.

The status of each component, with its reason, is under `components` in
`PROJECT.json`.

## 8. Plan

Done: the ring, the snapshot channel, the hand-over, the worker, the callback,
framing, the sweep measurement, start and stop, and the session's controls with
files, the command line with live capture, and the buffers of the device, all with
proofs; and the algorithms.

Left, in this order:

- `Engine` over the ring itself instead of the queue, at the size TLC can take.
- The generator's schedules (repeat, fade, sweep end), and the rest of the
  algorithms that are not formulas.
