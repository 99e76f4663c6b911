--------------------------------- MODULE Harness ---------------------------------
(***************************************************************************)
(* analyzer-cli, run after run over the same files (cli/run.cpp).  A run   *)
(* parses its arguments, makes the report of its mode, and only then       *)
(* writes it.  Any CliError on the way ends the run with status 1.         *)
(*                                                                         *)
(* An analysis pumps its source through the ring block by block.  A live   *)
(* capture is a thread of its own, which may be stuck inside CoreAudio for *)
(* good, behind a wait with a deadline.                                    *)
(***************************************************************************)
EXTENDS Arguments, Responses, OfflineStream, ImpulseResponses

CONSTANTS
  Commands,     \* command lines a user gives
  Disks,        \* what the files may hold at first
  Waves,        \* [kind -> sequence of -1, 0, 1]: the generator's signals
  ReportRows,   \* [mode -> rows]: the lines of its report, of the modes that list some
  TornLevels,   \* what is read of a level when its line was cut short
  RingFrames,   \* capacity of the ring of an analysis: 8192
  Slack,        \* what the deadline adds to a capture: 15 s, in Parts
  MaxRuns,      \* bound: runs
  MaxPublished  \* bound: frames published during a capture

VARIABLES
  files, taken,     \* [path -> content], now and when the run began
  task,             \* what parse_args made of the arguments
  step,             \* where execute() is
  report, printed,  \* the report; what reached stdout
  exit,             \* status of the last run, -1 before it ends
  runs,             \* bound
  stream, ring, overruns, fed,  \* an analysis
  live              \* a capture, its thread and its clock

outputVars == <<files, report, printed>>
analysisVars == <<stream, ring, overruns, fed>>
vars == <<files, taken, task, step, report, printed, exit, runs, analysisVars, live>>

Nothing == [mode |-> "nothing"]
Torn == [kind |-> "torn"]
NotLive == [at |-> "off"]
NoStream == [position |-> 0]

\* Any path may be named: what is not there cannot be opened, only created.
Content(disk, path) == IF path \in DOMAIN disk THEN disk[path] ELSE [kind |-> "missing"]

\* What is a table of rows, whoever wrote it, and of what.
Tables == {"export", "report"}
TableRows == Seq([usable : BOOLEAN, hz : Int, db : Int])

IsFile(file) ==
  /\ file.kind = "wav" => /\ file.channels \in Nat /\ file.rate \in Nat /\ file.width \in Nat
                          /\ file.declared \in Nat /\ file.data \in Seq(Int)
  /\ file.kind \in Tables => file.rows \in TableRows

ASSUME HarnessAssumption ==
  /\ \A argv \in Commands : argv \in Seq(STRING)
  /\ \A disk \in Disks : \A path \in DOMAIN disk : IsFile(disk[path])
  /\ \A kind \in SignalKinds : Waves[kind] \in Seq({-1, 0, 1}) /\ Waves[kind] # <<>>
  /\ \A mode \in DOMAIN ReportRows : ReportRows[mode] \in TableRows
  /\ TornLevels \subseteq Int

Init ==
  /\ files \in Disks /\ taken = files
  /\ task = [status |-> "refused"] /\ step = "idle" /\ exit = -1 /\ runs = 0
  /\ report = Nothing /\ printed = Nothing
  /\ stream = NoStream /\ ring = <<>> /\ overruns = 0 /\ fed = <<>>
  /\ live = NotLive

Leave(status) == step' = "idle" /\ exit' = status

\* A CliError: what failed has its own files to answer for.
Fail == Leave(1) /\ UNCHANGED <<taken, task, report, printed, runs, live>>
FailClean == Fail /\ UNCHANGED <<files, analysisVars>>

Reports(made) ==
  /\ report' = made /\ step' = "reporting"
  /\ UNCHANGED <<files, taken, task, printed, exit, runs>>

BeginRun(argv) ==
  /\ step = "idle" /\ runs < MaxRuns
  /\ runs' = runs + 1 /\ step' = "parsed" /\ exit' = -1
  /\ task' = ParseArgs(argv) /\ taken' = files
  /\ report' = Nothing /\ printed' = Nothing
  /\ stream' = NoStream /\ ring' = <<>> /\ overruns' = 0 /\ fed' = <<>>
  /\ live' = NotLive

\* A mistake easily made: the report's file opened before there is a report.
BeginTruncating(argv) ==
  /\ BeginRun(argv)
  /\ files' = IF task'.status = "run" /\ "out" \in DOMAIN task'.args
                THEN With(files, task'.args.out, Torn) ELSE files

Begin(argv) == BeginRun(argv) /\ UNCHANGED files

RefuseArguments == step = "parsed" /\ task.status = "refused" /\ FailClean

Help ==
  /\ step = "parsed" /\ task.status = "help"
  /\ printed' = [mode |-> "usage"] /\ Leave(0)
  /\ UNCHANGED <<files, taken, task, report, runs, analysisVars, live>>

Working(modes) == step = "parsed" /\ task.status = "run" /\ task.mode \in modes

-----------------------------------------------------------------------------
(* Modes whose report is made in one call. *)

\* list_devices, run_bench and demo: what they measure is data.
SelfContained ==
  /\ Working({"list", "bench", "demo"})
  /\ Reports([mode |-> task.mode]) /\ UNCHANGED <<analysisVars, live>>

SelfContainedFails == Working({"list", "demo"}) /\ FailClean

\* render: the signal for its seconds; write_wav refuses too long a one.
SignalFrames(args) == Rounded(args.rate * args.seconds, Parts * Parts)
Rendered(args) ==
  LET signal == SignalOf(args)
      wave == Waves[signal.kind]
  IN  [i \in 1 .. SignalFrames(args) |-> signal.level * wave[1 + ((i - 1) % Len(wave))]]

GenerateRefused ==
  /\ Working({"generate"})
  /\ FailClean   \* too long, or the file cannot be created

GeneratedFile(args, held) == Written(Rendered(args), args.rate, args.depth, held)

\* The disk takes only part of it, or the close fails when it has taken all.
GenerateTorn ==
  /\ Working({"generate"})
  /\ ~TooLong(SignalFrames(task.args), task.args.depth)
  /\ \E left \in {Torn} \union {GeneratedFile(task.args, held)
                                 : held \in 0 .. SignalFrames(task.args)} :
       files' = With(files, task.args.out, left)
  /\ Fail /\ UNCHANGED analysisVars

Generate ==
  /\ Working({"generate"})
  /\ ~TooLong(SignalFrames(task.args), task.args.depth)
  /\ files' = With(files, task.args.out, GeneratedFile(task.args, SignalFrames(task.args)))
  /\ report' = [mode |-> "generate", frames |-> SignalFrames(task.args)] /\ step' = "reporting"
  /\ UNCHANGED <<taken, task, printed, exit, runs, analysisVars, live>>

\* read_response, of any file: a report of frequencies and levels reads as an
\* export does, and nothing else has two numbers in a line.
RowsOf(file) == IF file.kind \in Tables THEN file.rows ELSE <<>>
PointsIn(path) == Parse(RowsOf(Content(files, path)))

Comparison(args) ==
  Compare(PointsIn(args.subject), PointsIn(args.reference), args.from_hz, args.to_hz)

Gate(args) ==
  /\ PointsIn(args.subject) # <<>> /\ PointsIn(args.reference) # <<>>
  /\ "tolerance" \in DOMAIN args => AgreesWithin(Comparison(args), args.tolerance)

CompareFiles ==
  /\ Working({"compare"})
  /\ IF Gate(task.args)
       THEN /\ Reports([mode |-> "compare", result |-> Comparison(task.args)])
            /\ UNCHANGED <<analysisVars, live>>
       ELSE FailClean

\* from_files: one rate, the first channel of each.
FirstChannel(source) ==
  [frame \in 1 .. SourceFrames(source) |-> source.samples[(frame - 1) * source.channels + 1]]

Measured(args) == <<FirstChannel(ReadWav(Content(files, args.stimulus))),
                    FirstChannel(ReadWav(Content(files, args.response)))>>
Measurable(args) ==
  /\ CanRead(Content(files, args.stimulus)) /\ CanRead(Content(files, args.response))
  /\ Content(files, args.stimulus).rate = Content(files, args.response).rate

MeasureFiles ==
  /\ Working({"measure"}) /\ Measurable(task.args)
  /\ Deconvolves(Measured(task.args)[1], Measured(task.args)[2])
  /\ Reports([mode |-> "measure", stimulus |-> Measured(task.args)[1],
              response |-> Measured(task.args)[2]])
  /\ UNCHANGED <<analysisVars, live>>

\* Any of the above not so, or a gate that keeps no samples.
MeasureFails ==
  /\ Working({"measure"}) /\ ~(Measurable(task.args) /\ Measured(task.args) = <<<<>>, <<>>>>)
  /\ FailClean

\* The Deconvolver of two recordings without a frame breaks its contract.
Aborted == 134
MeasureAborts ==
  /\ Working({"measure"}) /\ Measurable(task.args) /\ Measured(task.args) = <<<<>>, <<>>>>
  /\ Leave(Aborted) /\ UNCHANGED <<taken, task, report, printed, runs, live, files, analysisVars>>

-----------------------------------------------------------------------------
(* analyse_offline. *)

\* synthesise_sine: a sine of negative length has no frames.
SineFrames(args) == IF SignalFrames(args) > 0 THEN SignalFrames(args) ELSE 0
Sine(args) ==
  LET wave == Waves["sine"]
  IN  [channels |-> 1, rate |-> args.rate,
       samples |-> [i \in 1 .. SineFrames(args) |-> args.amplitude * wave[1 + ((i - 1) % Len(wave))]]]

CanLoad(on, mode, args) == mode = "sine" \/ CanRead(Content(on, args.path))
LoadSource(on, mode, args) == IF mode = "sine" THEN Sine(args) ELSE ReadWav(Content(on, args.path))

Config(source) ==
  [inputs |-> [i \in 1 .. source.channels |-> i - 1], outputs |-> <<>>, rate |-> source.rate]

Analysable(on, mode, args) ==
  /\ CanLoad(on, mode, args)
  /\ SourceFrames(LoadSource(on, mode, args)) >= args.fft
  /\ args.channel < LoadSource(on, mode, args).channels
  /\ Opens(LoadSource(on, mode, args), Config(LoadSource(on, mode, args)))

OpenAnalysis ==
  /\ Working({"wav", "sine"})
  /\ IF Analysable(files, task.mode, task.args)
       THEN /\ LET source == LoadSource(files, task.mode, task.args)
               IN  stream' = OpenOffline(source, Config(source), task.args.block)
            /\ step' = "pumping"
            /\ UNCHANGED <<outputVars, taken, task, exit, runs, ring, overruns, fed, live>>
       ELSE FailClean

\* pump(): the callback writes the block to the ring, whole or not at all.
Pump ==
  /\ step = "pumping" /\ PumpFrames(stream) > 0
  /\ IF Len(ring) + PumpFrames(stream) <= RingFrames
       THEN ring' = ring \o Gathered(stream) /\ UNCHANGED overruns
       ELSE overruns' = overruns + 1 /\ UNCHANGED ring
  /\ stream' = Pumped(stream) /\ step' = "draining"
  /\ UNCHANGED <<outputVars, taken, task, exit, runs, fed, live>>

\* A mistake easily made: samples taken as if the ring held one channel.
ReadFirstSlots ==
  LET frames == IF Len(ring) < task.args.block THEN Len(ring) ELSE task.args.block
  IN  /\ fed' = fed \o [i \in 1 .. frames |-> ring[i][1]]
      /\ ring' = SubSeq(ring, frames + 1, Len(ring))
      /\ UNCHANGED <<outputVars, taken, task, exit, runs, stream, overruns, live>>

\* One read of the asked channel into the analyser.
ReadBlock ==
  LET frames == IF Len(ring) < task.args.block THEN Len(ring) ELSE task.args.block
  IN  /\ fed' = fed \o [i \in 1 .. frames |-> ring[i][task.args.channel + 1]]
      /\ ring' = SubSeq(ring, frames + 1, Len(ring))
      /\ UNCHANGED <<outputVars, taken, task, exit, runs, stream, overruns, live>>

Drain ==
  /\ step = "draining"
  /\ IF ring # <<>> THEN ReadBlock /\ UNCHANGED step
     ELSE step' = "pumping" /\ UNCHANGED <<outputVars, taken, task, exit, runs, analysisVars, live>>

\* The hop of the overlap, and the frames an analyser completes on so many samples.
Hop(args) ==
  LET hop == CASE args.overlap = "None" -> args.fft [] args.overlap = "Half" -> args.fft \div 2
               [] args.overlap = "ThreeQuarters" -> args.fft \div 4 [] OTHER -> args.fft \div 8
  IN  IF hop > 1 THEN hop ELSE 1
Averaged(args, samples) == IF samples < args.fft THEN 0 ELSE 1 + (samples - args.fft) \div Hop(args)

FinishAnalysis ==
  /\ step = "pumping" /\ PumpFrames(stream) = 0
  /\ IF overruns = 0 /\ Averaged(task.args, Len(fed)) > 0
       THEN /\ Reports([mode |-> task.mode, heard |-> fed,
                        averaged |-> Averaged(task.args, Len(fed))])
            /\ UNCHANGED <<analysisVars, live>>
       ELSE FailClean

-----------------------------------------------------------------------------
(* The live capture (cli/live_coreaudio.cpp): capture() waits, and         *)
(* capture_inner() takes its steps on a thread of its own.                 *)

Budget == task.args.live + Slack

Capture ==
  /\ Working({"live"}) /\ step' = "capturing"
  /\ \E allowed \in BOOLEAN :
       live' = [at |-> "finding", waited |-> 0, captured |-> 0, allowed |-> allowed,
                frame |-> [averaged |-> 0, overruns |-> 0, loud |-> FALSE],
                unseen |-> FALSE, loud |-> FALSE, answer |-> "none"]
  /\ UNCHANGED <<outputVars, taken, task, exit, runs, analysisVars>>

\* A step of the capture's thread.
Thread(at) ==
  /\ step = "capturing" /\ live.at = at
  /\ UNCHANGED <<outputVars, taken, task, step, exit, runs, analysisVars>>

Answer(answer) == live' = [live EXCEPT !.at = "answered", !.answer = answer]

\* The device: none, or one of so many input channels.
FindDevice(inputs) ==
  /\ Thread("finding")
  /\ IF task.args.channel < inputs THEN live' = [live EXCEPT !.at = "opening"]
     ELSE Answer("error")

\* Each call into CoreAudio returns, throws, or never comes back.
OpenStream == Thread("opening") /\ live' = [live EXCEPT !.at = "starting"]
StartStream == Thread("starting") /\ live' = [live EXCEPT !.at = "polling"]
StopStream ==
  /\ Thread("polling") /\ live.captured >= task.args.live
  /\ live' = [live EXCEPT !.at = "checking"]
CallFails ==
  /\ \/ Thread("finding") \/ Thread("opening") \/ Thread("starting")
     \/ Thread("polling") /\ live.captured >= task.args.live
  /\ Answer("error")

\* The engine's worker: a microphone that is refused delivers silence.
PublishFrame(loud, dropped) ==
  /\ step = "capturing" /\ live.at \in {"polling", "checking"}
  /\ live.frame.averaged < MaxPublished
  /\ loud => live.allowed
  /\ live' = [live EXCEPT !.unseen = TRUE,
                !.frame = [averaged |-> @.averaged + 1, loud |-> loud,
                           overruns |-> @.overruns + dropped]]
  /\ UNCHANGED <<outputVars, taken, task, step, exit, runs, analysisVars>>

Poll ==
  /\ Thread("polling") /\ live.unseen
  /\ live' = [live EXCEPT !.unseen = FALSE, !.loud = @ \/ live.frame.loud]

Sound(frame, loud) == frame.overruns = 0 /\ frame.averaged > 0 /\ loud

Check ==
  /\ Thread("checking")
  /\ Answer(IF Sound(live.frame, live.loud) THEN "frame" ELSE "error")

Tick ==
  /\ step = "capturing" /\ live.waited < Budget
  /\ live' = [live EXCEPT !.waited = @ + 1,
                !.captured = IF live.at = "polling" THEN @ + 1 ELSE @]
  /\ UNCHANGED <<outputVars, taken, task, step, exit, runs, analysisVars>>

TakeAnswer ==
  /\ step = "capturing" /\ live.at = "answered"
  /\ IF live.answer = "frame"
       THEN Reports([mode |-> "live", frame |-> live.frame]) /\ UNCHANGED <<analysisVars, live>>
       ELSE FailClean

\* A mistake easily made: future.get() with no deadline before it.
WaitForAnswer == step = "capturing" /\ live.at = "answered" /\ live.answer = "error" /\ FailClean

\* future.wait_for gives up; the thread is left where it is.
Expire == step = "capturing" /\ live.waited >= Budget /\ live.at # "answered" /\ FailClean

-----------------------------------------------------------------------------
(* execute: the report goes to --out, except that --generate has used it.  *)

\* The rows of a report, which render() and report_response() list.
RowsMade(mode) == IF mode \in DOMAIN ReportRows THEN ReportRows[mode] ELSE <<>>

\* What a disk that fills up has of the rows: the first ones, and of the last of
\* those perhaps only some digits of its level.
CutAt(rows, n) ==
  {Append(SubSeq(rows, 1, n - 1), [rows[n] EXCEPT !.db = db]) : db \in TornLevels}
RowsLeft(rows) ==
  {SubSeq(rows, 1, n) : n \in 0 .. Len(rows)}
  \union UNION {CutAt(rows, n) : n \in 1 .. Len(rows)}

ReportFile(rows) == [kind |-> "report", rows |-> rows]

ReportToFile == task.mode # "generate" /\ "out" \in DOMAIN task.args

Deliver ==
  /\ step = "reporting" /\ Leave(0)
  /\ IF ReportToFile
       THEN files' = With(files, task.args.out, ReportFile(RowsMade(task.mode)))
            /\ UNCHANGED printed
       ELSE printed' = report /\ UNCHANGED files
  /\ UNCHANGED <<taken, task, report, runs, analysisVars, live>>

\* The file cannot be opened, the disk takes only part of the report, or the
\* close fails when it has taken all.
DeliverFails ==
  /\ step = "reporting" /\ Fail
  /\ \/ UNCHANGED files
     \/ /\ ReportToFile
        /\ \E left \in RowsLeft(RowsMade(task.mode)) :
             files' = With(files, task.args.out, ReportFile(left))
  /\ UNCHANGED analysisVars

MakeReport ==
  \/ SelfContained \/ SelfContainedFails \/ GenerateRefused \/ GenerateTorn \/ Generate
  \/ CompareFiles \/ MeasureFiles \/ MeasureFails \/ MeasureAborts

Proceed ==
  \/ RefuseArguments \/ Help
  \/ OpenAnalysis \/ Pump \/ Drain \/ FinishAnalysis
  \/ Capture \/ TakeAnswer \/ Expire \/ Deliver \/ DeliverFails

CaptureThread ==
  \/ \E inputs \in 0 .. 2 : FindDevice(inputs)
  \/ OpenStream \/ StartStream \/ StopStream \/ CallFails \/ Poll \/ Check
  \/ \E loud \in BOOLEAN, dropped \in 0 .. 1 : PublishFrame(loud, dropped)

Next ==
  (\E argv \in Commands : Begin(argv)) \/ MakeReport \/ Proceed \/ CaptureThread \/ Tick

\* A call that makes a report returns: MakeReport, with only its control.
Returns ==
  /\ Working({"list", "bench", "demo", "generate", "compare", "measure"})
  /\ step' \in {"idle", "reporting"}

\* The main thread runs and time passes; nothing is asked of CoreAudio.
Spec == Init /\ [][Next]_vars /\ WF_step(Returns) /\ WF_vars(Proceed) /\ WF_vars(Tick)

-----------------------------------------------------------------------------
Done(modes) == exit = 0 /\ task.status = "run" /\ task.mode \in modes

\* A spectrum that was reported with status 0 was made from every sample of
\* the channel asked for, in order, whatever the block size does to the ring.
HeardIsSource ==
  Done({"wav", "sine"}) =>
    LET source == LoadSource(taken, task.mode, task.args)
    IN  report.heard = [frame \in 1 .. SourceFrames(source) |->
          source.samples[(frame - 1) * source.channels + task.args.channel + 1]]

\* No run that ends well has used a RIFF file whose data stop short of what
\* the file claims: half a recording is never measured without a word.
HalfFilesRefused ==
  LET used == IF Done({"wav"}) THEN {task.args.path}
              ELSE IF Done({"measure"}) THEN {task.args.stimulus, task.args.response} ELSE {}
  IN  \A path \in used :
        LET file == Content(taken, path)
        IN  file.container = "riff" => file.declared <= Len(file.data)

\* These rows are the first of those, but for the level of the last.
StartOf(rows, whole) ==
  /\ Len(rows) <= Len(whole)
  /\ \A i \in DOMAIN rows : /\ rows[i].usable = whole[i].usable /\ rows[i].hz = whole[i].hz
                            /\ i < Len(rows) => rows[i] = whole[i]

\* A run that fails has touched no file but its --out, and that one only when it
\* had what goes there.  Audio it leaves does not read unless it is all there.
\* A report it leaves may well read: as the first rows of the report that was
\* to be written, of which the last may have the wrong level.
FailureIsContained ==
  exit = 1 => \A path \in DOMAIN files : files[path] # Content(taken, path) =>
    /\ path = task.args.out
    /\ IF task.mode = "generate"
         THEN CanRead(files[path]) =>
                files[path] = GeneratedFile(task.args, SignalFrames(task.args))
         ELSE /\ report # Nothing /\ files[path].kind = "report"
              /\ StartOf(files[path].rows, RowsMade(task.mode))

\* A file --generate reports with status 0 is audio that reads back whole, each
\* sample within one and a half steps of its depth, full scale included, when
\* the rate is one the reader takes; otherwise it does not read at all.
GeneratedReadsBack ==
  Done({"generate"}) =>
    LET file == Content(files, task.args.out)
        wanted == Rendered(task.args)
    IN  /\ CanRead(file) <=> StoredRate(task.args.rate) \in 1 .. MostRate
        /\ Len(ReadWav(file).samples) = Len(wanted)
        /\ \A i \in DOMAIN wanted :
             2 * Unsigned(ReadWav(file).samples[i] - wanted[i]) <=
               IF file.float THEN 0 ELSE 3 * (FullScale \div 2^Magnitude[file.width])

\* A comparison that passes its tolerance compared something, and at any two
\* frequencies both files have, the shapes differ by no more than it allows.
ToleranceHolds ==
  Done({"compare"}) /\ "tolerance" \in DOMAIN task.args =>
    LET subject == Parse(RowsOf(Content(taken, task.args.subject)))
        reference == Parse(RowsOf(Content(taken, task.args.reference)))
        off == {[hz |-> p.hz, db |-> p.db - LevelAt(reference, p.hz)] :
                  p \in {q \in Range(subject) :
                           /\ task.args.from_hz <= q.hz /\ q.hz <= task.args.to_hz
                           /\ \E r \in Range(reference) : r.hz = q.hz}}
    IN  /\ report.result.compared > 0
        /\ \A a, b \in off : a.db - b.db <= 2 * task.args.tolerance

\* Every run ends, though CoreAudio may never return.
Exits == (step # "idle") ~> (step = "idle")

==================================================================================
