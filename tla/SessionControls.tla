----------------------------- MODULE SessionControls -----------------------------
(***************************************************************************)
(* A session as its owner's thread uses it: equalisers, target, plot,      *)
(* captured traces and the files written on the owner's order, with the    *)
(* audio callback and the worker taking their steps between any two calls. *)
(* Each call is one step: all of this state belongs to the owner's thread, *)
(* and the two channels to the other threads are registers.                *)
(*                                                                         *)
(* A file is the sequence of the pieces written to it, most of them lines. *)
(* A save opens it, which empties it, and writes; the disk may refuse      *)
(* either, and the process may be killed in between.                       *)
(***************************************************************************)
EXTENDS FilterExport, TargetControl, TraceStore, PlotReads, SettingsText, MeasurementFile

CONSTANTS
  SettingsOffered,  \* settings the host saves
  SavedNames,       \* names a measurement is saved under
  SplOffsets,       \* offsets it is saved with; 0 is an uncalibrated one
  FrameBins,        \* bins of a frame
  CutLines,         \* how many pieces an interrupted write may leave
  TornValues,       \* what the last line of them may read as
  MaxCalls,         \* bound: calls of the owner
  MaxFrames         \* bound: frames published

ASSUME SettingsAssumption ==
  SettingsOffered \subseteq CSettings /\ TornValues \subseteq LineValues

ASSUME SavedAssumption ==
  /\ \A name \in SavedNames : name \in Seq(STRING)
  /\ SplOffsets \subseteq Int
  /\ LargestSize \in Nat /\ FrameBins \in 1..LargestSize

VARIABLES
  disk,        \* what the files hold
  reported,    \* history: what a save last reported to have saved in them
  loaded,      \* the settings last loaded
  fitted,      \* history: what the last fit was made from
  calls        \* bound on calls

fileVars == <<disk, reported, loaded>>
sessionVars == <<eqVars, target, plotVars, fitted>>
vars == <<sessionVars, traceVars, fileVars, calls>>

Paths == {"settings", "measurement", "text", "filters"}
Absent == <<>>
NothingSaved == [nothing |-> TRUE]

SessionInit == EqInit /\ TargetInit /\ PlotInit /\ fitted = [frame |-> 0]

Init ==
  /\ SessionInit
  /\ TracesInit
  /\ disk = [path \in Paths |-> Absent]
  /\ reported = [path \in Paths |-> NothingSaved]
  /\ loaded = Defaults
  /\ calls = 0

Call == calls < MaxCalls /\ calls' = calls + 1

(***************************************************************************)
(* Calls on one part of the session.                                       *)
(***************************************************************************)

EqCall ==
  /\ Call
  /\ \/ \E mode \in EqModes : SetEqMode(mode)
     \/ EqSetBand \/ EqSetGain \/ EqAddBand \/ EqRemoveBand
     \/ EqFlatten \/ EqTrim \/ EqSetPreamp
  /\ UNCHANGED <<target, plotVars, fitted, traceVars, fileVars>>

TargetCall ==
  /\ Call
  /\ ApplyTarget \/ \E file \in TargetFiles : LoadTarget(file)
  /\ UNCHANGED <<eqVars, plotVars, fitted, traceVars, fileVars>>

DrawCall ==
  /\ Call
  /\ \/ SetPlot \/ CopyReduced \/ CopyTransfer \/ CopySpectrogram
     \/ CopyComputed("target")
     \/ \E i \in DOMAIN display :
          Places(display[i].id) # {} /\ CopyStored(Stored(display[i].id).frame)
     \/ eqMode # "Off" /\ (CopyComputed("eq") \/ CopyCorrected)
  /\ UNCHANGED <<eqVars, target, fitted, traceVars, fileVars>>

TraceCall ==
  /\ Call
  /\ SetVisible \/ RemoveTrace \/ ClearTraces
  /\ UNCHANGED <<sessionVars, fileVars>>

(***************************************************************************)
(* Calls that join parts.                                                  *)
(***************************************************************************)

(* The newest frame, with nothing else of the plot touched.                *)
TakeFrame == Latest /\ UNCHANGED <<plot, columnHz, spectrogramAxis, drawn>>

Capture ==
  /\ Call
  /\ TakeFrame
  /\ IF published = 0 THEN UNCHANGED traceVars ELSE CaptureTrace(published)
  /\ UNCHANGED <<eqVars, target, fitted, fileVars>>

Align ==
  /\ Call
  /\ MeasuredAtColumns
  /\ IF published = 0 THEN UNCHANGED target ELSE AlignTarget(published, columnHz')
  /\ UNCHANGED <<eqVars, fitted, traceVars, fileVars>>

(* Mutant: the target is left where it was. *)
OptimiseUnaligned ==
  /\ Call
  /\ MeasuredAtColumns
  /\ published > 0
  /\ \E bands \in Fits : AdoptFit(bands)
  /\ fitted' = [frame |-> published, layout |-> columnHz', target |-> target]
  /\ UNCHANGED <<target, traceVars, fileVars>>

(* analyzer_session_optimise: the target is aligned, then fitted to.       *)
Optimise ==
  /\ Call
  /\ MeasuredAtColumns
  /\ IF published = 0 THEN UNCHANGED <<eqVars, target, fitted>>
     ELSE /\ AlignTarget(published, columnHz')
          /\ \E bands \in Fits : AdoptFit(bands)
          /\ fitted' = [frame |-> published, layout |-> columnHz', target |-> target']
  /\ UNCHANGED <<traceVars, fileVars>>

(***************************************************************************)
(* Files (ffi/status.cpp, save.cpp, settings.cpp, optimiser.cpp).          *)
(***************************************************************************)

(* What is in a file whose writing was interrupted.                        *)
Interrupted(pieces) ==
  LET Torn(n) == {Append(SubSeq(pieces, 1, n), [pieces[n + 1] EXCEPT !.value = torn]) :
                    torn \in IF "value" \in DOMAIN pieces[n + 1] THEN TornValues ELSE {}}
  IN  UNION {{SubSeq(pieces, 1, n)} \cup Torn(n) : n \in CutLines \cap 0..Len(pieces) - 1}

(* Mutant: a short write passes for a save. *)
WriteFileUnchecked(path, pieces, saved) ==
  /\ disk' \in {[disk EXCEPT ![path] = rest] : rest \in Interrupted(pieces) \cup {pieces}}
  /\ reported' = [reported EXCEPT ![path] = saved]

(* write_file: whole and reported, refused at opening and as it was, or    *)
(* refused while writing and cut short.                                    *)
WriteFile(path, pieces, saved) ==
  \/ /\ disk' = [disk EXCEPT ![path] = pieces]
     /\ reported' = [reported EXCEPT ![path] = saved]
  \/ UNCHANGED <<disk, reported>>
  \/ /\ disk' \in {[disk EXCEPT ![path] = rest] : rest \in Interrupted(pieces)}
     /\ reported' = [reported EXCEPT ![path] = NothingSaved]

SaveSettings ==
  /\ Call
  /\ \E s \in SettingsOffered : WriteFile("settings", ToText(FromC(s)), Kept(FromC(s)))
  /\ UNCHANGED <<sessionVars, traceVars, loaded>>

(* A file that is not there is the first launch, and an empty one reads    *)
(* the same.                                                               *)
LoadSettings ==
  /\ Call
  /\ loaded' = IF disk.settings = Absent THEN Defaults ELSE FromText(disk.settings)
  /\ UNCHANGED <<sessionVars, traceVars, disk, reported>>

(* live_measurement: the levels of a frame, which say which frame it is.   *)
FrameLevels(frame) ==
  IF frame = 0 THEN <<>> ELSE [i \in 1..FrameBins |-> <<10 * frame + i>>]

LiveMeasurement(frame, name, offset) ==
  [Measurement(name, IF frame = 0 THEN 0 ELSE 48000,
               [kind |-> "power_spectrum", points |-> FrameLevels(frame),
                coherence |-> <<>>, axis |-> IF frame = 0 THEN 0 ELSE 20])
     EXCEPT !.references.spl_offset_db = IF offset = 0 THEN Unset ELSE Given(offset)]

(* A measurement of an empty frame is refused, a text of one is not.       *)
SaveMeasurement ==
  /\ Call
  /\ TakeFrame
  /\ \E name \in SavedNames, offset \in SplOffsets :
       LET m == LiveMeasurement(published, name, offset)
       IN  \/ /\ ~IsEmptyData(m.data)
              /\ WriteFile("measurement", WriteMeasurement(m), KeptMeasurement(m))
           \/ WriteFile("text", ToRewText(m),
                        [calibrated |-> offset # 0,
                         rows |-> [i \in DOMAIN FrameLevels(published) |->
                                     <<(i - 1) * 20, 10 * published + i + offset>>]])
  /\ UNCHANGED <<eqVars, target, fitted, traceVars, loaded>>

ExportFilters ==
  /\ Call
  /\ eqMode # "Off"
  /\ \E format \in Formats :
       WriteFile("filters", FilterText(format, ActiveEq.bands, ActiveEq.preamp), Shown(ActiveEq))
  /\ UNCHANGED <<sessionVars, traceVars, loaded>>

(* The state of a session that has just been started.                      *)
NewSession ==
  /\ eqMode' = "Off"
  /\ equalisers' = [Graphic |-> NewEqualiser(FlatBands), Parametric |-> NewEqualiser(<<>>)]
  /\ generation' = 0
  /\ coefficients' = FromEqualiser(0, "Off", equalisers')
  /\ heard' = coefficients'
  /\ target' = [shape |-> FlatShape, offset |-> Typed]
  /\ published' = 0 /\ held' = 0
  /\ plot' = DefaultPlot /\ columnHz' = NoColumns
  /\ spectrogramAxis' = [DefaultPlot EXCEPT !.length = DefaultRows]
  /\ drawn' = [curve |-> "none"]
  /\ fitted' = [frame |-> 0]

(* A change of the configuration starts a new session; the trace store is  *)
(* no part of it.                                                          *)
RestartSession == Call /\ NewSession /\ UNCHANGED <<traceVars, fileVars>>

(* external: the process is killed while it saves its settings, and run    *)
(* again.                                                                  *)
KilledWhileSaving ==
  /\ Call
  /\ \E s \in SettingsOffered :
       \E rest \in Interrupted(ToText(FromC(s))) : disk' = [disk EXCEPT !.settings = rest]
  /\ reported' = [reported EXCEPT !.settings = NothingSaved]
  /\ loaded' = FromText(disk'.settings)
  /\ measurements' = <<>> /\ nextId' = 1 /\ display' = <<>> /\ nextColour' = 0
  /\ captured' = <<>>
  /\ NewSession

Callback == EqProcess /\ UNCHANGED <<target, plotVars, fitted, traceVars, fileVars, calls>>

Worker ==
  /\ published < MaxFrames
  /\ PublishFrame
  /\ UNCHANGED <<eqVars, target, fitted, traceVars, fileVars, calls>>

Next ==
  \/ EqCall \/ TargetCall \/ DrawCall \/ TraceCall \/ Capture \/ Align \/ Optimise
  \/ SaveSettings \/ LoadSettings \/ SaveMeasurement \/ ExportFilters
  \/ RestartSession \/ KilledWhileSaving
  \/ Callback \/ Worker

Spec == Init /\ [][Next]_vars

(***************************************************************************)
(* Properties.                                                             *)
(***************************************************************************)

(* Where the plot reaches into the band the alignment uses, a fit corrects *)
(* towards a target at the level of the very frame it corrects             *)
(* (optimiser.cpp:59-66): what the owner typed, and an alignment to an     *)
(* older frame or another shape, never reach it.                           *)
FitIsAligned ==
  fitted.frame > 0 /\ InBand(fitted.layout) =>
    fitted.target.offset = Aligned(fitted.target.shape, fitted.frame, fitted.layout)

(* What a file reads as.                                                   *)
ReadBack(path, pieces) ==
  CASE path = "settings" -> FromText(pieces)
    [] path = "measurement" -> ReadMeasurement(pieces)
    [] path = "text" -> RewLevels(pieces)
    [] OTHER -> DeviceRuns(pieces)

(* What a save reported reads back as what was saved, whatever other saves *)
(* were refused or cut short since: the settings, the measurement with the *)
(* offset it was or was not calibrated by, and filters that run as the     *)
(* curve that was shown when they were exported (status.cpp:64-77).  A     *)
(* measurement whose writing was cut short does not read at all            *)
(* (format.hpp, TruncatedError).                                           *)
SavedReadsBack ==
  /\ \A path \in Paths : reported[path] # NothingSaved =>
       ReadBack(path, disk[path]) = reported[path]
  /\ reported.measurement = NothingSaved => IsRefused(ReadMeasurement(disk.measurement))

(* The axes of a plot can be built from settings that were loaded, from a  *)
(* file that was saved, cut short or never there (model/settings.hpp: a    *)
(* file cannot produce an axis that divides by zero), as far as floats go: *)
(* twice a lowest frequency beyond half of the largest float is infinite,  *)
(* and above a level that is not counted in steps of one the next 120 dB   *)
(* may be nothing.                                                         *)
LoadedIsUsable ==
  /\ 0 < loaded.min_hz
  /\ IF loaded.max_hz = Inf THEN FloatOf(2 * loaded.min_hz) = Inf
     ELSE loaded.min_hz < loaded.max_hz
  /\ \/ loaded.min_db < loaded.max_db
     \/ /\ Exact <= Magnitude(loaded.min_db + DefaultRange)
        /\ loaded.max_db = FloatOf(loaded.min_db + DefaultRange)
  /\ 0 < loaded.level_grid_step /\ loaded.fft_size \in FftSizes

================================================================================
