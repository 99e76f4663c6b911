-------------------------------- MODULE PlotReads --------------------------------
(***************************************************************************)
(* What a session draws (ffi/frames.cpp, transfer.cpp, spectrogram.cpp,    *)
(* session.cpp): curves reduced onto the columns of the plot from the      *)
(* newest frame the engine published, or computed at the frequency of each *)
(* column.  Those frequencies are cached, and so is the spectrogram's      *)
(* axis.  A frame is known by its number and 0 is the empty one before the *)
(* first; the channel is the register of LatestValue.                      *)
(*                                                                         *)
(* A layout is where a curve's columns lie: the span of frequencies, the   *)
(* length drawn over, and how many columns there are.                      *)
(***************************************************************************)
EXTENDS Integers

CONSTANTS
  Spans,           \* pairs of frequencies the plot may show
  Lengths,         \* widths of the plot, in columns
  Capacities,      \* how many columns the host has room for
  DefaultPlot,     \* the geometry before the first set_plot
  DefaultRows,     \* the length of the spectrogram's axis before it is drawn
  TransferFrom     \* frames from this one on carry a transfer function

ASSUME PlotAssumption ==
  /\ Lengths \subseteq Nat \ {0} /\ Capacities \subseteq Nat \ {0}
  /\ DefaultPlot.length \in Nat \ {0}

VARIABLES
  published,       \* frames the engine has published
  held,            \* the frame the session's reader shows
  plot,            \* frequency axis and column count
  columnHz,        \* AnalyzerSession::column_hz: the layout it was built for
  spectrogramAxis, \* its span and length
  drawn            \* the last curve handed to the host

plotVars == <<published, held, plot, columnHz, spectrogramAxis, drawn>>

Channel == INSTANCE LatestValue WITH newest <- published

Layout(span, length, columns) == [span |-> span, length |-> length, columns |-> columns]

NoColumns == Layout(<<0, 0>>, 0, 0)

Fewer(a, b) == IF a <= b THEN a ELSE b

PlotInit ==
  /\ Channel!Init
  /\ plot = DefaultPlot
  /\ columnHz = NoColumns
  /\ spectrogramAxis = [plot EXCEPT !.length = DefaultRows]
  /\ drawn = [curve |-> "none"]

(* engine.latest() takes the newest frame and releases the one it held.    *)
Latest == held' = published /\ UNCHANGED published

(* Mutant: the frequencies of the columns outlive the plot. *)
SetPlotKeepingColumns ==
  /\ \E span \in Spans, length \in Lengths : plot' = [span |-> span, length |-> length]
  /\ UNCHANGED <<published, held, columnHz, spectrogramAxis, drawn>>

(* analyzer_session_set_plot with a geometry it accepts.                   *)
SetPlot ==
  /\ \E span \in Spans, length \in Lengths : plot' = [span |-> span, length |-> length]
  /\ columnHz' = NoColumns
  /\ UNCHANGED <<published, held, spectrogramAxis, drawn>>

(* columns_hz: built again only when the number of columns differs.        *)
ColumnsHz(wanted) ==
  IF columnHz.columns = wanted THEN columnHz ELSE Layout(plot.span, plot.length, wanted)

Curve(name, frame, layout) == [curve |-> name, frame |-> frame, layout |-> layout]

(* copy_reduced (the trace or its average), copy_transfer (magnitude,      *)
(* phase or coherence) and the trace store's copy reduce on the session's  *)
(* own axis.                                                               *)
OnAxis(columns) == Layout(plot.span, plot.length, columns)

CopyReduced ==
  \E capacity \in Capacities :
    /\ Latest
    /\ drawn' = Curve("reduced", published, OnAxis(Fewer(plot.length, capacity)))
    /\ UNCHANGED <<plot, columnHz, spectrogramAxis>>

CopyTransfer ==
  \E capacity \in Capacities :
    /\ Latest
    /\ drawn' = IF published < TransferFrom THEN drawn
                ELSE Curve("transfer", published, OnAxis(Fewer(plot.length, capacity)))
    /\ UNCHANGED <<plot, columnHz, spectrogramAxis>>

CopyStored(frame) ==
  \E capacity \in Capacities :
    /\ drawn' = Curve("stored", frame, OnAxis(Fewer(plot.length, capacity)))
    /\ UNCHANGED <<published, held, plot, columnHz, spectrogramAxis>>

(* A curve computed at the frequencies of the columns: copy_target,        *)
(* copy_eq_curve.                                                          *)
CopyComputed(name) ==
  \E capacity \in Capacities :
    /\ columnHz' = ColumnsHz(Fewer(plot.length, capacity))
    /\ drawn' = Curve(name, 0, columnHz')
    /\ UNCHANGED <<published, held, plot, spectrogramAxis>>

(* copy_corrected: the trace, and the equaliser's curve at the columns.    *)
CopyCorrected ==
  \E capacity \in Capacities :
    /\ Latest
    /\ columnHz' = ColumnsHz(Fewer(plot.length, capacity))
    /\ drawn' = Curve("corrected", published, columnHz')
    /\ UNCHANGED <<plot, spectrogramAxis>>

(* The spectrogram runs up the drawable, one row per step.                 *)
CopySpectrogram ==
  \E rows \in Capacities :
    /\ spectrogramAxis' = IF spectrogramAxis.length = rows /\ spectrogramAxis.span = plot.span
                          THEN spectrogramAxis ELSE [span |-> plot.span, length |-> rows]
    /\ Latest
    /\ drawn' = IF published = 0 THEN drawn
                ELSE Curve("spectrogram", published,
                           Layout(spectrogramAxis'.span, spectrogramAxis'.length, rows))
    /\ UNCHANGED <<plot, columnHz>>

(* measured_at_columns: the newest frame at the columns of the whole plot. *)
MeasuredAtColumns ==
  /\ columnHz' = ColumnsHz(plot.length)
  /\ Latest
  /\ UNCHANGED <<plot, spectrogramAxis, drawn>>

(* external: the worker publishes a frame. *)
PublishFrame ==
  /\ Channel!Publish
  /\ UNCHANGED <<plot, columnHz, spectrogramAxis, drawn>>

(* Every curve handed out is laid out on the plot as it is now, however    *)
(* its frequencies were come by, so that curves drawn over each other line *)
(* up (session.cpp:179-191, axis.cpp:3-5).                                 *)
CurvesLineUp ==
  [][drawn' # drawn /\ drawn'.curve # "none" =>
       /\ drawn'.layout.span = plot.span
       /\ drawn'.layout.length = IF drawn'.curve = "spectrogram"
                                 THEN drawn'.layout.columns ELSE plot.length
       /\ drawn'.layout.columns \in {plot.length} \cup Capacities]_drawn
================================================================================
