------------------------------ MODULE TargetControl ------------------------------
(***************************************************************************)
(* The curve a correction aims at (ffi/target.cpp, ffi/session.cpp,        *)
(* dsp/target.cpp): a shape, and the offset that puts it at the level of   *)
(* the measurement.  The points of a loaded file belong to the custom      *)
(* shape.  An offset the owner typed is Typed; one found by alignment is   *)
(* the frame, the layout and the shape it was found from.                  *)
(***************************************************************************)
EXTENDS Integers, Sequences, FiniteSets

CONSTANTS
  TargetFiles,     \* what a file offered as a target may hold: sets of points
  AlignFrom, AlignTo    \* kAlignFromHz, kAlignToHz

VARIABLE target    \* AnalyzerSession::target

Shapes == {"Flat", "Tilt", "Room", "Custom"}

Typed == [frame |-> 0]

FlatShape == [kind |-> "Flat", points |-> {}]

(* TargetShape::custom drops what cannot be a point, once more.            *)
CustomShape(points) ==
  [kind |-> "Custom", points |-> {p \in points : p.hz > 0 /\ p.finite}]

(* ResponseCurve::parse, and its constructor: the lines that are pairs.    *)
ParsedPoints(file) == {p \in file : p.hz > 0 /\ p.finite}

TargetInit == target = [shape |-> FlatShape, offset |-> Typed]

(* apply_target: points survive only a change from custom to custom.       *)
ApplyTarget ==
  \E wanted \in Shapes :
    target' = [shape |-> IF wanted = "Custom"
                         THEN IF target.shape.kind = "Custom" THEN target.shape ELSE FlatShape
                         ELSE [kind |-> wanted, points |-> {}],
               offset |-> Typed]

(* analyzer_session_load_target of a file that could be read.              *)
LoadTarget(file) ==
  /\ ParsedPoints(file) # {}
  /\ target' = [target EXCEPT !.shape = CustomShape(ParsedPoints(file))]

Aligned(shape, frame, layout) == [shape |-> shape, frame |-> frame, layout |-> layout]

(* Whether any column of the plot lies in the band the alignment uses.     *)
InBand(layout) == layout.span[1] <= AlignTo /\ AlignFrom <= layout.span[2]

(* TargetCurve::align_to from what is on the screen; a band with nothing   *)
(* usable in it leaves the offset alone.                                   *)
AlignTarget(frame, layout) ==
  target' = IF InBand(layout)
            THEN [target EXCEPT !.offset = Aligned(target.shape, frame, layout)]
            ELSE target

================================================================================
