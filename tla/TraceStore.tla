------------------------------- MODULE TraceStore -------------------------------
(***************************************************************************)
(* Captured curves (ffi/traces.cpp) over the measurement store             *)
(* (model/store.cpp).  The host knows a trace by its place in the list;    *)
(* the list holds identifiers, and the store what they stand for.  A curve *)
(* is known by the frame it was captured from.  A name is what was asked   *)
(* for and the numbers added to it, so a name asked for may itself be one  *)
(* that was made up.                                                       *)
(***************************************************************************)
EXTENDS Integers, Sequences, FiniteSets, SequencesExt

CONSTANTS
  NamesAsked,    \* names the host asks for; one without a text asks for any
  SuffixLimit    \* where unique_name gives up (1000)

Names == [text : STRING, numbers : Seq(Nat)]

ASSUME TraceAssumption ==
  /\ SuffixLimit \in Nat
  /\ NamesAsked \subseteq Names

VARIABLES
  measurements,   \* MeasurementStore::measurements_
  nextId,         \* MeasurementStore::next_id_
  display,        \* AnalyzerTraceStore::display
  nextColour,     \* AnalyzerTraceStore::next_colour
  captured        \* history: of each displayed trace, the frame it was captured from
                  \* and how many traces there were with it

traceVars == <<measurements, nextId, display, nextColour, captured>>

Base(asked) == IF asked.text = "" THEN [text |-> "Trace", numbers |-> <<>>] ELSE asked

Numbered(base, k) == [base EXCEPT !.numbers = Append(@, k)]

NameIsTaken(name) == \E i \in DOMAIN measurements : measurements[i].name = name

(* MeasurementStore::unique_name: the first suffix nobody has.             *)
UniqueName(base) ==
  LET Free == {k \in 2..SuffixLimit - 1 : ~NameIsTaken(Numbered(base, k))}
  IN  IF ~NameIsTaken(base) \/ Free = {} THEN base
      ELSE Numbered(base, CHOOSE k \in Free : \A j \in Free : k <= j)

(* std::ranges::find by identifier: the first place that has it.           *)
Places(id) == {k \in DOMAIN measurements : measurements[k].id = id}

Place(id) == CHOOSE k \in Places(id) : \A j \in Places(id) : k <= j

(* MeasurementStore::get, of an identifier that is found.                  *)
Stored(id) == measurements[Place(id)]

(* MeasurementStore::remove, which leaves everything when it is not.       *)
Without(id) ==
  IF Places(id) = {} THEN measurements ELSE RemoveAt(measurements, Place(id))

TracesInit ==
  /\ measurements = <<>> /\ nextId = 1
  /\ display = <<>> /\ nextColour = 0
  /\ captured = <<>>

(* analyzer_trace_store_capture of a frame that is not empty.              *)
CaptureTrace(frame) ==
  \E asked \in NamesAsked :
    /\ measurements' = Append(measurements,
                              [id |-> nextId, name |-> UniqueName(Base(asked)), frame |-> frame])
    /\ nextId' = nextId + 1
    /\ display' = Append(display, [id |-> nextId, visible |-> TRUE, colour |-> nextColour])
    /\ nextColour' = nextColour + 1
    /\ captured' = Append(captured, [frame |-> frame, among |-> Len(display) + 1])

SetVisible ==
  /\ \E i \in DOMAIN display, visible \in BOOLEAN :
       display' = [display EXCEPT ![i].visible = visible]
  /\ UNCHANGED <<measurements, nextId, nextColour, captured>>

(* Mutant: the measurement at the trace's place goes, not the one it shows. *)
RemoveTraceByPlace ==
  /\ \E i \in DOMAIN display :
       /\ display' = RemoveAt(display, i)
       /\ measurements' = RemoveAt(measurements, Len(measurements))
       /\ captured' = RemoveAt(captured, i)
  /\ UNCHANGED <<nextId, nextColour>>

RemoveTrace ==
  /\ \E i \in DOMAIN display :
       /\ display' = RemoveAt(display, i)
       /\ measurements' = Without(display[i].id)
       /\ captured' = RemoveAt(captured, i)
  /\ UNCHANGED <<nextId, nextColour>>

(* Identifiers start again from 1; colours go on.                          *)
ClearTraces ==
  /\ display' = <<>> /\ measurements' = <<>> /\ captured' = <<>>
  /\ nextId' = 1
  /\ UNCHANGED nextColour

(* A trace shows the curve it was captured from, under an identifier and a *)
(* colour that no other trace has, and the store keeps nothing that is not *)
(* shown: through captures, removals in the middle and clears.  Its name   *)
(* is that of an older trace only if there were so many traces when it was *)
(* captured that the numbers could run out (traces.cpp:25-125,             *)
(* session.hpp:241, store.cpp:75-90).                                      *)
TracesAreWhatWasCaptured ==
  /\ Len(measurements) = Len(display)
  /\ \A i \in DOMAIN display :
       /\ Cardinality(Places(display[i].id)) = 1
       /\ Stored(display[i].id).frame = captured[i].frame
  /\ \A i, j \in DOMAIN display : i # j => display[i].colour # display[j].colour
  /\ \A i, j \in DOMAIN display :
       i < j /\ Stored(display[i].id).name = Stored(display[j].id).name =>
         captured[j].among >= SuffixLimit
================================================================================
