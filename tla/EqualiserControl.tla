---------------------------- MODULE EqualiserControl ----------------------------
(***************************************************************************)
(* The two equalisers of a session and the filters the audio thread runs   *)
(* (ffi/equaliser.cpp, dsp/eq.cpp, ffi/eq_processor.cpp).  The owner's     *)
(* thread edits whichever equaliser is active and publishes its designed   *)
(* sections after every edit; the callback takes the newest ones at the    *)
(* start of a block.  The channel between them is the register of          *)
(* LatestValue, which Snapshot implements.                                 *)
(*                                                                         *)
(* A band is its shape, place and gain; Q belongs to the place.  A section *)
(* is the design of a band.  Levels are whole decibels: the level at a     *)
(* place is the preamp and what the sections there add, and anywhere else  *)
(* the preamp.                                                             *)
(***************************************************************************)
EXTENDS Integers, Sequences, FiniteSets, SequencesExt, FiniteSetsExt

CONSTANTS
  OctaveCentres,    \* kOctaveCentres: the places of the graphic's bands
  Gains,            \* gains the owner may set, a set of integers
  BandChoices,      \* bands the owner may add or store
  MaxEqBands,       \* kMaxEqBands: sections the audio thread can run
  MostFilters,      \* the cap of dsp::validated on max_filters
  FiltersAsked      \* values of config.max_filters

FilterKinds == {"Peaking", "LowShelf", "HighShelf", "LowPass", "HighPass", "BandPass",
                "Notch", "AllPass"}

FilterBands == [kind : FilterKinds, hz : Int, gain : Int, enabled : BOOLEAN]

ASSUME EqualiserAssumption ==
  /\ Gains \subseteq Int /\ 0 \in Gains
  /\ BandChoices \subseteq FilterBands /\ OctaveCentres \in Seq(Int)
  /\ MaxEqBands \in Nat /\ MostFilters \in Nat /\ FiltersAsked \subseteq Nat
  /\ Len(OctaveCentres) <= MaxEqBands

VARIABLES
  eqMode,        \* AnalyzerSession::eq_mode
  equalisers,    \* AnalyzerSession::graphic and ::parametric
  generation,    \* AnalyzerSession::eq_generation
  coefficients,  \* the newest EqCoefficients published
  heard          \* EqProcessor: the filters the callback runs

eqVars == <<eqMode, equalisers, generation, coefficients, heard>>

EqModes == {"Off", "Graphic", "Parametric"}

UsesGain(kind) == kind \in {"Peaking", "LowShelf", "HighShelf"}

Transparent(b) == ~b.enabled \/ (UsesGain(b.kind) /\ b.gain = 0)

Identity == [kind |-> "Identity", hz |-> 0, gain |-> 0]

(* FilterBand::design: only three shapes use the gain. *)
Design(b) ==
  IF Transparent(b) THEN Identity
  ELSE [kind |-> b.kind, hz |-> b.hz,
        gain |-> IF UsesGain(b.kind) THEN b.gain ELSE 0]

DesignAll(bands) == [i \in DOMAIN bands |-> Design(bands[i])]

Peaking(hz, gain) == [kind |-> "Peaking", hz |-> hz, gain |-> gain, enabled |-> TRUE]

NewEqualiser(bands) == [bands |-> bands, sections |-> DesignAll(bands), preamp |-> 0]

(***************************************************************************)
(* dsp/eq.cpp: an equaliser keeps its sections beside its bands and every  *)
(* operation changes both.                                                 *)
(***************************************************************************)

(* Mutant: the band is stored and its section keeps the old design. *)
SetBandUndesigned(eq, i, b) == [eq EXCEPT !.bands[i] = b]

SetBand(eq, i, b) ==
  IF b = eq.bands[i] THEN eq
  ELSE [eq EXCEPT !.bands[i] = b, !.sections[i] = Design(b)]

SetGain(eq, i, gain) == SetBand(eq, i, [eq.bands[i] EXCEPT !.gain = gain])

PushBand(eq, b) ==
  [eq EXCEPT !.bands = Append(@, b), !.sections = Append(@, Design(b))]

RemoveBand(eq, i) ==
  [eq EXCEPT !.bands = RemoveAt(@, i), !.sections = RemoveAt(@, i)]

SetBands(eq, bands) == [eq EXCEPT !.bands = bands, !.sections = DesignAll(bands)]

(* Every gain to nothing and the preamp cleared; a band whose shape does   *)
(* not use its gain stays.                                                 *)
Flatten(eq) ==
  [SetBands(eq, [i \in DOMAIN eq.bands |-> [eq.bands[i] EXCEPT !.gain = 0]])
     EXCEPT !.preamp = 0]

SumOf(s) ==
  LET Upto[i \in 0..Len(s)] == IF i = 0 THEN 0 ELSE Upto[i - 1] + s[i]
  IN  Upto[Len(s)]

LevelAt(eq, hz) ==
  eq.preamp + SumOf([i \in DOMAIN eq.sections |->
                       IF eq.sections[i].hz = hz THEN eq.sections[i].gain ELSE 0])

(* peak_gain_db looks over the whole range, where most places have no band. *)
PeakGain(eq) ==
  Max({eq.preamp} \cup {LevelAt(eq, eq.sections[i].hz) : i \in DOMAIN eq.sections})

TrimToUnity(eq) ==
  IF PeakGain(eq) > 0 THEN [eq EXCEPT !.preamp = @ - PeakGain(eq)] ELSE eq

(***************************************************************************)
(* ffi/session.cpp and ffi/eq_processor.cpp: what is active, and what of   *)
(* it the audio thread is given.                                           *)
(***************************************************************************)

Active(mode, eqs) ==
  IF mode = "Off" THEN [sections |-> <<>>, preamp |-> 0] ELSE eqs[mode]

Lesser(a, b) == IF a <= b THEN a ELSE b

(* EqCoefficients::from_equaliser: designed afresh from the bands, and     *)
(* those beyond the array dropped.  An active mode only.                   *)
FromEqualiser(number, mode, eqs) ==
  LET bands == IF mode = "Off" THEN <<>> ELSE eqs[mode].bands
      count == Lesser(Len(bands), MaxEqBands)
  IN  [generation |-> number, count |-> count,
       trim |-> Active(mode, eqs).preamp,
       sections |-> [i \in 1..MaxEqBands |->
                       IF i <= count THEN Design(bands[i]) ELSE Identity]]

(* Equaliser::graphic. *)
FlatBands == [i \in DOMAIN OctaveCentres |-> Peaking(OctaveCentres[i], 0)]

EqInit ==
  /\ eqMode = "Off"
  /\ equalisers = [Graphic |-> NewEqualiser(FlatBands), Parametric |-> NewEqualiser(<<>>)]
  /\ generation = 0
  /\ coefficients = FromEqualiser(0, "Off", equalisers)
  /\ heard = coefficients

(* publish_eq, after the change of the mode or of an equaliser. *)
PublishEq ==
  /\ generation' = generation + 1
  /\ coefficients' = FromEqualiser(generation + 1, eqMode', equalisers')
  /\ UNCHANGED heard

SetEqMode(mode) == eqMode' = mode /\ UNCHANGED equalisers /\ PublishEq

(* The entry points refuse when no equaliser is active. *)
Edit(eq) ==
  /\ eqMode # "Off"
  /\ equalisers' = [equalisers EXCEPT ![eqMode] = eq]
  /\ UNCHANGED eqMode
  /\ PublishEq

ActiveEq == equalisers[eqMode]

EqSetBand ==
  /\ eqMode # "Off"
  /\ \E i \in DOMAIN ActiveEq.bands, b \in BandChoices : Edit(SetBand(ActiveEq, i, b))

EqSetGain ==
  /\ eqMode # "Off"
  /\ \E i \in DOMAIN ActiveEq.bands, g \in Gains : Edit(SetGain(ActiveEq, i, g))

EqAddBand ==
  /\ eqMode # "Off" /\ Len(ActiveEq.bands) < MaxEqBands
  /\ \E b \in BandChoices : Edit(PushBand(ActiveEq, b))

EqRemoveBand ==
  /\ eqMode # "Off"
  /\ \E i \in DOMAIN ActiveEq.bands : Edit(RemoveBand(ActiveEq, i))

EqFlatten == eqMode # "Off" /\ Edit(Flatten(ActiveEq))

EqTrim == eqMode # "Off" /\ Edit(TrimToUnity(ActiveEq))

EqSetPreamp ==
  /\ eqMode # "Off"
  /\ \E db \in Gains : Edit([ActiveEq EXCEPT !.preamp = db])

(* The bands a fit may end with: peaks, as many as were asked for and the  *)
(* fit allows, fewer when the residual falls under the threshold.          *)
Fits ==
  LET Peaks == {b \in BandChoices : b.kind = "Peaking" /\ ~Transparent(b)}
      Limits == {Lesser(asked, MostFilters) : asked \in FiltersAsked}
  IN  UNION {[1..n -> Peaks] : n \in UNION {0..limit : limit \in Limits}}

(* The end of analyzer_session_optimise: the fit replaces the parametric's *)
(* bands, leaves its preamp, and is selected.                              *)
AdoptFit(bands) ==
  /\ eqMode' = "Parametric"
  /\ equalisers' = [equalisers EXCEPT !.Parametric = SetBands(@, bands)]
  /\ PublishEq

(* EqProcessor::process takes what is new; only coefficients are copied.   *)
EqProcess ==
  /\ coefficients.generation # heard.generation
  /\ heard' = coefficients
  /\ UNCHANGED <<eqMode, equalisers, generation, coefficients>>

(***************************************************************************)
(* Properties.                                                             *)
(***************************************************************************)

(* Once the callback has caught up, the filters it runs are the sections   *)
(* the plot's curve is computed from (copy_eq_curve, session.cpp:167): an  *)
(* edit that is shown is heard, and nothing of another equaliser is.  "The *)
(* backstop" (eq_processor.hpp:36) is what of a fit is beyond the array,   *)
(* shown and not heard, and only of the parametric equaliser.              *)
HeardIsShown ==
  heard.generation = generation =>
    LET shown == Active(eqMode, equalisers)
    IN  /\ heard.trim = shown.preamp
        /\ heard.count = Lesser(Len(shown.sections), MaxEqBands)
        /\ \A i \in 1..heard.count : heard.sections[i] = shown.sections[i]
        /\ heard.count < Len(shown.sections) => eqMode = "Parametric"
================================================================================
