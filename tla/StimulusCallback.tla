---------------------------- MODULE StimulusCallback ----------------------------
(***************************************************************************)
(* The audio callback of a session, one block of frames at a time          *)
(* (ffi/stimulus_callback.cpp): the stimulus is generated, equalised,      *)
(* played, and, for an internal reference, appended to what the device     *)
(* heard before the block goes into the ring.                              *)
(*                                                                         *)
(* The UI thread may store another stimulus field by field, or publish     *)
(* other coefficients, between any two steps: the stimulus comes over as   *)
(* SignalHandoff has it, two loads of the generation and the fields one at *)
(* a time; the coefficients arrive whole (Snapshot).  The ring is its free *)
(* space and the frames it has taken.  A frame is the number of a frame    *)
(* the device delivered; a sample of the stimulus is the signal it belongs *)
(* to, the generation it was generated under, its position in the signal,  *)
(* and the coefficients it was filtered with.                              *)
(***************************************************************************)
EXTENDS SignalHandoff, Integers, Sequences

CONSTANTS
  MaxFrames,          \* kMaxCallbackFrames
  CapacityFrames,     \* ring_capacity_frames
  BlockSizes,         \* frames the device hands over at a time
  MaxPublished,       \* bound: coefficients published
  MaxOffered          \* bound: frames the device delivers

ASSUME CallbackAssumption ==
  /\ MaxFrames \in Nat \ {0} /\ CapacityFrames \in Nat \ {0}
  /\ BlockSizes \subseteq Nat \ {0}
  /\ MaxPublished \in Nat /\ MaxOffered \in Nat

VARIABLES
  playing,            \* an output stream was opened
  internalReference,  \* the stimulus is captured as one more channel
  coefficients,  \* the newest EqCoefficients::generation
  step,          \* where the callback is in process()
  blockFrames,   \* frames of the device's block
  position,      \* Generator::position_
  stimulus,      \* stimulus_, the samples of this block
  used,          \* frames waiting in the ring
  overruns,      \* blocks the ring refused
  offered,       \* history: frames the device has delivered
  captured,      \* history: the frames the ring has accepted
  played         \* history: the sample played with each frame

sessionVars == <<playing, internalReference>>
blockVars == <<step, blockFrames, position, stimulus>>
ringVars == <<used, overruns, captured>>
streamVars == <<sessionVars, blockVars, ringVars, offered, played>>
vars == <<handoffVars, coefficients, streamVars>>

Silent == [signal |-> NothingLoaded, generation |-> -1, at |-> 0, filter |-> 0]
(* Whatever the buffer held. *)
Stale == [signal |-> NothingLoaded, generation |-> -2, at |-> 0, filter |-> 0]

Lesser(a, b) == IF a <= b THEN a ELSE b

(* An internal reference without a stimulus is refused (choose_mode).       *)
Init == /\ HandoffInit
        /\ playing \in BOOLEAN /\ internalReference \in BOOLEAN
        /\ internalReference => playing
        /\ coefficients = 0
        /\ step = "idle" /\ blockFrames = 0
        /\ position = 0 /\ stimulus = <<>>
        /\ used = 0 /\ overruns = 0
        /\ offered = 0 /\ captured = <<>> /\ played = <<>>

--------------------------------------------------------------------------------
(* The UI thread, and the worker that drains the ring. *)

ChangeSignal == Setter /\ UNCHANGED <<coefficients, streamVars>>

PublishEq ==
  /\ coefficients < MaxPublished
  /\ coefficients' = coefficients + 1
  /\ UNCHANGED <<handoffVars, streamVars>>

Drain ==
  /\ used > 0
  /\ used' = 0
  /\ UNCHANGED <<handoffVars, coefficients, sessionVars, blockVars, overruns,
                 captured, offered, played>>

--------------------------------------------------------------------------------
(* The callback. *)

(* Frames processed of a block: clamped, not trusted. *)
Frames == Lesser(blockFrames, MaxFrames)

(* A block arrives, and the generation is loaded to see whether the signal  *)
(* has changed.                                                             *)
Begin ==
  /\ step = "idle"
  /\ \E n \in BlockSizes :
       /\ offered + n <= MaxOffered
       /\ blockFrames' = n
  /\ IF Changed THEN SeeChange ELSE UNCHANGED handoffVars
  /\ step' = "arrived"
  /\ UNCHANGED <<coefficients, sessionVars, position, stimulus, ringVars, offered,
                 played>>

(* It has: the generation is loaded again, and the fields behind it. *)
Load ==
  /\ step = "arrived"
  /\ TakeGeneration \/ \E f \in SweepFields : LoadField(f)
  /\ UNCHANGED <<coefficients, streamVars>>

(* Mutant: a new signal goes on where the last one was. *)
NotReset == position

Beginning == 0

(* Generator::set_signal. *)
SetSignal ==
  /\ step = "arrived"
  /\ Restart
  /\ position' = Beginning
  /\ UNCHANGED <<coefficients, sessionVars, step, blockFrames, stimulus, ringVars,
                 offered, played>>

(* Without an output stream the stimulus is zeros and nothing is generated. *)
FillStimulus ==
  /\ step = "arrived" /\ callback = "playing"
  /\ IF playing
       THEN /\ stimulus' = [i \in 1..Frames |->
                 [signal |-> signal, generation |-> seen, at |-> position + i - 1,
                  filter |-> 0]]
            /\ position' = position + Frames
       ELSE /\ stimulus' = [i \in 1..Frames |-> Silent]
            /\ UNCHANGED position
  /\ step' = "filled"
  /\ UNCHANGED <<handoffVars, coefficients, sessionVars, blockFrames, ringVars,
                 offered, played>>

(* EqProcessor::process: the newest coefficients, for the whole block. *)
Equalise ==
  /\ step = "filled"
  /\ stimulus' = IF playing
                   THEN [i \in DOMAIN stimulus |->
                           [stimulus[i] EXCEPT !.filter = coefficients]]
                   ELSE stimulus
  /\ step' = "equalised"
  /\ UNCHANGED <<handoffVars, coefficients, sessionVars, blockFrames, position,
                 ringVars, offered, played>>

(* Mutant: the playback buffer is not silenced first. *)
Unsilenced == [i \in 1..blockFrames |-> Stale]

Silenced == [i \in 1..blockFrames |-> Silent]

(* What the device is given: silence, then as much stimulus as there is.    *)
Output == [i \in 1..blockFrames |->
             IF playing /\ i <= Len(stimulus) THEN stimulus[i] ELSE Silenced[i]]

Play ==
  /\ step = "equalised"
  /\ played' = played \o Output
  /\ step' = "played"
  /\ UNCHANGED <<handoffVars, coefficients, sessionVars, blockFrames, position,
                 stimulus, ringVars, offered>>

(* Mutant: the reference is taken from before the equaliser. *)
BeforeEqualiser(i) == [stimulus[i] EXCEPT !.filter = 0]

Spliced(i) == stimulus[i]

(* What goes into the ring: the device's frames with the stimulus beside    *)
(* them, or the device's buffer as it came, oversized or not.               *)
Block ==
  IF internalReference
    THEN [i \in 1..Frames |-> [heard |-> offered + i, reference |-> Spliced(i)]]
    ELSE [i \in 1..blockFrames |-> [heard |-> offered + i, reference |-> Silent]]

Fits == used + Len(Block) <= CapacityFrames

(* write_interleaved: the whole block, or none of it. *)
Write ==
  /\ step = "played"
  /\ IF Fits
       THEN /\ used' = used + Len(Block)
            /\ captured' = captured \o Block
            /\ UNCHANGED overruns
       ELSE overruns' = overruns + 1 /\ UNCHANGED <<used, captured>>
  /\ offered' = offered + blockFrames
  /\ step' = "idle"
  /\ blockFrames' = 0
  /\ stimulus' = <<>>
  /\ UNCHANGED <<handoffVars, coefficients, sessionVars, position, played>>

--------------------------------------------------------------------------------
Next == \/ ChangeSignal \/ PublishEq \/ Drain
        \/ Begin \/ Load \/ SetSignal \/ FillStimulus \/ Equalise \/ Play \/ Write

Spec == Init /\ [][Next]_vars

--------------------------------------------------------------------------------
TypeOK ==
  /\ HandoffTypeOK
  /\ playing \in BOOLEAN /\ internalReference \in BOOLEAN
  /\ coefficients \in 0..MaxPublished
  /\ step \in {"idle", "arrived", "filled", "equalised", "played"}
  /\ blockFrames \in BlockSizes \cup {0}
  /\ Len(stimulus) = IF step = "arrived" THEN 0 ELSE Frames
  /\ position \in 0..(MaxOffered + MaxFrames)
  /\ used \in 0..CapacityFrames /\ overruns \in Nat
  /\ offered \in 0..MaxOffered
  /\ Len(played) = offered + (IF step = "played" THEN blockFrames ELSE 0)

(* "The reference channel carries what was actually played": whatever was   *)
(* changed while a block was processed, and whatever was dropped before it, *)
(* the reference beside a captured frame is the sample played with it.      *)
ReferenceIsPlayed ==
  internalReference =>
    \A k \in DOMAIN captured :
      captured[k].reference = played[captured[k].heard]

(* Nothing left over in a playback buffer is ever heard. *)
NothingStalePlayed == \A k \in DOMAIN played : played[k] # Stale

(* Of two samples played one after the other, with at most silence between *)
(* them: within a generation the signal is one and goes on; a later         *)
(* generation starts its own at the beginning.                              *)
Follows(later, earlier) ==
  IF later.generation = earlier.generation
    THEN later.signal = earlier.signal /\ later.at = earlier.at + 1
    ELSE later.generation > earlier.generation /\ later.at = 0

(* A generation, once it plays, is one unbroken pass: no generation is gone *)
(* back to, and none plays a field older than itself.  A sweep that was     *)
(* loaded while it was still being stored may have begun under an earlier   *)
(* generation; from the moment its own is seen it is played once, from its  *)
(* beginning, whatever is chosen or delivered around it.                    *)
PlayedUnbroken ==
  /\ \A j, k \in DOMAIN played :
       /\ (j < k /\ \A i \in (j + 1)..(k - 1) : played[i] = Silent)
       /\ played[j] # Silent /\ played[k] # Silent
       => Follows(played[k], played[j])
  /\ \A k \in DOMAIN played :
       played[k] # Silent => Behind(played[k].generation, played[k].signal)
================================================================================
