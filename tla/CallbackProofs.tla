--------------------------- MODULE CallbackProofs ---------------------------
(***************************************************************************)
(* Proofs about the audio callback, from every side of it.                 *)
(*                                                                         *)
(* The UI thread's side (SignalHandoff), for any fields and any number of  *)
(* calls: a generation seen is a generation written, and a torn signal is  *)
(* always reloaded.                                                        *)
(*                                                                         *)
(* The session's side (StimulusCallback), for any block sizes, any scratch,*)
(* any ring and any number of changes: where the last sample played        *)
(* belongs is what the next block has to follow, so the invariant keeps    *)
(* three things in step, the generator's position, the block in the        *)
(* making, and the newest sample that was not silence.                     *)
(*                                                                         *)
(* The device's side (DeviceBuffers), for any list of buffers of any       *)
(* number of channels and samples, with or without memory: channels number *)
(* straight through a list, so each is in one buffer and each sample of a  *)
(* list is one channel's in one frame.  What is gathered and scattered     *)
(* through that numbering is then what was recorded and written.           *)
(***************************************************************************)
EXTENDS StimulusCallback, DeviceBuffers, Arithmetic, FiniteSetTheorems,
        SequenceTheorems, TLAPS

--------------------------------------------------------------------------------
(* The stimulus handoff. *)


(* What the fields hold while a call is storing them. *)
FieldsInv ==
  /\ Behind(generation, fields)
  /\ NothingAfter(calls, fields)
  /\ setter = "storing" =>
       \A f \in SweepFields \ unstored : Stores(calls, f) => fields[f] = calls

(* What signal() has loaded is no older than the generation loaded first,   *)
(* and no newer than the call in progress.                                  *)
LoadedInv ==
  callback = "loading" =>
    \A f \in DOMAIN loaded :
      /\ \A c \in 1..taken : Stores(c, f) => loaded[f] >= c
      /\ loaded[f] \in 0..calls

SignalInv == Behind(seen, signal) /\ NothingAfter(calls, signal)

HandoffInv == HandoffTypeOK /\ FieldsInv /\ LoadedInv /\ SignalInv

LEMMA HandoffInitially == HandoffInit => HandoffInv
  BY HandoffAssumption
     DEF HandoffInit, NothingLoaded, HandoffInv, HandoffTypeOK, FieldsInv, LoadedInv, SignalInv,
         Behind, NothingAfter

(* Beginning a call adds a number no earlier call has. *)
LEMMA SetKeeps ==
  ASSUME HandoffInv, BeginSet \/ BeginSetSweep
  PROVE  HandoffInv'
  <1> USE DEF HandoffInv, callbackVars
  <1>1. /\ setter = "idle" /\ calls = generation /\ calls < MaxCalls
        /\ calls' = calls + 1 /\ setter' = "storing"
        /\ generation' = generation /\ fields' = fields
        /\ sweeps \subseteq sweeps' /\ sweeps' \subseteq sweeps \cup {calls + 1}
        /\ unstored' \in {SteadyFields, SweepFields}
        /\ unstored' = SteadyFields => sweeps' = sweeps
        /\ UNCHANGED callbackVars
    <2>1. calls = generation
      BY BeginSet \/ BeginSetSweep, HandoffAssumption DEF BeginSet, BeginSetSweep, HandoffTypeOK
    <2>2. CASE BeginSet
      BY <2>1, <2>2 DEF BeginSet
    <2>3. CASE BeginSetSweep
      <3>1. SteadyFields # SweepFields
        BY HandoffAssumption
      <3> QED BY <2>1, <2>3, <3>1 DEF BeginSetSweep
    <2> QED BY <2>2, <2>3
  <1>2. HandoffTypeOK'
    <2>1. generation' \in 0..MaxCalls /\ calls' \in 0..MaxCalls
      BY <1>1, HandoffAssumption DEF HandoffTypeOK
    <2>2. sweeps' \subseteq 1..calls'
      BY <1>1, HandoffAssumption DEF HandoffTypeOK
    <2>3. unstored' \subseteq SweepFields
      BY <1>1, HandoffAssumption
    <2>4. calls' = generation' + (IF setter' = "storing" THEN 1 ELSE 0)
      BY <1>1
    <2> QED BY <1>1, <2>1, <2>2, <2>3, <2>4 DEF HandoffTypeOK
  <1>3. \A c \in 1..calls, f \in SweepFields : Stores(c, f)' <=> Stores(c, f)
    BY <1>1 DEF Stores, HandoffTypeOK
  <1>4. FieldsInv'
    <2>1. Behind(generation, fields)'
      BY <1>1, <1>3 DEF FieldsInv, Behind
    <2>2. NothingAfter(calls, fields)'
      BY <1>1, HandoffAssumption DEF FieldsInv, NothingAfter, HandoffTypeOK
    <2>3. ASSUME NEW f \in SweepFields \ unstored'
          PROVE  ~(f \in SteadyFields \/ calls' \in sweeps')
      <3>1. unstored' = SteadyFields /\ sweeps' = sweeps
        BY <1>1, <2>3
      <3>2. calls' \notin sweeps
        BY <1>1, HandoffAssumption DEF HandoffTypeOK
      <3> QED BY <2>3, <3>1, <3>2
    <2> QED BY <2>1, <2>2, <2>3 DEF FieldsInv, Stores
  <1>5. LoadedInv'
    BY <1>1, <1>3, HandoffAssumption DEF LoadedInv, HandoffTypeOK
  <1>6. SignalInv'
    BY <1>1, <1>3, HandoffAssumption DEF SignalInv, Behind, NothingAfter, HandoffTypeOK
  <1> QED BY <1>2, <1>4, <1>5, <1>6

LEMMA StoreKeeps ==
  ASSUME HandoffInv, NEW f \in SweepFields, StoreField(f)
  PROVE  HandoffInv'
  <1> USE DEF HandoffInv, StoreField, callbackVars
  <1>1. calls \in Nat /\ generation \in Nat /\ calls = generation + 1
    BY HandoffAssumption DEF HandoffTypeOK
  <1>2. \A g \in SweepFields :
          fields'[g] = IF g = f THEN calls ELSE fields[g]
    BY DEF HandoffTypeOK
  <1>3. HandoffTypeOK'
    BY DEF HandoffTypeOK
  <1>4. FieldsInv'
    <2>1. Behind(generation, fields)'
      BY <1>1, <1>2 DEF FieldsInv, Behind, Stores
    <2>2. NothingAfter(calls, fields)'
      BY <1>1, <1>2 DEF FieldsInv, NothingAfter
    <2> QED BY <1>2, <2>1, <2>2 DEF FieldsInv, Stores
  <1>5. LoadedInv' /\ SignalInv'
    BY DEF LoadedInv, SignalInv, Behind, NothingAfter, Stores
  <1> QED BY <1>3, <1>4, <1>5

(* All the fields of the call are in place when its number becomes public. *)
LEMMA BumpKeeps ==
  ASSUME HandoffInv, BumpGeneration
  PROVE  HandoffInv'
  <1> USE DEF HandoffInv, BumpGeneration, AllStored, Bumped, callbackVars
  <1>1. calls \in 0..MaxCalls /\ generation \in Nat /\ calls = generation + 1
    BY HandoffAssumption DEF HandoffTypeOK
  <1>2. HandoffTypeOK'
    BY <1>1, HandoffAssumption DEF HandoffTypeOK
  <1>3. FieldsInv'
    <2>1. ASSUME NEW f \in SweepFields, NEW c \in 1..(generation + 1), Stores(c, f)
          PROVE  fields[f] >= c
      <3>1. CASE c \in 1..generation
        BY <2>1, <3>1 DEF FieldsInv, Behind
      <3>2. CASE c = calls
        BY <1>1, <2>1, <3>2 DEF FieldsInv
      <3> QED BY <1>1, <3>1, <3>2
    <2> QED BY <2>1 DEF FieldsInv, Behind, NothingAfter, Stores
  <1>4. LoadedInv' /\ SignalInv'
    BY DEF LoadedInv, SignalInv, Behind, NothingAfter, Stores
  <1> QED BY <1>2, <1>3, <1>4

LEMMA LoadKeeps ==
  ASSUME HandoffInv, NEW f \in SweepFields, LoadField(f)
  PROVE  HandoffInv'
  <1> USE DEF HandoffInv, LoadField, setterVars
  <1>1. DOMAIN loaded' = DOMAIN loaded \cup {f}
    OBVIOUS
  <1>2. \A g \in DOMAIN loaded' : loaded'[g] = IF g = f THEN fields[f] ELSE loaded[g]
    OBVIOUS
  <1>3. HandoffTypeOK'
    <2>1. fields[f] \in 0..MaxCalls
      BY DEF HandoffTypeOK
    <2>2. loaded' \in [DOMAIN loaded \cup {f} -> 0..MaxCalls]
      BY <2>1 DEF HandoffTypeOK
    <2> QED BY <1>1, <2>2 DEF HandoffTypeOK
  <1>4. /\ \A c \in 1..taken : Stores(c, f) => fields[f] >= c
        /\ fields[f] \in 0..calls
    BY HandoffAssumption DEF FieldsInv, Behind, NothingAfter, HandoffTypeOK
  <1>5. LoadedInv'
    BY <1>1, <1>2, <1>4 DEF LoadedInv, Stores
  <1>6. FieldsInv' /\ SignalInv'
    BY DEF FieldsInv, SignalInv, Behind, NothingAfter, Stores
  <1> QED BY <1>3, <1>5, <1>6

LEMMA RestartKeeps ==
  ASSUME HandoffInv, Restart
  PROVE  HandoffInv'
  <1> USE DEF HandoffInv, Restart, setterVars
  <1>1. \A f \in SweepFields : loaded[f] \in 0..calls
    BY DEF LoadedInv
  <1>2. Behind(taken, loaded) /\ NothingAfter(calls, loaded)
    BY <1>1, HandoffAssumption DEF LoadedInv, Behind, NothingAfter, HandoffTypeOK
  <1>3. FieldsInv' /\ LoadedInv'
    BY DEF FieldsInv, LoadedInv, Behind, NothingAfter, Stores
  <1>4. SignalInv'
    BY <1>2 DEF SignalInv, Behind, NothingAfter, Stores
  <1>5. HandoffTypeOK'
    BY DEF HandoffTypeOK
  <1> QED BY <1>3, <1>4, <1>5

--------------------------------------------------------------------------------
LEMMA HandoffStep == HandoffInv /\ [HandoffNext]_handoffVars => HandoffInv'
  <1> SUFFICES ASSUME HandoffInv, [HandoffNext]_handoffVars PROVE HandoffInv'
    OBVIOUS
  <1>1. CASE Setter
    BY <1>1, SetKeeps, StoreKeeps, BumpKeeps DEF Setter
  <1>2. CASE SeeChange \/ TakeGeneration
    <2> USE DEF SeeChange, TakeGeneration, setterVars, HandoffInv
    <2>1. HandoffTypeOK'
      <3>1. DOMAIN NothingLoaded = {} /\ NothingLoaded \in [{} -> 0..MaxCalls]
        BY DEF NothingLoaded
      <3>2. CASE SeeChange
        BY <3>2 DEF HandoffTypeOK
      <3>3. CASE TakeGeneration
        <4>1. taken' \in 0..generation'
          BY <3>3, HandoffAssumption DEF HandoffTypeOK
        <4>2. DOMAIN loaded' \subseteq SweepFields /\ loaded' \in [DOMAIN loaded' -> 0..MaxCalls]
          BY <3>1, <3>3
        <4> QED BY <3>3, <4>1, <4>2 DEF HandoffTypeOK
      <3> QED BY <1>2, <3>2, <3>3
    <2>2. FieldsInv' /\ SignalInv'
      BY <1>2 DEF FieldsInv, SignalInv, Behind, NothingAfter, Stores
    <2>3. LoadedInv'
      BY <1>2 DEF LoadedInv, NothingLoaded, Stores
    <2> QED BY <2>1, <2>2, <2>3
  <1>3. CASE (\E f \in SweepFields : LoadField(f)) \/ Restart
    BY <1>3, LoadKeeps, RestartKeeps
  <1>4. CASE UNCHANGED handoffVars
    BY <1>4 DEF handoffVars, setterVars, callbackVars, HandoffInv, HandoffTypeOK, FieldsInv,
                LoadedInv, SignalInv, Behind, NothingAfter, Stores
  <1> QED BY <1>1, <1>2, <1>3, <1>4 DEF HandoffNext, Callback

LEMMA HandoffInvariance == HandoffSpec => []HandoffInv
  BY HandoffInitially, HandoffStep, PTL DEF HandoffSpec

(* The generation counts the calls that have returned (set, set_sweep).     *)
THEOREM HandoffTypeCorrect == HandoffSpec => []HandoffTypeOK
  <1>1. HandoffInv => HandoffTypeOK
    BY DEF HandoffInv
  <1> QED BY <1>1, HandoffInvariance, PTL

(* What the generator plays is at least as new as the generation the        *)
(* callback has noted, field by field (StimulusCallback::process).          *)
THEOREM SeenIsAlwaysWritten == HandoffSpec => []SeenIsWritten
  <1>1. HandoffInv => SeenIsWritten
    BY DEF HandoffInv, SignalInv, SeenIsWritten
  <1> QED BY <1>1, HandoffInvariance, PTL

(* A signal read in the middle of a later call is always reloaded.          *)
THEOREM TornIsAlwaysTemporary == HandoffSpec => []TornIsTemporary
  <1>1. ASSUME HandoffInv PROVE TornIsTemporary
    <2>1. SUFFICES ASSUME ~NothingAfter(seen, signal), generation = seen,
                          setter # "storing"
                   PROVE  FALSE
      BY DEF TornIsTemporary
    <2>2. calls = seen
      BY <1>1, <2>1, HandoffAssumption DEF HandoffInv, HandoffTypeOK
    <2> QED BY <1>1, <2>1, <2>2 DEF HandoffInv, SignalInv
  <1> QED BY <1>1, HandoffInvariance, PTL

-----------------------------------------------------------------------------
(* The session's side. *)

Signals == [SweepFields -> 0..MaxCalls] \cup {NothingLoaded}

Sample == [signal : Signals, generation : Int, at : Int, filter : Int]

Captured == [heard : Nat, reference : Sample]

(* The block has been filled, and has not been handed to the ring. *)
IsFilled == step \in {"filled", "equalised", "played"}

(* Where the block in the making starts in its signal. *)
From == position - Frames

(* Where the next sample to be played is in its signal. *)
Due == IF step \in {"filled", "equalised"} THEN From ELSE position

StateInv ==
  /\ playing \in BOOLEAN /\ internalReference \in BOOLEAN
  /\ internalReference => playing
  /\ coefficients \in 0..MaxPublished
  /\ step \in {"idle", "arrived", "filled", "equalised", "played"}
  /\ blockFrames \in BlockSizes \cup {0}
  /\ blockFrames = 0 <=> step = "idle"
  /\ position \in Nat
  /\ position <= offered + (IF IsFilled THEN blockFrames ELSE 0)
  /\ used \in 0..CapacityFrames /\ overruns \in Nat
  /\ offered \in Nat /\ offered + blockFrames <= MaxOffered
  /\ stimulus \in Seq(Sample)
  /\ Len(stimulus) = IF IsFilled THEN Frames ELSE 0
  /\ captured \in Seq(Captured)
  /\ played \in Seq(Sample)
  /\ Len(played) = offered + (IF step = "played" THEN blockFrames ELSE 0)

(* The signal is reloaded at the top of process(), and only for a generation *)
(* later than the one that plays.                                            *)
ReloadInv ==
  /\ callback # "playing" => step = "arrived"
  /\ callback = "changed" => generation > seen
  /\ callback = "loading" => taken > seen

(* The block in the making is the next samples of the signal last loaded. *)
StimulusInv ==
  IsFilled =>
    \A i \in 1..Frames :
      IF playing
        THEN /\ stimulus[i].generation = seen /\ stimulus[i].signal = signal
             /\ stimulus[i].at = From + i - 1
        ELSE stimulus[i] = Silent

(* What was played is silence, or a sample of a generation already seen and  *)
(* no older than that generation.                                            *)
PlayedInv ==
  \A k \in 1..Len(played) :
    \/ played[k] = Silent
    \/ /\ playing /\ played[k].generation \in 0..seen
       /\ Behind(played[k].generation, played[k].signal)

(* The newest sample played that is not silence is the one before the next  *)
(* to be played, or of an earlier generation and the next starts its own.   *)
Newest(k) == /\ played[k] # Silent
             /\ \A i \in (k + 1)..Len(played) : played[i] = Silent

TailInv ==
  \A k \in 1..Len(played) : Newest(k) =>
    IF played[k].generation = seen
      THEN played[k].signal = signal /\ Due = played[k].at + 1
      ELSE Due = 0

(* A captured frame was heard, and its reference was played with it; so was *)
(* the block about to be captured.                                          *)
ReferenceInv ==
  /\ \A k \in 1..Len(captured) :
       /\ captured[k].heard \in 1..offered
       /\ internalReference => captured[k].reference = played[captured[k].heard]
  /\ step = "played" /\ playing =>
       \A i \in 1..Frames : played[offered + i] = stimulus[i]

(* PlayedUnbroken over positions. *)
UnbrokenInv ==
  \A j, k \in 1..Len(played) :
    /\ (j < k /\ \A i \in (j + 1)..(k - 1) : played[i] = Silent)
    /\ played[j] # Silent /\ played[k] # Silent
    => Follows(played[k], played[j])

IInv == /\ HandoffInv /\ StateInv /\ ReloadInv /\ StimulusInv /\ PlayedInv
        /\ TailInv /\ ReferenceInv /\ UnbrokenInv

--------------------------------------------------------------------------------
LEMMA BlockSizesAre ==
  /\ MaxFrames \in Nat \ {0} /\ CapacityFrames \in Nat \ {0} /\ MaxPublished \in Nat
  /\ MaxOffered \in Nat /\ \A n \in BlockSizes : n \in Nat \ {0}
  BY CallbackAssumption

(* A block has at least one frame, and no more than either limit. *)
LEMMA LesserIs ==
  ASSUME NEW n \in Nat
  PROVE  /\ Lesser(n, MaxFrames) \in 0..n
         /\ n # 0 => Lesser(n, MaxFrames) # 0
  BY BlockSizesAre DEF Lesser

LEMMA FramesAre ==
  ASSUME StateInv
  PROVE  /\ blockFrames \in Nat /\ Frames \in 0..blockFrames
         /\ step # "idle" => Frames # 0
  <1>1. blockFrames \in Nat
    BY BlockSizesAre DEF StateInv
  <1>2. step # "idle" => blockFrames # 0
    BY DEF StateInv
  <1> QED BY <1>1, <1>2, LesserIs DEF Frames

LEMMA GenerationsAre ==
  ASSUME HandoffInv
  PROVE  /\ generation \in Nat /\ calls \in Nat /\ generation <= calls
         /\ seen \in 0..generation /\ taken \in 0..generation
         /\ signal \in Signals /\ Behind(seen, signal)
  BY HandoffAssumption DEF HandoffInv, HandoffTypeOK, SignalInv, Signals

LEMMA SilentIsSample == Silent \in Sample /\ Silent.generation = -1
  BY DEF Silent, Sample, Signals

LEMMA StaleIsNot == Stale.generation = -2 /\ Stale # Silent
  BY DEF Silent, Stale

(* A sequence from the function that lists it. *)
LEMMA SequenceOf ==
  ASSUME NEW S, NEW n \in Nat, NEW f \in [1..n -> S]
  PROVE  f \in Seq(S) /\ Len(f) = n /\ DOMAIN f = 1..n
  OBVIOUS

(* Every step is one of the handoff's, or leaves it alone. *)
LEMMA HandoffMoves == [Next]_vars => [HandoffNext]_handoffVars
  BY DEF Next, vars, ChangeSignal, PublishEq, Drain, Begin, Load, SetSignal, FillStimulus,
         Equalise, Play, Write, HandoffNext, Callback

LEMMA HandoffKept == IInv /\ [Next]_vars => HandoffInv'
  BY HandoffMoves, HandoffStep DEF IInv

(* Which calls store which fields is settled once they have begun. *)
LEMMA StoresStay ==
  ASSUME HandoffInv, [HandoffNext]_handoffVars
  PROVE  \A c \in 1..generation, f \in SweepFields : Stores(c, f)' <=> Stores(c, f)
  <1>1. CASE BeginSetSweep
    <2>1. calls + 1 \notin 1..generation
      BY GenerationsAre
    <2> QED BY <1>1, <2>1 DEF BeginSetSweep, Stores
  <1>2. CASE ~BeginSetSweep
    <2>1. sweeps' = sweeps
      BY <1>2 DEF HandoffNext, Setter, Callback, BeginSet, StoreField, BumpGeneration, SeeChange,
                  TakeGeneration, LoadField, Restart, handoffVars, setterVars
    <2> QED BY <2>1 DEF Stores
  <1> QED BY <1>1, <1>2

LEMMA InitHolds == Init => IInv
  <1> SUFFICES ASSUME Init PROVE IInv
    OBVIOUS
  <1>0. Frames = 0 /\ Len(played) = 0 /\ Len(captured) = 0
    BY BlockSizesAre DEF Init, Frames, Lesser
  <1>1. StateInv
    BY <1>0, BlockSizesAre DEF Init, StateInv, IsFilled
  <1>2. StimulusInv /\ PlayedInv /\ UnbrokenInv
    BY <1>0 DEF StimulusInv, PlayedInv, UnbrokenInv
  <1>3. TailInv /\ ReferenceInv
    BY <1>0 DEF TailInv, ReferenceInv, Init
  <1>4. HandoffInv /\ ReloadInv
    BY HandoffInitially DEF Init, HandoffInit, ReloadInv
  <1> QED BY <1>1, <1>2, <1>3, <1>4 DEF IInv

(* What was played stays behind its generation, whatever is chosen after it. *)
LEMMA PlayedStays ==
  ASSUME IInv, [Next]_vars, UNCHANGED <<playing, played>>, seen <= seen', seen' \in Nat
  PROVE  PlayedInv'
  <1> SUFFICES ASSUME NEW k \in 1..Len(played), played[k] # Silent
               PROVE  /\ playing /\ played[k].generation \in 0..(seen')
                      /\ Behind(played[k].generation, played[k].signal)'
    BY DEF PlayedInv
  <1> DEFINE g == played[k].generation
  <1>1. playing /\ g \in 0..seen /\ Behind(g, played[k].signal)
    BY DEF IInv, PlayedInv
  <1>2. seen \in 0..generation /\ generation \in Nat
    BY GenerationsAre DEF IInv
  <1>3. 1..g \subseteq 1..generation
    BY <1>1, <1>2
  <1>4. \A c \in 1..generation, f \in SweepFields : Stores(c, f)' <=> Stores(c, f)
    BY HandoffMoves, StoresStay DEF IInv
  <1>5. Behind(g, played[k].signal)'
    BY <1>1, <1>3, <1>4, played' = played DEF Behind
  <1> QED BY <1>1, <1>2, <1>5

(* What a step away from the callback leaves alone. *)
LEMMA Undisturbed ==
  ASSUME IInv, [Next]_vars, UNCHANGED <<callback, taken, seen, signal, sessionVars, blockVars,
                                        captured, offered, played>>,
         generation <= generation'
  PROVE  /\ HandoffInv' /\ ReloadInv' /\ StimulusInv' /\ PlayedInv' /\ TailInv'
         /\ ReferenceInv' /\ UnbrokenInv'
  <1> USE DEF IInv, sessionVars, blockVars
  <1>1. HandoffInv'
    BY HandoffKept
  <1>2. ReloadInv'
    BY <1>1, GenerationsAre DEF ReloadInv, HandoffInv, HandoffTypeOK
  <1>3. StimulusInv'
    BY DEF StimulusInv, From, Frames, IsFilled
  <1>4. PlayedInv'
    BY PlayedStays, GenerationsAre
  <1>5. TailInv'
    BY DEF TailInv, Newest, Due, From, Frames
  <1>6. ReferenceInv'
    BY DEF ReferenceInv, Frames
  <1>7. UnbrokenInv'
    BY DEF UnbrokenInv
  <1> QED BY <1>1, <1>2, <1>3, <1>4, <1>5, <1>6, <1>7

LEMMA ChangeSignalKeeps == IInv /\ ChangeSignal => IInv'
  <1> SUFFICES ASSUME IInv, ChangeSignal PROVE IInv'
    OBVIOUS
  <1>1. UNCHANGED callbackVars /\ generation <= generation'
    BY GenerationsAre DEF IInv, ChangeSignal, Setter, BeginSet, BeginSetSweep, StoreField,
       BumpGeneration, Bumped
  <1>2. StateInv'
    BY DEF IInv, StateInv, ChangeSignal, streamVars, sessionVars, blockVars, ringVars, Frames,
           IsFilled
  <1> QED BY <1>1, <1>2, Undisturbed
          DEF IInv, Next, ChangeSignal, callbackVars, streamVars, ringVars

LEMMA PublishEqKeeps == IInv /\ PublishEq => IInv'
  <1> SUFFICES ASSUME IInv, PublishEq PROVE IInv'
    OBVIOUS
  <1>1. coefficients' \in 0..MaxPublished
    BY BlockSizesAre DEF IInv, StateInv, PublishEq
  <1>2. StateInv'
    BY <1>1 DEF IInv, StateInv, PublishEq, streamVars, sessionVars, blockVars, ringVars, Frames,
                IsFilled
  <1>3. generation <= generation' /\ UNCHANGED <<callbackVars, streamVars>>
    BY GenerationsAre DEF IInv, PublishEq, handoffVars, setterVars
  <1> QED BY <1>2, <1>3, Undisturbed DEF IInv, Next, callbackVars, streamVars, ringVars

LEMMA DrainKeeps == IInv /\ Drain => IInv'
  <1> SUFFICES ASSUME IInv, Drain PROVE IInv'
    OBVIOUS
  <1>1. StateInv'
    BY BlockSizesAre DEF IInv, StateInv, Drain, sessionVars, blockVars, Frames, IsFilled
  <1>2. generation <= generation' /\ UNCHANGED callbackVars
    BY GenerationsAre DEF IInv, Drain, handoffVars, setterVars
  <1> QED BY <1>1, <1>2, Undisturbed DEF IInv, Next, Drain, callbackVars

LEMMA StutterKeeps == IInv /\ UNCHANGED vars => IInv'
  <1> SUFFICES ASSUME IInv, UNCHANGED vars PROVE IInv'
    OBVIOUS
  <1>1. StateInv'
    BY DEF IInv, StateInv, vars, streamVars, sessionVars, blockVars, ringVars, Frames, IsFilled
  <1>2. generation <= generation' /\ UNCHANGED <<callbackVars, streamVars>>
    BY GenerationsAre DEF IInv, vars, handoffVars, setterVars
  <1> QED BY <1>1, <1>2, Undisturbed DEF IInv, callbackVars, streamVars, ringVars

--------------------------------------------------------------------------------
(* The reload. *)

(* A block arrives; a change it sees is of a later generation. *)
LEMMA BeginKeeps == IInv /\ Begin => IInv'
  <1> SUFFICES ASSUME IInv, Begin PROVE IInv'
    OBVIOUS
  <1>1. PICK n \in BlockSizes : offered + n <= MaxOffered /\ blockFrames' = n
    BY DEF Begin
  <1>2. /\ step = "idle" /\ step' = "arrived" /\ n \in Nat \ {0}
        /\ UNCHANGED <<playing, internalReference, coefficients, position, stimulus, used,
                       overruns, captured, offered, played>>
    BY BlockSizesAre DEF Begin, sessionVars, ringVars
  <1>3. /\ UNCHANGED <<generation, taken, seen, signal>>
        /\ callback' = callback \/ (callback' = "changed" /\ generation # seen)
    BY DEF Begin, SeeChange, Changed, handoffVars, setterVars, callbackVars
  <1>4. HandoffInv'
    BY HandoffKept DEF Next
  <1>5. StateInv'
    BY <1>1, <1>2 DEF IInv, StateInv, IsFilled
  <1>6. ReloadInv'
    BY <1>2, <1>3, GenerationsAre DEF IInv, ReloadInv
  <1>7. StimulusInv' /\ ReferenceInv' /\ UnbrokenInv'
    BY <1>2 DEF IInv, StimulusInv, IsFilled, ReferenceInv, UnbrokenInv
  <1>8. PlayedInv'
    BY <1>2, <1>3, PlayedStays, GenerationsAre DEF Next, IInv
  <1>9. TailInv'
    BY <1>2, <1>3 DEF IInv, TailInv, Newest, Due
  <1> QED BY <1>4, <1>5, <1>6, <1>7, <1>8, <1>9 DEF IInv

LEMMA LoadBlockKeeps == IInv /\ Load => IInv'
  <1> SUFFICES ASSUME IInv, Load PROVE IInv'
    OBVIOUS
  <1>1. /\ step = "arrived" /\ UNCHANGED streamVars /\ coefficients' = coefficients
        /\ UNCHANGED <<generation, seen, signal>>
        /\ callback' = "loading"
        /\ \/ callback = "changed" /\ taken' = generation
           \/ callback = "loading" /\ taken' = taken
    BY DEF Load, TakeGeneration, LoadField, setterVars
  <1>2. HandoffInv'
    BY HandoffKept DEF Next
  <1>3. StateInv'
    BY <1>1 DEF IInv, StateInv, streamVars, sessionVars, blockVars, ringVars, Frames, IsFilled
  <1>4. ReloadInv'
    BY <1>1 DEF IInv, ReloadInv, streamVars, blockVars
  <1>5. StimulusInv' /\ ReferenceInv' /\ UnbrokenInv'
    BY <1>1 DEF IInv, StimulusInv, IsFilled, ReferenceInv, UnbrokenInv, streamVars, sessionVars,
                blockVars, ringVars, Frames
  <1>6. PlayedInv'
    BY <1>1, PlayedStays, GenerationsAre DEF Next, IInv, streamVars, sessionVars
  <1>7. TailInv'
    BY <1>1 DEF IInv, TailInv, Newest, Due, streamVars, blockVars
  <1> QED BY <1>2, <1>3, <1>4, <1>5, <1>6, <1>7 DEF IInv

(* The generator is given the signal of a later generation, at its start. *)
LEMMA SetSignalKeeps == IInv /\ SetSignal => IInv'
  <1> SUFFICES ASSUME IInv, SetSignal PROVE IInv'
    OBVIOUS
  <1>1. /\ step = "arrived" /\ position' = 0 /\ callback' = "playing" /\ callback = "loading"
        /\ seen' = taken
        /\ UNCHANGED <<playing, internalReference, coefficients, step, blockFrames, stimulus,
                       used, overruns, captured, offered, played>>
    BY DEF SetSignal, Beginning, Restart, sessionVars, ringVars
  <1>2. taken > seen /\ seen \in Nat /\ taken \in Nat
    BY <1>1, GenerationsAre DEF IInv, ReloadInv
  <1>3. HandoffInv'
    BY HandoffKept DEF Next
  <1>4. StateInv'
    BY <1>1 DEF IInv, StateInv, Frames, IsFilled
  <1>5. ReloadInv'
    BY <1>1 DEF ReloadInv
  <1>6. StimulusInv' /\ ReferenceInv' /\ UnbrokenInv'
    BY <1>1 DEF IInv, StimulusInv, IsFilled, ReferenceInv, UnbrokenInv
  <1>7. PlayedInv'
    BY <1>1, <1>2, PlayedStays DEF Next
  <1>8. TailInv'
    <2> SUFFICES ASSUME NEW k \in 1..Len(played), Newest(k)
                 PROVE  played[k].generation # seen' /\ Due' = 0
      BY <1>1 DEF TailInv, Newest
    <2>1. played[k].generation \in 0..seen
      BY DEF IInv, PlayedInv, Newest
    <2> QED BY <1>1, <1>2, <2>1 DEF Due
  <1> QED BY <1>3, <1>4, <1>5, <1>6, <1>7, <1>8 DEF IInv

--------------------------------------------------------------------------------
(* The block. *)

(* A block is filled with the samples that follow. *)
LEMMA FillKeeps == IInv /\ FillStimulus => IInv'
  <1> SUFFICES ASSUME IInv, FillStimulus PROVE IInv'
    OBVIOUS
  <1> DEFINE made(i) == [signal |-> signal, generation |-> seen, at |-> position + i - 1,
                         filter |-> 0]
  <1>1. /\ step = "arrived" /\ step' = "filled" /\ callback = "playing"
        /\ UNCHANGED <<playing, internalReference, generation, callback, taken, seen, signal,
                       coefficients, blockFrames, used, overruns, captured, offered, played>>
        /\ IF playing
             THEN stimulus' = [i \in 1..Frames |-> made(i)] /\ position' = position + Frames
             ELSE stimulus' = [i \in 1..Frames |-> Silent] /\ position' = position
    BY DEF FillStimulus, sessionVars, ringVars, handoffVars, setterVars, callbackVars
  <1>2. /\ blockFrames \in Nat /\ Frames \in 0..blockFrames /\ position \in Nat
        /\ offered \in Nat /\ position <= offered /\ seen \in Nat /\ signal \in Signals
    BY <1>1, FramesAre, GenerationsAre DEF IInv, StateInv, IsFilled
  <1>3. Frames' = Frames /\ (playing => From' = position)
    <2>1. Frames' = Frames
      BY <1>1 DEF Frames
    <2> QED BY <1>1, <1>2, <2>1 DEF From
  <1>4. stimulus' \in Seq(Sample) /\ Len(stimulus') = Frames
    <2>1. CASE playing
      <3>1. \A i \in 1..Frames : made(i) \in Sample
        BY <1>2 DEF Sample
      <3>2. stimulus' \in [1..Frames -> Sample]
        BY <1>1, <2>1, <3>1
      <3> QED BY <1>2, <3>2, SequenceOf
    <2>2. CASE ~playing
      <3>1. stimulus' \in [1..Frames -> Sample]
        BY <1>1, <2>2, SilentIsSample
      <3> QED BY <1>2, <3>1, SequenceOf
    <2> QED BY <2>1, <2>2
  <1>5. HandoffInv'
    BY HandoffKept DEF Next
  <1>6. StateInv'
    <2>1. position' \in Nat /\ position' <= offered + blockFrames
      BY <1>1, <1>2
    <2> QED BY <1>1, <1>3, <1>4, <2>1 DEF IInv, StateInv, IsFilled
  <1>7. ReloadInv'
    BY <1>1 DEF IInv, ReloadInv
  <1>8. StimulusInv'
    <2> SUFFICES ASSUME NEW i \in 1..Frames
                 PROVE  IF playing
                          THEN /\ stimulus'[i].generation = seen
                               /\ stimulus'[i].signal = signal
                               /\ stimulus'[i].at = From' + i - 1
                          ELSE stimulus'[i] = Silent
      BY <1>1, <1>3 DEF StimulusInv
    <2>1. CASE playing
      <3>1. stimulus'[i] = made(i)
        BY <1>1, <2>1
      <3> QED BY <1>3, <2>1, <3>1
    <2>2. CASE ~playing
      BY <1>1, <2>2
    <2> QED BY <2>1, <2>2
  <1>9. PlayedInv'
    BY <1>1, <1>2, PlayedStays DEF Next
  <1>10. TailInv'
    <2> SUFFICES ASSUME NEW k \in 1..Len(played), Newest(k)
                 PROVE  IF played[k].generation = seen
                          THEN played[k].signal = signal /\ Due' = played[k].at + 1
                          ELSE Due' = 0
      BY <1>1 DEF TailInv, Newest
    <2>1. playing
      BY DEF IInv, PlayedInv, Newest
    <2>2. Due' = position /\ Due = position
      BY <1>1, <1>3, <2>1 DEF Due
    <2> QED BY <2>2 DEF IInv, TailInv
  <1>11. ReferenceInv' /\ UnbrokenInv'
    BY <1>1 DEF IInv, ReferenceInv, UnbrokenInv
  <1> QED BY <1>5, <1>6, <1>7, <1>8, <1>9, <1>10, <1>11 DEF IInv

(* The equaliser changes what a sample was filtered with, and no more. *)
LEMMA EqualiseKeeps == IInv /\ Equalise => IInv'
  <1> SUFFICES ASSUME IInv, Equalise PROVE IInv'
    OBVIOUS
  <1>1. /\ step = "filled" /\ step' = "equalised"
        /\ UNCHANGED <<playing, internalReference, generation, callback, taken, seen, signal,
                       coefficients, blockFrames, position, used, overruns, captured, offered,
                       played>>
    BY DEF Equalise, sessionVars, ringVars, handoffVars, setterVars, callbackVars
  <1>2. /\ stimulus \in Seq(Sample) /\ Len(stimulus) = Frames /\ coefficients \in Int
        /\ Frames \in Nat
    BY <1>1, FramesAre DEF IInv, StateInv, IsFilled
  <1>3. Frames' = Frames /\ From' = From /\ Due' = Due
    BY <1>1 DEF Frames, From, Due
  <1>4. DOMAIN stimulus = 1..Frames /\ \A i \in 1..Frames : stimulus[i] \in Sample
    BY <1>2
  <1>5. \A i \in 1..Frames :
          /\ [stimulus[i] EXCEPT !.filter = coefficients] \in Sample
          /\ [stimulus[i] EXCEPT !.filter = coefficients].signal = stimulus[i].signal
          /\ [stimulus[i] EXCEPT !.filter = coefficients].generation = stimulus[i].generation
          /\ [stimulus[i] EXCEPT !.filter = coefficients].at = stimulus[i].at
    BY <1>2, <1>4 DEF Sample
  <1>6. /\ stimulus' \in [1..Frames -> Sample]
        /\ \A i \in 1..Frames :
             IF playing THEN /\ stimulus'[i].signal = stimulus[i].signal
                             /\ stimulus'[i].generation = stimulus[i].generation
                             /\ stimulus'[i].at = stimulus[i].at
                        ELSE stimulus'[i] = stimulus[i]
    <2>1. CASE playing
      <3>1. stimulus' = [i \in 1..Frames |-> [stimulus[i] EXCEPT !.filter = coefficients]]
        BY <1>4, <2>1 DEF Equalise
      <3> QED BY <1>5, <2>1, <3>1
    <2>2. CASE ~playing
      <3>1. stimulus' = stimulus
        BY <2>2 DEF Equalise
      <3>2. stimulus \in [1..Frames -> Sample]
        BY <1>2
      <3> QED BY <2>2, <3>1, <3>2
    <2> QED BY <2>1, <2>2
  <1>7. stimulus' \in Seq(Sample) /\ Len(stimulus') = Frames
    BY <1>2, <1>6, SequenceOf
  <1>8. HandoffInv'
    BY HandoffKept DEF Next
  <1>9. StateInv'
    BY <1>1, <1>3, <1>7 DEF IInv, StateInv, IsFilled
  <1>10. ReloadInv'
    BY <1>1 DEF IInv, ReloadInv
  <1>11. StimulusInv'
    BY <1>1, <1>3, <1>6 DEF IInv, StimulusInv, IsFilled
  <1>12. PlayedInv'
    BY <1>1, PlayedStays, GenerationsAre DEF Next, IInv
  <1>13. TailInv' /\ ReferenceInv' /\ UnbrokenInv'
    BY <1>1, <1>3 DEF IInv, TailInv, Newest, ReferenceInv, UnbrokenInv
  <1> QED BY <1>8, <1>9, <1>10, <1>11, <1>12, <1>13 DEF IInv

(* What the device is given: the block, and silence after it. *)
LEMMA OutputIs ==
  ASSUME IInv, IsFilled
  PROVE  /\ Output \in Seq(Sample) /\ Len(Output) = blockFrames
         /\ \A m \in 1..blockFrames :
              IF playing /\ m <= Frames
                THEN /\ Output[m] = stimulus[m] /\ Output[m] # Silent
                     /\ Output[m].generation = seen /\ Output[m].signal = signal
                     /\ Output[m].at = From + m - 1
                ELSE Output[m] = Silent
  <1>1. /\ blockFrames \in Nat /\ Frames \in 0..blockFrames /\ Len(stimulus) = Frames
        /\ stimulus \in Seq(Sample) /\ seen \in Nat
    BY FramesAre, GenerationsAre DEF IInv, StateInv
  <1>2. \A m \in 1..blockFrames :
          Output[m] = IF playing /\ m <= Frames THEN stimulus[m] ELSE Silent
    BY <1>1 DEF Output, Silenced
  <1>3. \A m \in 1..Frames : stimulus[m] \in Sample
    BY <1>1
  <1>4. Output \in [1..blockFrames -> Sample]
    <2>1. ASSUME NEW m \in 1..blockFrames PROVE Output[m] \in Sample
      <3>1. m <= Frames => m \in 1..Frames
        BY <1>1
      <3> QED BY <1>2, <1>3, <3>1, SilentIsSample
    <2>2. Output = [m \in 1..blockFrames |-> Output[m]]
      BY DEF Output
    <2> QED BY <2>1, <2>2
  <1>5. Output \in Seq(Sample) /\ Len(Output) = blockFrames
    BY <1>1, <1>4, SequenceOf
  <1>6. ASSUME NEW m \in 1..blockFrames, playing, m <= Frames
        PROVE  /\ Output[m] = stimulus[m] /\ Output[m] # Silent
               /\ Output[m].generation = seen /\ Output[m].signal = signal
               /\ Output[m].at = From + m - 1
    <2>1. m \in 1..Frames /\ Output[m] = stimulus[m]
      BY <1>1, <1>2, <1>6
    <2>2. /\ stimulus[m].generation = seen /\ stimulus[m].signal = signal
          /\ stimulus[m].at = From + m - 1
      BY <1>6, <2>1 DEF IInv, StimulusInv
    <2>3. stimulus[m] # Silent
      BY <1>1, <2>2, SilentIsSample
    <2> QED BY <2>1, <2>2, <2>3
  <1> QED BY <1>2, <1>5, <1>6

LEMMA PlayKeeps == IInv /\ Play => IInv'
  <1> SUFFICES ASSUME IInv, Play PROVE IInv'
    OBVIOUS
  <1> DEFINE L == Len(played)
  <1>1. /\ step = "equalised" /\ step' = "played" /\ played' = played \o Output
        /\ UNCHANGED <<playing, internalReference, generation, callback, taken, seen, signal,
                       coefficients, blockFrames, position, stimulus, used, overruns, captured,
                       offered>>
    BY DEF Play, sessionVars, ringVars, handoffVars, setterVars, callbackVars
  <1>2. /\ blockFrames \in Nat /\ Frames \in 1..blockFrames
        /\ L = offered /\ L \in Nat /\ seen \in Nat /\ position \in Nat
        /\ Behind(seen, signal) /\ IsFilled
    BY <1>1, FramesAre, GenerationsAre DEF IInv, StateInv, IsFilled
  <1>3. Frames' = Frames /\ From' = From
    BY <1>1 DEF Frames, From
  <1>4. /\ played' \in Seq(Sample) /\ Len(played') = L + blockFrames
        /\ \A k \in 1..(L + blockFrames) :
             played'[k] = IF k <= L THEN played[k] ELSE Output[k - L]
    <2>1. played \in Seq(Sample) /\ Output \in Seq(Sample) /\ Len(Output) = blockFrames
      BY <1>2, OutputIs DEF IInv, StateInv
    <2> QED BY <1>1, <2>1, ConcatProperties
  <1> HIDE DEF L
  <1>5. \A k \in 1..L : played'[k] = played[k] /\ k \in 1..(L + blockFrames)
    BY <1>2, <1>4
  <1>6. ASSUME NEW k \in 1..(L + blockFrames), ~(k <= L)
        PROVE  /\ k - L \in 1..blockFrames
               /\ IF playing /\ k - L <= Frames
                    THEN /\ played'[k] = stimulus[k - L] /\ played'[k] # Silent
                         /\ played'[k].generation = seen /\ played'[k].signal = signal
                         /\ played'[k].at = From + (k - L) - 1
                    ELSE played'[k] = Silent
    <2>1. k - L \in 1..blockFrames
      BY <1>2, <1>6
    <2>2. played'[k] = Output[k - L]
      BY <1>4, <1>6
    <2> DEFINE m == k - L
    <2>3. m \in 1..blockFrames
      BY <2>1
    <2> HIDE DEF m
    <2>4. IF playing /\ m <= Frames
            THEN /\ Output[m] = stimulus[m] /\ Output[m] # Silent
                 /\ Output[m].generation = seen /\ Output[m].signal = signal
                 /\ Output[m].at = From + m - 1
            ELSE Output[m] = Silent
      BY <1>2, <2>3, OutputIs
    <2> QED BY <2>1, <2>2, <2>4 DEF m
  <1>7. StateInv'
    <2>1. Len(played') = offered' + (IF step' = "played" THEN blockFrames' ELSE 0)
      BY <1>1, <1>2, <1>4
    <2>2. (blockFrames = 0 <=> step = "idle")'
      BY <1>1 DEF IInv, StateInv
    <2> QED BY <1>1, <1>3, <1>4, <2>1, <2>2 DEF IInv, StateInv, IsFilled
  <1>8. StimulusInv'
    BY <1>1, <1>3 DEF IInv, StimulusInv, IsFilled
  <1>9. PlayedInv'
    <2> SUFFICES ASSUME NEW k \in 1..(L + blockFrames), played'[k] # Silent
                 PROVE  /\ playing /\ played'[k].generation \in 0..seen
                        /\ Behind(played[k].generation, played[k].signal)'
      BY <1>1, <1>4 DEF PlayedInv
    <2>1. /\ playing /\ played'[k].generation \in 0..seen
          /\ \A f \in SweepFields : \A c \in 1..(played'[k].generation) :
               Stores(c, f) => played'[k].signal[f] >= c
      <3>1. CASE k <= L
        <4>1. k \in 1..L
          BY <1>2, <3>1
        <4>2. played[k] # Silent /\ played'[k] = played[k]
          BY <1>5, <4>1
        <4>3. /\ playing /\ played[k].generation \in 0..seen
              /\ Behind(played[k].generation, played[k].signal)
          BY <4>1, <4>2 DEF IInv, PlayedInv, L
        <4> QED BY <4>2, <4>3 DEF Behind
      <3>2. CASE ~(k <= L)
        <4>1. playing /\ played'[k].generation = seen /\ played'[k].signal = signal
          BY <1>6, <3>2
        <4>2. seen \in 0..seen
          BY <1>2
        <4> QED BY <1>2, <4>1, <4>2 DEF Behind
      <3> QED BY <3>1, <3>2
    <2>2. sweeps' = sweeps
      BY DEF Play, handoffVars, setterVars
    <2> QED BY <2>1, <2>2 DEF Behind, Stores
  <1>10. TailInv'
    <2> SUFFICES ASSUME NEW k \in 1..(L + blockFrames), Newest(k)'
                 PROVE  /\ played'[k].generation = seen /\ played'[k].signal = signal
                        /\ Due' = played'[k].at + 1
      BY <1>1, <1>4 DEF TailInv
    <2>0. Due' = position
      BY <1>1 DEF Due
    <2>1. played'[k] # Silent /\ \A i \in (k + 1)..(L + blockFrames) : played'[i] = Silent
      BY <1>4 DEF Newest
    <2>2. playing
      <3>1. CASE k <= L
        <4>1. k \in 1..L
          BY <1>2, <3>1
        <4>2. played[k] # Silent
          BY <1>5, <2>1, <4>1
        <4> QED BY <4>1, <4>2 DEF IInv, PlayedInv, L
      <3>2. CASE ~(k <= L)
        BY <1>6, <2>1, <3>2
      <3> QED BY <3>1, <3>2
    <2> DEFINE last == L + Frames
    <2>3. last \in 1..(L + blockFrames) /\ ~(last <= L) /\ last - L = Frames
      BY <1>2
    <2>4. played'[last] # Silent
      BY <1>2, <1>6, <2>2, <2>3
    <2>5. k >= last
      <3>1. SUFFICES ASSUME ~(k >= last) PROVE FALSE
        OBVIOUS
      <3>2. last \in (k + 1)..(L + blockFrames)
        BY <1>2, <2>3, <3>1
      <3> QED BY <2>1, <2>4, <3>2
    <2>6. ~(k <= L)
      BY <1>2, <2>5
    <2>7. k - L <= Frames
      BY <1>6, <2>1, <2>6
    <2>8. k - L = Frames
      BY <1>2, <2>5, <2>7
    <2>9. /\ played'[k].generation = seen /\ played'[k].signal = signal
          /\ played'[k].at = From + (k - L) - 1
      BY <1>6, <2>2, <2>6, <2>7
    <2>10. position = From + (k - L) - 1 + 1
      BY <1>2, <2>8 DEF From
    <2> QED BY <2>0, <2>9, <2>10
  <1>11. ReferenceInv'
    <2>1. ASSUME NEW k \in 1..Len(captured)
          PROVE  /\ captured[k].heard \in 1..offered
                 /\ internalReference =>
                      captured[k].reference = played'[captured[k].heard]
      <3>1. /\ captured[k].heard \in 1..offered
            /\ internalReference => captured[k].reference = played[captured[k].heard]
        BY DEF IInv, ReferenceInv
      <3> QED BY <1>2, <1>5, <3>1
    <2>2. ASSUME playing, NEW i \in 1..Frames
          PROVE  played'[offered + i] = stimulus[i]
      <3>1. L + i \in 1..(L + blockFrames) /\ ~(L + i <= L) /\ (L + i) - L = i /\ i <= Frames
        BY <1>2
      <3>2. played'[L + i] = stimulus[(L + i) - L]
        BY <1>6, <2>2, <3>1
      <3> QED BY <1>2, <3>1, <3>2
    <2> QED BY <1>1, <1>3, <2>1, <2>2 DEF ReferenceInv
  <1>12. UnbrokenInv'
    <2> SUFFICES ASSUME NEW j \in 1..(L + blockFrames), NEW k \in 1..(L + blockFrames),
                        j < k, \A i \in (j + 1)..(k - 1) : played'[i] = Silent,
                        played'[j] # Silent, played'[k] # Silent
                 PROVE  Follows(played[k], played[j])'
      BY <1>4 DEF UnbrokenInv
    <2>1. CASE k <= L
      <3>1. j \in 1..L /\ k \in 1..L
        BY <1>2, <2>1
      <3>2. played'[j] = played[j] /\ played'[k] = played[k]
        BY <1>5, <3>1
      <3>3. \A i \in (j + 1)..(k - 1) : played[i] = Silent
        <4>1. \A i \in (j + 1)..(k - 1) : i \in 1..L
          BY <1>2, <2>1
        <4> QED BY <1>5, <4>1
      <3>4. Follows(played[k], played[j])
        BY <3>1, <3>2, <3>3 DEF IInv, UnbrokenInv, L
      <3> QED BY <3>2, <3>4 DEF Follows
    <2>2. CASE ~(k <= L) /\ ~(j <= L)
      <3>1. /\ playing /\ k - L <= Frames
            /\ played'[k].generation = seen /\ played'[k].signal = signal
            /\ played'[k].at = From + (k - L) - 1
        BY <1>6, <2>2
      <3>2. /\ played'[j].generation = seen /\ played'[j].signal = signal
            /\ played'[j].at = From + (j - L) - 1
        BY <1>6, <2>2
      <3>3. j + 1 = k
        <4>1. SUFFICES ASSUME j + 1 # k PROVE FALSE
          OBVIOUS
        <4>2. /\ j + 1 \in 1..(L + blockFrames) /\ ~(j + 1 <= L) /\ (j + 1) - L <= Frames
              /\ j + 1 \in (j + 1)..(k - 1)
          BY <1>2, <2>2, <3>1, <4>1
        <4>3. played'[j + 1] # Silent
          BY <1>6, <3>1, <4>2
        <4> QED BY <4>2, <4>3
      <3>4. From + (k - L) - 1 = (From + (j - L) - 1) + 1
        BY <1>2, <3>3 DEF From
      <3> QED BY <3>1, <3>2, <3>4 DEF Follows
    <2>3. CASE ~(k <= L) /\ j <= L
      <3>1. /\ playing /\ k - L <= Frames
            /\ played'[k].generation = seen /\ played'[k].signal = signal
            /\ played'[k].at = From + (k - L) - 1
        BY <1>6, <2>3
      <3>2. k = L + 1
        <4>1. SUFFICES ASSUME k # L + 1 PROVE FALSE
          OBVIOUS
        <4>2. /\ L + 1 \in 1..(L + blockFrames) /\ ~(L + 1 <= L) /\ (L + 1) - L <= Frames
              /\ L + 1 \in (j + 1)..(k - 1)
          BY <1>2, <2>3, <4>1
        <4>3. played'[L + 1] # Silent
          BY <1>6, <3>1, <4>2
        <4> QED BY <4>2, <4>3
      <3>3. j \in 1..L /\ played'[j] = played[j]
        BY <1>2, <1>5, <2>3
      <3>4. \A i \in (j + 1)..L : played[i] = Silent
        <4>1. \A i \in (j + 1)..L : i \in 1..L /\ i \in (j + 1)..(k - 1)
          BY <1>2, <3>2
        <4> QED BY <1>5, <4>1
      <3>5. Newest(j)
        BY <3>3, <3>4 DEF Newest, L
      <3>6. IF played[j].generation = seen
              THEN played[j].signal = signal /\ From = played[j].at + 1
              ELSE From = 0
        BY <1>1, <3>3, <3>5 DEF IInv, TailInv, L, Due
      <3>7. From + (k - L) - 1 = From
        BY <1>2, <3>2 DEF From
      <3>8. played[j].generation \in 0..seen
        BY <3>3, <3>5 DEF IInv, PlayedInv, Newest, L
      <3>9. seen # played[j].generation => seen > played[j].generation
        BY <1>2, <3>8
      <3> QED BY <3>1, <3>3, <3>6, <3>7, <3>9 DEF Follows
    <2> QED BY <2>1, <2>2, <2>3
  <1>13. HandoffInv' /\ ReloadInv'
    BY <1>1, HandoffKept DEF Next, IInv, ReloadInv
  <1> QED BY <1>7, <1>8, <1>9, <1>10, <1>11, <1>12, <1>13 DEF IInv

(* What goes into the ring: frames of this block, each with its reference. *)
LEMMA BlockIs ==
  ASSUME IInv, IsFilled
  PROVE  /\ Block \in Seq(Captured) /\ Len(Block) \in 0..blockFrames
         /\ \A i \in 1..Len(Block) :
              /\ Block[i].heard = offered + i
              /\ internalReference => i \in 1..Frames /\ Block[i].reference = stimulus[i]
  <1>1. /\ blockFrames \in Nat /\ Frames \in 0..blockFrames /\ Len(stimulus) = Frames
        /\ stimulus \in Seq(Sample) /\ offered \in Nat
    BY FramesAre DEF IInv, StateInv
  <1>2. CASE internalReference
    <2>1. Block = [i \in 1..Frames |-> [heard |-> offered + i, reference |-> stimulus[i]]]
      BY <1>2 DEF Block, Spliced
    <2>2. \A i \in 1..Frames : [heard |-> offered + i, reference |-> stimulus[i]] \in Captured
      BY <1>1 DEF Captured
    <2>3. Block \in [1..Frames -> Captured]
      BY <2>1, <2>2
    <2>4. Block \in Seq(Captured) /\ Len(Block) = Frames
      BY <1>1, <2>3, SequenceOf
    <2>5. \A i \in 1..Frames : Block[i].heard = offered + i /\ Block[i].reference = stimulus[i]
      BY <2>1
    <2> QED BY <1>1, <2>4, <2>5
  <1>3. CASE ~internalReference
    <2>1. Block = [i \in 1..blockFrames |-> [heard |-> offered + i, reference |-> Silent]]
      BY <1>3 DEF Block
    <2>2. \A i \in 1..blockFrames : [heard |-> offered + i, reference |-> Silent] \in Captured
      BY <1>1, SilentIsSample DEF Captured
    <2>3. Block \in [1..blockFrames -> Captured]
      BY <2>1, <2>2
    <2>4. Block \in Seq(Captured) /\ Len(Block) = blockFrames
      BY <1>1, <2>3, SequenceOf
    <2>5. \A i \in 1..blockFrames : Block[i].heard = offered + i
      BY <2>1
    <2> QED BY <1>1, <1>3, <2>4, <2>5
  <1> QED BY <1>2, <1>3

LEMMA WriteKeeps == IInv /\ Write => IInv'
  <1> SUFFICES ASSUME IInv, Write PROVE IInv'
    OBVIOUS
  <1>1. /\ step = "played" /\ step' = "idle" /\ blockFrames' = 0 /\ stimulus' = << >>
        /\ offered' = offered + blockFrames
        /\ UNCHANGED <<playing, internalReference, generation, callback, taken, seen, signal,
                       coefficients, position, played>>
    BY DEF Write, sessionVars, handoffVars, setterVars, callbackVars
  <1>2. /\ blockFrames \in Nat /\ Frames \in 0..blockFrames /\ offered \in Nat
        /\ Len(played) = offered + blockFrames /\ used \in 0..CapacityFrames
        /\ overruns \in Nat /\ captured \in Seq(Captured)
        /\ position \in Nat /\ position <= offered + blockFrames
        /\ offered + blockFrames <= MaxOffered /\ IsFilled /\ ~IsFilled'
    BY <1>1, FramesAre DEF IInv, StateInv, IsFilled
  <1> DEFINE A == Len(captured)
             B == Len(Block)
  <1>4. /\ A \in Nat /\ B \in 0..blockFrames /\ Block \in Seq(Captured)
        /\ \A i \in 1..B : /\ Block[i].heard = offered + i
                           /\ internalReference =>
                                i \in 1..Frames /\ Block[i].reference = stimulus[i]
    BY <1>2, BlockIs
  <1>5. /\ used' \in 0..CapacityFrames /\ overruns' \in Nat
        /\ captured' = captured \/ captured' = captured \o Block
    <2>1. CASE Fits
      <3>1. used' = used + B /\ captured' = captured \o Block /\ overruns' = overruns
        BY <2>1 DEF Write
      <3>2. used + B <= CapacityFrames
        BY <2>1 DEF Fits
      <3> QED BY <1>2, <1>4, <3>1, <3>2, BlockSizesAre
    <2>2. CASE ~Fits
      <3>1. used' = used /\ captured' = captured /\ overruns' = overruns + 1
        BY <2>2 DEF Write
      <3> QED BY <1>2, <3>1
    <2> QED BY <2>1, <2>2
  <1> HIDE DEF A, B
  <1>6. ASSUME captured' = captured \o Block
        PROVE  /\ captured' \in Seq(Captured) /\ Len(captured') = A + B
               /\ \A k \in 1..(A + B) :
                    captured'[k] = IF k <= A THEN captured[k] ELSE Block[k - A]
    BY <1>2, <1>4, <1>6, ConcatProperties DEF A, B
  <1>7. captured' \in Seq(Captured)
    BY <1>2, <1>5, <1>6
  <1>8. StateInv'
    <2>1. stimulus' \in Seq(Sample) /\ Len(stimulus') = 0
      BY <1>1, EmptySeq
    <2>2. /\ position' <= offered'
          /\ offered' \in Nat /\ offered' + blockFrames' <= MaxOffered
      BY <1>1, <1>2
    <2>3. Len(played') = offered' + (IF step' = "played" THEN blockFrames' ELSE 0)
      BY <1>1, <1>2
    <2>4. (blockFrames' = 0 <=> step' = "idle") /\ blockFrames' \in BlockSizes \cup {0}
      BY <1>1
    <2> QED BY <1>1, <1>2, <1>5, <1>7, <2>1, <2>2, <2>3, <2>4 DEF IInv, StateInv
  <1>9. StimulusInv'
    BY <1>2 DEF StimulusInv
  <1>10. PlayedInv' /\ UnbrokenInv'
    <2>1. PlayedInv'
      BY <1>1, PlayedStays, GenerationsAre DEF Next, IInv
    <2>2. UnbrokenInv'
      <3>1. UnbrokenInv /\ played' = played
        BY <1>1 DEF IInv
      <3> QED BY <3>1, SMT DEF UnbrokenInv
    <2> QED BY <2>1, <2>2
  <1>11. TailInv'
    BY <1>1 DEF IInv, TailInv, Newest, Due
  <1>12. ReferenceInv'
    <2>1. ASSUME NEW k \in 1..A
          PROVE  /\ captured[k].heard \in 1..(offered + blockFrames)
                 /\ internalReference => captured[k].reference = played[captured[k].heard]
      <3>1. /\ captured[k].heard \in 1..offered
            /\ internalReference => captured[k].reference = played[captured[k].heard]
        BY DEF IInv, ReferenceInv, A
      <3> QED BY <1>2, <3>1
    <2>2. ASSUME NEW i \in 1..B
          PROVE  /\ Block[i].heard \in 1..(offered + blockFrames)
                 /\ internalReference => Block[i].reference = played[Block[i].heard]
      <3>1. Block[i].heard = offered + i /\ offered + i \in 1..(offered + blockFrames)
        BY <1>2, <1>4
      <3>2. ASSUME internalReference PROVE Block[i].reference = played[offered + i]
        <4>1. i \in 1..Frames /\ Block[i].reference = stimulus[i]
          BY <1>4, <3>2
        <4>2. playing
          BY <3>2 DEF IInv, StateInv
        <4>3. played[offered + i] = stimulus[i]
          BY <1>1, <4>1, <4>2 DEF IInv, ReferenceInv
        <4> QED BY <4>1, <4>3
      <3> QED BY <3>1, <3>2
    <2>3. ASSUME NEW k \in 1..Len(captured')
          PROVE  /\ captured'[k].heard \in 1..(offered + blockFrames)
                 /\ internalReference => captured'[k].reference = played[captured'[k].heard]
      <3>1. CASE captured' = captured
        BY <2>1, <3>1 DEF A
      <3>2. CASE captured' = captured \o Block
        <4>1. k \in 1..(A + B) /\ captured'[k] = IF k <= A THEN captured[k] ELSE Block[k - A]
          BY <1>6, <3>2
        <4>2. CASE k <= A
          <5>1. k \in 1..A /\ captured'[k] = captured[k]
            BY <1>4, <4>1, <4>2
          <5> QED BY <2>1, <5>1
        <4>3. CASE ~(k <= A)
          <5>1. k - A \in 1..B
            BY <1>4, <4>1, <4>3
          <5>2. captured'[k] = Block[k - A]
            BY <4>1, <4>3
          <5> QED BY <2>2, <5>1, <5>2
        <4> QED BY <4>2, <4>3
      <3> QED BY <1>5, <3>1, <3>2
    <2> QED BY <1>1, <2>3 DEF ReferenceInv
  <1>13. HandoffInv' /\ ReloadInv'
    BY <1>1, HandoffKept DEF Next, IInv, ReloadInv
  <1> QED BY <1>8, <1>9, <1>10, <1>11, <1>12, <1>13 DEF IInv

--------------------------------------------------------------------------------
(* The invariant holds at every moment of every run of the callback. *)
THEOREM CallbackInvariant == Spec => []IInv
  <1>1. Init => IInv
    BY InitHolds
  <1>2. IInv /\ [Next]_vars => IInv'
    BY ChangeSignalKeeps, PublishEqKeeps, DrainKeeps, BeginKeeps, LoadBlockKeeps,
       SetSignalKeeps, FillKeeps, EqualiseKeeps, PlayKeeps, WriteKeeps, StutterKeeps
    DEF Next
  <1> QED BY <1>1, <1>2, PTL DEF Spec

(* The callback's state keeps its types, and the samples played are as many *)
(* as the frames delivered.                                                 *)
THEOREM TypeCorrect == Spec => []TypeOK
  <1>1. ASSUME IInv PROVE TypeOK
    <2>1. offered \in 0..MaxOffered /\ position \in 0..(MaxOffered + MaxFrames)
      BY <1>1, BlockSizesAre, FramesAre DEF IInv, StateInv, IsFilled
    <2>2. Len(stimulus) = IF step = "arrived" THEN 0 ELSE Frames
      <3>1. step = "idle" => Frames = 0
        BY <1>1, BlockSizesAre DEF IInv, StateInv, Frames, Lesser
      <3> QED BY <1>1, <3>1 DEF IInv, StateInv, IsFilled
    <2> QED BY <1>1, <2>1, <2>2 DEF IInv, HandoffInv, StateInv, TypeOK
  <1> QED BY <1>1, CallbackInvariant, PTL

(* The reference beside a captured frame is the sample played with it,      *)
(* whatever was changed or dropped around it.                               *)
THEOREM ReferenceAlwaysPlayed == Spec => []ReferenceIsPlayed
  <1>1. ASSUME IInv PROVE ReferenceIsPlayed
    <2>1. DOMAIN captured = 1..Len(captured)
      BY <1>1 DEF IInv, StateInv
    <2> QED BY <1>1, <2>1 DEF IInv, ReferenceInv, ReferenceIsPlayed
  <1> QED BY <1>1, CallbackInvariant, PTL

(* The device never plays what its buffer held before.                      *)
THEOREM StaleNeverPlayed == Spec => []NothingStalePlayed
  <1>1. ASSUME IInv PROVE NothingStalePlayed
    <2>1. DOMAIN played = 1..Len(played) /\ seen \in Nat
      BY <1>1, GenerationsAre DEF IInv, StateInv
    <2>2. ASSUME NEW k \in 1..Len(played) PROVE played[k] # Stale
      <3>1. played[k] = Silent \/ played[k].generation \in 0..seen
        BY <1>1 DEF IInv, PlayedInv
      <3>2. played[k].generation \in 0..seen => played[k] # Stale
        BY <2>1, StaleIsNot
      <3> QED BY <3>1, <3>2, StaleIsNot
    <2> QED BY <2>1, <2>2 DEF NothingStalePlayed
  <1> QED BY <1>1, CallbackInvariant, PTL

(* The callback hands the signal over as SignalHandoff has it, so what is   *)
(* proved of the handoff holds of the callback that plays.                  *)
THEOREM CallbackHandsOver == Spec => HandoffSpec
  <1>1. Init => HandoffInit
    BY DEF Init
  <1> QED BY <1>1, HandoffMoves, PTL DEF Spec, HandoffSpec

(* A generation is played as one unbroken pass of one signal no older than  *)
(* itself, through blocks larger than the scratch and fields stored while   *)
(* they are loaded.                                                         *)
THEOREM AlwaysUnbroken == Spec => []PlayedUnbroken
  <1>1. ASSUME IInv PROVE PlayedUnbroken
    <2>1. DOMAIN played = 1..Len(played)
      BY <1>1 DEF IInv, StateInv
    <2>2. \A k \in DOMAIN played :
            played[k] # Silent => Behind(played[k].generation, played[k].signal)
      BY <1>1, <2>1 DEF IInv, PlayedInv
    <2> QED BY <1>1, <2>1, <2>2 DEF IInv, UnbrokenInv, PlayedUnbroken
  <1> QED BY <1>1, CallbackInvariant, PTL

-----------------------------------------------------------------------------
(* The device's side: lists of buffers. *)

Listing(list) ==
  /\ DOMAIN list = 1..Len(list) /\ Len(list) \in Nat
  /\ \A b \in DOMAIN list : list[b].channels \in Nat

(* Device channels number straight through a list (coreaudio.cpp:338-351).   *)
LEMMA BaseStep ==
  ASSUME NEW list, Listing(list)
  PROVE  /\ Base(list, 1) = 0
         /\ \A b \in DOMAIN list :
              /\ Base(list, b) \in Nat
              /\ Base(list, b + 1) = Base(list, b) + list[b].channels
  <1> DEFINE n == Len(list)
             next == [k \in 1..n |-> [x \in Nat |-> x + list[k].channels]]
             Sums(f) == f = [k \in 0..n |-> IF k = 0 THEN 0
                                            ELSE f[k - 1] + list[k].channels]
  <1>1. n \in Nat /\ next \in [1..n -> [Nat -> Nat]]
    BY DEF Listing
  <1>2. PICK f \in [0..n -> Nat] :
          \A k \in 0..n : f[k] = IF k = 0 THEN 0 ELSE next[k][f[k - 1]]
    <2> HIDE DEF n, next
    <2>1. PICK f : Steps(f, Nat, 0, n, next)
      BY <1>1, StepsExist
    <2> QED BY <2>1 DEF Steps
  <1>3. Sums(f)
    <2>1. ASSUME NEW k \in 0..n
          PROVE  f[k] = IF k = 0 THEN 0 ELSE f[k - 1] + list[k].channels
      <3>1. CASE k = 0
        BY <1>2, <3>1
      <3>2. CASE k # 0
        <4>1. k \in 1..n /\ k - 1 \in 0..n
          BY <1>1, <3>2
        <4> QED BY <1>2, <3>2, <4>1
      <3> QED BY <3>1, <3>2
    <2>2. f = [k \in 0..n |-> f[k]]
      BY <1>2
    <2> HIDE DEF n, next
    <2> QED BY <2>1, <2>2
  <1>4. PICK before : Sums(before) /\ \A b : Base(list, b) = before[b - 1]
    BY <1>3, Zenon DEF Base
  <1>5. \A k \in 0..n : before[k] \in Nat
    <2> DEFINE Bad == {k \in Nat : k <= n /\ before[k] \notin Nat}
    <2>1. SUFFICES ASSUME Bad # {}
                   PROVE  FALSE
      BY <1>1
    <2>2. PICK k \in Bad : \A j \in Bad : k <= j
      <3>1. Bad \in SUBSET Nat
        OBVIOUS
      <3> HIDE DEF Bad
      <3> QED BY <2>1, <3>1, LeastIs
    <2>3. k \in 0..n /\ k # 0
      BY <1>1, <1>4, <2>2
    <2>4. k - 1 \in Nat /\ k - 1 <= n /\ k - 1 \notin Bad
      BY <2>2, <2>3
    <2>5. before[k] = before[k - 1] + list[k].channels /\ before[k - 1] \in Nat
      BY <1>4, <2>3, <2>4
    <2>6. k \in DOMAIN list
      BY <1>1, <2>3 DEF Listing
    <2> QED BY <2>2, <2>5, <2>6 DEF Listing
  <1>6. Base(list, 1) = 0
    <2>1. before[0] = 0
      BY <1>1, <1>4
    <2>2. Base(list, 1) = before[1 - 1]
      BY <1>4, Zenon
    <2> QED BY <2>1, <2>2
  <1>7. ASSUME NEW b \in DOMAIN list
        PROVE  /\ Base(list, b) \in Nat
               /\ Base(list, b + 1) = Base(list, b) + list[b].channels
    <2>1. b \in 1..n /\ b - 1 \in 0..n /\ b \in 0..n /\ b # 0 /\ (b + 1) - 1 = b
      BY <1>1 DEF Listing
    <2>2. before[b] = before[b - 1] + list[b].channels
      BY <1>4, <2>1
    <2> QED BY <1>4, <1>5, <2>1, <2>2
  <1> QED BY <1>6, <1>7

(* A buffer begins no earlier than the ones before it end.                  *)
LEMMA BaseGrows ==
  ASSUME NEW list, Listing(list), NEW b \in DOMAIN list, NEW c \in DOMAIN list, b < c
  PROVE  Base(list, b) + list[b].channels <= Base(list, c)
  <1> DEFINE Bad == {k \in Nat : /\ k \in DOMAIN list /\ b < k
                                 /\ ~(Base(list, b + 1) <= Base(list, k))}
  <1>1. \A k \in DOMAIN list : k \in Nat \ {0} /\ k <= Len(list)
    BY DEF Listing
  <1>2. Base(list, b + 1) = Base(list, b) + list[b].channels /\ Base(list, b) \in Nat
    BY BaseStep
  <1>3. list[b].channels \in Nat
    BY DEF Listing
  <1>4. SUFFICES ASSUME Bad # {}
                 PROVE  FALSE
    BY <1>1, <1>2
  <1>5. PICK k \in Bad : \A j \in Bad : k <= j
    <2>1. Bad \in SUBSET Nat
      OBVIOUS
    <2> HIDE DEF Bad
    <2> QED BY <1>4, <2>1, LeastIs
  <1>6. k \in DOMAIN list /\ b < k /\ ~(Base(list, b + 1) <= Base(list, k))
    BY <1>5
  <1>7. k - 1 \in DOMAIN list /\ k = (k - 1) + 1 /\ b <= k - 1 /\ ~(k <= k - 1)
    BY <1>1, <1>6 DEF Listing
  <1>8. /\ Base(list, k) = Base(list, k - 1) + list[k - 1].channels
        /\ Base(list, k - 1) \in Nat /\ list[k - 1].channels \in Nat
    BY <1>7, BaseStep DEF Listing
  <1>9. k - 1 # b
    BY <1>1, <1>2, <1>3, <1>6, <1>8
  <1>10. Base(list, b + 1) <= Base(list, k - 1)
    <2>1. k - 1 \notin Bad
      <3> HIDE DEF Bad
      <3> QED BY <1>5, <1>7
    <2>2. k - 1 \in Nat /\ b < k - 1
      BY <1>1, <1>7, <1>9
    <2> QED BY <1>7, <2>1, <2>2
  <1> QED BY <1>2, <1>3, <1>6, <1>8, <1>10

(* Lists of one shape have their channels in the same places.               *)
LEMMA BaseSame ==
  ASSUME NEW list, Listing(list), NEW other, Listing(other), Len(other) = Len(list),
         \A b \in DOMAIN list : other[b].channels = list[b].channels
  PROVE  \A b \in DOMAIN list : Base(other, b) = Base(list, b)
  <1> DEFINE Bad == {k \in Nat : k \in DOMAIN list /\ Base(other, k) # Base(list, k)}
  <1>1. /\ \A k \in DOMAIN list : k \in Nat \ {0} /\ k <= Len(list)
        /\ DOMAIN other = DOMAIN list
    BY DEF Listing
  <1>2. SUFFICES ASSUME Bad # {}
                 PROVE  FALSE
    BY <1>1
  <1>3. PICK k \in Bad : \A j \in Bad : k <= j
    <2>1. Bad \in SUBSET Nat
      OBVIOUS
    <2> HIDE DEF Bad
    <2> QED BY <1>2, <2>1, LeastIs
  <1>4. k \in DOMAIN list /\ Base(other, k) # Base(list, k)
    BY <1>3
  <1>5. k # 1
    BY <1>4, BaseStep
  <1>6. k - 1 \in DOMAIN list /\ k = (k - 1) + 1 /\ ~(k <= k - 1) /\ k - 1 \in Nat
    BY <1>1, <1>4, <1>5 DEF Listing
  <1>7. Base(other, k - 1) = Base(list, k - 1)
    <2>1. k - 1 \notin Bad
      <3> HIDE DEF Bad
      <3> QED BY <1>3, <1>6
    <2> QED BY <1>6, <2>1
  <1>8. Base(list, k) = Base(list, k - 1) + list[k - 1].channels
    BY <1>6, BaseStep
  <1>9. Base(other, k) = Base(other, k - 1) + other[k - 1].channels
    BY <1>1, <1>6, BaseStep
  <1> QED BY <1>4, <1>6, <1>7, <1>8, <1>9

(* find_channel stops at the buffer that the channel is in.                 *)
LEMMA FoundIs ==
  ASSUME NEW list, Listing(list), NEW channel \in Nat, Reaching(list, channel) # {}
  PROVE  LET b == FindChannel(list, channel)
         IN  /\ b \in DOMAIN list
             /\ Base(list, b) <= channel /\ channel < Base(list, b) + list[b].channels
  <1> DEFINE reaching == Reaching(list, channel)
             b == FindChannel(list, channel)
  <1>1. /\ \A k \in DOMAIN list : k \in Nat \ {0} /\ k <= Len(list)
        /\ reaching \subseteq DOMAIN list
    BY DEF Listing, Reaching
  <1>2. b \in reaching /\ \A c \in reaching : b <= c
    <2>1. reaching \in SUBSET Nat
      BY <1>1
    <2> HIDE DEF reaching
    <2>2. \E x \in reaching : \A y \in reaching : x <= y
      BY <2>1, LeastIs DEF reaching
    <2> QED BY <2>2, Zenon DEF reaching, FindChannel
  <1>3. b \in DOMAIN list /\ channel < Base(list, b) + list[b].channels
    BY <1>2 DEF Reaching
  <1> HIDE DEF b
  <1>4. Base(list, b) <= channel
    <2>1. CASE b = 1
      BY <2>1, BaseStep
    <2>2. CASE b # 1
      <3>1. b - 1 \in DOMAIN list /\ b = (b - 1) + 1 /\ ~(b <= b - 1)
        BY <1>1, <1>3, <2>2 DEF Listing
      <3>2. b - 1 \notin reaching
        <4> HIDE DEF reaching
        <4> QED BY <1>2, <3>1
      <3>3. ~(channel < Base(list, b - 1) + list[b - 1].channels)
        BY <3>1, <3>2 DEF Reaching
      <3>4. /\ Base(list, b) = Base(list, b - 1) + list[b - 1].channels
            /\ Base(list, b - 1) \in Nat /\ list[b - 1].channels \in Nat
        BY <3>1, BaseStep DEF Listing
      <3> QED BY <3>3, <3>4
    <2> QED BY <2>1, <2>2
  <1> QED BY <1>3, <1>4 DEF b

(* No other buffer has it.                                                  *)
LEMMA FoundOnce ==
  ASSUME NEW list, Listing(list), NEW channel \in Nat, NEW b \in DOMAIN list,
         Base(list, b) <= channel, channel < Base(list, b) + list[b].channels
  PROVE  Reaching(list, channel) # {} /\ FindChannel(list, channel) = b
  <1> DEFINE found == FindChannel(list, channel)
  <1>1. Reaching(list, channel) # {}
    BY DEF Reaching
  <1>2. /\ found \in DOMAIN list
        /\ Base(list, found) <= channel /\ channel < Base(list, found) + list[found].channels
    BY <1>1, FoundIs
  <1> HIDE DEF found
  <1>3. \A k \in DOMAIN list :
          k \in Nat /\ Base(list, k) \in Nat /\ list[k].channels \in Nat
    BY BaseStep DEF Listing
  <1>4. ~(found < b)
    <2>1. found < b => Base(list, found) + list[found].channels <= Base(list, b)
      BY <1>2, BaseGrows
    <2> QED BY <1>2, <1>3, <2>1
  <1>5. ~(b < found)
    <2>1. b < found => Base(list, b) + list[b].channels <= Base(list, found)
      BY <1>2, BaseGrows
    <2> QED BY <1>2, <1>3, <2>1
  <1>6. found = b
    BY <1>2, <1>3, <1>4, <1>5
  <1> QED BY <1>1, <1>6 DEF found

(* Memory is as long as it has places.                                      *)
LEMMA CapacityIs ==
  ASSUME NEW n \in Nat
  PROVE  Cardinality(0..n - 1) = n
  BY FS_Interval

(* A list with memory that is counted from nothing.                         *)
Filled(list) ==
  /\ Listing(list)
  /\ \A b \in DOMAIN list :
       /\ {"channels", "present", "samples"} \subseteq DOMAIN list[b]
       /\ list[b].present \in BOOLEAN
       /\ Capacity(list[b]) \in Nat
       /\ DOMAIN list[b].samples = 0..Capacity(list[b]) - 1

(* A place belongs to one frame of one channel, if its buffer has channels. *)
Belongs(list, b, at, channel, frame) ==
  /\ b \in DOMAIN list /\ list[b].present /\ at \in DOMAIN list[b].samples
  /\ list[b].channels > 0
  /\ channel = Base(list, b) + (at % list[b].channels)
  /\ frame = at \div list[b].channels

(* Rows of m, and a place in a row.                                         *)
LEMMA RowIs ==
  ASSUME NEW m \in Nat \ {0}, NEW q \in Nat, NEW r \in 0..(m - 1)
  PROVE  /\ q * m + r \in Nat
         /\ (q * m + r) % m = r /\ (q * m + r) \div m = q
  <1> DEFINE a == q * m + r
  <1>1. a \in Nat /\ a = m * q + r
    BY Z3
  <1> HIDE DEF a
  <1>2. a % m = r
    BY <1>1, ModUnique
  <1>3. a = m * (a \div m) + (a % m) /\ a \div m \in Nat
    BY <1>1, DivMod
  <1> DEFINE p == a \div m
  <1>4. p \in Nat /\ m * (p - q) = 0
    <2>1. p \in Nat /\ m * p + r = m * q + r
      BY <1>1, <1>2, <1>3
    <2> HIDE DEF p
    <2> QED BY <2>1, Z3
  <1> HIDE DEF p
  <1>5. p - q = 0
    <2>1. p - q \in Int /\ m * (p - q) < m /\ -m < m * (p - q)
      BY <1>4
    <2> QED BY <2>1, CloseMultiples
  <1>6. p = q
    BY <1>4, <1>5
  <1> QED BY <1>1, <1>2, <1>6 DEF a, p

(* PlaceOf gives a place of the frame and the channel, and of no other.      *)
LEMMA PlaceBelongs ==
  ASSUME NEW list, Filled(list), NEW channel \in Nat, NEW frame \in Nat,
         PlaceOf(list, channel, frame) # <<>>
  PROVE  \E b, at : /\ PlaceOf(list, channel, frame) = <<b, at>>
                    /\ Belongs(list, b, at, channel, frame)
  <1> DEFINE b == FindChannel(list, channel)
             m == list[b].channels
             r == channel - Base(list, b)
             at == frame * AtLeastOne(m) + r
  <1>0. Listing(list)
    BY DEF Filled
  <1>1. /\ Reaching(list, channel) # {} /\ list[b].present /\ ~(at >= Capacity(list[b]))
        /\ PlaceOf(list, channel, frame) = <<b, at>>
    BY DEF PlaceOf
  <1>2. /\ b \in DOMAIN list
        /\ Base(list, b) <= channel /\ channel < Base(list, b) + m
    BY <1>0, <1>1, FoundIs
  <1> HIDE DEF b
  <1>3. Base(list, b) \in Nat /\ m \in Nat
    BY <1>0, <1>2, BaseStep DEF Listing
  <1>4. m \in Nat \ {0} /\ m > 0 /\ AtLeastOne(m) = m /\ r \in 0..(m - 1)
    BY <1>2, <1>3 DEF AtLeastOne
  <1>5. channel = Base(list, b) + r
    BY <1>3
  <1>6. at = frame * m + r
    BY <1>4
  <1>7. at \in Nat /\ at % m = r /\ at \div m = frame
    <2> HIDE DEF at, m, r
    <2> QED BY <1>4, <1>6, RowIs
  <1>8. at \in DOMAIN list[b].samples
    <2>1. DOMAIN list[b].samples = 0..Capacity(list[b]) - 1 /\ Capacity(list[b]) \in Nat
      BY <1>2 DEF Filled
    <2>2. at \in Nat /\ ~(at >= Capacity(list[b]))
      BY <1>1, <1>7
    <2> HIDE DEF at
    <2> QED BY <2>1, <2>2
  <1>9. Belongs(list, b, at, channel, frame)
    <2> HIDE DEF at, r
    <2> QED BY <1>1, <1>2, <1>4, <1>5, <1>7, <1>8 DEF Belongs, m
  <1> QED BY <1>1, <1>9

(* Every place that belongs to a frame of a channel is the one PlaceOf gives. *)
LEMMA BelongsIsPlace ==
  ASSUME NEW list, Filled(list), NEW channel, NEW frame, NEW b, NEW at,
         Belongs(list, b, at, channel, frame)
  PROVE  /\ channel \in Nat /\ frame \in Nat
         /\ PlaceOf(list, channel, frame) = <<b, at>>
  <1> DEFINE m == list[b].channels
             n == Capacity(list[b])
  <1>0. Listing(list)
    BY DEF Filled
  <1>1. /\ b \in DOMAIN list /\ list[b].present /\ at \in DOMAIN list[b].samples /\ m > 0
        /\ channel = Base(list, b) + (at % m) /\ frame = at \div m
    BY DEF Belongs
  <1>2. n \in Nat /\ at \in 0..n - 1
    BY <1>1 DEF Filled
  <1>3. m \in Nat \ {0} /\ Base(list, b) \in Nat /\ AtLeastOne(m) = m
    <2>1. m \in Nat
      BY <1>0, <1>1 DEF Listing
    <2>2. Base(list, b) \in Nat
      BY <1>0, <1>1, BaseStep
    <2> HIDE DEF m
    <2> QED BY <1>1, <2>1, <2>2 DEF AtLeastOne
  <1>4. at \in Nat /\ at < n
    BY <1>2
  <1> HIDE DEF m, n
  <1>5. at = m * (at \div m) + (at % m) /\ at \div m \in Nat /\ at % m \in 0..(m - 1)
    BY <1>3, <1>4, DivMod, ModRange
  <1> DEFINE r == at % m
             q == at \div m
  <1>6. /\ q \in Nat /\ r \in 0..(m - 1) /\ at = m * q + r
        /\ channel = Base(list, b) + r /\ frame = q
    BY <1>1, <1>5
  <1> HIDE DEF r, q
  <1>7. /\ channel \in Nat /\ Base(list, b) <= channel /\ channel < Base(list, b) + m
        /\ channel - Base(list, b) = r
    BY <1>3, <1>6
  <1>8. Reaching(list, channel) # {} /\ FindChannel(list, channel) = b
    BY <1>0, <1>1, <1>7, FoundOnce DEF m
  <1>9. frame * AtLeastOne(m) + (channel - Base(list, b)) = at
    <2>1. q * m + r = at
      BY <1>3, <1>6, Z3
    <2> QED BY <1>3, <1>6, <1>7, <2>1
  <1>10. ~(at >= n)
    BY <1>2, <1>4
  <1>11. PlaceOf(list, channel, frame) = <<b, at>>
    BY <1>1, <1>8, <1>9, <1>10 DEF PlaceOf, m, n
  <1> QED BY <1>6, <1>7, <1>11

(* The samples of a list are those of its buffers that have memory.         *)
LEMMA SamplesAre ==
  ASSUME NEW list, NEW sample
  PROVE  sample \in Samples(list) <=>
           \E b \in DOMAIN list : /\ list[b].present
                                  /\ \E at \in DOMAIN list[b].samples :
                                       list[b].samples[at] = sample
  BY DEF Samples, Range

(* The shapes of the lists that the device hands over are lists themselves. *)
LEMMA ShapeIs ==
  ASSUME NEW shape \in Seq(Buffer)
  PROVE  /\ Listing(shape)
         /\ \A b \in DOMAIN shape : /\ shape[b].channels \in Nat /\ shape[b].samples \in Nat
                                   /\ shape[b].present \in BOOLEAN
  <1>1. /\ Len(shape) \in Nat /\ DOMAIN shape = 1..Len(shape)
        /\ \A b \in DOMAIN shape : shape[b] \in Buffer
    OBVIOUS
  <1> QED BY <1>1 DEF Buffer, Listing

(* A list made after a shape.                                               *)
Made(shape, list) ==
  /\ DOMAIN list = DOMAIN shape /\ Len(list) = Len(shape)
  /\ \A b \in DOMAIN shape :
       /\ list[b].channels = shape[b].channels /\ list[b].present = shape[b].present
       /\ DOMAIN list[b].samples = 0..shape[b].samples - 1
       /\ {"channels", "present", "samples"} \subseteq DOMAIN list[b]

LEMMA MadeIs ==
  ASSUME NEW shape \in Seq(Buffer), NEW list, Made(shape, list)
  PROVE  /\ Filled(list)
         /\ \A b \in DOMAIN list : Base(list, b) = Base(shape, b)
  <1>1. /\ Listing(shape)
        /\ \A b \in DOMAIN shape : /\ shape[b].channels \in Nat /\ shape[b].samples \in Nat
                                  /\ shape[b].present \in BOOLEAN
    BY ShapeIs
  <1>2. Listing(list)
    BY <1>1 DEF Listing, Made
  <1>3. \A b \in DOMAIN list : Base(list, b) = Base(shape, b)
    BY <1>1, <1>2, BaseSame DEF Made
  <1>4. ASSUME NEW b \in DOMAIN list
        PROVE  /\ {"channels", "present", "samples"} \subseteq DOMAIN list[b]
               /\ list[b].present \in BOOLEAN /\ Capacity(list[b]) \in Nat
               /\ DOMAIN list[b].samples = 0..Capacity(list[b]) - 1
    <2>1. /\ b \in DOMAIN shape /\ DOMAIN list[b].samples = 0..shape[b].samples - 1
          /\ list[b].present = shape[b].present
          /\ {"channels", "present", "samples"} \subseteq DOMAIN list[b]
      BY DEF Made
    <2>2. Capacity(list[b]) = shape[b].samples
      BY <1>1, <2>1, CapacityIs DEF Capacity
    <2> QED BY <1>1, <2>1, <2>2
  <1> QED BY <1>2, <1>3, <1>4 DEF Filled

(* A list for output.                                                       *)
LEMMA OutputListIs ==
  ASSUME NEW shape \in Seq(Buffer)
  PROVE  Filled(OutputList(shape))
  <1> DEFINE list == OutputList(shape)
             Held(b) == [i \in 0..shape[b].samples - 1 |-> Junk]
  <1>1. list = [b \in DOMAIN shape |-> [channels |-> shape[b].channels,
                                       present |-> shape[b].present, samples |-> Held(b)]]
    BY DEF OutputList
  <1>2. \A b \in DOMAIN shape : DOMAIN Held(b) = 0..shape[b].samples - 1
    OBVIOUS
  <1>3. DOMAIN shape = 1..Len(shape) /\ Len(shape) \in Nat
    OBVIOUS
  <1> HIDE DEF Held, list
  <1>4. DOMAIN list = DOMAIN shape
    BY <1>1
  <1>5. Len(list) = Len(shape)
    BY <1>3, <1>4
  <1>6. Made(shape, list)
    BY <1>1, <1>2, <1>4, <1>5 DEF Made
  <1>7. Filled(list)
    BY <1>6, MadeIs
  <1> QED BY <1>7 DEF list

(* A list that was recorded.                                                *)
LEMMA InputListIs ==
  ASSUME NEW shape \in Seq(Buffer)
  PROVE  LET list == InputList(shape)
         IN  /\ Filled(list)
             /\ \A b \in DOMAIN list :
                  /\ shape[b].channels \in Nat
                  /\ list[b].channels = shape[b].channels /\ Base(list, b) = Base(shape, b)
                  /\ \A at \in DOMAIN list[b].samples :
                       list[b].samples[at] =
                         IF shape[b].channels > 0 THEN RecordedAt(shape, b, at) ELSE Junk
  <1> DEFINE list == InputList(shape)
             Held(b) == [i \in 0..shape[b].samples - 1 |->
                           IF shape[b].channels > 0 THEN RecordedAt(shape, b, i) ELSE Junk]
  <1>1. list = [b \in DOMAIN shape |-> [channels |-> shape[b].channels,
                                       present |-> shape[b].present, samples |-> Held(b)]]
    BY DEF InputList
  <1>2. \A b \in DOMAIN shape :
          /\ DOMAIN Held(b) = 0..shape[b].samples - 1
          /\ \A at \in DOMAIN Held(b) :
               Held(b)[at] = IF shape[b].channels > 0 THEN RecordedAt(shape, b, at) ELSE Junk
    OBVIOUS
  <1>3. DOMAIN shape = 1..Len(shape) /\ Len(shape) \in Nat
    OBVIOUS
  <1> HIDE DEF Held, list
  <1>4. DOMAIN list = DOMAIN shape
    BY <1>1
  <1>5. Len(list) = Len(shape)
    BY <1>3, <1>4
  <1>6. Made(shape, list)
    BY <1>1, <1>2, <1>4, <1>5 DEF Made
  <1>7. Filled(list) /\ \A b \in DOMAIN list : Base(list, b) = Base(shape, b)
    BY <1>6, MadeIs
  <1>8. ASSUME NEW b \in DOMAIN list
        PROVE  /\ shape[b].channels \in Nat /\ list[b].channels = shape[b].channels
               /\ \A at \in DOMAIN list[b].samples :
                    list[b].samples[at] =
                      IF shape[b].channels > 0 THEN RecordedAt(shape, b, at) ELSE Junk
    <2>1. shape[b].channels \in Nat
      BY <1>4, ShapeIs
    <2>2. list[b].channels = shape[b].channels /\ list[b].samples = Held(b)
      BY <1>1, <1>4
    <2> QED BY <1>2, <1>4, <2>1, <2>2
  <1> QED BY <1>7, <1>8 DEF list

(* What was recorded in a place is the frame of the channel it belongs to.  *)
LEMMA RecordedIs ==
  ASSUME block \in Nat, NEW shape \in Seq(Buffer), NEW channel, NEW frame,
         NEW b, NEW at, Belongs(InputList(shape), b, at, channel, frame)
  PROVE  InputList(shape)[b].samples[at] = <<block + 1, channel, frame>>
  <1> DEFINE list == InputList(shape)
  <1>1. /\ b \in DOMAIN list /\ at \in DOMAIN list[b].samples
        /\ list[b].channels > 0
        /\ channel = Base(list, b) + (at % list[b].channels)
        /\ frame = at \div list[b].channels
    BY DEF Belongs
  <1>2. /\ list[b].channels = shape[b].channels /\ Base(list, b) = Base(shape, b)
        /\ list[b].samples[at] =
             IF shape[b].channels > 0 THEN RecordedAt(shape, b, at) ELSE Junk
    BY <1>1, InputListIs
  <1> HIDE DEF list
  <1>3. RecordedAt(shape, b, at) = <<block + 1, channel, frame>>
    BY <1>1, <1>2 DEF RecordedAt
  <1> QED BY <1>1, <1>2, <1>3 DEF list

(* And the frame of a channel was recorded in a place that belongs to it.   *)
LEMMA RecordedWhere ==
  ASSUME block \in Nat, NEW shape \in Seq(Buffer), NEW channel, NEW frame,
         <<block + 1, channel, frame>> \in Samples(InputList(shape))
  PROVE  \E b, at : Belongs(InputList(shape), b, at, channel, frame)
  <1> DEFINE list == InputList(shape)
  <1>1. PICK b \in DOMAIN list :
          /\ list[b].present
          /\ \E at \in DOMAIN list[b].samples :
               list[b].samples[at] = <<block + 1, channel, frame>>
    <2> DEFINE sample == <<block + 1, channel, frame>>
    <2>1. sample \in Samples(list)
      OBVIOUS
    <2> HIDE DEF sample, list
    <2>2. \E b \in DOMAIN list : /\ list[b].present
                                 /\ \E at \in DOMAIN list[b].samples :
                                      list[b].samples[at] = sample
      BY <2>1, SamplesAre
    <2> QED BY <2>2 DEF sample
  <1>2. PICK at \in DOMAIN list[b].samples :
          list[b].samples[at] = <<block + 1, channel, frame>>
    BY <1>1
  <1>3. /\ list[b].channels = shape[b].channels /\ Base(list, b) = Base(shape, b)
        /\ list[b].samples[at] =
             IF shape[b].channels > 0 THEN RecordedAt(shape, b, at) ELSE Junk
    BY <1>2, InputListIs
  <1> HIDE DEF list
  <1>4. Junk # <<block + 1, channel, frame>>
    <2>1. Junk[1] = -1 /\ <<block + 1, channel, frame>>[1] = block + 1
      BY DEF Junk
    <2> QED BY <2>1
  <1>5. shape[b].channels > 0 /\ RecordedAt(shape, b, at) = <<block + 1, channel, frame>>
    BY <1>2, <1>3, <1>4
  <1>6. <<block + 1, Base(shape, b) + (at % shape[b].channels), at \div shape[b].channels>>
          = <<block + 1, channel, frame>>
    BY <1>5 DEF RecordedAt
  <1>7. channel = Base(shape, b) + (at % shape[b].channels) /\ frame = at \div shape[b].channels
    BY <1>6
  <1>8. Belongs(list, b, at, channel, frame)
    BY <1>1, <1>2, <1>3, <1>5, <1>7 DEF Belongs
  <1> QED BY <1>8 DEF list

-----------------------------------------------------------------------------
(* The block that is gathered. *)

(* What a call of the device finds: the channels it was opened for, and     *)
(* buffers that hold the longest block, which no block is longer than.  On  *)
(* RemoteIO there is a plane for every channel that is selected, and it is  *)
(* among those that are rendered.                                           *)
BuffersInv ==
  /\ block \in Nat
  /\ selected \in Seq(Nat) /\ outputs \in Seq(Nat)
  /\ DOMAIN interleaved = 0..MaxBufferFrames * AtLeastOne(Len(selected)) - 1
  /\ DOMAIN scratch = 0..MaxBufferFrames * AtLeastOne(Len(outputs)) - 1
  /\ \E frames \in 0..MaxBufferFrames : DOMAIN heard = 1..frames
  /\ backend = "RemoteIO" =>
       /\ \E n \in Nat : DOMAIN planes = 0..n - 1
       /\ \A c \in DOMAIN planes : DOMAIN planes[c] = 0..MaxBufferFrames - 1
       /\ \A s \in DOMAIN selected :
            selected[s] \in DOMAIN planes /\ selected[s] < MostRenderChannels

LEMMA SizesAre ==
  MaxBufferFrames \in Nat \ {0} /\ MostRenderChannels \in Nat \ {0}
  BY ConfigAssumption

LEMMA AtLeastOneIs ==
  ASSUME NEW n \in Nat
  PROVE  AtLeastOne(n) \in Nat \ {0} /\ n <= AtLeastOne(n) /\ (n # 0 => AtLeastOne(n) = n)
  BY DEF AtLeastOne

(* The row of a frame lies within the rows of as many frames as there are.  *)
LEMMA RowFits ==
  ASSUME NEW n \in Nat \ {0}, NEW frames \in Nat, NEW q \in 0..(frames - 1),
         NEW r \in 0..(n - 1)
  PROVE  q * n + r \in 0..(frames * n - 1) /\ frames * n \in Nat
  <1>1. q \in Nat /\ q + 1 <= frames /\ r \in Nat /\ r < n
    OBVIOUS
  <1>2. q * n \in Nat /\ frames * n \in Nat
    BY <1>1, Z3
  <1>3. (q + 1) * n <= frames * n /\ (q + 1) * n = q * n + n
    BY <1>1, Z3
  <1> DEFINE a == q * n
             b == frames * n
             c == (q + 1) * n
  <1>4. a \in Nat /\ b \in Nat /\ c <= b /\ c = a + n
    BY <1>2, <1>3
  <1> HIDE DEF a, b, c
  <1>5. a + r \in 0..(b - 1)
    BY <1>1, <1>4
  <1> QED BY <1>4, <1>5 DEF a, b

(* And so within a buffer made for the longest block.                       *)
LEMMA RowInside ==
  ASSUME NEW n \in Nat \ {0}, NEW frames \in Nat, frames <= MaxBufferFrames,
         NEW k \in 0..(frames * n - 1)
  PROVE  k \in 0..MaxBufferFrames * AtLeastOne(n) - 1
  <1>1. AtLeastOne(n) = n /\ MaxBufferFrames \in Nat
    BY SizesAre, AtLeastOneIs
  <1>2. frames * n <= MaxBufferFrames * n /\ frames * n \in Nat /\ MaxBufferFrames * n \in Nat
    BY <1>1, Z3
  <1> DEFINE a == frames * n
             b == MaxBufferFrames * n
  <1>3. a \in Nat /\ b \in Nat /\ a <= b /\ k \in 0..(a - 1)
    BY <1>2
  <1> HIDE DEF a, b
  <1>4. k \in 0..(b - 1)
    BY <1>3
  <1> QED BY <1>1, <1>4 DEF b

LEMMA FirstFramesAre ==
  ASSUME NEW list, Filled(list)
  PROVE  FirstFrames(list) \in Nat
  <1>1. CASE list = NoList
    BY <1>1 DEF FirstFrames
  <1>2. CASE list # NoList
    <2>1. 1 \in DOMAIN list
      <3>1. DOMAIN list = 1..Len(list) /\ Len(list) \in Nat
        BY DEF Filled, Listing
      <3>2. list # <<>>
        BY <1>2 DEF NoList
      <3>3. Len(list) # 0
        BY <3>1, <3>2
      <3> QED BY <3>1, <3>3
    <2>2. Capacity(list[1]) \in Nat /\ AtLeastOne(list[1].channels) \in Nat \ {0}
      BY <2>1, AtLeastOneIs DEF Filled, Listing
    <2>3. FramesOf(list[1]) \in Nat
      BY <2>2, DivMod DEF FramesOf
    <2> QED BY <1>2, <2>3 DEF FirstFrames
  <1> QED BY <1>1, <1>2

(* A block is as long as its first buffer says, and never longer than the   *)
(* buffers it is gathered in (coreaudio.cpp:434-440).                       *)
LEMMA GatheredFramesAre ==
  ASSUME BuffersInv, NEW list, Filled(list)
  PROVE  /\ GatheredFrames(list) \in 0..MaxBufferFrames
         /\ selected # <<>> => (GatheredFrames(list) = 0 <=> FirstFrames(list) = 0)
  <1>1. FirstFrames(list) \in Nat /\ MaxBufferFrames \in Nat \ {0}
    BY FirstFramesAre, SizesAre
  <1>2. CASE selected = <<>>
    BY <1>1, <1>2 DEF GatheredFrames
  <1>3. CASE selected # <<>>
    <2> DEFINE n == Len(selected)
    <2>1. n \in Nat \ {0}
      BY <1>3 DEF BuffersInv
    <2>2. Cardinality(DOMAIN interleaved) = MaxBufferFrames * n
      <3>1. MaxBufferFrames * n \in Nat /\ AtLeastOne(n) = n
        BY <1>1, <2>1, AtLeastOneIs, Z3
      <3>2. DOMAIN interleaved = 0..MaxBufferFrames * n - 1
        BY <3>1 DEF BuffersInv
      <3> DEFINE size == MaxBufferFrames * n
      <3>3. size \in Nat /\ DOMAIN interleaved = 0..size - 1
        BY <3>1, <3>2
      <3> HIDE DEF size
      <3>4. Cardinality(DOMAIN interleaved) = size
        BY <3>3, CapacityIs
      <3> QED BY <3>4 DEF size
    <2>3. (MaxBufferFrames * n) \div n = MaxBufferFrames
      <3>1. MaxBufferFrames * n + 0 = MaxBufferFrames * n
        BY <1>1, <2>1, Z3
      <3>2. 0 \in 0..(n - 1)
        BY <2>1
      <3> HIDE DEF n
      <3>3. (MaxBufferFrames * n + 0) \div n = MaxBufferFrames
        BY <1>1, <2>1, <3>2, RowIs
      <3> QED BY <3>1, <3>3
    <2>4. GatheredFrames(list) = Smaller(FirstFrames(list), MaxBufferFrames)
      BY <1>3, <2>2, <2>3 DEF GatheredFrames
    <2> QED BY <1>1, <2>4 DEF Smaller
  <1> QED BY <1>2, <1>3

(* The gathered block holds, frame by frame, what the list holds of each    *)
(* selected channel, or silence (coreaudio.cpp:446-461).                    *)
LEMMA GatheredIs ==
  ASSUME BuffersInv, NEW shape \in Seq(Buffer), NEW frames \in 0..MaxBufferFrames,
         NEW f \in 1..frames, NEW s \in DOMAIN selected
  PROVE  LET list == InputList(shape)
             sample == <<block + 1, selected[s], f - 1>>
         IN  Gathered(list, frames)[(f - 1) * Len(selected) + s - 1] =
               IF FirstFrames(list) > 0 /\ sample \in Samples(list) THEN sample ELSE Silence
  <1> DEFINE list == InputList(shape)
             n == Len(selected)
             k == (f - 1) * n + (s - 1)
             sample == <<block + 1, selected[s], f - 1>>
  <1>1. Filled(list)
    BY InputListIs
  <1>2. /\ n \in Nat \ {0} /\ s \in 1..n /\ selected[s] \in Nat /\ selected # <<>>
        /\ block \in Nat /\ MaxBufferFrames \in Nat
    BY SizesAre DEF BuffersInv
  <1>3. f - 1 \in 0..(frames - 1) /\ s - 1 \in 0..(n - 1) /\ f - 1 \in Nat
        /\ frames \in Nat /\ frames <= MaxBufferFrames /\ (s - 1) + 1 = s
    BY <1>2
  <1> HIDE DEF list, n
  <1>4. k % n = s - 1 /\ k \div n = f - 1
    BY <1>2, <1>3, RowIs
  <1>5. k \in 0..(frames * n - 1) /\ frames * n \in Nat
    BY <1>2, <1>3, RowFits
  <1> HIDE DEF k
  <1>6. k \in DOMAIN interleaved
    <2>1. k \in 0..MaxBufferFrames * AtLeastOne(n) - 1
      BY <1>2, <1>3, <1>5, RowInside
    <2> QED BY <2>1 DEF BuffersInv, n
  <1>7. ~(k >= frames * n)
    BY <1>5
  <1>8. Gathered(list, frames)[k] =
          IF GatheredFrames(list) = 0 THEN Silence ELSE HeldAt(list, f - 1, s - 1)
    BY <1>4, <1>6, <1>7 DEF Gathered, n
  <1>9. GatheredFrames(list) = 0 <=> FirstFrames(list) = 0
    BY <1>1, <1>2, GatheredFramesAre
  <1>10. FirstFrames(list) \in Nat
    BY <1>1, FirstFramesAre
  <1> DEFINE place == PlaceOf(list, selected[s], f - 1)
  <1>11. HeldAt(list, f - 1, s - 1) =
           IF place = <<>> THEN Silence ELSE list[place[1]].samples[place[2]]
    BY <1>3 DEF HeldAt
  <1>12. CASE place = <<>>
    <2>1. sample \notin Samples(list)
      <3>1. SUFFICES ASSUME sample \in Samples(list)
                     PROVE  FALSE
        OBVIOUS
      <3>2. PICK b, at : Belongs(list, b, at, selected[s], f - 1)
        BY <1>2, <3>1, RecordedWhere DEF list
      <3>3. place = <<b, at>>
        BY <1>1, <3>2, BelongsIsPlace
      <3>4. Len(<<b, at>>) = 2 /\ Len(<<>>) = 0
        OBVIOUS
      <3> HIDE DEF place
      <3> QED BY <1>12, <3>3, <3>4
    <2> HIDE DEF sample, place
    <2> QED BY <1>8, <1>11, <1>12, <2>1 DEF k, n, list, sample
  <1>13. CASE place # <<>>
    <2>1. PICK b, at : place = <<b, at>> /\ Belongs(list, b, at, selected[s], f - 1)
      BY <1>1, <1>2, <1>3, <1>13, PlaceBelongs
    <2>2. list[b].samples[at] = sample
      <3>1. Belongs(InputList(shape), b, at, selected[s], f - 1)
        BY <2>1 DEF list
      <3> HIDE DEF place
      <3>2. InputList(shape)[b].samples[at] = <<block + 1, selected[s], f - 1>>
        BY <1>2, <3>1, RecordedIs
      <3> QED BY <3>2 DEF list
    <2>3. sample \in Samples(list)
      <3>1. b \in DOMAIN list /\ list[b].present /\ at \in DOMAIN list[b].samples
        BY <2>1 DEF Belongs
      <3> HIDE DEF sample
      <3> QED BY <2>2, <3>1, SamplesAre
    <2>4. HeldAt(list, f - 1, s - 1) = sample
      <3>1. place[1] = b /\ place[2] = at
        BY <2>1
      <3> HIDE DEF place, sample
      <3> QED BY <1>11, <1>13, <2>2, <3>1
    <2> HIDE DEF sample, place
    <2>5. Gathered(list, frames)[k] =
            IF FirstFrames(list) > 0 /\ sample \in Samples(list) THEN sample ELSE Silence
      BY <1>8, <1>9, <1>10, <2>3, <2>4
    <2> QED BY <2>5 DEF k, n, list, sample
  <1> QED BY <1>12, <1>13

-----------------------------------------------------------------------------
(* What is scattered. *)

(* One list is shaped as another: only samples differ.                      *)
SameShape(list, other) ==
  /\ Len(other) = Len(list) /\ DOMAIN other = DOMAIN list
  /\ \A b \in DOMAIN list :
       /\ other[b].channels = list[b].channels /\ other[b].present = list[b].present
       /\ DOMAIN other[b].samples = DOMAIN list[b].samples
       /\ {"channels", "present", "samples"} \subseteq DOMAIN other[b]

LEMMA SameShapeIs ==
  ASSUME NEW list, Filled(list), NEW other, SameShape(list, other)
  PROVE  /\ Filled(other)
         /\ \A b \in DOMAIN list : Base(other, b) = Base(list, b)
  <1>1. Listing(list) /\ Listing(other)
    BY DEF Filled, Listing, SameShape
  <1>2. \A b \in DOMAIN list : Base(other, b) = Base(list, b)
    BY <1>1, BaseSame DEF SameShape
  <1>3. ASSUME NEW b \in DOMAIN other
        PROVE  /\ {"channels", "present", "samples"} \subseteq DOMAIN other[b]
               /\ other[b].present \in BOOLEAN
               /\ Capacity(other[b]) \in Nat
               /\ DOMAIN other[b].samples = 0..Capacity(other[b]) - 1
    <2>1. /\ b \in DOMAIN list /\ other[b].present = list[b].present
          /\ DOMAIN other[b].samples = DOMAIN list[b].samples
          /\ {"channels", "present", "samples"} \subseteq DOMAIN other[b]
      BY DEF SameShape
    <2>2. Capacity(other[b]) = Capacity(list[b])
      BY <2>1 DEF Capacity
    <2> QED BY <2>1, <2>2 DEF Filled
  <1> QED BY <1>1, <1>2, <1>3 DEF Filled

(* Silence in every buffer that has memory (coreaudio.cpp:385-390,          *)
(* ios.mm:252-263).                                                         *)
LEMMA ZeroedIs ==
  ASSUME NEW list, Filled(list)
  PROVE  /\ SameShape(list, Zeroed(list))
         /\ \A b \in DOMAIN list : list[b].present =>
              \A at \in DOMAIN list[b].samples : Zeroed(list)[b].samples[at] = Silence
  <1> DEFINE zeroed == Zeroed(list)
             Quiet(b) == [i \in DOMAIN list[b].samples |-> Silence]
  <1>1. zeroed = [b \in DOMAIN list |-> IF list[b].present
                                        THEN [list[b] EXCEPT !.samples = Quiet(b)]
                                        ELSE list[b]]
    BY DEF Zeroed
  <1> HIDE DEF zeroed
  <1>2. DOMAIN list = 1..Len(list) /\ Len(list) \in Nat
    BY DEF Filled, Listing
  <1>3. DOMAIN zeroed = DOMAIN list /\ Len(zeroed) = Len(list)
    <2> HIDE DEF Quiet
    <2>1. DOMAIN zeroed = DOMAIN list
      BY <1>1
    <2> QED BY <1>2, <2>1
  <1>4. ASSUME NEW b \in DOMAIN list
        PROVE  /\ zeroed[b].channels = list[b].channels
               /\ zeroed[b].present = list[b].present
               /\ DOMAIN zeroed[b].samples = DOMAIN list[b].samples
               /\ {"channels", "present", "samples"} \subseteq DOMAIN zeroed[b]
               /\ list[b].present =>
                    \A at \in DOMAIN list[b].samples : zeroed[b].samples[at] = Silence
    <2>1. {"channels", "present", "samples"} \subseteq DOMAIN list[b]
      BY DEF Filled
    <2>2. CASE ~list[b].present
      BY <1>1, <2>1, <2>2
    <2>3. CASE list[b].present
      <3> HIDE DEF Quiet
      <3>1. zeroed[b] = [list[b] EXCEPT !.samples = Quiet(b)]
        BY <1>1, <2>3
      <3>2. /\ zeroed[b].channels = list[b].channels /\ zeroed[b].present = list[b].present
            /\ zeroed[b].samples = Quiet(b) /\ DOMAIN zeroed[b] = DOMAIN list[b]
        BY <2>1, <3>1
      <3>3. /\ DOMAIN Quiet(b) = DOMAIN list[b].samples
            /\ \A at \in DOMAIN list[b].samples : Quiet(b)[at] = Silence
        BY DEF Quiet
      <3> QED BY <2>1, <3>2, <3>3
    <2> QED BY <2>2, <2>3
  <1> QED BY <1>3, <1>4 DEF SameShape, zeroed

LEMMA ScatteredIs ==
  ASSUME NEW list, Filled(list), NEW samples, NEW frames
  PROVE  /\ SameShape(list, Scattered(list, samples, frames))
         /\ \A b \in DOMAIN list : \A at \in DOMAIN list[b].samples :
              Scattered(list, samples, frames)[b].samples[at] =
                IF Landing(list, b, at, frames) = {} THEN list[b].samples[at]
                ELSE samples[CHOOSE k \in Landing(list, b, at, frames) : TRUE]
  <1> DEFINE scattered == Scattered(list, samples, frames)
             Held(b) == [at \in DOMAIN list[b].samples |->
                           IF Landing(list, b, at, frames) = {} THEN list[b].samples[at]
                           ELSE samples[CHOOSE k \in Landing(list, b, at, frames) : TRUE]]
  <1>1. scattered = [b \in DOMAIN list |-> [list[b] EXCEPT !.samples = Held(b)]]
    BY DEF Scattered
  <1> HIDE DEF scattered
  <1>2. DOMAIN list = 1..Len(list) /\ Len(list) \in Nat
    BY DEF Filled, Listing
  <1>3. DOMAIN scattered = DOMAIN list /\ Len(scattered) = Len(list)
    <2> HIDE DEF Held
    <2>1. DOMAIN scattered = DOMAIN list
      BY <1>1
    <2> QED BY <1>2, <2>1
  <1>4. ASSUME NEW b \in DOMAIN list
        PROVE  /\ scattered[b].channels = list[b].channels
               /\ scattered[b].present = list[b].present
               /\ scattered[b].samples = Held(b)
               /\ {"channels", "present", "samples"} \subseteq DOMAIN scattered[b]
    <2> HIDE DEF Held
    <2>1. {"channels", "present", "samples"} \subseteq DOMAIN list[b]
      BY DEF Filled
    <2>2. scattered[b] = [list[b] EXCEPT !.samples = Held(b)]
      BY <1>1
    <2> QED BY <2>1, <2>2
  <1>5. ASSUME NEW b \in DOMAIN list
        PROVE  /\ DOMAIN Held(b) = DOMAIN list[b].samples
               /\ \A at \in DOMAIN list[b].samples :
                    Held(b)[at] = IF Landing(list, b, at, frames) = {} THEN list[b].samples[at]
                                  ELSE samples[CHOOSE k \in Landing(list, b, at, frames) : TRUE]
    OBVIOUS
  <1> HIDE DEF Held
  <1>6. SameShape(list, scattered)
    BY <1>3, <1>4, <1>5 DEF SameShape
  <1>7. \A b \in DOMAIN list : \A at \in DOMAIN list[b].samples :
          scattered[b].samples[at] =
            IF Landing(list, b, at, frames) = {} THEN list[b].samples[at]
            ELSE samples[CHOOSE k \in Landing(list, b, at, frames) : TRUE]
    BY <1>4, <1>5
  <1> QED BY <1>6, <1>7 DEF scattered

(* What lands in a place is a frame of an output channel that it belongs    *)
(* to.                                                                      *)
LEMMA LandingIs ==
  ASSUME outputs \in Seq(Nat), NEW list, Filled(list), NEW frames \in Nat,
         NEW b, NEW at, NEW k \in Landing(list, b, at, frames)
  PROVE  \E s \in DOMAIN outputs, frame \in Nat :
           /\ frame < frames /\ k = frame * Len(outputs) + s - 1
           /\ Belongs(list, b, at, outputs[s], frame)
  <1> DEFINE n == Len(outputs)
             s == (k % n) + 1
             frame == k \div n
  <1>1. n \in Nat /\ k \in 0..(frames * n - 1)
        /\ PlaceOf(list, outputs[s], frame) = <<b, at>>
    BY DEF Landing
  <1>2. n # 0
    <2>1. n = 0 => frames * n = 0
      BY <1>1, Z3
    <2> QED BY <1>1, <2>1
  <1>3. k \in Nat /\ frames * n \in Nat /\ k < frames * n
    <2>1. frames * n \in Nat
      BY <1>1, Z3
    <2> DEFINE a == frames * n
    <2>2. a \in Nat /\ k \in 0..(a - 1)
      BY <1>1, <2>1
    <2> HIDE DEF a
    <2>3. k \in Nat /\ k < a
      BY <2>2
    <2> QED BY <2>1, <2>3 DEF a
  <1> HIDE DEF n
  <1>4. k = n * (k \div n) + (k % n) /\ k \div n \in Nat /\ k % n \in 0..(n - 1)
    BY <1>1, <1>2, <1>3, DivMod, ModRange
  <1>5. s \in 1..n /\ s - 1 = k % n /\ frame \in Nat
    BY <1>1, <1>4
  <1>6. k = frame * n + (s - 1)
    <2> DEFINE r == k % n
    <2>1. k = n * frame + r /\ r \in Nat
      BY <1>1, <1>4
    <2> HIDE DEF r, frame
    <2>2. k = frame * n + r
      BY <1>1, <1>5, <2>1, Z3
    <2> QED BY <1>5, <2>2 DEF r
  <1>7. frame < frames
    <2>1. SUFFICES ASSUME frames <= frame
                   PROVE  FALSE
      BY <1>5
    <2> HIDE DEF frame, s
    <2>2. frames * n <= frame * n
      BY <1>1, <1>5, <2>1, Z3
    <2>3. frame * n \in Nat
      BY <1>1, <1>5, Z3
    <2> DEFINE x == frame * n
               y == frames * n
    <2>4. x \in Nat /\ y \in Nat /\ y <= x /\ k < y /\ k = x + (s - 1)
      BY <1>3, <1>6, <2>2, <2>3
    <2> HIDE DEF x, y
    <2> QED BY <1>3, <1>5, <2>4
  <1>8. s \in DOMAIN outputs /\ outputs[s] \in Nat
    BY <1>1, <1>5 DEF n
  <1>9. Belongs(list, b, at, outputs[s], frame)
    <2> HIDE DEF s, frame
    <2>1. PlaceOf(list, outputs[s], frame) # <<>>
      <3>1. Len(<<b, at>>) = 2 /\ Len(<<>>) = 0
        OBVIOUS
      <3> QED BY <1>1, <3>1
    <2>2. PICK c, i : /\ PlaceOf(list, outputs[s], frame) = <<c, i>>
                      /\ Belongs(list, c, i, outputs[s], frame)
      BY <1>5, <1>8, <2>1, PlaceBelongs
    <2>3. <<c, i>> = <<b, at>>
      BY <1>1, <2>2
    <2>4. c = b /\ i = at
      BY <2>3
    <2> QED BY <2>2, <2>4
  <1> HIDE DEF s, frame
  <1> QED BY <1>5, <1>6, <1>7, <1>8, <1>9 DEF n

(* And every frame of an output channel lands where it belongs.             *)
LEMMA LandsThere ==
  ASSUME outputs \in Seq(Nat), NEW list, Filled(list), NEW frames \in Nat,
         NEW b, NEW at, NEW s \in DOMAIN outputs, NEW frame \in Nat, frame < frames,
         Belongs(list, b, at, outputs[s], frame)
  PROVE  Landing(list, b, at, frames) # {}
  <1> DEFINE n == Len(outputs)
             k == frame * n + (s - 1)
  <1>1. n \in Nat \ {0} /\ s - 1 \in 0..(n - 1) /\ frame \in 0..(frames - 1)
        /\ (s - 1) + 1 = s
    OBVIOUS
  <1>2. PlaceOf(list, outputs[s], frame) = <<b, at>>
    BY BelongsIsPlace
  <1> HIDE DEF n
  <1>3. k % n = s - 1 /\ k \div n = frame
    BY <1>1, RowIs
  <1>4. k \in 0..(frames * n - 1)
    BY <1>1, RowFits
  <1> HIDE DEF k
  <1>5. k \in Landing(list, b, at, frames)
    BY <1>1, <1>2, <1>3, <1>4 DEF Landing, n
  <1> QED BY <1>5

-----------------------------------------------------------------------------
(* The two callbacks. *)

(* A block that RemoteIO rendered holds the planes that were filled for it, *)
(* and silence if the render failed (ios.mm:302-351).                       *)
LEMMA RenderedIs ==
  ASSUME BuffersInv, backend = "RemoteIO", block' = block + 1,
         NEW frames \in 1..MaxBufferFrames, NEW output, NEW succeeds \in BOOLEAN,
         NEW writes \in BOOLEAN, RenderCallback(frames, output, succeeds, writes),
         NEW f \in 1..frames, NEW s \in DOMAIN selected
  PROVE  LET sample == <<block + 1, selected[s], f - 1>>
         IN  interleaved'[(f - 1) * Len(selected) + s - 1] =
               IF FirstFrames(recorded') > 0 /\ sample \in Samples(recorded')
               THEN sample ELSE Silence
  <1> DEFINE n == Len(selected)
             k == (f - 1) * n + (s - 1)
             c == selected[s]
             sample == <<block + 1, c, f - 1>>
  <1>1. /\ n \in Nat \ {0} /\ s \in 1..n /\ c \in Nat
        /\ block \in Nat /\ MaxBufferFrames \in Nat \ {0}
    BY SizesAre DEF BuffersInv
  <1>2. /\ f - 1 \in 0..(frames - 1) /\ s - 1 \in 0..(n - 1) /\ f - 1 \in Nat
        /\ frames \in Nat /\ frames <= MaxBufferFrames /\ (s - 1) + 1 = s
        /\ f - 1 \in 0..MaxBufferFrames - 1 /\ f - 1 < frames
        /\ ~(frames = 0 \/ frames > MaxBufferFrames)
    BY <1>1
  <1>3. /\ planes' = IF succeeds THEN RenderedPlanes(frames) ELSE planes
        /\ recorded' = IF succeeds
                       THEN [p \in 1..Cardinality(DOMAIN planes) |->
                               [channels |-> 1, present |-> TRUE, samples |-> planes'[p - 1]]]
                       ELSE NoList
        /\ interleaved' = RenderedBlock(frames, succeeds)
    BY <1>2 DEF RenderCallback
  <1> HIDE DEF n
  <1>4. k % n = s - 1 /\ k \div n = f - 1
    BY <1>1, <1>2, RowIs
  <1>5. k \in 0..(frames * n - 1) /\ frames * n \in Nat
    BY <1>1, <1>2, RowFits
  <1> HIDE DEF k
  <1>6. k \in DOMAIN interleaved
    <2>1. k \in 0..MaxBufferFrames * AtLeastOne(n) - 1
      BY <1>1, <1>2, <1>5, RowInside
    <2> QED BY <2>1 DEF BuffersInv, n
  <1>7. ~(k >= frames * n)
    BY <1>5
  <1>8. c \in DOMAIN planes /\ c < MostRenderChannels
    BY DEF BuffersInv
  <1>9. interleaved'[k] = IF succeeds THEN planes'[c][f - 1] ELSE Silence
    <2> HIDE DEF c
    <2>1. selected[(k % n) + 1] = c
      BY <1>2, <1>4 DEF c
    <2> QED BY <1>3, <1>4, <1>6, <1>7, <1>8, <2>1 DEF RenderedBlock, n
  <1>10. CASE ~succeeds
    <2>1. recorded' = NoList /\ interleaved'[k] = Silence
      BY <1>3, <1>9, <1>10
    <2>2. ~(FirstFrames(recorded') > 0)
      BY <2>1 DEF FirstFrames
    <2> HIDE DEF sample
    <2> QED BY <2>1, <2>2 DEF k, n, sample, c
  <1>11. CASE succeeds
    <2>1. PICK m \in Nat : DOMAIN planes = 0..m - 1
      BY DEF BuffersInv
    <2>2. Cardinality(DOMAIN planes) = m /\ m > 0 /\ 0 \in DOMAIN planes
      BY <1>1, <1>8, <2>1, CapacityIs
    <2>3. recorded' = [p \in 1..m |->
                         [channels |-> 1, present |-> TRUE, samples |-> planes'[p - 1]]]
      BY <1>3, <1>11, <2>2
    <2>4. planes' = RenderedPlanes(frames)
      BY <1>3, <1>11
    <2>5. \A p \in DOMAIN planes : DOMAIN planes'[p] = 0..MaxBufferFrames - 1
      BY <2>4 DEF RenderedPlanes, BuffersInv
    <2>6. planes'[c][f - 1] = sample
      <3>1. f - 1 \in DOMAIN planes[c]
        BY <1>2, <1>8 DEF BuffersInv
      <3> HIDE DEF c
      <3> QED BY <1>2, <1>8, <2>4, <3>1 DEF RenderedPlanes
    <2>7. FirstFrames(recorded') > 0
      <3>1. recorded'[1] = [channels |-> 1, present |-> TRUE, samples |-> planes'[0]]
            /\ 1 \in DOMAIN recorded'
        BY <2>2, <2>3
      <3>2. Capacity(recorded'[1]) = MaxBufferFrames
        <4>1. DOMAIN recorded'[1].samples = 0..MaxBufferFrames - 1
          BY <2>2, <2>5, <3>1
        <4> QED BY <1>1, <4>1, CapacityIs DEF Capacity
      <3>3. AtLeastOne(recorded'[1].channels) = 1
        BY <3>1 DEF AtLeastOne
      <3>4. FramesOf(recorded'[1]) = MaxBufferFrames
        BY <1>1, <3>2, <3>3 DEF FramesOf
      <3>5. recorded' # NoList
        BY <3>1 DEF NoList
      <3> QED BY <1>1, <3>4, <3>5 DEF FirstFrames
    <2>8. sample \in Samples(recorded')
      <3>1. c + 1 \in 1..m /\ (c + 1) - 1 = c
        BY <1>1, <1>8, <2>1
      <3>2. /\ c + 1 \in DOMAIN recorded' /\ recorded'[c + 1].present
            /\ recorded'[c + 1].samples = planes'[c]
        <4> HIDE DEF c
        <4> QED BY <2>3, <3>1
      <3>3. f - 1 \in DOMAIN planes'[c]
        BY <1>2, <1>8, <2>5
      <3> DEFINE b == c + 1
                 list == recorded'
      <3>4. b \in DOMAIN list /\ list[b].present /\ f - 1 \in DOMAIN list[b].samples
            /\ list[b].samples[f - 1] = sample
        <4> HIDE DEF sample, c
        <4> QED BY <2>6, <3>2, <3>3
      <3> HIDE DEF b, list, sample
      <3>5. sample \in Samples(list)
        BY <3>4, SamplesAre
      <3> QED BY <3>5 DEF list
    <2>9. interleaved'[k] = sample
      BY <1>9, <1>11, <2>6
    <2> HIDE DEF sample
    <2> QED BY <2>7, <2>8, <2>9 DEF k, n, sample, c
  <1> QED BY <1>10, <1>11

(* A block that the IOProc gathered holds what was recorded                 *)
(* (coreaudio.cpp:473-512).                                                 *)
LEMMA GatheredHeld ==
  ASSUME BuffersInv, NEW input \in Seq(Buffer), NEW output \in Seq(Buffer),
         NEW writes \in BOOLEAN, IoProc(InputList(input), OutputList(output), writes)
  PROVE  /\ recorded' = InputList(input)
         /\ \/ /\ heard' = <<>> /\ returned' = OutputList(output)
               /\ FirstFrames(OutputList(output)) = 0
               /\ UNCHANGED <<interleaved, scratch>>
            \/ \E frames \in 1..MaxBufferFrames :
                 /\ interleaved' = Gathered(InputList(input), frames)
                 /\ Process(interleaved', frames, writes)
                 /\ returned' = ScatterOutput(OutputList(output), scratch', frames)
  <1> DEFINE gathered == GatheredFrames(InputList(input))
             first == FirstFrames(OutputList(output))
             asked == IF gathered > 0 THEN gathered ELSE first
             frames == Smaller(asked, MaxBufferFrames)
  <1>1. gathered \in 0..MaxBufferFrames
    BY InputListIs, GatheredFramesAre
  <1>2. first \in Nat
    BY OutputListIs, FirstFramesAre
  <1>3. MaxBufferFrames \in Nat \ {0}
    BY SizesAre
  <1>4. /\ recorded' = InputList(input)
        /\ IF frames = 0
           THEN heard' = <<>> /\ returned' = OutputList(output) /\ UNCHANGED <<interleaved, scratch>>
           ELSE /\ interleaved' = Gathered(InputList(input), frames)
                /\ Process(interleaved', frames, writes)
                /\ returned' = ScatterOutput(OutputList(output), scratch', frames)
    BY DEF IoProc
  <1>5. frames \in 0..MaxBufferFrames /\ (frames = 0 => first = 0)
    <2> HIDE DEF gathered, first
    <2> QED BY <1>1, <1>2, <1>3 DEF Smaller
  <1> HIDE DEF frames
  <1>6. CASE frames = 0
    BY <1>4, <1>5, <1>6
  <1>7. CASE frames # 0
    <2>1. frames \in 1..MaxBufferFrames
      BY <1>3, <1>5, <1>7
    <2> QED BY <1>4, <1>7, <2>1
  <1> QED BY <1>6, <1>7

(* What the callback hears of a block is what the device recorded of it.    *)
LEMMA HeardFollows ==
  ASSUME BuffersInv, HardwareCalls
  PROVE  HeardIsRecorded'
  <1>1. /\ block' = block + 1 /\ selected' = selected /\ backend' = backend
    BY DEF HardwareCalls, openedVars
  <1>2. InputShapes \subseteq Seq(Buffer) /\ OutputShapes \subseteq Seq(Buffer)
    BY BuffersAssumption
  <1>3. ASSUME NEW frames \in Nat, NEW writes, Process(interleaved', frames, writes),
               \A f \in 1..frames : \A s \in DOMAIN selected :
                 LET sample == <<block + 1, selected[s], f - 1>>
                 IN  interleaved'[(f - 1) * Len(selected) + s - 1] =
                       IF FirstFrames(recorded') > 0 /\ sample \in Samples(recorded')
                       THEN sample ELSE Silence
        PROVE  HeardIsRecorded'
    <2>1. heard' = [f \in 1..frames |->
                      [s \in DOMAIN selected |->
                         interleaved'[(f - 1) * Len(selected) + s - 1]]]
      BY <1>3 DEF Process
    <2>2. ASSUME NEW f \in 1..frames, NEW s \in DOMAIN selected
          PROVE  heard'[f][s] = interleaved'[(f - 1) * Len(selected) + s - 1]
      BY <2>1
    <2>3. DOMAIN heard' = 1..frames
      BY <2>1
    <2> QED BY <1>1, <1>3, <2>2, <2>3 DEF HeardIsRecorded
  <1>4. heard' = <<>> => HeardIsRecorded'
    BY DEF HeardIsRecorded
  <1>5. ASSUME backend = "CoreAudio", NEW input \in InputShapes, NEW output \in OutputShapes,
               NEW writes \in BOOLEAN, IoProc(InputList(input), OutputList(output), writes)
        PROVE  HeardIsRecorded'
    <2>1. input \in Seq(Buffer) /\ output \in Seq(Buffer)
      BY <1>2
    <2>2. /\ recorded' = InputList(input)
          /\ \/ heard' = <<>>
             \/ \E frames \in 1..MaxBufferFrames :
                  /\ interleaved' = Gathered(InputList(input), frames)
                  /\ Process(interleaved', frames, writes)
      BY <1>5, <2>1, GatheredHeld
    <2>3. ASSUME NEW frames \in 1..MaxBufferFrames,
                 interleaved' = Gathered(InputList(input), frames),
                 Process(interleaved', frames, writes)
          PROVE  HeardIsRecorded'
      <3>1. frames \in Nat /\ frames \in 0..MaxBufferFrames
        BY SizesAre
      <3>2. \A f \in 1..frames : \A s \in DOMAIN selected :
              LET sample == <<block + 1, selected[s], f - 1>>
              IN  interleaved'[(f - 1) * Len(selected) + s - 1] =
                    IF FirstFrames(recorded') > 0 /\ sample \in Samples(recorded')
                    THEN sample ELSE Silence
        BY <2>1, <2>2, <2>3, <3>1, GatheredIs
      <3> QED BY <1>3, <2>3, <3>1, <3>2
    <2> QED BY <1>4, <2>2, <2>3
  <1>6. ASSUME backend = "RemoteIO", NEW frames \in FrameCounts, NEW output \in Planar,
               NEW succeeds \in BOOLEAN, NEW writes \in BOOLEAN,
               RenderCallback(frames, OutputList(output), succeeds, writes)
        PROVE  HeardIsRecorded'
    <2>1. frames \in Nat /\ MaxBufferFrames \in Nat
      BY SizesAre, BuffersAssumption
    <2>2. CASE frames = 0 \/ frames > MaxBufferFrames
      BY <1>4, <1>6, <2>2 DEF RenderCallback
    <2>3. CASE ~(frames = 0 \/ frames > MaxBufferFrames)
      <3>1. frames \in 1..MaxBufferFrames
        BY <2>1, <2>3
      <3>2. Process(interleaved', frames, writes)
        BY <1>6, <2>3 DEF RenderCallback
      <3>3. \A f \in 1..frames : \A s \in DOMAIN selected :
              LET sample == <<block + 1, selected[s], f - 1>>
              IN  interleaved'[(f - 1) * Len(selected) + s - 1] =
                    IF FirstFrames(recorded') > 0 /\ sample \in Samples(recorded')
                    THEN sample ELSE Silence
        BY <1>1, <1>6, <3>1, RenderedIs
      <3> QED BY <1>3, <2>1, <3>2, <3>3
    <2> QED BY <2>2, <2>3
  <1> QED BY <1>5, <1>6 DEF HardwareCalls

(* A list that plays what was written for some frames.                      *)
Plays(list, samples, frames) ==
  \A b \in {b \in DOMAIN list : list[b].present} : \A at \in DOMAIN list[b].samples :
    LET channels == list[b].channels
        channel == Base(list, b) + (at % channels)
        frame == at \div channels
    IN  IF channels > 0 /\ channel \in Range(outputs) /\ frame < frames
        THEN \E s \in DOMAIN outputs :
               /\ outputs[s] = channel
               /\ list[b].samples[at] = samples[frame * Len(outputs) + s - 1]
        ELSE list[b].samples[at] = Silence

(* Silence plays nothing.                                                   *)
LEMMA ZeroedPlays ==
  ASSUME NEW list, Filled(list), NEW samples
  PROVE  Plays(Zeroed(list), samples, 0)
  <1> DEFINE zeroed == Zeroed(list)
  <1>1. SameShape(list, zeroed) /\ Filled(zeroed)
    BY ZeroedIs, SameShapeIs
  <1>2. ASSUME NEW b \in DOMAIN zeroed, zeroed[b].present, NEW at \in DOMAIN zeroed[b].samples
        PROVE  zeroed[b].samples[at] = Silence
    <2>1. b \in DOMAIN list /\ list[b].present /\ at \in DOMAIN list[b].samples
      BY <1>1, <1>2 DEF SameShape
    <2> QED BY <2>1, ZeroedIs
  <1>3. ASSUME NEW b \in DOMAIN zeroed, NEW at \in DOMAIN zeroed[b].samples,
               zeroed[b].channels > 0
        PROVE  ~(at \div zeroed[b].channels < 0)
    <2>1. zeroed[b].channels \in Nat \ {0} /\ at \in Nat
      BY <1>1, <1>3 DEF Filled, Listing
    <2>2. at \div zeroed[b].channels \in Nat
      BY <2>1, DivMod
    <2> QED BY <2>2
  <1> HIDE DEF zeroed
  <1>4. Plays(zeroed, samples, 0)
    BY <1>2, <1>3 DEF Plays
  <1> QED BY <1>4 DEF zeroed

(* What is scattered over silence is what was written, and nothing else.    *)
LEMMA ScatteredPlays ==
  ASSUME outputs \in Seq(Nat), NEW list, Filled(list), NEW samples, NEW frames \in Nat
  PROVE  Plays(Scattered(Zeroed(list), samples, frames), samples, frames)
  <1> DEFINE zeroed == Zeroed(list)
             scattered == Scattered(zeroed, samples, frames)
  <1>1. SameShape(list, zeroed) /\ Filled(zeroed)
    BY ZeroedIs, SameShapeIs
  <1>2. \A b \in DOMAIN list : list[b].present =>
          \A at \in DOMAIN list[b].samples : zeroed[b].samples[at] = Silence
    BY ZeroedIs
  <1> HIDE DEF zeroed
  <1>3. /\ SameShape(zeroed, scattered) /\ Filled(scattered)
        /\ \A b \in DOMAIN zeroed : Base(scattered, b) = Base(zeroed, b)
    BY <1>1, ScatteredIs, SameShapeIs
  <1>4. \A b \in DOMAIN zeroed : \A at \in DOMAIN zeroed[b].samples :
          scattered[b].samples[at] =
            IF Landing(zeroed, b, at, frames) = {} THEN zeroed[b].samples[at]
            ELSE samples[CHOOSE k \in Landing(zeroed, b, at, frames) : TRUE]
    BY <1>1, ScatteredIs
  <1> HIDE DEF scattered
  <1>5. ASSUME NEW b \in DOMAIN scattered, scattered[b].present,
               NEW at \in DOMAIN scattered[b].samples
        PROVE  LET channels == scattered[b].channels
                   channel == Base(scattered, b) + (at % channels)
                   frame == at \div channels
               IN  IF channels > 0 /\ channel \in Range(outputs) /\ frame < frames
                   THEN \E s \in DOMAIN outputs :
                          /\ outputs[s] = channel
                          /\ scattered[b].samples[at] = samples[frame * Len(outputs) + s - 1]
                   ELSE scattered[b].samples[at] = Silence
    <2> DEFINE channels == scattered[b].channels
               channel == Base(scattered, b) + (at % channels)
               frame == at \div channels
               landing == Landing(zeroed, b, at, frames)
    <2>1. /\ b \in DOMAIN zeroed /\ zeroed[b].present /\ at \in DOMAIN zeroed[b].samples
          /\ zeroed[b].channels = channels /\ Base(zeroed, b) = Base(scattered, b)
      BY <1>3, <1>5 DEF SameShape
    <2>2. zeroed[b].samples[at] = Silence
      <3>1. b \in DOMAIN list /\ list[b].present /\ at \in DOMAIN list[b].samples
        BY <1>1, <2>1 DEF SameShape
      <3> QED BY <1>2, <3>1
    <2>3. scattered[b].samples[at] =
            IF landing = {} THEN Silence ELSE samples[CHOOSE k \in landing : TRUE]
      BY <1>4, <2>1, <2>2
    <2>4. ASSUME NEW k \in landing
          PROVE  /\ channels > 0 /\ channel \in Range(outputs) /\ frame < frames
                 /\ \E s \in DOMAIN outputs :
                      outputs[s] = channel /\ k = frame * Len(outputs) + s - 1
      <3>1. PICK s \in DOMAIN outputs, q \in Nat :
              /\ q < frames /\ k = q * Len(outputs) + s - 1
              /\ Belongs(zeroed, b, at, outputs[s], q)
        BY <1>1, LandingIs
      <3>2. channels > 0 /\ outputs[s] = channel /\ q = frame
        BY <2>1, <3>1 DEF Belongs
      <3> HIDE DEF channels, channel, frame
      <3> QED BY <3>1, <3>2 DEF Range
    <2>5. ASSUME channels > 0, NEW s \in DOMAIN outputs, outputs[s] = channel, frame < frames
          PROVE  landing # {}
      <3>1. Belongs(zeroed, b, at, outputs[s], frame)
        BY <2>1, <2>5 DEF Belongs
      <3>2. frame \in Nat
        BY <1>1, <3>1, BelongsIsPlace
      <3> HIDE DEF frame
      <3> QED BY <1>1, <2>5, <3>1, <3>2, LandsThere
    <2> HIDE DEF landing, channel, channels, frame
    <2>6. CASE channels > 0 /\ channel \in Range(outputs) /\ frame < frames
      <3>1. landing # {}
        BY <2>5, <2>6 DEF Range
      <3> DEFINE k == CHOOSE k \in landing : TRUE
      <3>2. k \in landing
        BY <3>1
      <3>3. scattered[b].samples[at] = samples[k]
        BY <2>3, <3>1
      <3> HIDE DEF k
      <3>4. PICK s \in DOMAIN outputs : outputs[s] = channel /\ k = frame * Len(outputs) + s - 1
        BY <2>4, <3>2
      <3> QED BY <2>6, <3>3, <3>4 DEF channel, channels, frame
    <2>7. CASE ~(channels > 0 /\ channel \in Range(outputs) /\ frame < frames)
      <3>1. landing = {}
        BY <2>4, <2>7
      <3>2. scattered[b].samples[at] = Silence
        BY <2>3, <3>1
      <3> QED BY <2>7, <3>2 DEF channel, channels, frame
    <2> QED BY <2>6, <2>7
  <1>6. Plays(scattered, samples, frames)
    BY <1>5 DEF Plays
  <1> QED BY <1>6 DEF scattered, zeroed

(* What the device plays of a block is what the session wrote of it.        *)
LEMMA PlayedFollows ==
  ASSUME BuffersInv, HardwareCalls
  PROVE  PlayedIsWritten'
  <1>1. outputs' = outputs /\ backend' = backend
    BY DEF HardwareCalls, openedVars
  <1>2. /\ InputShapes \subseteq Seq(Buffer) /\ OutputShapes \subseteq Seq(Buffer)
        /\ outputs \in Seq(Nat) /\ MaxBufferFrames \in Nat
    BY BuffersAssumption, SizesAre DEF BuffersInv
  <1>3. /\ HardwareCalls => backend \in {"CoreAudio", "RemoteIO"}
        /\ "CoreAudio" # "RemoteIO"
    BY DEF HardwareCalls
  <1>4. ASSUME Plays(returned', scratch', Len(heard')),
               backend = "RemoteIO" \/ heard' # <<>>
        PROVE  PlayedIsWritten'
    BY <1>1, <1>4 DEF PlayedIsWritten, Plays
  <1>5. ASSUME NEW frames \in Nat, NEW writes, Process(interleaved', frames, writes)
        PROVE  Len(heard') = frames /\ (frames # 0 => heard' # <<>>)
    <2>1. DOMAIN heard' = 1..frames /\ heard' = [f \in 1..frames |-> heard'[f]]
      BY <1>5 DEF Process
    <2>2. Len(heard') = frames
      BY <2>1
    <2>3. Len(<<>>) = 0
      OBVIOUS
    <2> QED BY <2>2, <2>3
  <1>6. ASSUME backend = "CoreAudio", NEW input \in InputShapes, NEW output \in OutputShapes,
               NEW writes \in BOOLEAN, IoProc(InputList(input), OutputList(output), writes)
        PROVE  PlayedIsWritten'
    <2> DEFINE list == OutputList(output)
    <2>1. input \in Seq(Buffer) /\ output \in Seq(Buffer) /\ Filled(list)
      BY <1>2, OutputListIs
    <2>2. \/ /\ heard' = <<>> /\ returned' = list /\ FirstFrames(list) = 0
          \/ \E frames \in 1..MaxBufferFrames :
               /\ Process(interleaved', frames, writes)
               /\ returned' = ScatterOutput(list, scratch', frames)
      BY <1>6, <2>1, GatheredHeld
    <2> HIDE DEF list
    <2>3. CASE heard' = <<>> /\ returned' = list /\ FirstFrames(list) = 0
      <3>1. ~(FirstFrames(returned') > 0)
        BY <2>3
      <3> QED BY <1>1, <1>3, <1>6, <2>3, <3>1 DEF PlayedIsWritten
    <2>4. ASSUME NEW frames \in 1..MaxBufferFrames,
                 Process(interleaved', frames, writes),
                 returned' = ScatterOutput(list, scratch', frames)
          PROVE  PlayedIsWritten'
      <3>1. frames \in Nat /\ Len(heard') = frames /\ heard' # <<>>
        BY <1>2, <1>5, <2>4
      <3>2. CASE outputs = <<>>
        BY <1>1, <1>3, <1>6, <3>2 DEF PlayedIsWritten
      <3>3. CASE outputs # <<>>
        <4>1. returned' = Scattered(Zeroed(list), scratch', frames)
          BY <2>4, <3>3 DEF ScatterOutput
        <4>2. Plays(returned', scratch', Len(heard'))
          BY <1>2, <2>1, <3>1, <4>1, ScatteredPlays
        <4> QED BY <1>4, <3>1, <4>2
      <3> QED BY <3>2, <3>3
    <2> QED BY <2>2, <2>3, <2>4
  <1>7. ASSUME backend = "RemoteIO", NEW frames \in FrameCounts, NEW output \in Planar,
               NEW succeeds \in BOOLEAN, NEW writes \in BOOLEAN,
               RenderCallback(frames, OutputList(output), succeeds, writes)
        PROVE  PlayedIsWritten'
    <2> DEFINE list == OutputList(output)
    <2>1. frames \in Nat /\ Filled(list)
      BY <1>2, BuffersAssumption, OutputListIs DEF Planar
    <2> HIDE DEF list
    <2>2. CASE frames = 0 \/ frames > MaxBufferFrames
      <3>1. heard' = <<>> /\ returned' = Zeroed(list)
        BY <1>7, <2>2 DEF RenderCallback, list
      <3>2. Len(heard') = 0
        BY <3>1
      <3>3. Plays(returned', scratch', Len(heard'))
        BY <2>1, <3>1, <3>2, ZeroedPlays
      <3> QED BY <1>4, <1>7, <3>3
    <2>3. CASE ~(frames = 0 \/ frames > MaxBufferFrames)
      <3>1. /\ Process(interleaved', frames, writes)
            /\ returned' = Scattered(Zeroed(list), scratch', frames)
        BY <1>7, <2>3 DEF RenderCallback, list
      <3>2. Len(heard') = frames
        BY <1>5, <2>1, <3>1
      <3>3. Plays(returned', scratch', Len(heard'))
        BY <1>2, <2>1, <3>1, <3>2, ScatteredPlays
      <3> QED BY <1>4, <1>7, <3>3
    <2> QED BY <2>2, <2>3
  <1> QED BY <1>6, <1>7 DEF HardwareCalls

-----------------------------------------------------------------------------
(* What the stream was opened with. *)

(* The first device of a name is one of those listed (start.cpp:23-39).     *)
LEMMA DeviceIsListed ==
  ASSUME NEW uid, NEW devices \in Seq(DeviceInfo), FindDevice(uid, devices) # <<>>
  PROVE  FindDevice(uid, devices)[1] \in DeviceInfo
  <1> DEFINE positions == {i \in DOMAIN devices :
                             IF uid = SystemDefault THEN devices[i].isDefault
                             ELSE devices[i].id = uid}
             i == CHOOSE i \in positions : \A j \in positions : i <= j
  <1>1. FindDevice(uid, devices) = FirstAt(devices, positions)
    BY DEF FindDevice
  <1>2. positions \in SUBSET Nat /\ positions \subseteq DOMAIN devices
    OBVIOUS
  <1> HIDE DEF positions
  <1>3. positions # {} /\ FindDevice(uid, devices) = <<devices[i]>>
    BY <1>1 DEF FirstAt
  <1>4. i \in positions
    <2>1. \E x \in positions : \A y \in positions : x <= y
      BY <1>2, <1>3, LeastIs
    <2> QED BY <2>1
  <1>5. devices[i] \in DeviceInfo
    <2> HIDE DEF i
    <2>1. i \in DOMAIN devices
      BY <1>2, <1>4
    <2> QED BY <2>1
  <1> HIDE DEF i
  <1> QED BY <1>3, <1>5

(* The channels of the mask are a list of channels (start.cpp:98-105).      *)
LEMMA OutputChannelsAre ==
  ASSUME NEW config, NEW device, device.outputs \in Nat
  PROVE  OutputChannels(config, device) \in Seq(Nat)
  <1> DEFINE n == device.outputs
             Wanted(c) == c - 1 < MaskBits /\ c - 1 \in config.output_mask
             values == Seq(Nat)
             start == <<>>
             next == [c \in 1..n |-> [list \in values |-> IF Wanted(c) THEN Append(list, c - 1)
                                                         ELSE list]]
             Chooses(f) == f = [c \in 0..n |-> IF c = 0 THEN <<>>
                                               ELSE IF c - 1 < MaskBits /\ c - 1 \in config.output_mask
                                               THEN Append(f[c - 1], c - 1) ELSE f[c - 1]]
  <1>1. n \in Nat /\ start \in values /\ next \in [1..n -> [values -> values]]
    <2> HIDE DEF Wanted
    <2>1. ASSUME NEW c \in 1..n, NEW list \in values
          PROVE  (IF Wanted(c) THEN Append(list, c - 1) ELSE list) \in values
      OBVIOUS
    <2>2. start \in values
      OBVIOUS
    <2> HIDE DEF values, n
    <2> QED BY <2>1, <2>2 DEF n
  <1>2. PICK f \in [0..n -> values] :
          \A c \in 0..n : f[c] = IF c = 0 THEN start ELSE next[c][f[c - 1]]
    <2> HIDE DEF n, values, start, next, Chooses, Wanted
    <2>1. PICK f : Steps(f, values, start, n, next)
      BY <1>1, StepsExist
    <2> QED BY <2>1 DEF Steps
  <1>3. Chooses(f)
    <2>1. ASSUME NEW c \in 0..n
          PROVE  f[c] = IF c = 0 THEN <<>>
                        ELSE IF c - 1 < MaskBits /\ c - 1 \in config.output_mask
                        THEN Append(f[c - 1], c - 1) ELSE f[c - 1]
      <3>1. CASE c = 0
        BY <1>2, <3>1
      <3>2. CASE c # 0
        <4>1. c \in 1..n /\ c - 1 \in 0..n /\ f[c - 1] \in values
          BY <1>1, <1>2, <3>2
        <4>2. f[c] = next[c][f[c - 1]]
          <5> HIDE DEF next, values, n
          <5> QED BY <1>2, <3>2
        <4>3. next[c][f[c - 1]] = IF Wanted(c) THEN Append(f[c - 1], c - 1) ELSE f[c - 1]
          <5> HIDE DEF values, n, Wanted
          <5> QED BY <4>1
        <4> HIDE DEF next, values, n
        <4> QED BY <3>2, <4>2, <4>3
      <3> QED BY <3>1, <3>2
    <2>2. f = [c \in 0..n |-> f[c]]
      BY <1>2
    <2> HIDE DEF n, next, values, start
    <2> QED BY <2>1, <2>2
  <1>4. PICK chosen : /\ Chooses(chosen)
                      /\ OutputChannels(config, device) =
                           IF Playing(config) THEN chosen[n] ELSE <<>>
    BY <1>3, Zenon DEF OutputChannels
  <1>5. \A c \in 0..n : chosen[c] \in Seq(Nat)
    <2> DEFINE Bad == {c \in Nat : c <= n /\ chosen[c] \notin Seq(Nat)}
    <2>1. SUFFICES ASSUME Bad # {}
                   PROVE  FALSE
      BY <1>1
    <2>2. PICK c \in Bad : \A d \in Bad : c <= d
      <3>1. Bad \in SUBSET Nat
        OBVIOUS
      <3> HIDE DEF Bad
      <3> QED BY <2>1, <3>1, LeastIs
    <2>3. c \in 0..n /\ c # 0
      <3>1. c \in Nat /\ c <= n /\ chosen[c] \notin Seq(Nat)
        BY <2>2
      <3>2. chosen[0] = <<>> /\ <<>> \in Seq(Nat)
        BY <1>1, <1>4
      <3> HIDE DEF n
      <3>3. c # 0
        BY <3>1, <3>2
      <3> QED BY <1>1, <3>1, <3>3
    <2>4. c - 1 \in Nat /\ c - 1 <= n /\ ~(c <= c - 1)
      BY <1>1, <2>3
    <2>5. chosen[c - 1] \in Seq(Nat)
      <3>1. c - 1 \notin Bad
        <4> HIDE DEF Bad
        <4> QED BY <2>2, <2>4
      <3> QED BY <2>4, <3>1
    <2>6. chosen[c] = IF c - 1 < MaskBits /\ c - 1 \in config.output_mask
                      THEN Append(chosen[c - 1], c - 1) ELSE chosen[c - 1]
      BY <1>4, <2>3
    <2>7. chosen[c] \in Seq(Nat)
      BY <2>4, <2>5, <2>6
    <2> QED BY <2>2, <2>7
  <1>6. n \in 0..n /\ <<>> \in Seq(Nat)
    BY <1>1
  <1>7. OutputChannels(config, device) = chosen[n] \/ OutputChannels(config, device) = <<>>
    BY <1>4
  <1> HIDE DEF n
  <1> QED BY <1>5, <1>6, <1>7

(* A stream is opened for channels the device has.                          *)
LEMMA BuffersStart == BuffersInit => BuffersInv
  <1> SUFFICES ASSUME BuffersInit
               PROVE  BuffersInv
    OBVIOUS
  <1>1. PICK config \in Configs, devices \in Hardware :
          /\ ~Refused(config, devices)
          /\ LET device == FindDevice(config.uid, devices)[1]
                 stream == StreamConfig(config, device)
             IN  /\ selected = stream.input_channels /\ outputs = stream.output_channels
                 /\ \/ backend = "CoreAudio"
                    \/ /\ backend = "RemoteIO"
                       /\ \E granted \in Grants :
                            /\ OpenedOnIos(stream, devices, granted) # <<>>
                            /\ planes = [c \in 0..granted.inputs - 1 |->
                                           Fill(MaxBufferFrames, Silence)]
                 /\ interleaved = Fill(MaxBufferFrames * AtLeastOne(Len(selected)), Silence)
                 /\ scratch = Fill(MaxBufferFrames * AtLeastOne(Len(outputs)), Silence)
    BY DEF BuffersInit
  <1> DEFINE device == FindDevice(config.uid, devices)[1]
             stream == StreamConfig(config, device)
  <1>2. device \in DeviceInfo
    <2>1. FindDevice(config.uid, devices) # <<>> /\ devices \in Seq(DeviceInfo)
      BY <1>1, BuffersAssumption DEF Refused
    <2> QED BY <2>1, DeviceIsListed
  <1> HIDE DEF device
  <1>3. device.inputs \in Nat /\ device.outputs \in Nat
    BY <1>2 DEF DeviceInfo
  <1>4. /\ stream.input_channels = [c \in 1..device.inputs |-> c - 1]
        /\ stream.output_channels = OutputChannels(config, device)
    BY DEF StreamConfig
  <1> HIDE DEF stream
  <1>5. selected = stream.input_channels /\ outputs = stream.output_channels
    BY <1>1 DEF stream, device
  <1>6. selected = [c \in 1..device.inputs |-> c - 1] /\ outputs = OutputChannels(config, device)
    BY <1>4, <1>5
  <1>7. selected \in Seq(Nat) /\ Len(selected) = device.inputs
    <2>1. \A c \in 1..device.inputs : c - 1 \in Nat
      BY <1>3
    <2> QED BY <1>3, <1>6, <2>1
  <1>8. outputs \in Seq(Nat)
    BY <1>3, <1>6, OutputChannelsAre
  <1>9. /\ DOMAIN interleaved = 0..MaxBufferFrames * AtLeastOne(Len(selected)) - 1
        /\ DOMAIN scratch = 0..MaxBufferFrames * AtLeastOne(Len(outputs)) - 1
    BY <1>1 DEF Fill
  <1>10. block \in Nat /\ \E frames \in 0..MaxBufferFrames : DOMAIN heard = 1..frames
    <2>1. block \in Nat /\ heard = <<>> /\ 0 \in 0..MaxBufferFrames
      BY SizesAre DEF BuffersInit
    <2>2. DOMAIN heard = 1..0
      BY <2>1
    <2> QED BY <2>1, <2>2
  <1>11. ASSUME backend = "RemoteIO"
         PROVE  /\ \E n \in Nat : DOMAIN planes = 0..n - 1
                /\ \A c \in DOMAIN planes : DOMAIN planes[c] = 0..MaxBufferFrames - 1
                /\ \A s \in DOMAIN selected :
                     selected[s] \in DOMAIN planes /\ selected[s] < MostRenderChannels
    <2>1. PICK granted \in Grants :
            /\ OpenedOnIos(stream, devices, granted) # <<>>
            /\ planes = [c \in 0..granted.inputs - 1 |-> Fill(MaxBufferFrames, Silence)]
      BY <1>1, <1>11 DEF stream, device
    <2>2. /\ Within(stream.input_channels, granted.inputs)
          /\ Within(stream.input_channels \o stream.output_channels, MostRenderChannels)
      BY <2>1 DEF OpenedOnIos
    <2>3. granted.inputs \in Nat
      BY BuffersAssumption
    <2>4. /\ DOMAIN planes = 0..granted.inputs - 1
          /\ \A c \in DOMAIN planes : DOMAIN planes[c] = 0..MaxBufferFrames - 1
      BY <2>1 DEF Fill
    <2>5. ASSUME NEW s \in DOMAIN selected
          PROVE  selected[s] \in DOMAIN planes /\ selected[s] < MostRenderChannels
      <3>1. selected[s] \in Nat /\ selected[s] < granted.inputs
        BY <1>5, <1>7, <2>2 DEF Within
      <3>2. /\ s \in DOMAIN (selected \o outputs)
            /\ (selected \o outputs)[s] = selected[s]
        BY <1>7, <1>8
      <3>3. selected[s] < MostRenderChannels
        BY <1>5, <2>2, <3>2 DEF Within
      <3> QED BY <2>3, <2>4, <3>1, <3>3
    <2> QED BY <2>3, <2>4, <2>5
  <1> QED BY <1>7, <1>8, <1>9, <1>10, <1>11 DEF BuffersInv

(* Every call of the device leaves the buffers as long as they were.        *)
LEMMA BuffersStep ==
  ASSUME BuffersInv, HardwareCalls
  PROVE  BuffersInv'
  <1>1. /\ block' = block + 1 /\ selected' = selected /\ outputs' = outputs
        /\ backend' = backend
    BY DEF HardwareCalls, openedVars
  <1>2. InputShapes \subseteq Seq(Buffer) /\ OutputShapes \subseteq Seq(Buffer)
    BY BuffersAssumption
  <1>3. "CoreAudio" # "RemoteIO"
    OBVIOUS
  <1>4. ASSUME DOMAIN interleaved' = DOMAIN interleaved, DOMAIN scratch' = DOMAIN scratch,
               \E frames \in 0..MaxBufferFrames : DOMAIN heard' = 1..frames,
               backend = "RemoteIO" =>
                 /\ DOMAIN planes' = DOMAIN planes
                 /\ \A c \in DOMAIN planes : DOMAIN planes'[c] = DOMAIN planes[c]
        PROVE  BuffersInv'
    <2>1. block' \in Nat
      BY <1>1 DEF BuffersInv
    <2>2. /\ DOMAIN interleaved' = 0..MaxBufferFrames * AtLeastOne(Len(selected')) - 1
          /\ DOMAIN scratch' = 0..MaxBufferFrames * AtLeastOne(Len(outputs')) - 1
      BY <1>1, <1>4 DEF BuffersInv
    <2>3. backend' = "RemoteIO" =>
            /\ \E n \in Nat : DOMAIN planes' = 0..n - 1
            /\ \A c \in DOMAIN planes' : DOMAIN planes'[c] = 0..MaxBufferFrames - 1
            /\ \A s \in DOMAIN selected' :
                 selected'[s] \in DOMAIN planes' /\ selected'[s] < MostRenderChannels
      BY <1>1, <1>4 DEF BuffersInv
    <2> QED BY <1>1, <1>4, <2>1, <2>2, <2>3 DEF BuffersInv
  <1>5. ASSUME NEW frames \in 0..MaxBufferFrames, NEW writes \in BOOLEAN,
               Process(interleaved', frames, writes)
        PROVE  DOMAIN scratch' = DOMAIN scratch /\ DOMAIN heard' = 1..frames
    BY <1>5 DEF Process
  <1>6. ASSUME heard' = <<>>
        PROVE  \E frames \in 0..MaxBufferFrames : DOMAIN heard' = 1..frames
    <2>1. DOMAIN heard' = 1..0 /\ 0 \in 0..MaxBufferFrames
      BY <1>6, SizesAre
    <2> QED BY <2>1
  <1>7. ASSUME backend = "CoreAudio", NEW input \in InputShapes, NEW output \in OutputShapes,
               NEW writes \in BOOLEAN, IoProc(InputList(input), OutputList(output), writes)
        PROVE  BuffersInv'
    <2>1. input \in Seq(Buffer) /\ output \in Seq(Buffer)
      BY <1>2
    <2>2. \/ heard' = <<>> /\ interleaved' = interleaved /\ scratch' = scratch
          \/ \E frames \in 1..MaxBufferFrames :
               /\ interleaved' = Gathered(InputList(input), frames)
               /\ Process(interleaved', frames, writes)
      BY <1>7, <2>1, GatheredHeld
    <2>3. DOMAIN interleaved' = DOMAIN interleaved
      BY <2>2 DEF Gathered
    <2>4. /\ DOMAIN scratch' = DOMAIN scratch
          /\ \E frames \in 0..MaxBufferFrames : DOMAIN heard' = 1..frames
      <3>1. CASE heard' = <<>> /\ interleaved' = interleaved /\ scratch' = scratch
        BY <1>6, <3>1
      <3>2. ASSUME NEW frames \in 1..MaxBufferFrames, Process(interleaved', frames, writes)
            PROVE  DOMAIN scratch' = DOMAIN scratch /\ DOMAIN heard' = 1..frames
        <4>1. frames \in 0..MaxBufferFrames
          BY SizesAre
        <4> QED BY <1>5, <3>2, <4>1
      <3>3. 1..MaxBufferFrames \subseteq 0..MaxBufferFrames
        BY SizesAre
      <3> QED BY <2>2, <3>1, <3>2, <3>3
    <2> QED BY <1>3, <1>4, <1>7, <2>3, <2>4
  <1>8. ASSUME backend = "RemoteIO", NEW frames \in FrameCounts, NEW output \in Planar,
               NEW succeeds \in BOOLEAN, NEW writes \in BOOLEAN,
               RenderCallback(frames, OutputList(output), succeeds, writes)
        PROVE  BuffersInv'
    <2>1. interleaved' = interleaved \/ interleaved' = RenderedBlock(frames, succeeds)
      BY <1>8 DEF RenderCallback
    <2>2. DOMAIN interleaved' = DOMAIN interleaved
      BY <2>1 DEF RenderedBlock
    <2>3. planes' = planes \/ planes' = RenderedPlanes(frames)
      BY <1>8 DEF RenderCallback
    <2>4. /\ DOMAIN planes' = DOMAIN planes
          /\ \A c \in DOMAIN planes : DOMAIN planes'[c] = DOMAIN planes[c]
      BY <2>3 DEF RenderedPlanes
    <2>5. /\ DOMAIN scratch' = DOMAIN scratch
          /\ \E most \in 0..MaxBufferFrames : DOMAIN heard' = 1..most
      <3>1. frames \in Nat
        BY BuffersAssumption
      <3>2. CASE frames = 0 \/ frames > MaxBufferFrames
        BY <1>8, <1>6, <3>2 DEF RenderCallback
      <3>3. CASE ~(frames = 0 \/ frames > MaxBufferFrames)
        <4>1. frames \in 0..MaxBufferFrames
          BY <3>1, <3>3, SizesAre
        <4>2. Process(interleaved', frames, writes)
          BY <1>8, <3>3 DEF RenderCallback
        <4> QED BY <1>5, <4>1, <4>2
      <3> QED BY <3>2, <3>3
    <2> QED BY <1>4, <2>2, <2>4, <2>5
  <1> QED BY <1>7, <1>8 DEF HardwareCalls

LEMMA BuffersStutter ==
  ASSUME UNCHANGED buffersVars
  PROVE  /\ BuffersInv => BuffersInv'
         /\ HeardIsRecorded => HeardIsRecorded'
         /\ PlayedIsWritten => PlayedIsWritten'
  <1>1. /\ backend' = backend /\ selected' = selected /\ outputs' = outputs
        /\ planes' = planes /\ interleaved' = interleaved /\ scratch' = scratch
        /\ heard' = heard /\ recorded' = recorded /\ returned' = returned /\ block' = block
    BY DEF buffersVars, openedVars
  <1>2. BuffersInv => BuffersInv'
    BY <1>1 DEF BuffersInv
  <1>3. HeardIsRecorded => HeardIsRecorded'
    BY <1>1 DEF HeardIsRecorded
  <1>4. PlayedIsWritten => PlayedIsWritten'
    BY <1>1 DEF PlayedIsWritten
  <1> QED BY <1>2, <1>3, <1>4

(* Whatever devices there are and whatever lists they hand over, a call     *)
(* finds every buffer as long as it was made (coreaudio.cpp:305-322,        *)
(* ios.mm:212-247).                                                         *)
THEOREM BuffersStayInShape == BuffersSpec => []BuffersInv
  <1>1. BuffersInit => BuffersInv
    BY BuffersStart
  <1>2. BuffersInv /\ [HardwareCalls]_buffersVars => BuffersInv'
    BY BuffersStep, BuffersStutter
  <1> QED BY <1>1, <1>2, PTL DEF BuffersSpec

(* No frame of a block that the callback is handed, in either direction,    *)
(* lies beyond the buffers allocated when the stream was opened, however    *)
(* many frames a device brings (coreaudio.cpp:489-503, ios.mm:311-314).     *)
THEOREM BlocksStayInBuffers ==
  BuffersSpec => [](\A f \in DOMAIN heard :
                      /\ \A s \in DOMAIN selected :
                           (f - 1) * Len(selected) + (s - 1) \in DOMAIN interleaved
                      /\ \A s \in DOMAIN outputs :
                           (f - 1) * Len(outputs) + (s - 1) \in DOMAIN scratch)
  <1> DEFINE Inside == \A f \in DOMAIN heard :
                         /\ \A s \in DOMAIN selected :
                              (f - 1) * Len(selected) + (s - 1) \in DOMAIN interleaved
                         /\ \A s \in DOMAIN outputs :
                              (f - 1) * Len(outputs) + (s - 1) \in DOMAIN scratch
  <1>1. ASSUME NEW frames \in 0..MaxBufferFrames, NEW f \in 1..frames,
               NEW channels \in Seq(Nat), NEW s \in DOMAIN channels
        PROVE  (f - 1) * Len(channels) + (s - 1) \in
                 0..MaxBufferFrames * AtLeastOne(Len(channels)) - 1
    <2> DEFINE n == Len(channels)
    <2>1. n \in Nat \ {0} /\ s - 1 \in 0..(n - 1)
      OBVIOUS
    <2>2. frames \in Nat /\ frames <= MaxBufferFrames /\ f - 1 \in 0..(frames - 1)
      BY SizesAre
    <2> HIDE DEF n
    <2>3. (f - 1) * n + (s - 1) \in 0..(frames * n - 1)
      BY <2>1, <2>2, RowFits
    <2>4. (f - 1) * n + (s - 1) \in 0..MaxBufferFrames * AtLeastOne(n) - 1
      BY <2>1, <2>2, <2>3, RowInside
    <2> QED BY <2>4 DEF n
  <1>2. BuffersInv => Inside
    <2> SUFFICES ASSUME BuffersInv
                 PROVE  Inside
      OBVIOUS
    <2>1. PICK frames \in 0..MaxBufferFrames : DOMAIN heard = 1..frames
      BY DEF BuffersInv
    <2> QED BY <1>1, <2>1 DEF BuffersInv
  <1> HIDE DEF Inside
  <1>3. BuffersSpec => []Inside
    BY <1>2, BuffersStayInShape, PTL
  <1> QED BY <1>3 DEF Inside

(* HeardIsRecorded, for every device, grant and list of buffers: the        *)
(* callback never hears another channel, another frame or an earlier block  *)
(* (coreaudio.cpp:446-461, ios.mm:338-351).                                 *)
THEOREM HeardTheBlock == BuffersSpec => []HeardIsRecorded
  <1>1. BuffersInit => HeardIsRecorded
    BY DEF BuffersInit, HeardIsRecorded
  <1>2. BuffersInv /\ HeardIsRecorded /\ [HardwareCalls]_buffersVars => HeardIsRecorded'
    BY HeardFollows, BuffersStutter
  <1> QED BY <1>1, <1>2, BuffersStayInShape, PTL DEF BuffersSpec

(* PlayedIsWritten, for every device, mask and list of buffers: a channel   *)
(* that was not chosen is silent whatever the buffer held                   *)
(* (coreaudio.cpp:366-409, ios.mm:266-300).                                 *)
THEOREM PlayedTheBlock == BuffersSpec => []PlayedIsWritten
  <1>1. BuffersInit => PlayedIsWritten
    <2>1. ASSUME BuffersInit
          PROVE  returned = <<>> /\ heard = <<>> /\ ~(FirstFrames(returned) > 0)
      BY <2>1 DEF BuffersInit, FirstFrames, NoList
    <2> QED BY <2>1 DEF PlayedIsWritten
  <1>2. BuffersInv /\ PlayedIsWritten /\ [HardwareCalls]_buffersVars => PlayedIsWritten'
    BY PlayedFollows, BuffersStutter
  <1> QED BY <1>1, <1>2, BuffersStayInShape, PTL DEF BuffersSpec

================================================================================
