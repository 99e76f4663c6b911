------------------------------ MODULE SignalHandoff ------------------------------
(***************************************************************************)
(* How a change of stimulus reaches the audio callback without a lock      *)
(* (ffi/signal_state.hpp, ffi/signal_state.cpp, and the reload at the top  *)
(* of StimulusCallback::process).  The UI thread stores the fields of a    *)
(* signal with relaxed order and then increments a generation with release *)
(* order; the callback reloads the fields when the generation has moved.   *)
(*                                                                         *)
(* Relaxed stores may become visible, and relaxed loads may be performed,  *)
(* in any order between the increment and the acquiring load that bound    *)
(* them, so both loops below take the fields in any order.  A field's      *)
(* content is the number of the call that stored it; 0 is what the session *)
(* started with.                                                           *)
(***************************************************************************)
EXTENDS Naturals, FiniteSets

CONSTANTS
  SteadyFields,  \* what set stores: kind_, amplitude_bits_, hz_bits_
  SweepFields,   \* what set_sweep stores: end_hz_bits_ and seconds_bits_ too
  MaxCalls       \* bound: calls of set and set_sweep

ASSUME HandoffAssumption ==
  /\ SteadyFields \subseteq SweepFields /\ SteadyFields # SweepFields
  /\ MaxCalls \in Nat

NothingLoaded == [f \in {} |-> 0]

VARIABLES
  fields,      \* the five atomics of a SignalState
  generation,  \* SignalState::generation
  calls,       \* calls of set and set_sweep begun
  sweeps,      \* which of them were set_sweep
  unstored,    \* fields the call in progress has still to store
  setter,      \* the UI thread: "idle", or "storing" inside set or set_sweep
  callback,    \* the callback: "playing", "changed" or "loading" in process()
  taken,       \* the generation its second load returned
  seen,        \* StimulusCallback::generation_
  loaded,      \* the fields signal() has loaded so far
  signal       \* Generator::signal_

setterVars == <<fields, generation, calls, sweeps, unstored, setter>>
callbackVars == <<callback, taken, seen, loaded, signal>>
handoffVars == <<setterVars, callbackVars>>

HandoffInit ==
  /\ fields = [f \in SweepFields |-> 0]
  /\ generation = 0
  /\ calls = 0
  /\ sweeps = {}
  /\ unstored = {}
  /\ setter = "idle"
  /\ callback = "playing"
  /\ taken = 0
  /\ seen = 0
  /\ loaded = NothingLoaded
  /\ signal = [f \in SweepFields |-> 0]

--------------------------------------------------------------------------------
(* The UI thread. *)

BeginSet ==
  /\ setter = "idle" /\ calls < MaxCalls
  /\ calls' = calls + 1
  /\ unstored' = SteadyFields
  /\ setter' = "storing"
  /\ UNCHANGED <<fields, generation, sweeps, callbackVars>>

BeginSetSweep ==
  /\ setter = "idle" /\ calls < MaxCalls
  /\ calls' = calls + 1
  /\ sweeps' = sweeps \cup {calls + 1}
  /\ unstored' = SweepFields
  /\ setter' = "storing"
  /\ UNCHANGED <<fields, generation, callbackVars>>

StoreField(f) ==
  /\ setter = "storing"
  /\ f \in unstored
  /\ fields' = [fields EXCEPT ![f] = calls]
  /\ unstored' = unstored \ {f}
  /\ UNCHANGED <<generation, calls, sweeps, setter, callbackVars>>

(* Mutant: the generation may be bumped before the last field is stored. *)
AllButOneStored == Cardinality(unstored) <= 1

AllStored == unstored = {}

Bumped == generation + 1

(* "`generation` is bumped last." *)
BumpGeneration ==
  /\ setter = "storing"
  /\ AllStored
  /\ generation' = Bumped
  /\ setter' = "idle"
  /\ unstored' = {}
  /\ UNCHANGED <<fields, calls, sweeps, callbackVars>>

--------------------------------------------------------------------------------
(* The callback. *)

(* Mutant: a single change is not noticed. *)
ChangedTwice == generation > seen + 1

Changed == generation # seen

(* The first load: has anything moved?  If not, the block is filled from    *)
(* the signal already playing, and nothing here changes.                    *)
SeeChange ==
  /\ callback = "playing"
  /\ Changed
  /\ callback' = "changed"
  /\ UNCHANGED <<setterVars, taken, seen, loaded, signal>>

(* The second load. *)
TakeGeneration ==
  /\ callback = "changed"
  /\ taken' = generation
  /\ loaded' = NothingLoaded
  /\ callback' = "loading"
  /\ UNCHANGED <<setterVars, seen, signal>>

(* signal() loads one field.  For a steady signal it does not load the last  *)
(* two, and nothing uses them; loading them here changes nothing that plays. *)
LoadField(f) ==
  /\ callback = "loading"
  /\ f \in SweepFields \ DOMAIN loaded
  /\ loaded' = [g \in DOMAIN loaded \cup {f} |->
                  IF g = f THEN fields[f] ELSE loaded[g]]
  /\ UNCHANGED <<setterVars, callback, taken, seen, signal>>

(* Generator::set_signal: whatever it was playing starts over.              *)
Restart ==
  /\ callback = "loading"
  /\ DOMAIN loaded = SweepFields
  /\ seen' = taken
  /\ signal' = loaded
  /\ callback' = "playing"
  /\ UNCHANGED <<setterVars, taken, loaded>>

--------------------------------------------------------------------------------
Setter == \/ BeginSet \/ BeginSetSweep
          \/ (\E f \in SweepFields : StoreField(f)) \/ BumpGeneration

Callback == \/ SeeChange \/ TakeGeneration
            \/ (\E f \in SweepFields : LoadField(f)) \/ Restart

HandoffNext == Setter \/ Callback

HandoffSpec == HandoffInit /\ [][HandoffNext]_handoffVars

(* The device keeps calling back for as long as the session runs; a set     *)
(* that has begun returns.  Nobody has to change the signal again.          *)
HandoffFairSpec ==
  /\ HandoffSpec
  /\ WF_handoffVars(Callback)
  /\ WF_handoffVars((\E f \in SweepFields : StoreField(f)) \/ BumpGeneration)

--------------------------------------------------------------------------------
HandoffTypeOK ==
  /\ fields \in [SweepFields -> 0..MaxCalls]
  /\ generation \in 0..MaxCalls /\ calls \in 0..MaxCalls
  /\ calls = generation + (IF setter = "storing" THEN 1 ELSE 0)
  /\ sweeps \subseteq 1..calls
  /\ unstored \subseteq SweepFields
  /\ setter \in {"idle", "storing"}
  /\ callback \in {"playing", "changed", "loading"}
  /\ taken \in 0..generation /\ seen \in 0..generation
  /\ DOMAIN loaded \subseteq SweepFields
  /\ loaded \in [DOMAIN loaded -> 0..MaxCalls]
  /\ signal \in [SweepFields -> 0..MaxCalls]

(* Call c stores field f. *)
Stores(c, f) == f \in SteadyFields \/ c \in sweeps

(* Every field of a signal is at least as new as call g left it. *)
Behind(g, values) ==
  \A f \in SweepFields : \A c \in 1..g : Stores(c, f) => values[f] >= c

(* None of its fields is from a call after g. *)
NothingAfter(g, values) == \A f \in SweepFields : values[f] <= g

(* "Seeing a new value guarantees the fields behind it are already written" *)
(* (signal_state.hpp): no field is older than the generation promises.      *)
SeenIsWritten == callback = "playing" => Behind(seen, signal)

(* A signal put together from two calls does not last: the generation has   *)
(* moved on, or is about to, so a later callback reloads it.                *)
TornIsTemporary ==
  (callback = "playing" /\ ~NothingAfter(seen, signal))
    => (generation # seen \/ setter = "storing")

(* The stimulus last chosen is, in the end, what plays, whole. *)
LastChoicePlays ==
  \A g \in 1..MaxCalls :
    (calls = g) ~> \/ calls > g
                   \/ /\ callback = "playing"
                      /\ Behind(g, signal) /\ NothingAfter(g, signal)
================================================================================
