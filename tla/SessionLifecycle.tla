---------------------------- MODULE SessionLifecycle ----------------------------
(***************************************************************************)
(* Starting and stopping a capture: what exists, in which order it comes   *)
(* to life, and in which order it goes (ffi/start.cpp, ffi/session.cpp,    *)
(* engine/engine.cpp, audio/coreaudio.cpp, audio/ios.mm and                *)
(* cli/live_coreaudio.cpp).                                                *)
(*                                                                         *)
(* Three threads meet here.  The owner's starts the engine, opens the      *)
(* stream, starts it, and later takes everything down again; any of those  *)
(* steps may be refused, and a start that is refused undoes what was done. *)
(* The worker is the analysis thread.  The device calls the audio callback *)
(* from AudioDeviceStart on, before there is a session at all.             *)
(*                                                                         *)
(* A hook is what the system holds of a stream: an IOProc on macOS, a      *)
(* RemoteIO unit on iOS.  It points into the stream's own state.  Another  *)
(* application may change the device's rate at any time.                   *)
(***************************************************************************)
EXTENDS Naturals, Sequences

CONSTANTS
  Platforms,      \* streams default_backend may open: "coreaudio", "ios"
  Programs,       \* who owns the capture: "session" or "live"
  Rates,          \* nominal sample rates of the device
  NoRate,         \* no rate granted yet
  MaxStarts,      \* bound: captures started
  MaxRateChanges  \* bound: changes of rate by other applications

ASSUME LifecycleAssumption == /\ Platforms \subseteq {"coreaudio", "ios"}
                              /\ Programs \subseteq {"session", "live"}
                              /\ NoRate \notin Rates
                              /\ MaxStarts \in Nat
                              /\ MaxRateChanges \in Nat

VARIABLES
  platform,     \* the backend default_backend returns
  program,      \* whose capture it is
  rate,         \* the device's nominal rate
  device,       \* towards our hook: "stopped", "running" or "halting"
  hook,         \* "none", "created" (an iOS unit not yet initialised), "ready"
  inside,       \* the audio thread is inside our callback
  worker,       \* the analysis thread: "none", "running" or "done"
  stop,         \* Shared::stop
  stream,       \* the stream object, its state and its callback exist
  running,      \* the stream's running_
  sessionRate,  \* the rate the engine and the generator are given
  grantedRate,  \* config().sample_rate of the stream
  owner,        \* where the owner's thread is
  teardown,     \* what it still has to take down
  refused,      \* history: the device refused to stop
  starts,       \* history: captures started
  rateChanges   \* history: changes of rate by others

deviceVars == <<rate, device, hook, inside, rateChanges>>
engineVars == <<worker, stop>>
streamVars == <<stream, running, grantedRate>>
ownerVars == <<sessionRate, owner, teardown, starts, refused>>
vars == <<platform, program, deviceVars, engineVars, streamVars, ownerVars>>

Init == /\ platform \in Platforms
        /\ program \in Programs
        /\ program = "live" => platform = "coreaudio"
        /\ rate \in Rates
        /\ device = "stopped"
        /\ hook = "none"
        /\ inside = FALSE
        /\ worker = "none"
        /\ stop = FALSE
        /\ stream = FALSE
        /\ running = FALSE
        /\ sessionRate = NoRate
        /\ grantedRate = NoRate
        /\ owner = "idle"
        /\ teardown = <<>>
        /\ refused = FALSE
        /\ starts = 0
        /\ rateChanges = 0

--------------------------------------------------------------------------------
(* The order things go. *)

(* Mutants: the engine is left behind; the thread is joined without being   *)
(* told.                                                                    *)
EngineLeft == <<"stop stream", "unhook", "free">>

NeverTold == <<"stop stream", "unhook", "free", "join">>

(* Members and locals go in reverse: the stream (its destructor stops it,   *)
(* takes its hook back and frees its state), then the engine, whose         *)
(* destructor raises the flag and joins.                                    *)
Destruction == <<"stop stream", "unhook", "free", "raise", "join">>

(* Mutant: the engine is stopped before the stream that feeds it. *)
EngineFirst == <<"raise", "join", "stop stream">> \o Destruction

(* analyzer_session_stop: AnalyzerSession::stop, then the destructor.  The  *)
(* harness stops its stream and lets everything go out of scope.            *)
Release ==
  IF program = "session"
  THEN <<"stop stream", "raise", "join",
         "stop stream", "unhook", "free", "raise", "join">>
  ELSE <<"stop stream",
         "stop stream", "unhook", "free", "raise", "join">>

TakeDown(order) == owner' = "taking down" /\ teardown' = order

--------------------------------------------------------------------------------
(* Starting: start_session, and the same steps of capture_inner. *)

(* The device is found and described: its rate is the rate of the session.  *)
Describe ==
  /\ owner = "idle"
  /\ starts < MaxStarts
  /\ starts' = starts + 1
  /\ sessionRate' = rate
  /\ grantedRate' = NoRate
  /\ owner' = "described"
  /\ UNCHANGED <<platform, program, deviceVars, engineVars, stream, running,
                 teardown, refused>>

(* A configuration the device cannot serve: nothing exists yet. *)
RefuseConfiguration ==
  /\ owner = "described"
  /\ owner' = "idle"
  /\ UNCHANGED <<platform, program, deviceVars, engineVars, streamVars,
                 sessionRate, teardown, starts, refused>>

(* Engine::start: the ring, the snapshot channel and the analysis thread.   *)
StartEngine ==
  /\ owner = "described"
  /\ worker' = "running"
  /\ stop' = FALSE
  /\ owner' = "opening"
  /\ UNCHANGED <<platform, program, deviceVars, streamVars, sessionRate,
                 teardown, starts, refused>>

(* open: the device is asked for the rate it described.  On iOS that is a   *)
(* preference.                                                              *)
RequestRate ==
  /\ owner = "opening"
  /\ \/ rate' = sessionRate
     \/ platform = "ios" /\ rate' = rate
  /\ owner' = "granting"
  /\ UNCHANGED <<platform, program, device, hook, inside, rateChanges, engineVars,
                 streamVars, sessionRate, teardown, starts, refused>>

(* A device gone since it was described, a channel it has not got, a rate   *)
(* it refuses, a buffer larger than the scratch: no stream exists, and the  *)
(* callback, with the ring's write end, is destroyed.                       *)
RefuseOpen ==
  /\ owner \in {"opening", "granting"}
  /\ TakeDown(Destruction)
  /\ UNCHANGED <<platform, program, deviceVars, engineVars, streamVars,
                 sessionRate, starts, refused>>

(* The stream takes down the rate the device reports.  iOS refuses one it   *)
(* was not asked for (RefuseOpen).                                          *)
Grant ==
  /\ owner = "granting"
  /\ platform = "ios" => rate = sessionRate
  /\ grantedRate' = rate
  /\ stream' = TRUE
  /\ running' = FALSE
  /\ owner' = "hooking"
  /\ UNCHANGED <<platform, program, deviceVars, engineVars, sessionRate,
                 teardown, starts, refused>>

(* build_unit: RemoteIO exists before it is initialised. *)
CreateUnit ==
  /\ owner = "hooking"
  /\ platform = "ios"
  /\ hook = "none"
  /\ hook' = "created"
  /\ UNCHANGED <<platform, program, rate, device, inside, rateChanges, engineVars,
                 streamVars, ownerVars>>

(* install_io_proc, or the end of build_unit. *)
InstallHook ==
  /\ owner = "hooking"
  /\ hook = IF platform = "ios" THEN "created" ELSE "none"
  /\ hook' = "ready"
  /\ owner' = "starting"
  /\ UNCHANGED <<platform, program, rate, device, inside, rateChanges, engineVars,
                 streamVars, sessionRate, teardown, starts, refused>>

(* Any step of hooking may be refused; so may the start. *)
RefuseHookOrStart ==
  /\ owner \in {"hooking", "starting"}
  /\ TakeDown(Destruction)
  /\ UNCHANGED <<platform, program, deviceVars, engineVars, streamVars,
                 sessionRate, starts, refused>>

(* AudioStream::start, after which the session exists. *)
StartStream ==
  /\ owner = "starting"
  /\ ~running
  /\ device' = "running"
  /\ running' = TRUE
  /\ owner' = "capturing"
  /\ UNCHANGED <<platform, program, rate, hook, inside, rateChanges, engineVars,
                 stream, grantedRate, sessionRate, teardown, starts, refused>>

--------------------------------------------------------------------------------
(* Stopping: each step of `teardown` in turn. *)

BeginRelease ==
  /\ owner = "capturing"
  /\ TakeDown(Release)
  /\ UNCHANGED <<platform, program, deviceVars, engineVars, streamVars,
                 sessionRate, starts, refused>>

Doing(step) == owner = "taking down" /\ Head(teardown) = step

Done == /\ teardown' = Tail(teardown)
        /\ owner' = IF Len(teardown) = 1 THEN "idle" ELSE owner

(* Mutant: the early return is the wrong way round. *)
StopsIdleStream == stream /\ ~running

(* AudioStream::stop returns early unless running_. *)
MustStop == stream /\ running

SkipStop ==
  /\ Doing("stop stream")
  /\ ~MustStop
  /\ Done
  /\ UNCHANGED <<platform, program, deviceVars, engineVars, streamVars,
                 sessionRate, starts, refused>>

(* The device makes no further call, and comes back once the last is over.  *)
HaltDevice ==
  /\ Doing("stop stream")
  /\ MustStop
  /\ device = "running"
  /\ device' = "halting"
  /\ UNCHANGED <<platform, program, rate, hook, inside, rateChanges, engineVars,
                 streamVars, ownerVars>>

StopStream ==
  /\ Doing("stop stream")
  /\ device = "halting"
  /\ ~inside
  /\ device' = "stopped"
  /\ running' = FALSE
  /\ Done
  /\ UNCHANGED <<platform, program, rate, hook, inside, rateChanges, engineVars,
                 stream, grantedRate, sessionRate, starts, refused>>

(* The device refuses: running_ is cleared all the same, the exception is   *)
(* swallowed, or unwinds into the destructors, and the rest goes on.        *)
RefuseStop ==
  /\ Doing("stop stream")
  /\ MustStop
  /\ device = "running"
  /\ running' = FALSE
  /\ refused' = TRUE
  /\ Done
  /\ UNCHANGED <<platform, program, deviceVars, engineVars, stream, grantedRate,
                 sessionRate, starts>>

(* AudioDeviceDestroyIOProcID, or AudioUnitUninitialize and the disposal of *)
(* the unit: no call starts through this hook again.                        *)
Unhook ==
  /\ Doing("unhook")
  /\ hook' = "none"
  /\ device' = "stopped"
  /\ Done
  /\ UNCHANGED <<platform, program, rate, inside, rateChanges, engineVars,
                 streamVars, sessionRate, starts, refused>>

(* The stream's own state goes, and the callback inside it. *)
Free ==
  /\ Doing("free")
  /\ stream' = FALSE
  /\ Done
  /\ UNCHANGED <<platform, program, deviceVars, engineVars, running,
                 grantedRate, sessionRate, starts, refused>>

(* Engine::stop: the flag, then the join. *)
RaiseStop ==
  /\ Doing("raise")
  /\ stop' = TRUE
  /\ Done
  /\ UNCHANGED <<platform, program, deviceVars, worker, streamVars, sessionRate,
                 starts, refused>>

Join ==
  /\ Doing("join")
  /\ worker # "running"
  /\ Done
  /\ UNCHANGED <<platform, program, deviceVars, engineVars, streamVars,
                 sessionRate, starts, refused>>

--------------------------------------------------------------------------------
(* The other threads. *)

(* Worker::run leaves its loop once it sees the flag. *)
WorkerLeaves ==
  /\ worker = "running"
  /\ stop
  /\ worker' = "done"
  /\ UNCHANGED <<platform, program, deviceVars, stop, streamVars, ownerVars>>

DeviceCalls ==
  /\ device = "running"
  /\ hook = "ready"
  /\ ~inside
  /\ inside' = TRUE
  /\ UNCHANGED <<platform, program, rate, device, hook, rateChanges, engineVars,
                 streamVars, ownerVars>>

CallReturns ==
  /\ inside
  /\ inside' = FALSE
  /\ UNCHANGED <<platform, program, rate, device, hook, rateChanges, engineVars,
                 streamVars, ownerVars>>

RateChanges ==
  /\ rateChanges < MaxRateChanges
  /\ rateChanges' = rateChanges + 1
  /\ rate' \in Rates \ {rate}
  /\ UNCHANGED <<platform, program, device, hook, inside, engineVars,
                 streamVars, ownerVars>>

Starting == \/ RefuseConfiguration \/ StartEngine
            \/ RequestRate \/ RefuseOpen \/ Grant
            \/ CreateUnit \/ InstallHook \/ RefuseHookOrStart \/ StartStream

TakingDown == \/ SkipStop \/ HaltDevice \/ StopStream \/ RefuseStop
              \/ Unhook \/ Free \/ RaiseStop \/ Join

Next == \/ Describe \/ Starting \/ BeginRelease \/ TakingDown
        \/ WorkerLeaves \/ DeviceCalls \/ CallReturns \/ RateChanges

Spec == Init /\ [][Next]_vars

(* A call once made runs on, the worker is scheduled, and a callback in     *)
(* progress returns.  Nobody has to start or stop anything, and the device  *)
(* need not call.                                                           *)
FairSpec == /\ Spec
            /\ WF_vars(Starting) /\ WF_vars(TakingDown)
            /\ WF_vars(WorkerLeaves) /\ WF_vars(CallReturns)

--------------------------------------------------------------------------------
TypeOK ==
  /\ platform \in Platforms /\ program \in Programs
  /\ rate \in Rates /\ rateChanges \in 0..MaxRateChanges
  /\ device \in {"stopped", "running", "halting"}
  /\ hook \in {"none", "created", "ready"}
  /\ inside \in BOOLEAN /\ stop \in BOOLEAN /\ refused \in BOOLEAN
  /\ worker \in {"none", "running", "done"}
  /\ stream \in BOOLEAN /\ running \in BOOLEAN
  /\ sessionRate \in Rates \cup {NoRate} /\ grantedRate \in Rates \cup {NoRate}
  /\ owner \in {"idle", "described", "opening", "granting", "hooking",
                "starting", "capturing", "taking down"}
  /\ teardown \in Seq({"stop stream", "unhook", "free", "raise", "join"})
  /\ teardown = <<>> <=> owner # "taking down"
  /\ starts \in 0..MaxStarts

(* "Must happen before impl_ is freed: the IOProc holds a pointer into it"  *)
(* (coreaudio.cpp): the system holds no hook into freed state, and, unless  *)
(* the device refused to stop, the audio thread is never inside it.         *)
CallbackOnLiveState ==
  /\ hook # "none" => stream
  /\ inside => stream \/ refused

(* "Stream first, so the callback has stopped feeding the ring before the   *)
(* thread that drains it goes" (session.cpp); a device that refuses to stop *)
(* is the only exception.                                                   *)
DrainedWhileFed ==
  (device = "running" \/ inside) => worker = "running" \/ refused

(* A start refused at any step, and a capture released, leave nothing: no   *)
(* thread, no hook, no device running on our account.                       *)
NothingLeftRunning ==
  owner = "idle" =>
    /\ worker # "running"
    /\ hook = "none"
    /\ device = "stopped"
    /\ ~stream
    /\ inside => refused

(* Every start and every stop comes back. *)
CallsReturn == (owner \notin {"idle", "capturing"}) ~> (owner \in {"idle", "capturing"})

================================================================================
